CONSTANTS
  SizeLimit = 16
  MaxBufferSize = 4
  Addresses <- MCAddresses
  WorkerThreads <- MCSigned
  Timeouts <- MCSigned
  BufferSizes = {0, 4, 5}
  Calls = {c1, c2, c3, c4}
SPECIFICATION FairSpec
INVARIANTS ServerTypeOK ConfigIsUsable FuturesTell CrashOnlyAfterFailure NoRaceForMainThread
PROPERTY FuturesFulfilled
CHECK_DEADLOCK FALSE
