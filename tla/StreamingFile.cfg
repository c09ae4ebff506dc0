SPECIFICATION FairSpec
CONSTANTS
  ReadBufferSize = 2
  Slack = 1
  MaxFileSize = 5
  MaxCalls = 6
  Requests <- MCRequests
  MaxComponents = 5
  Kinds = {"regular", "denied"}
  Faults = {"read", "alloc"}
  MaxTime = 2
  ClockSkews <- GMT
INVARIANTS
  TypeOK
  SendsInOrder
  WellFormedWire
  BodyIsFile
  NotModifiedIsTrue
  PathIsResolved
  DanglingOnlyAfterError
PROPERTIES
  EventuallyComplete
CHECK_DEADLOCK FALSE
