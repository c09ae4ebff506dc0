SPECIFICATION FairSpec
CONSTANTS
  r1 = r1
  r2 = r2
  Requests <- TwoRequests
  IOThreads = 1
  MaxChunks = 0
  ErrorRoutes = {500}
  Ends = {"value", "std", "timedOut"}
PROPERTIES
  EventuallyAnswered
CHECK_DEADLOCK FALSE
