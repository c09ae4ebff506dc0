SPECIFICATION Spec
CONSTANTS
  r1 = r1
  r2 = r2
  Requests <- OneRequest
  IOThreads = 1
  MaxChunks = 0
  ErrorRoutes = {}
  Ends = {"value"}
INVARIANTS
  NoUseAfterComplete
CHECK_DEADLOCK FALSE
