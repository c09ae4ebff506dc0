SPECIFICATION Spec
CONSTANTS
  r1 = r1
  r2 = r2
  Requests <- TwoRequests
  IOThreads = 1
  MaxChunks = 0
  ErrorRoutes = {500, 503}
  Ends = {"value", "std"}
SYMMETRY Symmetry
INVARIANTS
  DanglingExplained
CHECK_DEADLOCK FALSE
