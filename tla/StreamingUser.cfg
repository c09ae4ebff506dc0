SPECIFICATION FairSpec
CONSTANTS
  Callers = {"evb", "other"}
  MaxBodies = 6
INVARIANTS
  TypeOK
  WireFollowsCalls
  DanglingOnlyAfterError
  EventBaseNeverDangles
PROPERTIES
  FinishedIsWritten
CHECK_DEADLOCK FALSE
