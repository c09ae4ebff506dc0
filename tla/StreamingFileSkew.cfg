SPECIFICATION Spec
CONSTANTS
  ReadBufferSize = 2
  Slack = 0
  MaxFileSize = 1
  MaxCalls = 6
  Requests <- MCRequests
  MaxComponents = 1
  Kinds = {"regular"}
  Faults = {}
  MaxTime = 2
  ClockSkews <- West
INVARIANTS
  NotModifiedIsTrue
CHECK_DEADLOCK FALSE
