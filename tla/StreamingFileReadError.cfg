SPECIFICATION FairSpec
CONSTANTS
  ReadBufferSize = 2
  Slack = 0
  MaxFileSize = 1
  MaxCalls = 6
  Requests <- MCRequests
  MaxComponents = 1
  Kinds = {"regular"}
  Faults = {"read"}
  MaxTime = 2
  ClockSkews <- GMT
PROPERTIES
  StopsOnReadError
CHECK_DEADLOCK FALSE
