SPECIFICATION Spec
CONSTANTS
  r1 = r1
  r2 = r2
  Requests <- OneRequest
  IOThreads = 1
  MaxChunks = 3
  ErrorRoutes = {500, 503}
  Ends = {"value", "std", "timedOut", "other"}
INVARIANTS
  TypeOK
  AtMostOneAnswer
  WholeBody
  AnswerMatchesOutcomes
  SilentOnlyAfterForeignException
PROPERTIES
  ImplementsRequestReply
CHECK_DEADLOCK FALSE
