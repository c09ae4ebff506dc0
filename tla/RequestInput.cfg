CONSTANTS
  IntLimit = 4
  MaxPieces = 4
  MaxPath = 4
  MaxBody = 3
  MaxDigits = 1
  Patterns <- MCPatterns
  Functions <- MCFunctions
  RequestPaths <- MCRequestPaths
  Queries <- MCQueries
  Params <- MCParams
  Bodies <- MCBodies
  Digits <- MCDigits
SPECIFICATION Spec
INVARIANTS InputTypeOK GroupsInPlace RouteIsChecked ArgumentsSpellPath FormIsRead BodyIsWhole NothingLost QueryAnswerWasSent
CHECK_DEADLOCK FALSE
