SPECIFICATION Spec
CONSTANTS
  Paths = {"/1", "/x"}
  Methods = {"GET", "POST"}
  MaxRoutes = 3
  Tables <- AllTables
  ErrorRoutes = {405}
  Throws = {"std", "other"}
INVARIANTS
  TypeOK
  FirstRouteWins
  ErrorIsExact
  NoObjectLost
  NullIsExplained
CHECK_DEADLOCK FALSE
