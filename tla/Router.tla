------------------------------- MODULE Router -------------------------------
(***************************************************************************)
(* Router (src/src/Router.cpp) and the routes it asks (Route-inl.h,        *)
(* StaticRoute-inl.h, RouteMatch.h): the constructor divides the routes    *)
(* into two lists, getHandler walks the static list, then the other, and   *)
(* returns at the first route that matches.                                *)
(*                                                                         *)
(* A route is named by its position in the vector that the constructor was *)
(* given. A pattern is abstracted to the set of unescaped paths that it    *)
(* matches as a whole: one path for a static route, any set for a regex.   *)
(***************************************************************************)
EXTENDS Naturals, Sequences

CONSTANTS Paths,       \* unescaped paths of requests
          Methods,     \* the methods that proxygen knows
          Tables,      \* the vectors of routes to construct a router from
          ErrorRoutes  \* status codes with a user-defined error handler

Unknown == "unknown"  \* a method that proxygen does not know
GET == "GET"

RouteType == [static : BOOLEAN, streaming : BOOLEAN,
              paths : SUBSET Paths, methods : SUBSET Methods]

ASSUME RouterAssumption ==
  /\ Paths # {}
  /\ GET \in Methods
  /\ Unknown \notin Methods
  /\ Tables \subseteq Seq(RouteType)
  /\ \A table \in Tables : \A n \in DOMAIN table :
       table[n].static => \E p \in Paths : table[n].paths = {p}
  /\ ErrorRoutes \subseteq {404, 405}

VARIABLES table,           \* the vector given to the constructor
          moved,           \* how many of its routes the constructor has moved
          staticRoutes,    \* staticRoutes_, as positions in table
          routes,          \* routes_, as positions in table
          phase,           \* where the caller, or getHandler, is
          request,         \* the request of this call
          it,              \* position in the list being walked
          methodNotFound,  \* the local variable of getHandler
          match            \* the RouteMatch that the call returned

lists == <<table, moved, staticRoutes, routes>>
call == <<phase, request, it, methodNotFound, match>>
routerVars == <<lists, call>>

Requests == [method : Methods \cup {Unknown}, path : Paths]
NoRequest == [method |-> Unknown, path |-> CHOOSE p \in Paths : TRUE]

\* What the match wraps: the function of route `route`, or else the error
\* handler for `code`, user-defined (custom) or the default one.
Matches == [result : {"RouteMatched", "MethodNotMatched", "PathNotMatched"},
            route : Nat, code : {0, 404, 405}, custom : BOOLEAN]
NoMatch == [result |-> "PathNotMatched", route |-> 0, code |-> 0, custom |-> FALSE]

RouterTypeOK ==
  /\ table \in Tables
  /\ moved \in 0..Len(table)
  /\ staticRoutes \in Seq(1..Len(table))
  /\ routes \in Seq(1..Len(table))
  /\ phase \in {"constructing", "idle", "static", "dynamic", "returned"}
  /\ request \in Requests
  /\ it \in Nat \ {0}
  /\ methodNotFound \in BOOLEAN
  /\ match \in Matches

RouterInit ==
  /\ table \in Tables
  /\ moved = 0
  /\ staticRoutes = <<>>
  /\ routes = <<>>
  /\ phase = "constructing"
  /\ request = NoRequest
  /\ it = 1
  /\ methodNotFound = FALSE
  /\ match = NoMatch

-----------------------------------------------------------------------------
(* The constructor *)

\* The loop of the constructor: the next route goes to the end of its list.
PushRoute ==
  /\ phase = "constructing"
  /\ moved < Len(table)
  /\ moved' = moved + 1
  /\ IF table[moved + 1].static
     THEN staticRoutes' = Append(staticRoutes, moved + 1) /\ UNCHANGED routes
     ELSE routes' = Append(routes, moved + 1) /\ UNCHANGED staticRoutes
  /\ UNCHANGED <<table, call>>

Constructed ==
  /\ phase = "constructing"
  /\ moved = Len(table)
  /\ phase' = "idle"
  /\ UNCHANGED <<lists, request, it, methodNotFound, match>>

-----------------------------------------------------------------------------
(* getHandler *)

\* HTTPRequest::getMethodAndPath takes a method that is not known for GET.
MethodOf(r) == IF r.method = Unknown THEN GET ELSE r.method

\* Mutant: the method is looked at before the path.
RouteResult_MethodFirst(route, r) ==
  IF MethodOf(r) \notin route.methods THEN "MethodNotMatched"
  ELSE IF r.path \notin route.paths THEN "PathNotMatched"
  ELSE "RouteMatched"

\* The handler() of a route: the path first, then the method.
RouteResult(route, r) ==
  IF r.path \notin route.paths THEN "PathNotMatched"
  ELSE IF MethodOf(r) \notin route.methods THEN "MethodNotMatched"
  ELSE "RouteMatched"

GetHandler(r) ==
  /\ phase = "idle"
  /\ phase' = "static"
  /\ request' = r
  /\ it' = 1
  /\ methodNotFound' = FALSE
  /\ match' = NoMatch
  /\ UNCHANGED lists

\* The loop body for route n. The `break` of MethodNotMatched leaves the
\* switch, not the loop.
Visit(n) ==
  LET result == RouteResult(table[n], request)
  IN  /\ \/ /\ result = "PathNotMatched"
            /\ it' = it + 1
            /\ UNCHANGED <<phase, methodNotFound, match>>
         \/ /\ result = "MethodNotMatched"
            /\ it' = it + 1
            /\ methodNotFound' = TRUE
            /\ UNCHANGED <<phase, match>>
         \/ /\ result = "RouteMatched"
            /\ phase' = "returned"
            /\ match' = [result |-> result, route |-> n, code |-> 0, custom |-> FALSE]
            /\ UNCHANGED <<it, methodNotFound>>
      /\ UNCHANGED <<lists, request>>

VisitStatic ==
  /\ phase = "static"
  /\ it <= Len(staticRoutes)
  /\ Visit(staticRoutes[it])

\* Mutant: a path found in the static list ends the search (`break` taken to
\* leave the loop, and the second loop skipped).
StaticDone_Stops ==
  /\ phase = "static"
  /\ it > Len(staticRoutes)
  /\ phase' = "dynamic"
  /\ it' = IF methodNotFound THEN Len(routes) + 1 ELSE 1
  /\ UNCHANGED <<lists, request, methodNotFound, match>>

StaticDone ==
  /\ phase = "static"
  /\ it > Len(staticRoutes)
  /\ phase' = "dynamic"
  /\ it' = 1
  /\ UNCHANGED <<lists, request, methodNotFound, match>>

VisitDynamic ==
  /\ phase = "dynamic"
  /\ it <= Len(routes)
  /\ Visit(routes[it])

\* No route matched: 405 if some route matched the path, else 404, with the
\* user's error handler for the code or the default one.
NotFound ==
  /\ phase = "dynamic"
  /\ it > Len(routes)
  /\ phase' = "returned"
  /\ LET code == IF methodNotFound THEN 405 ELSE 404
     IN  match' = [result |-> IF methodNotFound THEN "MethodNotMatched" ELSE "PathNotMatched",
                   route |-> 0, code |-> code, custom |-> code \in ErrorRoutes]
  /\ UNCHANGED <<lists, request, it, methodNotFound>>

Construct == PushRoute \/ Constructed
Search == VisitStatic \/ StaticDone \/ VisitDynamic \/ NotFound

-----------------------------------------------------------------------------
(* Properties *)

Candidates == {n \in DOMAIN table : RouteResult(table[n], request) = "RouteMatched"}

\* Route n goes before route m: static routes first, else in the given order.
Precedes(n, m) ==
  \/ table[n].static /\ ~table[m].static
  \/ table[n].static = table[m].static /\ n <= m

\* getHandler finds a route whenever there is one, and of several the one that
\* goes first, whatever mixture of routes the path or only the method fails on
\* (Router.cpp:14-50).
FirstRouteWins ==
  phase = "returned" =>
    IF Candidates = {} THEN match.route = 0
    ELSE match.route \in Candidates /\ \A m \in Candidates : Precedes(match.route, m)

\* Without a route the client hears 405 exactly if the path exists under some
\* other method, in whichever list, and 404 otherwise; and the user's handler
\* for that code is the one that speaks (Router.cpp:52-71).
ErrorIsExact ==
  phase = "returned" /\ Candidates = {} =>
    LET pathExists == \E n \in DOMAIN table : request.path \in table[n].paths
    IN  /\ match.code = IF pathExists THEN 405 ELSE 404
        /\ match.result = IF pathExists THEN "MethodNotMatched" ELSE "PathNotMatched"
        /\ match.custom = (match.code \in ErrorRoutes)
=============================================================================
