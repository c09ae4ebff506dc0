---------------------- MODULE HTTPHandlerFactoryProofs ----------------------
(***************************************************************************)
(* Proofs about Router and HTTPHandlerFactory, for every routing table.    *)
(***************************************************************************)
EXTENDS HTTPHandlerFactory, TLAPS

\* A list holds the positions of the routes of one sort among the first m of
\* table t: all of them, and in ascending order.
Holds(list, sort, t, m) ==
  /\ list \in Seq(1..m)
  /\ \A j \in DOMAIN list : t[list[j]].static = sort
  /\ \A j, k \in DOMAIN list : j < k => list[j] < list[k]
  /\ \A n \in 1..m : t[n].static = sort => \E j \in DOMAIN list : list[j] = n

\* Appending the next position keeps a list as it should be.
LEMMA AppendHolds ==
  ASSUME NEW t \in Seq(RouteType), NEW m \in Nat, m < Len(t), NEW list,
         NEW sort \in BOOLEAN, Holds(list, sort, t, m), t[m + 1].static = sort
  PROVE  Holds(Append(list, m + 1), sort, t, m + 1)
<1> DEFINE new == Append(list, m + 1)
<1>1. list \in Seq(1..m + 1)
  BY DEF Holds
<1>2. /\ new \in Seq(1..m + 1)
      /\ Len(new) = Len(list) + 1
      /\ \A j \in DOMAIN list : new[j] = list[j] /\ list[j] \in 1..m
      /\ new[Len(list) + 1] = m + 1
  BY <1>1 DEF Holds
<1>3. DOMAIN new = 1..Len(list) + 1 /\ DOMAIN list = 1..Len(list) /\ Len(list) \in Nat
  BY <1>1, <1>2
<1> HIDE DEF new
<1>4. \A j \in DOMAIN new : t[new[j]].static = sort
  <2> SUFFICES ASSUME NEW j \in DOMAIN new PROVE t[new[j]].static = sort
    OBVIOUS
  <2>1. CASE j \in DOMAIN list
    BY <1>2, <2>1 DEF Holds
  <2>2. CASE j = Len(list) + 1
    BY <1>2, <2>2
  <2> QED
    BY <1>3, <2>1, <2>2
<1>5. \A j, k \in DOMAIN new : j < k => new[j] < new[k]
  <2> SUFFICES ASSUME NEW j \in DOMAIN new, NEW k \in DOMAIN new, j < k
               PROVE  new[j] < new[k]
    OBVIOUS
  <2>1. j \in DOMAIN list
    BY <1>3
  <2>2. CASE k \in DOMAIN list
    BY <1>2, <2>1, <2>2 DEF Holds
  <2>3. CASE k = Len(list) + 1
    BY <1>2, <2>1, <2>3
  <2> QED
    BY <1>3, <2>2, <2>3
<1>6. ASSUME NEW n \in 1..m + 1, t[n].static = sort
      PROVE  \E j \in DOMAIN new : new[j] = n
  <2>1. CASE n = m + 1
    BY <1>2, <1>3, <2>1
  <2>2. CASE n \in 1..m
    <3>1. PICK j \in DOMAIN list : list[j] = n
      BY <1>6, <2>2 DEF Holds
    <3> QED
      BY <1>2, <1>3, <3>1
  <2> QED
    BY <2>1, <2>2
<1> QED
  BY <1>2, <1>4, <1>5, <1>6 DEF Holds, new

\* The other list stays as it should be.
LEMMA KeepHolds ==
  ASSUME NEW t \in Seq(RouteType), NEW m \in Nat, m < Len(t), NEW list,
         NEW sort \in BOOLEAN, Holds(list, sort, t, m), t[m + 1].static # sort
  PROVE  Holds(list, sort, t, m + 1)
<1>1. list \in Seq(1..m + 1)
  BY DEF Holds
<1> QED
  BY <1>1 DEF Holds

\* The lists agree with what the constructor has moved, which is the whole
\* table once it has returned.
ListsInv ==
  /\ Holds(staticRoutes, TRUE, table, moved)
  /\ Holds(routes, FALSE, table, moved)
  /\ phase # "constructing" => moved = Len(table)

\* The part of the type invariant that the proofs about Router need.
TableInv ==
  /\ table \in Tables
  /\ table \in Seq(RouteType)
  /\ moved \in 0..Len(table)
  /\ it \in Nat \ {0}

Steps ==
  \/ Construct
  \/ \E r \in Requests : GetHandler(r)
  \/ Search
  \/ phase = "returned" /\ phase' = "idle" /\ UNCHANGED <<lists, request, it, methodNotFound, match>>
  \/ UNCHANGED routerVars

\* The factory steps its Router only by these.
LEMMA FactorySteps ==
  ASSUME making # "no" => phase = "returned", [Next]_vars
  PROVE  Steps
<1>1. CASE UNCHANGED vars
  BY <1>1 DEF vars, Steps
<1>2. ASSUME NEW r \in Requests, OnRequest(r) PROVE Steps
  BY <1>2 DEF OnRequest, Steps
<1>3. CASE MakeHTTPHandler
  BY <1>3 DEF MakeHTTPHandler, Return, Steps
<1>4. CASE StreamingHandler
  BY <1>4 DEF StreamingHandler, MakeStreaming, MakeNull, SetRequestArgs, Catch,
              MakeThrows, SetRequestArgsThrows, ArgumentThrows, Throw, Return, Steps
<1> QED
  BY <1>1, <1>2, <1>3, <1>4 DEF Next, Steps

\* Why a streaming handler could not be made.
Explained ==
  /\ cause \in {"user", "argument"}
  /\ cause = "argument" => ~table[match.route].static

MakingInv ==
  /\ making \in {"no", "args", "catch"}
  /\ making # "no" => phase = "returned" /\ IsStreaming
  /\ making = "no" => unowned = 0
  /\ making = "args" => unowned = 1
  /\ making = "catch" => unowned \in {0, 1} /\ Explained

LEMMA MakingInvariant == Spec => []MakingInv
<1>1. Init => MakingInv
  BY DEF Init, MakingInv
<1>2. MakingInv /\ [Next]_vars => MakingInv'
  <2> SUFFICES ASSUME MakingInv, [Next]_vars PROVE MakingInv'
    OBVIOUS
  <2> USE DEF MakingInv, IsStreaming, Explained
  <2>1. CASE UNCHANGED vars
    BY <2>1 DEF vars, routerVars, lists, call, factory
  <2>2. CASE Construct /\ UNCHANGED factory
    BY <2>2 DEF Construct, PushRoute, Constructed, lists, call, factory
  <2>3. ASSUME NEW r \in Requests, OnRequest(r) PROVE MakingInv'
    BY <2>3 DEF OnRequest, GetHandler, lists
  <2>4. CASE Search /\ UNCHANGED factory
    BY <2>4 DEF Search, VisitStatic, StaticDone, VisitDynamic, NotFound, Visit, lists, factory
  <2>5. CASE MakeHTTPHandler
    BY <2>5 DEF MakeHTTPHandler, Return, lists
  <2>6. CASE StreamingHandler
    <3>1. CASE MakeStreaming \/ MakeNull
      BY <2>6, <3>1 DEF MakeStreaming, MakeNull, Return, routerVars, lists, call
    <3>2. CASE SetRequestArgs \/ Catch
      <4>1. making' = "no" /\ unowned' = 0
        BY <3>2 DEF SetRequestArgs, Catch, Return
      <4> QED
        BY <4>1
    <3>3. ASSUME NEW e \in Throws, MakeThrows(e) PROVE MakingInv'
      BY <2>6, <3>3 DEF MakeThrows, Throw, routerVars, lists, call
    <3>4. ASSUME NEW e \in Throws, SetRequestArgsThrows(e) PROVE MakingInv'
      BY <3>4 DEF SetRequestArgsThrows, Throw, routerVars, lists, call
    <3>5. CASE ArgumentThrows
      BY <3>5 DEF ArgumentThrows, Throw, routerVars, lists, call
    <3> QED
      BY <2>6, <3>1, <3>2, <3>3, <3>4, <3>5 DEF StreamingHandler
  <2> QED
    BY <2>1, <2>2, <2>3, <2>4, <2>5, <2>6 DEF Next
<1> QED
  BY <1>1, <1>2, PTL DEF Spec

-----------------------------------------------------------------------------
(* The search *)

LEMMA TableInvariant == Spec => []TableInv
<1>1. Init => TableInv
  <2> SUFFICES ASSUME Init PROVE TableInv
    OBVIOUS
  <2>1. table \in Tables /\ table \in Seq(RouteType)
    BY RouterAssumption DEF Init, RouterInit
  <2>2. Len(table) \in Nat
    BY <2>1
  <2> QED
    BY <2>1, <2>2 DEF Init, RouterInit, TableInv
<1>2. TableInv /\ MakingInv /\ [Next]_vars => TableInv'
  <2> SUFFICES ASSUME TableInv, Steps PROVE TableInv'
    BY FactorySteps DEF MakingInv
  <2> USE DEF TableInv, lists, call, routerVars
  <2>1. CASE Construct
    <3>1. Len(table) \in Nat
      OBVIOUS
    <3>2. CASE PushRoute
      BY <3>1, <3>2 DEF PushRoute
    <3>3. CASE Constructed
      BY <3>3 DEF Constructed
    <3> QED
      BY <2>1, <3>2, <3>3 DEF Construct
  <2>2. CASE Search
    <3>1. ASSUME NEW n, Visit(n) PROVE TableInv'
      <4>1. UNCHANGED <<table, moved>> /\ it' \in {it, it + 1}
        BY <3>1 DEF Visit
      <4> QED
        BY <4>1
    <3>2. CASE StaticDone \/ NotFound
      BY <3>2 DEF StaticDone, NotFound
    <3> QED
      BY <2>2, <3>1, <3>2 DEF Search, VisitStatic, VisitDynamic
  <2> QED
    BY <2>1, <2>2 DEF Steps, GetHandler
<1> QED
  BY <1>1, <1>2, MakingInvariant, PTL DEF Spec

LEMMA ListsInvariant == Spec => []ListsInv
<1>1. Init => ListsInv
  BY DEF Init, RouterInit, ListsInv, Holds
<1>2. ListsInv /\ TableInv /\ MakingInv /\ [Next]_vars => ListsInv'
  <2> SUFFICES ASSUME ListsInv, TableInv, Steps PROVE ListsInv'
    BY FactorySteps DEF MakingInv
  <2> USE DEF lists, call, routerVars
  <2>1. CASE PushRoute
    <3>1. /\ moved \in Nat /\ moved < Len(table) /\ moved' = moved + 1
          /\ table' = table /\ phase' = "constructing"
          /\ table[moved + 1].static \in BOOLEAN
      <4>1. moved + 1 \in DOMAIN table
        BY <2>1 DEF PushRoute, TableInv
      <4>2. table[moved + 1] \in RouteType
        BY <4>1 DEF TableInv
      <4> QED
        BY <2>1, <4>1, <4>2 DEF PushRoute, TableInv, RouteType
    <3>2. CASE table[moved + 1].static
      <4>1. staticRoutes' = Append(staticRoutes, moved + 1) /\ routes' = routes
        BY <2>1, <3>2 DEF PushRoute
      <4>2. Holds(Append(staticRoutes, moved + 1), TRUE, table, moved + 1)
        BY <3>1, <3>2, AppendHolds DEF ListsInv, TableInv
      <4>3. Holds(routes, FALSE, table, moved + 1)
        BY <3>1, <3>2, KeepHolds DEF ListsInv, TableInv
      <4> QED
        BY <3>1, <4>1, <4>2, <4>3 DEF ListsInv
    <3>3. CASE ~table[moved + 1].static
      <4>1. routes' = Append(routes, moved + 1) /\ staticRoutes' = staticRoutes
        BY <2>1, <3>3 DEF PushRoute
      <4>2. Holds(Append(routes, moved + 1), FALSE, table, moved + 1)
        BY <3>1, <3>3, AppendHolds DEF ListsInv, TableInv
      <4>3. Holds(staticRoutes, TRUE, table, moved + 1)
        BY <3>1, <3>3, KeepHolds DEF ListsInv, TableInv
      <4> QED
        BY <3>1, <4>1, <4>2, <4>3 DEF ListsInv
    <3> QED
      BY <3>2, <3>3
  <2>2. CASE UNCHANGED lists /\ (phase' = "constructing" => phase = "constructing")
                            /\ (phase' # "constructing" => moved = Len(table))
    BY <2>2 DEF ListsInv
  <2>3. Constructed => UNCHANGED lists /\ moved = Len(table)
    BY DEF Constructed
  <2>4. Search => UNCHANGED lists /\ phase # "constructing" /\ phase' # "constructing"
    BY DEF Search, VisitStatic, StaticDone, VisitDynamic, NotFound, Visit
  <2> QED
    BY <2>1, <2>2, <2>3, <2>4 DEF Steps, Construct, GetHandler, Constructed, ListsInv
<1> QED
  BY <1>1, <1>2, MakingInvariant, TableInvariant, PTL DEF Spec

\* Route n answers the request; its path does.
Matched(n) == RouteResult(table[n], request) = "RouteMatched"
PathFound(n) == request.path \in table[n].paths

\* What is known during the walk: no route visited so far matched, and
\* methodNotFound tells whether the path of one did.
SearchInv ==
  /\ phase = "static" =>
       /\ it <= Len(staticRoutes) + 1
       /\ \A j \in 1..it - 1 : ~Matched(staticRoutes[j])
       /\ methodNotFound = \E j \in 1..it - 1 : PathFound(staticRoutes[j])
  /\ phase = "dynamic" =>
       /\ it <= Len(routes) + 1
       /\ \A n \in DOMAIN table : table[n].static => ~Matched(n)
       /\ \A j \in 1..it - 1 : ~Matched(routes[j])
       /\ methodNotFound =
            \/ \E n \in DOMAIN table : table[n].static /\ PathFound(n)
            \/ \E j \in 1..it - 1 : PathFound(routes[j])
  /\ FirstRouteWins
  /\ ErrorIsExact

LEMMA ResultOfRoute ==
  ASSUME NEW n
  PROVE  /\ RouteResult(table[n], request) = "PathNotMatched" => ~PathFound(n) /\ ~Matched(n)
         /\ RouteResult(table[n], request) = "MethodNotMatched" => PathFound(n) /\ ~Matched(n)
         /\ RouteResult(table[n], request) = "RouteMatched" => PathFound(n) /\ Matched(n)
  BY DEF RouteResult, PathFound, Matched

\* One turn of either loop, for the list it walks.
LEMMA VisitStep ==
  ASSUME TableInv, NEW list \in Seq(DOMAIN table), it <= Len(list), Visit(list[it]),
         \A j \in 1..it - 1 : ~Matched(list[j]),
         NEW before \in BOOLEAN,
         methodNotFound = (before \/ \E j \in 1..it - 1 : PathFound(list[j]))
  PROVE  \/ /\ phase' = phase /\ it' = it + 1 /\ it' <= Len(list) + 1
            /\ \A j \in 1..it' - 1 : ~Matched(list[j])
            /\ methodNotFound' = (before \/ \E j \in 1..it' - 1 : PathFound(list[j]))
         \/ /\ phase' = "returned"
            /\ match'.route = list[it]
            /\ Matched(list[it])
<1>1. it' = it + 1 => it' <= Len(list) + 1 /\ 1..it' - 1 = (1..it - 1) \cup {it}
  BY DEF TableInv
<1>2. CASE RouteResult(table[list[it]], request) = "PathNotMatched"
  <2>1. phase' = phase /\ it' = it + 1 /\ methodNotFound' = methodNotFound
    BY <1>2 DEF Visit
  <2> QED
    BY <1>1, <1>2, <2>1, ResultOfRoute
<1>3. CASE RouteResult(table[list[it]], request) = "MethodNotMatched"
  <2>1. phase' = phase /\ it' = it + 1 /\ methodNotFound' = TRUE
    BY <1>3 DEF Visit
  <2> QED
    BY <1>1, <1>3, <2>1, ResultOfRoute
<1>4. CASE RouteResult(table[list[it]], request) = "RouteMatched"
  BY <1>4, ResultOfRoute DEF Visit
<1> QED
  BY <1>2, <1>3, <1>4 DEF Visit

\* Once the router is constructed its lists cover the table.
LEMMA ListsCover ==
  ASSUME TableInv, ListsInv, phase # "constructing"
  PROVE  /\ staticRoutes \in Seq(DOMAIN table) /\ routes \in Seq(DOMAIN table)
         /\ \A j \in 1..Len(staticRoutes) : table[staticRoutes[j]].static
         /\ \A j \in 1..Len(routes) : ~table[routes[j]].static
         /\ \A j, k \in 1..Len(staticRoutes) : j < k => staticRoutes[j] < staticRoutes[k]
         /\ \A j, k \in 1..Len(routes) : j < k => routes[j] < routes[k]
         /\ \A n \in DOMAIN table :
              \/ table[n].static /\ \E j \in 1..Len(staticRoutes) : staticRoutes[j] = n
              \/ ~table[n].static /\ \E j \in 1..Len(routes) : routes[j] = n
<1>1. DOMAIN table = 1..moved
  BY DEF TableInv, ListsInv
<1>2. /\ staticRoutes \in Seq(DOMAIN table) /\ routes \in Seq(DOMAIN table)
      /\ DOMAIN staticRoutes = 1..Len(staticRoutes) /\ DOMAIN routes = 1..Len(routes)
  BY <1>1 DEF ListsInv, Holds
<1>3. \A n \in DOMAIN table : table[n].static \in BOOLEAN
  <2>1. \A n \in DOMAIN table : table[n] \in RouteType
    BY DEF TableInv
  <2> QED
    BY <2>1 DEF RouteType
<1> QED
  BY <1>1, <1>2, <1>3 DEF ListsInv, Holds

\* Until the search returns there is nothing to be right.
LEMMA NothingReturned ==
  /\ phase # "returned" => FirstRouteWins /\ ErrorIsExact
  /\ phase' # "returned" => (FirstRouteWins /\ ErrorIsExact)'
  BY DEF FirstRouteWins, ErrorIsExact

\* A step that ends with route n is right, if no route before n matched.
LEMMA FoundFirst ==
  ASSUME UNCHANGED <<table, request>>, NEW n \in DOMAIN table, Matched(n),
         match'.route = n, \A m \in DOMAIN table : Matched(m) => Precedes(n, m)
  PROVE  (FirstRouteWins /\ ErrorIsExact)'
<1>1. Candidates' = {m \in DOMAIN table : Matched(m)}
  BY DEF Candidates, Matched, RouteResult, MethodOf
<1>2. n \in Candidates'
  BY <1>1
<1>3. \A m \in Candidates' : Precedes(n, m)'
  BY <1>1 DEF Precedes
<1> QED
  BY <1>2, <1>3 DEF FirstRouteWins, ErrorIsExact

LEMMA SearchInvariant == Spec => []SearchInv
<1>1. Init => SearchInv
  BY NothingReturned DEF Init, RouterInit, SearchInv
<1>2. SearchInv /\ ListsInv /\ TableInv /\ TableInv' /\ MakingInv /\ [Next]_vars => SearchInv'
  <2> SUFFICES ASSUME SearchInv, ListsInv, TableInv, TableInv', Steps PROVE SearchInv'
    BY FactorySteps DEF MakingInv
  <2>1. CASE UNCHANGED routerVars
    <3>1. /\ UNCHANGED <<table, staticRoutes, routes, phase, request, it, methodNotFound, match>>
          /\ \A n : Matched(n)' = Matched(n) /\ PathFound(n)' = PathFound(n)
      BY <2>1 DEF routerVars, lists, call, Matched, PathFound, RouteResult, MethodOf
    <3>2. Candidates' = Candidates
      BY <3>1 DEF Candidates, RouteResult, MethodOf
    <3>3. FirstRouteWins'
      BY <3>1, <3>2 DEF SearchInv, FirstRouteWins, Precedes
    <3>4. ErrorIsExact'
      BY <3>1, <3>2 DEF SearchInv, ErrorIsExact
    <3> QED
      BY <3>1, <3>3, <3>4 DEF SearchInv
  <2>2. CASE Construct \/ (phase = "returned" /\ phase' = "idle")
    <3>1. phase' \in {"constructing", "idle"}
      BY <2>2 DEF Construct, PushRoute, Constructed, call
    <3>2. (FirstRouteWins /\ ErrorIsExact)'
      BY <3>1 DEF FirstRouteWins, ErrorIsExact
    <3> QED
      BY <3>1, <3>2 DEF SearchInv
  <2>3. ASSUME NEW r \in Requests, GetHandler(r) PROVE SearchInv'
    <3>1. phase' = "static" /\ it' = 1 /\ methodNotFound' = FALSE /\ UNCHANGED lists
      BY <2>3 DEF GetHandler
    <3>2. (FirstRouteWins /\ ErrorIsExact)'
      BY <3>1 DEF FirstRouteWins, ErrorIsExact
    <3>3. Len(staticRoutes') \in Nat
      BY <3>1 DEF lists, ListsInv, Holds
    <3>4. 1..it' - 1 = {} /\ it' <= Len(staticRoutes') + 1
      BY <3>1, <3>3
    <3> QED
      BY <3>1, <3>2, <3>4 DEF SearchInv
  <2>4. CASE VisitStatic
    <3>1. /\ phase = "static" /\ it <= Len(staticRoutes) /\ Visit(staticRoutes[it])
          /\ UNCHANGED <<table, staticRoutes, routes, request>>
          /\ \A n : Matched(n)' = Matched(n) /\ PathFound(n)' = PathFound(n)
      BY <2>4 DEF VisitStatic, Visit, lists, Matched, PathFound, RouteResult, MethodOf
    <3>2. \/ /\ phase' = phase /\ it' <= Len(staticRoutes) + 1
             /\ \A j \in 1..it' - 1 : ~Matched(staticRoutes[j])
             /\ methodNotFound' = \E j \in 1..it' - 1 : PathFound(staticRoutes[j])
          \/ /\ phase' = "returned"
             /\ match'.route = staticRoutes[it]
             /\ Matched(staticRoutes[it])
      BY <3>1, VisitStep, ListsCover DEF SearchInv
    <3>3. CASE phase' = phase
      BY <3>1, <3>2, <3>3, NothingReturned DEF SearchInv
    <3>4. CASE phase' = "returned"
      <4>1. staticRoutes[it] \in DOMAIN table /\ table[staticRoutes[it]].static
        BY <3>1, ListsCover DEF TableInv
      <4>2. ASSUME NEW m \in DOMAIN table, Matched(m) PROVE Precedes(staticRoutes[it], m)
        <5>1. CASE table[m].static
          <6>1. PICK j \in 1..Len(staticRoutes) : staticRoutes[j] = m
            BY <3>1, <5>1, ListsCover
          <6>2. j \notin 1..it - 1
            BY <3>1, <4>2, <6>1 DEF SearchInv
          <6>3. it <= j /\ it \in 1..Len(staticRoutes)
            BY <3>1, <6>1, <6>2 DEF TableInv
          <6>4. staticRoutes[it] \in Nat
            BY <4>1 DEF TableInv
          <6>5. staticRoutes[it] <= m
            <7>1. CASE it = j
              BY <6>1, <6>4, <7>1
            <7>2. CASE it < j
              <8>1. staticRoutes[it] < staticRoutes[j]
                BY <3>1, <6>3, <7>2, ListsCover
              <8> QED
                BY <6>1, <6>4, <8>1 DEF TableInv
            <7> QED
              BY <6>3, <7>1, <7>2 DEF TableInv
          <6> QED
            BY <4>1, <5>1, <6>5, ListsCover DEF Precedes
        <5>2. CASE ~table[m].static
          BY <4>1, <5>2 DEF Precedes
        <5> QED
          BY <5>1, <5>2
      <4> QED
        BY <3>1, <3>2, <3>4, <4>1, <4>2, FoundFirst DEF SearchInv
    <3> QED
      BY <3>2, <3>3, <3>4
  <2>5. CASE StaticDone
    <3>1. /\ phase = "static" /\ it = Len(staticRoutes) + 1
          /\ phase' = "dynamic" /\ it' = 1
          /\ UNCHANGED <<table, staticRoutes, routes, request, methodNotFound>>
          /\ \A n : Matched(n)' = Matched(n) /\ PathFound(n)' = PathFound(n)
      <4>1. phase = "static" /\ it > Len(staticRoutes)
        BY <2>5 DEF StaticDone
      <4>2. it = Len(staticRoutes) + 1
        BY <4>1, ListsCover DEF SearchInv, TableInv
      <4> QED
        BY <2>5, <4>1, <4>2
        DEF StaticDone, lists, Matched, PathFound, RouteResult, MethodOf
    <3>2. 1..it - 1 = 1..Len(staticRoutes) /\ 1..it' - 1 = {} /\ it' <= Len(routes) + 1
      BY <3>1, ListsCover
    <3>3. \A n \in DOMAIN table : table[n].static => ~Matched(n)
      BY <3>1, <3>2, ListsCover DEF SearchInv
    <3>4. methodNotFound = \E n \in DOMAIN table : table[n].static /\ PathFound(n)
      <4>1. (\E j \in 1..it - 1 : PathFound(staticRoutes[j]))
              <=> \E n \in DOMAIN table : table[n].static /\ PathFound(n)
        BY <3>1, <3>2, ListsCover
      <4> QED
        BY <3>1, <4>1 DEF SearchInv
    <3> QED
      BY <3>1, <3>2, <3>3, <3>4, NothingReturned DEF SearchInv
  <2>6. CASE VisitDynamic
    <3> DEFINE before == \E n \in DOMAIN table : table[n].static /\ PathFound(n)
    <3>1. /\ phase = "dynamic" /\ it <= Len(routes) /\ Visit(routes[it])
          /\ UNCHANGED <<table, staticRoutes, routes, request>>
          /\ \A n : Matched(n)' = Matched(n) /\ PathFound(n)' = PathFound(n)
      BY <2>6 DEF VisitDynamic, Visit, lists, Matched, PathFound, RouteResult, MethodOf
    <3>2. /\ \A j \in 1..it - 1 : ~Matched(routes[j])
          /\ methodNotFound = (before \/ \E j \in 1..it - 1 : PathFound(routes[j]))
      BY <3>1 DEF SearchInv
    <3> HIDE DEF before
    <3>3. before \in BOOLEAN
      BY DEF before
    <3>4. \/ /\ phase' = phase /\ it' <= Len(routes) + 1
             /\ \A j \in 1..it' - 1 : ~Matched(routes[j])
             /\ methodNotFound' = (before \/ \E j \in 1..it' - 1 : PathFound(routes[j]))
          \/ /\ phase' = "returned"
             /\ match'.route = routes[it]
             /\ Matched(routes[it])
      BY <3>1, <3>2, <3>3, VisitStep, ListsCover
    <3>5. CASE phase' = phase
      BY <3>1, <3>4, <3>5, NothingReturned DEF SearchInv, before
    <3>6. CASE phase' = "returned"
      <4>1. routes[it] \in DOMAIN table /\ ~table[routes[it]].static
        BY <3>1, ListsCover DEF TableInv
      <4>2. ASSUME NEW m \in DOMAIN table, Matched(m) PROVE Precedes(routes[it], m)
        <5>1. ~table[m].static
          BY <3>1, <4>2 DEF SearchInv
        <5>2. PICK j \in 1..Len(routes) : routes[j] = m
          BY <3>1, <5>1, ListsCover
        <5>3. j \notin 1..it - 1
          BY <3>2, <4>2, <5>2
        <5>4. it <= j /\ it \in 1..Len(routes)
          BY <3>1, <5>2, <5>3 DEF TableInv
        <5>5. routes[it] \in Nat
          BY <4>1 DEF TableInv
        <5>6. routes[it] <= m
          <6>1. CASE it = j
            BY <5>2, <5>5, <6>1
          <6>2. CASE it < j
            <7>1. routes[it] < routes[j]
              BY <3>1, <5>4, <6>2, ListsCover
            <7> QED
              BY <5>2, <5>5, <7>1 DEF TableInv
          <6> QED
            BY <5>4, <6>1, <6>2 DEF TableInv
        <5>7. table[routes[it]].static = table[m].static
          <6>1. table[m] \in RouteType /\ table[routes[it]] \in RouteType
            BY <4>1 DEF TableInv
          <6> QED
            BY <4>1, <5>1, <6>1 DEF RouteType
        <5> QED
          BY <5>6, <5>7 DEF Precedes
      <4> QED
        BY <3>1, <3>4, <3>6, <4>1, <4>2, FoundFirst DEF SearchInv
    <3> QED
      BY <3>4, <3>5, <3>6
  <2>7. CASE NotFound
    <3>1. /\ phase = "dynamic" /\ it = Len(routes) + 1 /\ phase' = "returned"
          /\ UNCHANGED <<table, request>>
      <4>1. phase = "dynamic" /\ it > Len(routes)
        BY <2>7 DEF NotFound
      <4>2. it = Len(routes) + 1
        BY <4>1, ListsCover DEF SearchInv, TableInv
      <4> QED
        BY <2>7, <4>1, <4>2 DEF NotFound, lists
    <3>2. 1..it - 1 = 1..Len(routes)
      BY <3>1, ListsCover
    <3>3. \A n \in DOMAIN table : ~Matched(n)
      BY <3>1, <3>2, ListsCover DEF SearchInv
    <3>4. Candidates' = {}
      BY <3>1, <3>3 DEF Candidates, Matched, RouteResult, MethodOf
    <3>5. methodNotFound <=> \E n \in DOMAIN table : PathFound(n)
      <4>1. (\E j \in 1..it - 1 : PathFound(routes[j]))
              <=> \E n \in DOMAIN table : ~table[n].static /\ PathFound(n)
        BY <3>1, <3>2, ListsCover
      <4> QED
        BY <3>1, <4>1 DEF SearchInv
    <3>6. FirstRouteWins'
      BY <2>7, <3>4 DEF NotFound, FirstRouteWins
    <3>7. ErrorIsExact'
      BY <2>7, <3>1, <3>5 DEF NotFound, ErrorIsExact, PathFound
    <3> QED
      BY <3>1, <3>6, <3>7 DEF SearchInv
  <2> QED
    BY <2>1, <2>2, <2>3, <2>4, <2>5, <2>6, <2>7 DEF Steps, Search
<1> QED
  BY <1>1, <1>2, MakingInvariant, TableInvariant, ListsInvariant, PTL DEF Spec

\* getHandler finds a route whenever there is one, and the one that goes first,
\* for every table of routes (Router.cpp:23-50).
THEOREM FirstRoute == Spec => []FirstRouteWins
<1>1. SearchInv => FirstRouteWins
  BY DEF SearchInv
<1> QED
  BY <1>1, SearchInvariant, PTL

\* 405 and 404 are told apart exactly, and the user's error handler is used
\* exactly when there is one, for every table of routes (Router.cpp:52-71).
THEOREM ExactError == Spec => []ErrorIsExact
<1>1. SearchInv => ErrorIsExact
  BY DEF SearchInv
<1> QED
  BY <1>1, SearchInvariant, PTL

-----------------------------------------------------------------------------
(* The factory *)

\* What a call leaves behind and what it has on the way.
HandedInv ==
  /\ phase # "idle" => handler = "none"
  /\ phase \in {"static", "dynamic"} => cause = "none"
  /\ phase = "returned" /\ making # "catch" => cause = "none"
  /\ handler = "streaming" => cause = "none"
  /\ phase = "idle" /\ handler = "nullptr" => IsStreaming /\ Explained

LEMMA HandedInvariant == Spec => []HandedInv
<1>1. Init => HandedInv
  BY DEF Init, RouterInit, HandedInv
<1>2. HandedInv /\ MakingInv /\ [Next]_vars => HandedInv'
  <2> SUFFICES ASSUME HandedInv, MakingInv, [Next]_vars PROVE HandedInv'
    OBVIOUS
  <2> USE DEF HandedInv, IsStreaming, Explained
  <2>1. CASE UNCHANGED vars
    BY <2>1 DEF vars, routerVars, lists, call, factory
  <2>2. CASE Construct /\ UNCHANGED factory
    BY <2>2 DEF Construct, PushRoute, Constructed, call, factory
  <2>3. ASSUME NEW r \in Requests, OnRequest(r) PROVE HandedInv'
    BY <2>3 DEF OnRequest, GetHandler, MakingInv
  <2>4. CASE Search /\ UNCHANGED factory
    <3>1. phase \in {"static", "dynamic"} /\ phase' \in {"static", "dynamic", "returned"}
      BY <2>4 DEF Search, VisitStatic, StaticDone, VisitDynamic, NotFound, Visit
    <3> QED
      BY <2>4, <3>1 DEF factory
  <2>5. CASE MakeHTTPHandler
    BY <2>5 DEF MakeHTTPHandler, Return, lists
  <2>6. CASE MakeStreaming \/ MakeNull
    BY <2>6 DEF MakeStreaming, MakeNull, Return, routerVars, lists, call, MakingInv
  <2>7. CASE SetRequestArgs \/ Catch
    BY <2>7 DEF SetRequestArgs, Catch, Return, lists, MakingInv
  <2>8. ASSUME NEW e \in Throws, MakeThrows(e) \/ SetRequestArgsThrows(e) PROVE HandedInv'
    BY <2>8 DEF MakeThrows, SetRequestArgsThrows, Throw, routerVars, lists, call, MakingInv
  <2>9. CASE ArgumentThrows
    BY <2>9 DEF ArgumentThrows, Throw, routerVars, lists, call, MakingInv
  <2> QED
    BY <2>1, <2>2, <2>3, <2>4, <2>5, <2>6, <2>7, <2>8, <2>9 DEF Next, StreamingHandler
<1> QED
  BY <1>1, <1>2, MakingInvariant, PTL DEF Spec

\* No object of a streaming route is lost or both deleted and handed over, for
\* every table and every way in which the making of a handler fails
\* (Route-inl.h:85-98, StaticRoute-inl.h:26-40).
THEOREM ObjectsKept == Spec => []NoObjectLost
<1>1. MakingInv /\ HandedInv => NoObjectLost
  BY DEF MakingInv, HandedInv, NoObjectLost
<1> QED
  BY <1>1, MakingInvariant, HandedInvariant, PTL

\* proxygen gets a null handler only from a streaming route, where the user's
\* code returned null or threw, or where the route has a pattern and an argument
\* could not be converted, for every table (HTTPHandlerFactory.h:53-72,
\* Route-inl.h:85-98).
THEOREM NullExplained == Spec => []NullIsExplained
<1>1. HandedInv => NullIsExplained
  BY DEF HandedInv, Explained, NullIsExplained
<1> QED
  BY <1>1, HandedInvariant, PTL

-----------------------------------------------------------------------------
(* Types *)

\* The rest of the type invariant.
CallType ==
  /\ phase \in {"constructing", "idle", "static", "dynamic", "returned"}
  /\ request \in Requests
  /\ methodNotFound \in BOOLEAN
  /\ match \in Matches
  /\ handler \in {"none", "HTTPHandler", "streaming", "nullptr"}
  /\ cause \in {"none", "user", "argument"}
  /\ terminated \in BOOLEAN

LEMMA CallTypeInvariant == Spec => []CallType
<1>1. Init => CallType
  <2> SUFFICES ASSUME Init PROVE CallType
    OBVIOUS
  <2>1. NoRequest \in Requests
    BY RouterAssumption DEF NoRequest, Requests
  <2>2. NoMatch \in Matches
    BY DEF NoMatch, Matches
  <2> QED
    BY <2>1, <2>2 DEF Init, RouterInit, CallType
<1>2. CallType /\ ListsInv /\ TableInv /\ [Next]_vars => CallType'
  <2> SUFFICES ASSUME CallType, ListsInv, TableInv, [Next]_vars PROVE CallType'
    OBVIOUS
  <2> USE DEF CallType
  <2>1. CASE UNCHANGED vars
    BY <2>1 DEF vars, routerVars, lists, call, factory
  <2>2. CASE Construct /\ UNCHANGED factory
    BY <2>2 DEF Construct, PushRoute, Constructed, call, factory
  <2>3. ASSUME NEW r \in Requests, OnRequest(r) PROVE CallType'
    <3>1. NoMatch \in Matches
      BY DEF NoMatch, Matches
    <3> QED
      BY <2>3, <3>1 DEF OnRequest, GetHandler
  <2>4. CASE Search /\ UNCHANGED factory
    <3>1. ASSUME NEW n \in Nat, Visit(n) PROVE CallType'
      <4>1. [result |-> "RouteMatched", route |-> n, code |-> 0, custom |-> FALSE] \in Matches
        BY DEF Matches
      <4> QED
        BY <2>4, <3>1, <4>1 DEF Visit, factory
    <3>2. CASE VisitStatic
      <4>1. staticRoutes[it] \in Nat
        BY <3>2 DEF VisitStatic, ListsInv, Holds, TableInv
      <4> QED
        BY <3>1, <3>2, <4>1 DEF VisitStatic
    <3>3. CASE VisitDynamic
      <4>1. routes[it] \in Nat
        BY <3>3 DEF VisitDynamic, ListsInv, Holds, TableInv
      <4> QED
        BY <3>1, <3>3, <4>1 DEF VisitDynamic
    <3>4. CASE StaticDone
      BY <2>4, <3>4 DEF StaticDone, factory
    <3>5. CASE NotFound
      BY <2>4, <3>5 DEF NotFound, Matches, factory
    <3> QED
      BY <2>4, <3>2, <3>3, <3>4, <3>5 DEF Search
  <2>5. CASE MakeHTTPHandler
    BY <2>5 DEF MakeHTTPHandler, Return
  <2>6. CASE MakeStreaming \/ MakeNull
    BY <2>6 DEF MakeStreaming, MakeNull, Return, routerVars, call
  <2>7. CASE SetRequestArgs \/ Catch
    BY <2>7 DEF SetRequestArgs, Catch, Return
  <2>8. ASSUME NEW e \in Throws, MakeThrows(e) \/ SetRequestArgsThrows(e) PROVE CallType'
    BY <2>8 DEF MakeThrows, SetRequestArgsThrows, Throw, routerVars, call
  <2>9. CASE ArgumentThrows
    BY <2>9 DEF ArgumentThrows, Throw, routerVars, call
  <2> QED
    BY <2>1, <2>2, <2>3, <2>4, <2>5, <2>6, <2>7, <2>8, <2>9 DEF Next, StreamingHandler
<1> QED
  BY <1>1, <1>2, TableInvariant, ListsInvariant, PTL DEF Spec

LEMMA MorePositions ==
  ASSUME NEW m \in Nat, NEW n \in Nat, m <= n, NEW list \in Seq(1..m)
  PROVE  list \in Seq(1..n)
OBVIOUS

\* Every variable keeps its type; in particular the lists hold positions of the
\* table only, and objects are not deleted more often than made
\* (Router.cpp:9-71, Route-inl.h:85-98).
THEOREM FactoryTypeCorrect == Spec => []TypeOK
<1>1. CallType /\ TableInv /\ ListsInv /\ MakingInv => TypeOK
  <2> SUFFICES ASSUME CallType, TableInv, ListsInv, MakingInv PROVE TypeOK
    OBVIOUS
  <2>1. staticRoutes \in Seq(1..Len(table)) /\ routes \in Seq(1..Len(table))
    <3>1. staticRoutes \in Seq(1..moved) /\ routes \in Seq(1..moved)
      BY DEF ListsInv, Holds
    <3>2. moved \in Nat /\ Len(table) \in Nat /\ moved <= Len(table)
      BY DEF TableInv
    <3> QED
      BY <3>1, <3>2, MorePositions
  <2>2. unowned \in Nat /\ making \in {"no", "args", "catch"}
    BY DEF MakingInv
  <2>3. RouterTypeOK
    BY <2>1 DEF RouterTypeOK, CallType, TableInv
  <2> QED
    BY <2>2, <2>3 DEF TypeOK, CallType
<1> QED
  BY <1>1, CallTypeInvariant, TableInvariant, ListsInvariant, MakingInvariant, PTL
=============================================================================
