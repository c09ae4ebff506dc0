------------------------- MODULE HTTPHandlerProofs -------------------------
(***************************************************************************)
(* Theorems about HTTPHandler, for any set of requests, any number of IO   *)
(* threads, and any behaviour of the user's functions.                     *)
(***************************************************************************)
EXTENDS HTTPHandler, TLAPS

\* The ways in which an error handler may end are Outcomes.
LEMMA EndsOfType == \A code : EndsOf(code) \subseteq Outcomes
BY HTTPHandlerAssumption DEF EndsOf, Outcomes

\* A response is posted with a source that is a Source.
LEMMA PostType ==
  ASSUME TypeOK, NEW r \in Requests, NEW source \in Functions,
         NEW e \in Outcomes, Post(r, source, e)
  PROVE  tasks' \in [Requests -> Seq(Sources)]
BY DEF TypeOK, Post, Sources, Functions, Outcomes

\* Starting the 503 handler keeps the types of what it changes.
LEMMA StartFallbackType ==
  ASSUME TypeOK, NEW r \in Requests, StartFallback(r)
  PROVE  /\ fallback' \in [Requests -> {"unset", "running", "pending", "settled"}]
         /\ dangling' \in [Requests -> SUBSET Uses]
BY DEF TypeOK, StartFallback, Touch, Uses, Functions

\* So does a result that arrives at the timeout race.
LEMMA ArriveType ==
  ASSUME TypeOK, NEW r \in Requests, NEW source \in Functions,
         NEW e \in Outcomes, Arrive(r, source, e)
  PROVE  /\ token' \in [Requests -> {"free", "main", "timer"}]
         /\ fallback' \in [Requests -> {"unset", "running", "pending", "settled"}]
         /\ tasks' \in [Requests -> Seq(Sources)]
         /\ dangling' \in [Requests -> SUBSET Uses]
BY PostType, StartFallbackType DEF TypeOK, Arrive

\* Every variable of HTTPHandler keeps its type, whatever the user's functions
\* do and however the threads interleave (HTTPHandler.cpp:21-102).
THEOREM TypeCorrect == Spec => []TypeOK
<1>1. Init => TypeOK
  BY DEF Init, TypeOK, Stages, Functions
<1>2. TypeOK /\ [Next]_vars => TypeOK'
  <2> SUFFICES ASSUME TypeOK, [Next]_vars PROVE TypeOK'
    OBVIOUS
  <2>1. CASE UNCHANGED vars
    BY <2>1 DEF vars, client, futures, TypeOK
  <2>2. ASSUME NEW r \in Requests, Proxygen(r) PROVE TypeOK'
    <3>1. CASE OnRequest(r)
      BY <3>1 DEF OnRequest, futures, TypeOK
    <3>2. CASE OnBody(r)
      BY <3>2 DEF OnBody, futures, TypeOK
    <3>3. CASE OnEOM(r)
      BY <3>3 DEF OnEOM, TypeOK, Stages
    <3>4. CASE RequestComplete(r)
      BY <3>4 DEF RequestComplete, Delete, Executing, client, futures, TypeOK, Uses, Functions
    <3>5. CASE OnError(r)
      BY <3>5 DEF OnError, Delete, Executing, client, futures, TypeOK, Uses, Functions
    <3> QED
      BY <2>2, <3>1, <3>2, <3>3, <3>4, <3>5 DEF Proxygen
  <2>3. ASSUME NEW r \in Requests, Chain(r) PROVE TypeOK'
    <3>1. CASE BeginHandler(r)
      BY <3>1 DEF BeginHandler, Touch, client, TypeOK, Stages, Uses, Functions
    <3>2. CASE HandlerPending(r)
      BY <3>2 DEF HandlerPending, client, TypeOK, Stages
    <3>3. ASSUME NEW e \in Ends, HandlerEnds(r, e) PROVE TypeOK'
      BY <3>3, HTTPHandlerAssumption
      DEF HandlerEnds, client, TypeOK, Stages, Functions
    <3>4. CASE PassResult(r)
      <4>1. outcome[r]["handler"] \in Outcomes /\ "handler" \in Functions
        BY <3>4 DEF PassResult, Outcomes, Functions
      <4> QED
        BY <3>4, <4>1, ArriveType DEF PassResult, client, TypeOK, Stages
    <3>5. CASE HandleError(r)
      BY <3>5 DEF HandleError, Touch, client, TypeOK, Stages, Uses, Functions
    <3>6. CASE Error500Pending(r)
      BY <3>6 DEF Error500Pending, client, TypeOK, Stages
    <3>7. ASSUME NEW e \in Outcomes, Error500Ends(r, e) PROVE TypeOK'
      <4>1. "error500" \in Functions
        BY DEF Functions
      <4> QED
        BY <3>7, <4>1, ArriveType DEF Error500Ends, client, TypeOK, Stages
    <3> QED
      BY <2>3, <3>1, <3>2, <3>3, <3>4, <3>5, <3>6, <3>7 DEF Chain
  <2>4. ASSUME NEW r \in Requests, Timeout(r) PROVE TypeOK'
    <3>1. CASE TimeoutFires(r)
      BY <3>1, StartFallbackType DEF TimeoutFires, client, TypeOK
    <3>2. CASE Error503Pending(r)
      BY <3>2 DEF Error503Pending, client, TypeOK
    <3>3. ASSUME NEW e \in Outcomes, Error503Ends(r, e) PROVE TypeOK'
      <4>1. "error503" \in Functions
        BY DEF Functions
      <4> QED
        BY <3>3, <4>1, PostType DEF Error503Ends, client, TypeOK
    <3> QED
      BY <2>4, <3>1, <3>2, <3>3 DEF Timeout
  <2>5. ASSUME NEW r \in Requests, SendResponse(r) PROVE TypeOK'
    <3>1. Head(tasks[r]) \in Sources /\ Tail(tasks[r]) \in Seq(Sources)
      BY <2>5 DEF SendResponse, TypeOK
    <3> QED
      BY <2>5, <3>1 DEF SendResponse, Touch, client, futures, TypeOK, Uses
  <2> QED
    BY <2>1, <2>2, <2>3, <2>4, <2>5 DEF Next
<1> QED
  BY <1>1, <1>2, PTL DEF Spec

-----------------------------------------------------------------------------
(* At most one answer. The token of the timeout race is what makes it true:  *)
(* while it is free nothing was posted, the side that takes it posts once,    *)
(* and while the 503 handler runs nothing is posted yet.                      *)

RaceInv ==
  \A r \in Requests :
    /\ token[r] = "free" =>
         fallback[r] = "unset" /\ tasks[r] = <<>> /\ sent[r] = <<>>
    /\ fallback[r] \in {"running", "pending"} =>
         tasks[r] = <<>> /\ sent[r] = <<>>
    /\ Len(tasks[r]) + Len(sent[r]) <= 1

\* Posting to an event base that holds nothing of r leaves at most one
\* response there, and does not concern the other requests.
LEMMA PostOne ==
  ASSUME TypeOK, NEW r \in Requests, NEW source \in Functions,
         NEW e \in Outcomes, Post(r, source, e), tasks[r] = <<>>
  PROVE  /\ tasks'[r] \in Seq(Sources)
         /\ Len(tasks'[r]) <= 1
         /\ \A q \in Requests \ {r} : tasks'[q] = tasks[q]
<1> DEFINE s == IF e = "value" THEN source ELSE "unknown"
<1>1. s \in Sources
  BY DEF Sources
<1>2. Append(tasks[r], s) \in Seq(Sources) /\ Len(Append(tasks[r], s)) = 1
  BY <1>1 DEF TypeOK
<1>3. tasks' = tasks \/ tasks' = [tasks EXCEPT ![r] = Append(tasks[r], s)]
  BY DEF Post
<1>4. tasks[r] \in Seq(Sources) /\ Len(tasks[r]) = 0
  BY DEF TypeOK
<1> HIDE DEF s
<1>5. CASE tasks' = tasks
  <2>1. tasks'[r] = tasks[r] /\ \A q \in Requests \ {r} : tasks'[q] = tasks[q]
    BY <1>5
  <2>2. Len(tasks'[r]) <= 1
    BY <1>4, <2>1
  <2> QED
    BY <1>4, <2>1, <2>2
<1>6. CASE tasks' = [tasks EXCEPT ![r] = Append(tasks[r], s)]
  <2>1. tasks'[r] = Append(tasks[r], s)
    BY <1>6 DEF TypeOK
  <2>2. \A q \in Requests \ {r} : tasks'[q] = tasks[q]
    BY <1>6 DEF TypeOK
  <2> QED
    BY <1>2, <2>1, <2>2
<1> QED
  BY <1>3, <1>5, <1>6

\* A result that arrives at the race keeps RaceInv, provided the responses
\* written are left alone.
LEMMA ArriveRace ==
  ASSUME TypeOK, RaceInv, NEW r \in Requests, NEW source \in Functions,
         NEW e \in Outcomes, Arrive(r, source, e), UNCHANGED sent
  PROVE  RaceInv'
<1>1. CASE token[r] # "free"
  BY <1>1 DEF Arrive, RaceInv
<1>2. CASE token[r] = "free" /\ e = "timedOut"
  BY <1>2 DEF Arrive, StartFallback, RaceInv, TypeOK
<1>3. CASE token[r] = "free" /\ e # "timedOut"
  <2>1. tasks[r] = <<>> /\ sent[r] = <<>> /\ fallback[r] = "unset"
    BY <1>3 DEF RaceInv
  <2>2. /\ token' = [token EXCEPT ![r] = "main"]
        /\ Post(r, source, e)
        /\ UNCHANGED <<fallback, dangling>>
    BY <1>3 DEF Arrive
  <2>3. /\ tasks'[r] \in Seq(Sources)
        /\ Len(tasks'[r]) <= 1
        /\ \A q \in Requests \ {r} : tasks'[q] = tasks[q]
    BY <2>1, <2>2, PostOne
  <2> QED
    BY <2>1, <2>2, <2>3 DEF RaceInv, TypeOK
<1> QED
  BY <1>1, <1>2, <1>3

THEOREM RaceInvariant == Spec => []RaceInv
<1>1. Init => RaceInv
  BY DEF Init, RaceInv
<1>2. TypeOK /\ RaceInv /\ [Next]_vars => RaceInv'
  <2> SUFFICES ASSUME TypeOK, RaceInv, [Next]_vars PROVE RaceInv'
    OBVIOUS
  <2>1. CASE UNCHANGED vars
    BY <2>1 DEF vars, client, futures, RaceInv
  <2>2. ASSUME NEW r \in Requests, Proxygen(r) PROVE RaceInv'
    BY <2>2
    DEF Proxygen, OnRequest, OnBody, OnEOM, RequestComplete, OnError, futures, RaceInv
  <2>3. ASSUME NEW r \in Requests, Chain(r) PROVE RaceInv'
    <3>1. CASE \/ BeginHandler(r)
               \/ HandlerPending(r)
               \/ \E e \in Ends : HandlerEnds(r, e)
               \/ HandleError(r)
               \/ Error500Pending(r)
      BY <3>1
      DEF BeginHandler, HandlerPending, HandlerEnds, HandleError, Error500Pending, RaceInv
    <3>2. CASE PassResult(r)
      <4>1. outcome[r]["handler"] \in Outcomes /\ "handler" \in Functions
        BY <3>2 DEF PassResult, Outcomes, Functions
      <4> QED
        BY <3>2, <4>1, ArriveRace DEF PassResult
    <3>3. ASSUME NEW e \in Outcomes, Error500Ends(r, e) PROVE RaceInv'
      <4>1. "error500" \in Functions
        BY DEF Functions
      <4> QED
        BY <3>3, <4>1, ArriveRace DEF Error500Ends
    <3> QED
      BY <2>3, <3>1, <3>2, <3>3 DEF Chain
  <2>4. ASSUME NEW r \in Requests, Timeout(r) PROVE RaceInv'
    <3>1. CASE TimeoutFires(r)
      BY <3>1 DEF TimeoutFires, StartFallback, RaceInv, TypeOK
    <3>2. CASE Error503Pending(r)
      BY <3>2 DEF Error503Pending, RaceInv, TypeOK
    <3>3. ASSUME NEW e \in Outcomes, Error503Ends(r, e) PROVE RaceInv'
      <4>1. tasks[r] = <<>> /\ sent[r] = <<>> /\ token[r] # "free"
        BY <3>3 DEF Error503Ends, RaceInv
      <4>2. Post(r, "error503", e) /\ "error503" \in Functions
        BY <3>3 DEF Error503Ends, Functions
      <4>3. /\ tasks'[r] \in Seq(Sources)
            /\ Len(tasks'[r]) <= 1
            /\ \A q \in Requests \ {r} : tasks'[q] = tasks[q]
        BY <4>1, <4>2, PostOne
      <4> QED
        BY <3>3, <4>1, <4>3 DEF Error503Ends, RaceInv, TypeOK
    <3> QED
      BY <2>4, <3>1, <3>2, <3>3 DEF Timeout
  <2>5. ASSUME NEW r \in Requests, SendResponse(r) PROVE RaceInv'
    <3>1. /\ token[r] # "free"
          /\ fallback[r] \notin {"running", "pending"}
          /\ sent[r] = <<>>
          /\ Tail(tasks[r]) = <<>>
      BY <2>5 DEF SendResponse, RaceInv, TypeOK
    <3>2. sent'[r] \in Seq(Sources) /\ Len(sent'[r]) <= 1
      BY <2>5, <3>1 DEF SendResponse, TypeOK
    <3>3. \A q \in Requests \ {r} : sent'[q] = sent[q] /\ tasks'[q] = tasks[q]
      BY <2>5 DEF SendResponse, TypeOK
    <3>4. tasks'[r] = <<>>
      BY <2>5, <3>1 DEF SendResponse, TypeOK
    <3>5. UNCHANGED <<token, fallback>>
      BY <2>5 DEF SendResponse, futures
    <3>6. \A q \in Requests \ {r} :
            Len(tasks[q]) + Len(sent[q]) <= 1 /\ Len(tasks'[q]) + Len(sent'[q]) <= 1
      BY <3>3 DEF RaceInv
    <3>7. Len(tasks'[r]) + Len(sent'[r]) <= 1
      BY <3>2, <3>4
    <3> QED
      BY <3>1, <3>3, <3>5, <3>6, <3>7 DEF RaceInv, TypeOK
  <2> QED
    BY <2>1, <2>2, <2>3, <2>4, <2>5 DEF Next
<1> QED
  BY <1>1, <1>2, TypeCorrect, PTL DEF Spec

\* No request is answered twice, however the handler, the timer and the error
\* handlers race (HTTPHandler.cpp:75-88).
THEOREM OneAnswer == Spec => []AtMostOneAnswer
<1>1. RaceInv => AtMostOneAnswer
  BY DEF RaceInv, AtMostOneAnswer
<1> QED
  BY <1>1, RaceInvariant, PTL

-----------------------------------------------------------------------------
(* The whole body: what was gathered is what came, until onEOM moves it.     *)

BodyInv ==
  \A r \in Requests :
    /\ ingress[r] = "none" => received[r] = 0
    /\ ingress[r] # "eom" => body[r] = [i \in 1..received[r] |-> i]
    /\ ingress[r] = "eom" => /\ request[r] = [i \in 1..received[r] |-> i]
                             /\ body[r] = <<>>

\* One chunk more at the end of the first n chunks.
LEMMA AppendNext ==
  ASSUME NEW n \in Nat
  PROVE  Append([i \in 1..n |-> i], n + 1) = [i \in 1..n + 1 |-> i]
OBVIOUS

\* The request that the handlers see holds every chunk of the client, once and
\* in order, for any number of chunks (HTTPHandler.cpp:55-64).
THEOREM BodyIsWhole == Spec => []WholeBody
<1>1. Init => BodyInv
  BY DEF Init, BodyInv
<1>2. TypeOK /\ BodyInv /\ [Next]_vars => BodyInv'
  <2> SUFFICES ASSUME TypeOK, BodyInv, [Next]_vars PROVE BodyInv'
    OBVIOUS
  <2>1. CASE UNCHANGED client
    BY <2>1 DEF client, BodyInv
  <2>2. ASSUME NEW r \in Requests, OnRequest(r) PROVE BodyInv'
    BY <2>2 DEF OnRequest, BodyInv, TypeOK
  <2>3. ASSUME NEW r \in Requests, OnBody(r) PROVE BodyInv'
    <3>1. body'[r] = [i \in 1..received'[r] |-> i]
      BY <2>3, AppendNext DEF OnBody, BodyInv, TypeOK
    <3> QED
      BY <2>3, <3>1 DEF OnBody, BodyInv, TypeOK
  <2>4. ASSUME NEW r \in Requests, OnEOM(r) PROVE BodyInv'
    BY <2>4 DEF OnEOM, BodyInv, TypeOK
  <2>5. ASSUME NEW r \in Requests,
               \/ RequestComplete(r) \/ OnError(r)
               \/ Chain(r) \/ Timeout(r) \/ SendResponse(r)
        PROVE UNCHANGED client
    BY <2>5
    DEF RequestComplete, OnError, Chain, BeginHandler, HandlerPending, HandlerEnds,
        PassResult, HandleError, Error500Pending, Error500Ends, Timeout,
        TimeoutFires, Error503Pending, Error503Ends, SendResponse
  <2> QED
    BY <2>1, <2>2, <2>3, <2>4, <2>5 DEF Next, Proxygen, vars, client
<1>3. BodyInv => WholeBody
  BY DEF BodyInv, WholeBody
<1> QED
  BY <1>1, <1>2, <1>3, TypeCorrect, PTL DEF Spec

-----------------------------------------------------------------------------
(* Lifetimes: what touches a deleted HTTPHandler, and when it can.           *)

\* The chain starts at onEOM, and the handler's side holds the token only once
\* it has nothing left to run.
StageInv ==
  \A r \in Requests :
    /\ ingress[r] # "eom" =>
         stage[r] = "unset" /\ timer[r] = "unset" /\ token[r] = "free"
    /\ token[r] = "main" => stage[r] = "settled"

LEMMA StageInvariant == Spec => []StageInv
<1>1. Init => StageInv
  BY DEF Init, StageInv
<1>2. TypeOK /\ StageInv /\ [Next]_vars => StageInv'
  <2> SUFFICES ASSUME TypeOK, StageInv, [Next]_vars PROVE StageInv'
    OBVIOUS
  <2>1. CASE UNCHANGED <<ingress, stage, timer, token>>
    BY <2>1 DEF StageInv
  <2>2. ASSUME NEW r \in Requests, Proxygen(r) PROVE StageInv'
    BY <2>2
    DEF Proxygen, OnRequest, OnBody, OnEOM, RequestComplete, OnError, client, futures,
        StageInv, TypeOK
  <2>3. ASSUME NEW r \in Requests, Chain(r) PROVE StageInv'
    BY <2>3
    DEF Chain, BeginHandler, HandlerPending, HandlerEnds, PassResult, HandleError,
        Error500Pending, Error500Ends, Arrive, client, StageInv, TypeOK
  <2>4. ASSUME NEW r \in Requests, Timeout(r) PROVE StageInv'
    BY <2>4
    DEF Timeout, TimeoutFires, Error503Pending, Error503Ends, client, StageInv, TypeOK
  <2>5. ASSUME NEW r \in Requests, SendResponse(r)
        PROVE UNCHANGED <<ingress, stage, timer, token>>
    BY <2>5 DEF SendResponse, client, futures
  <2> QED
    BY <2>1, <2>2, <2>3, <2>4, <2>5 DEF Next, vars, client, futures
<1> QED
  BY <1>1, <1>2, TypeCorrect, PTL DEF Spec

LifeInv ==
  \A r \in Requests :
    /\ object[r] = "live" => dangling[r] = {}
    /\ object[r] = "completed" =>
         /\ sent[r] # <<>>
         /\ dangling[r] # {} =>
              token[r] = "timer" /\ dangling[r] \subseteq {"handler", "error500"}

\* Once a response was written nothing is posted any more, the race is over
\* and the 503 handler does not run.
LEMMA AfterAnswer ==
  ASSUME TypeOK, RaceInv, NEW r \in Requests, sent[r] # <<>>
  PROVE  /\ tasks[r] = <<>>
         /\ token[r] # "free"
         /\ fallback[r] \notin {"running", "pending"}
<1>1. Len(sent[r]) >= 1
  BY DEF TypeOK
<1>2. Len(tasks[r]) = 0
  BY <1>1 DEF RaceInv, TypeOK
<1>3. tasks[r] = <<>>
  BY <1>2 DEF TypeOK
<1> QED
  BY <1>3 DEF RaceInv

LEMMA LifeInvariant == Spec => []LifeInv
<1>1. Init => LifeInv
  BY DEF Init, LifeInv
<1>2. TypeOK /\ RaceInv /\ StageInv /\ LifeInv /\ [Next]_vars => LifeInv'
  <2> SUFFICES ASSUME TypeOK, RaceInv, StageInv, LifeInv, [Next]_vars PROVE LifeInv'
    OBVIOUS
  <2>1. CASE UNCHANGED <<object, dangling, sent, token>>
    BY <2>1 DEF LifeInv
  <2>2. ASSUME NEW r \in Requests, OnRequest(r) \/ OnBody(r) \/ OnEOM(r)
        PROVE UNCHANGED <<object, dangling, sent, token>>
    BY <2>2 DEF OnRequest, OnBody, OnEOM, futures
  <2>3. ASSUME NEW r \in Requests, RequestComplete(r) PROVE LifeInv'
    <3>1. Executing(r) \subseteq {"handler", "error500"}
      BY <2>3, AfterAnswer DEF RequestComplete, Executing
    <3>2. Executing(r) # {} => token[r] = "timer"
      BY <2>3, AfterAnswer DEF RequestComplete, Executing, StageInv, TypeOK
    <3> QED
      BY <2>3, <3>1, <3>2 DEF RequestComplete, Delete, futures, LifeInv, TypeOK
  <2>4. ASSUME NEW r \in Requests, OnError(r) PROVE LifeInv'
    BY <2>4 DEF OnError, Delete, futures, LifeInv, TypeOK
  <2>5. ASSUME NEW r \in Requests, BeginHandler(r) PROVE LifeInv'
    <3>1. object[r] = "completed" => token[r] = "timer"
      BY <2>5, AfterAnswer DEF BeginHandler, StageInv, LifeInv, TypeOK
    <3> QED
      BY <2>5, <3>1 DEF BeginHandler, Touch, LifeInv, TypeOK
  <2>6. ASSUME NEW r \in Requests, HandleError(r) PROVE LifeInv'
    <3>1. object[r] = "completed" => token[r] = "timer"
      BY <2>6, AfterAnswer DEF HandleError, StageInv, LifeInv, TypeOK
    <3> QED
      BY <2>6, <3>1 DEF HandleError, Touch, LifeInv, TypeOK
  <2>7. ASSUME NEW r \in Requests,
               \/ HandlerPending(r)
               \/ \E e \in Ends : HandlerEnds(r, e)
               \/ Error500Pending(r)
               \/ Error503Pending(r)
               \/ \E e \in Outcomes : Error503Ends(r, e)
        PROVE UNCHANGED <<object, dangling, sent, token>>
    BY <2>7 DEF HandlerPending, HandlerEnds, Error500Pending, Error503Pending, Error503Ends
  <2>8. ASSUME NEW r \in Requests, NEW source \in Functions, NEW e \in Outcomes,
               Arrive(r, source, e), UNCHANGED <<object, sent>>
        PROVE LifeInv'
    <3>1. CASE token[r] # "free"
      BY <2>8, <3>1 DEF Arrive, LifeInv
    <3>2. CASE token[r] = "free"
      <4>1. object[r] # "completed"
        BY <3>2, AfterAnswer DEF LifeInv
      <4>2. /\ token' = [token EXCEPT ![r] = "main"]
            /\ dangling' = dangling \/ Touch(r, "error503")
        BY <2>8, <3>2 DEF Arrive, StartFallback
      <4> QED
        BY <2>8, <3>2, <4>1, <4>2 DEF Touch, LifeInv, TypeOK
    <3> QED
      BY <3>1, <3>2
  <2>9. ASSUME NEW r \in Requests, PassResult(r) PROVE LifeInv'
    <3>1. outcome[r]["handler"] \in Outcomes /\ "handler" \in Functions
      BY <2>9 DEF PassResult, Outcomes, Functions
    <3> QED
      BY <2>8, <2>9, <3>1 DEF PassResult
  <2>10. ASSUME NEW r \in Requests, NEW e \in Outcomes, Error500Ends(r, e)
         PROVE LifeInv'
    <3>1. "error500" \in Functions
      BY DEF Functions
    <3> QED
      BY <2>8, <2>10, <3>1 DEF Error500Ends
  <2>11. ASSUME NEW r \in Requests, TimeoutFires(r) PROVE LifeInv'
    <3>1. token[r] = "free" => object[r] # "completed"
      BY AfterAnswer DEF LifeInv
    <3> QED
      BY <2>11, <3>1 DEF TimeoutFires, StartFallback, Touch, LifeInv, TypeOK
  <2>12. ASSUME NEW r \in Requests, SendResponse(r) PROVE LifeInv'
    <3>1. sent[r] = <<>>
      BY <2>12, AfterAnswer DEF SendResponse
    <3>2. object[r] # "completed"
      BY <3>1 DEF LifeInv
    <3> QED
      BY <2>12, <3>2 DEF SendResponse, Touch, futures, LifeInv, TypeOK
  <2> QED
    BY <2>1, <2>2, <2>3, <2>4, <2>5, <2>6, <2>7, <2>9, <2>10, <2>11, <2>12
    DEF Next, Proxygen, Chain, Timeout, vars, futures
<1> QED
  BY <1>1, <1>2, TypeCorrect, RaceInvariant, StageInvariant, PTL DEF Spec

\* A deleted HTTPHandler is used only if the client went away, or if the
\* timeout won and the handler's side was not through
\* (HTTPHandler.cpp:91-102), for any number of requests and IO threads.
THEOREM DanglingOnly == Spec => []DanglingExplained
<1>1. TypeOK /\ LifeInv => DanglingExplained
  BY DEF TypeOK, LifeInv, DanglingExplained
<1> QED
  BY <1>1, LifeInvariant, TypeCorrect, PTL

-----------------------------------------------------------------------------
(* Silence. A function ends once, so an outcome is not overwritten; and the  *)
(* side that took the token has posted a response when it is through, unless *)
(* what it got is foreign.                                                   *)

OnceInv ==
  \A r \in Requests :
    /\ stage[r] \in {"unset", "queued", "running", "pending"} =>
         outcome[r]["handler"] = "none"
    /\ stage[r] # "settled" => outcome[r]["error500"] = "none"
    /\ fallback[r] # "settled" => outcome[r]["error503"] = "none"

Foreign(r) == \E f \in Functions : outcome[r][f] = "other"

Through(r) == token[r] # "free" /\ fallback[r] \in {"unset", "settled"}

Answered(r) == tasks[r] # <<>> \/ sent[r] # <<>> \/ object[r] = "aborted"

SilentInv == OnceInv /\ \A r \in Requests : Through(r) => Answered(r) \/ Foreign(r)

\* Posting leaves a response, or what was thrown is foreign.
LEMMA PostAnswers ==
  ASSUME TypeOK, NEW r \in Requests, NEW source \in Functions,
         NEW e \in Outcomes, Post(r, source, e)
  PROVE  /\ tasks'[r] # <<>> \/ e = "other"
         /\ \A q \in Requests \ {r} : tasks'[q] = tasks[q]
<1> DEFINE s == IF e = "value" THEN source ELSE "unknown"
<1>1. s \in Sources
  BY DEF Sources
<1>2. Append(tasks[r], s) # <<>>
  <2>1. tasks[r] \in Seq(Sources)
    BY DEF TypeOK
  <2> HIDE DEF s
  <2>2. Len(Append(tasks[r], s)) = Len(tasks[r]) + 1 /\ Len(tasks[r]) \in Nat
    BY <1>1, <2>1
  <2>3. Len(<<>>) = 0
    OBVIOUS
  <2> QED
    BY <2>2, <2>3
<1>3. CASE e = "other"
  BY <1>3 DEF Post
<1>4. CASE e # "other"
  <2>1. tasks' = [tasks EXCEPT ![r] = Append(tasks[r], s)]
    BY <1>4 DEF Post
  <2> HIDE DEF s
  <2> QED
    BY <1>2, <2>1 DEF TypeOK
<1> QED
  BY <1>3, <1>4

\* A result that arrives at the race is posted, or starts the 503 handler, or
\* is foreign, or comes late.
LEMMA ArriveSilent ==
  ASSUME TypeOK, RaceInv, SilentInv, NEW r \in Requests, NEW source \in Functions,
         NEW e \in Outcomes, Arrive(r, source, e), UNCHANGED <<object, sent>>,
         OnceInv', outcome'[r][source] = e,
         \A q \in Requests : Foreign(q) => Foreign(q)'
  PROVE  SilentInv'
<1>1. CASE token[r] # "free"
  <2>1. UNCHANGED <<token, fallback, tasks>>
    BY <1>1 DEF Arrive
  <2> QED
    BY <2>1 DEF SilentInv, Through, Answered
<1>2. CASE token[r] = "free"
  <2>1. \A q \in Requests \ {r} : token'[q] = token[q]
    BY <1>2 DEF Arrive, TypeOK
  <2>2. CASE e = "timedOut"
    <3>1. UNCHANGED tasks /\ fallback' = [fallback EXCEPT ![r] = "running"]
      BY <1>2, <2>2 DEF Arrive, StartFallback
    <3>2. fallback'[r] = "running" /\ \A q \in Requests \ {r} : fallback'[q] = fallback[q]
      BY <3>1 DEF TypeOK
    <3> QED
      BY <2>1, <3>1, <3>2 DEF SilentInv, Through, Answered
  <2>3. CASE e # "timedOut"
    <3>1. Post(r, source, e) /\ UNCHANGED fallback
      BY <1>2, <2>3 DEF Arrive
    <3>2. /\ tasks'[r] # <<>> \/ e = "other"
          /\ \A q \in Requests \ {r} : tasks'[q] = tasks[q]
      BY <3>1, PostAnswers
    <3>3. Answered(r)' \/ Foreign(r)'
      BY <3>2 DEF Answered, Foreign
    <3>4. \A q \in Requests \ {r} : Through(q)' => Answered(q)' \/ Foreign(q)'
      BY <2>1, <3>1, <3>2 DEF SilentInv, Through, Answered
    <3> QED
      BY <3>3, <3>4 DEF SilentInv
  <2> QED
    BY <2>2, <2>3
<1> QED
  BY <1>1, <1>2

\* An outcome that was still open is filled in: no other changes.
LEMMA OutcomeFilled ==
  ASSUME TypeOK, NEW r \in Requests, NEW f \in Functions, NEW e,
         outcome[r][f] = "none", outcome' = [outcome EXCEPT ![r][f] = e]
  PROVE  /\ outcome'[r][f] = e
         /\ \A g \in Functions \ {f} : outcome'[r][g] = outcome[r][g]
         /\ \A q \in Requests \ {r} : outcome'[q] = outcome[q]
         /\ \A q \in Requests : Foreign(q) => Foreign(q)'
<1>1. /\ outcome'[r][f] = e
      /\ \A g \in Functions \ {f} : outcome'[r][g] = outcome[r][g]
      /\ \A q \in Requests \ {r} : outcome'[q] = outcome[q]
  BY DEF TypeOK
<1>2. ASSUME NEW q \in Requests, Foreign(q) PROVE Foreign(q)'
  <2>1. PICK g \in Functions : outcome[q][g] = "other"
    BY <1>2 DEF Foreign
  <2>2. outcome'[q][g] = "other"
    BY <1>1, <2>1
  <2> QED
    BY <2>2 DEF Foreign
<1> QED
  BY <1>1, <1>2

LEMMA SilentInvariant == Spec => []SilentInv
<1>1. Init => SilentInv
  BY DEF Init, SilentInv, OnceInv, Through, Functions
<1>2. TypeOK /\ RaceInv /\ StageInv /\ LifeInv /\ SilentInv /\ [Next]_vars => SilentInv'
  <2> SUFFICES ASSUME TypeOK, RaceInv, StageInv, LifeInv, SilentInv, [Next]_vars PROVE SilentInv'
    OBVIOUS
  <2>0. "handler" \in Functions /\ "error500" \in Functions /\ "error503" \in Functions
    BY DEF Functions
  <2>1. ASSUME UNCHANGED <<object, outcome, token, fallback, tasks, sent>>, OnceInv'
        PROVE  SilentInv'
    BY <2>1 DEF SilentInv, Through, Answered, Foreign
  <2>2. CASE UNCHANGED <<object, stage, outcome, token, fallback, tasks, sent>>
    BY <2>1, <2>2 DEF SilentInv, OnceInv
  <2>3. ASSUME NEW r \in Requests, OnRequest(r) \/ OnBody(r)
        PROVE  UNCHANGED <<object, stage, outcome, token, fallback, tasks, sent>>
    BY <2>3 DEF OnRequest, OnBody, futures
  <2>4. ASSUME NEW r \in Requests, OnEOM(r) PROVE SilentInv'
    <3>1. stage[r] = "unset" /\ outcome[r]["handler"] = "none"
      BY <2>4 DEF OnEOM, StageInv, SilentInv, OnceInv
    <3>2. UNCHANGED <<object, outcome, token, fallback, tasks, sent>>
      BY <2>4 DEF OnEOM
    <3> QED
      BY <2>1, <2>4, <3>1, <3>2 DEF OnEOM, SilentInv, OnceInv, TypeOK
  <2>5. ASSUME NEW r \in Requests, RequestComplete(r) PROVE SilentInv'
    <3>1. UNCHANGED <<stage, outcome, token, fallback, tasks, sent>> /\ sent[r] # <<>>
      BY <2>5 DEF RequestComplete, futures
    <3>2. \A q \in Requests \ {r} : object'[q] = object[q]
      BY <2>5 DEF RequestComplete, Delete, TypeOK
    <3> QED
      BY <3>1, <3>2 DEF SilentInv, OnceInv, Through, Answered, Foreign
  <2>6. ASSUME NEW r \in Requests, OnError(r) PROVE SilentInv'
    <3>1. UNCHANGED <<stage, outcome, token, fallback, tasks, sent>>
      BY <2>6 DEF OnError, futures
    <3>2. object'[r] = "aborted" /\ \A q \in Requests \ {r} : object'[q] = object[q]
      BY <2>6 DEF OnError, Delete, TypeOK
    <3> QED
      BY <3>1, <3>2 DEF SilentInv, OnceInv, Through, Answered, Foreign
  <2>7. ASSUME NEW r \in Requests,
               BeginHandler(r) \/ HandlerPending(r) \/ HandleError(r) \/ Error500Pending(r)
        PROVE  SilentInv'
    <3>1. UNCHANGED <<object, outcome, token, fallback, tasks, sent>>
      BY <2>7 DEF BeginHandler, HandlerPending, HandleError, Error500Pending
    <3>2. OnceInv'
      BY <2>7, <3>1
      DEF BeginHandler, HandlerPending, HandleError, Error500Pending, SilentInv, OnceInv, TypeOK
    <3> QED
      BY <2>1, <3>1, <3>2
  <2>8. ASSUME NEW r \in Requests, NEW e \in Ends, HandlerEnds(r, e) PROVE SilentInv'
    <3>1. /\ outcome[r]["handler"] = "none"
          /\ outcome' = [outcome EXCEPT ![r]["handler"] = e]
          /\ UNCHANGED <<object, token, fallback, tasks, sent>>
          /\ stage' = [stage EXCEPT ![r] = "resolved"]
          /\ stage[r] \in {"running", "pending"}
      BY <2>8 DEF HandlerEnds, SilentInv, OnceInv
    <3>2. /\ \A g \in Functions \ {"handler"} : outcome'[r][g] = outcome[r][g]
          /\ \A q \in Requests \ {r} : outcome'[q] = outcome[q]
          /\ \A q \in Requests : Foreign(q) => Foreign(q)'
      BY <2>0, <3>1, OutcomeFilled
    <3>3. /\ outcome'[r]["error500"] = outcome[r]["error500"]
          /\ outcome'[r]["error503"] = outcome[r]["error503"]
      BY <2>0, <3>2
    <3>4. OnceInv'
      BY <3>1, <3>2, <3>3 DEF SilentInv, OnceInv, TypeOK
    <3> QED
      BY <3>1, <3>2, <3>4 DEF SilentInv, Through, Answered
  <2>9. ASSUME NEW r \in Requests, PassResult(r) PROVE SilentInv'
    <3>1. /\ stage[r] = "resolved"
          /\ stage' = [stage EXCEPT ![r] = "settled"]
          /\ outcome[r]["handler"] \in Outcomes
          /\ Arrive(r, "handler", outcome[r]["handler"])
          /\ UNCHANGED <<object, outcome, sent>>
      BY <2>9 DEF PassResult, Outcomes
    <3>2. \A q \in Requests : fallback[q] = "settled" => fallback'[q] = "settled"
      BY <3>1 DEF Arrive, StartFallback, RaceInv, TypeOK
    <3>3. \A q \in Requests : fallback'[q] = "settled" => fallback[q] = "settled"
      BY <3>1 DEF Arrive, StartFallback, TypeOK
    <3>4. OnceInv'
      BY <3>1, <3>2, <3>3 DEF SilentInv, OnceInv, TypeOK
    <3>5. \A q \in Requests : Foreign(q) => Foreign(q)'
      BY <3>1 DEF Foreign
    <3>6. outcome'[r]["handler"] = outcome[r]["handler"]
      BY <3>1
    <3> QED
      BY <2>0, <3>1, <3>4, <3>5, <3>6, ArriveSilent
  <2>10. ASSUME NEW r \in Requests, NEW e \in Outcomes, Error500Ends(r, e)
         PROVE  SilentInv'
    <3>1. /\ stage[r] \in {"running500", "pending500"}
          /\ stage' = [stage EXCEPT ![r] = "settled"]
          /\ outcome' = [outcome EXCEPT ![r]["error500"] = e]
          /\ Arrive(r, "error500", e)
          /\ UNCHANGED <<object, sent>>
      BY <2>10 DEF Error500Ends
    <3>2. outcome[r]["error500"] = "none"
      BY <3>1 DEF SilentInv, OnceInv
    <3>3. /\ outcome'[r]["error500"] = e
          /\ \A g \in Functions \ {"error500"} : outcome'[r][g] = outcome[r][g]
          /\ \A q \in Requests \ {r} : outcome'[q] = outcome[q]
          /\ \A q \in Requests : Foreign(q) => Foreign(q)'
      BY <2>0, <3>1, <3>2, OutcomeFilled
    <3>4. /\ outcome'[r]["handler"] = outcome[r]["handler"]
          /\ outcome'[r]["error503"] = outcome[r]["error503"]
      BY <2>0, <3>3
    <3>5. \A q \in Requests : fallback'[q] # "settled" => fallback[q] # "settled"
      BY <3>1 DEF Arrive, StartFallback, RaceInv, TypeOK
    <3>6. OnceInv'
      BY <3>1, <3>3, <3>4, <3>5 DEF SilentInv, OnceInv, TypeOK
    <3> QED
      BY <2>0, <3>1, <3>3, <3>6, ArriveSilent
  <2>11. ASSUME NEW r \in Requests, TimeoutFires(r) PROVE SilentInv'
    <3>1. UNCHANGED <<object, stage, outcome, tasks, sent>>
      BY <2>11 DEF TimeoutFires
    <3>2. CASE token[r] # "free"
      BY <2>2, <2>11, <3>1, <3>2 DEF TimeoutFires
    <3>3. CASE token[r] = "free"
      <4>1. /\ token' = [token EXCEPT ![r] = "timer"]
            /\ fallback' = [fallback EXCEPT ![r] = "running"]
            /\ fallback[r] = "unset"
        BY <2>11, <3>3 DEF TimeoutFires, StartFallback, RaceInv
      <4>2. /\ fallback'[r] = "running"
            /\ \A q \in Requests \ {r} : fallback'[q] = fallback[q] /\ token'[q] = token[q]
        BY <4>1 DEF TypeOK
      <4>3. OnceInv'
        BY <3>1, <4>1, <4>2 DEF SilentInv, OnceInv
      <4> QED
        BY <3>1, <4>2, <4>3 DEF SilentInv, Through, Answered, Foreign
    <3> QED
      BY <3>2, <3>3
  <2>12. ASSUME NEW r \in Requests, Error503Pending(r) PROVE SilentInv'
    <3>1. /\ UNCHANGED <<object, stage, outcome, token, tasks, sent>>
          /\ fallback[r] = "running"
          /\ fallback' = [fallback EXCEPT ![r] = "pending"]
      BY <2>12 DEF Error503Pending
    <3>2. fallback'[r] = "pending" /\ \A q \in Requests \ {r} : fallback'[q] = fallback[q]
      BY <3>1 DEF TypeOK
    <3> QED
      BY <3>1, <3>2 DEF SilentInv, OnceInv, Through, Answered, Foreign
  <2>13. ASSUME NEW r \in Requests, NEW e \in Outcomes, Error503Ends(r, e)
         PROVE  SilentInv'
    <3>1. /\ fallback[r] \in {"running", "pending"}
          /\ fallback' = [fallback EXCEPT ![r] = "settled"]
          /\ outcome' = [outcome EXCEPT ![r]["error503"] = e]
          /\ Post(r, "error503", e)
          /\ UNCHANGED <<object, stage, token, sent>>
      BY <2>13 DEF Error503Ends
    <3>2. outcome[r]["error503"] = "none"
      BY <3>1 DEF SilentInv, OnceInv
    <3>3. /\ outcome'[r]["error503"] = e
          /\ \A g \in Functions \ {"error503"} : outcome'[r][g] = outcome[r][g]
          /\ \A q \in Requests \ {r} : outcome'[q] = outcome[q]
          /\ \A q \in Requests : Foreign(q) => Foreign(q)'
      BY <2>0, <3>1, <3>2, OutcomeFilled
    <3>4. /\ outcome'[r]["handler"] = outcome[r]["handler"]
          /\ outcome'[r]["error500"] = outcome[r]["error500"]
      BY <2>0, <3>3
    <3>5. fallback'[r] = "settled" /\ \A q \in Requests \ {r} : fallback'[q] = fallback[q]
      BY <3>1 DEF TypeOK
    <3>6. OnceInv'
      BY <3>1, <3>3, <3>4, <3>5 DEF SilentInv, OnceInv
    <3>7. /\ tasks'[r] # <<>> \/ e = "other"
          /\ \A q \in Requests \ {r} : tasks'[q] = tasks[q]
      BY <2>0, <3>1, PostAnswers
    <3>8. Answered(r)' \/ Foreign(r)'
      BY <2>0, <3>3, <3>7 DEF Answered, Foreign
    <3>9. \A q \in Requests \ {r} : Through(q)' => Answered(q)' \/ Foreign(q)'
      BY <3>1, <3>3, <3>5, <3>7 DEF SilentInv, Through, Answered
    <3> QED
      BY <3>6, <3>8, <3>9 DEF SilentInv
  <2>14. ASSUME NEW r \in Requests, SendResponse(r) PROVE SilentInv'
    <3>1. /\ UNCHANGED <<object, stage, outcome, token, fallback>>
          /\ tasks[r] # <<>>
          /\ tasks' = [tasks EXCEPT ![r] = Tail(@)]
          /\ sent' = IF object[r] = "live"
                     THEN [sent EXCEPT ![r] = Append(@, Head(tasks[r]))] ELSE sent
      BY <2>14 DEF SendResponse, futures
    <3>2. sent[r] = <<>>
      BY <3>1, AfterAnswer
    <3>3. object[r] = "live" \/ object[r] = "aborted"
      BY <3>2 DEF LifeInv, TypeOK
    <3>4. object[r] = "live" => sent'[r] # <<>>
      <4>1. Head(tasks[r]) \in Sources /\ sent[r] \in Seq(Sources)
        BY <3>1 DEF TypeOK
      <4>2. Append(sent[r], Head(tasks[r])) # <<>>
        BY <4>1
      <4> QED
        BY <3>1, <4>2 DEF TypeOK
    <3>5. \A q \in Requests \ {r} : tasks'[q] = tasks[q] /\ sent'[q] = sent[q]
      BY <3>1 DEF TypeOK
    <3> QED
      BY <3>1, <3>3, <3>4, <3>5 DEF SilentInv, OnceInv, Through, Answered, Foreign
  <2> QED
    BY <2>2, <2>3, <2>4, <2>5, <2>6, <2>7, <2>8, <2>9, <2>10, <2>11, <2>12, <2>13, <2>14
    DEF Next, Proxygen, Chain, Timeout, vars, futures
<1> QED
  BY <1>1, <1>2, TypeCorrect, RaceInvariant, StageInvariant, LifeInvariant, PTL DEF Spec

\* A request whose race is decided and that has no response has had something
\* thrown that is not a std::exception, or its client is gone
\* (HTTPHandler.cpp:75-88).
THEOREM SilenceExplained == Spec => []SilentOnlyAfterForeignException
<1>1. SilentInv => SilentOnlyAfterForeignException
  BY DEF SilentInv, Through, Answered, Foreign, SilentOnlyAfterForeignException
<1> QED
  BY <1>1, SilentInvariant, PTL

-----------------------------------------------------------------------------
(* What a response says: the facts about outcomes that Justified needs.      *)

OutcomeInv ==
  \A r \in Requests :
    /\ stage[r] \in {"running500", "pending500"} =>
         outcome[r]["handler"] \in {"std", "timedOut"}
    /\ fallback[r] # "unset" =>
         token[r] = "timer" \/ outcome[r]["error500"] = "timedOut"

\* What Post leaves on the event base when it held nothing of r.
LEMMA PostedSource ==
  ASSUME TypeOK, NEW r \in Requests, NEW source \in Functions,
         NEW e \in Outcomes, Post(r, source, e), tasks[r] = <<>>
  PROVE  /\ \A i \in DOMAIN tasks'[r] :
              /\ e # "other"
              /\ tasks'[r][i] = IF e = "value" THEN source ELSE "unknown"
         /\ \A q \in Requests \ {r} : tasks'[q] = tasks[q]
<1> DEFINE s == IF e = "value" THEN source ELSE "unknown"
<1>1. CASE e = "other"
  <2>1. tasks' = tasks
    BY <1>1 DEF Post
  <2>2. DOMAIN tasks[r] = {}
    OBVIOUS
  <2> QED
    BY <2>1, <2>2
<1>2. CASE e # "other"
  <2>1. tasks' = [tasks EXCEPT ![r] = Append(tasks[r], s)]
    BY <1>2 DEF Post
  <2>2. tasks'[r] = Append(tasks[r], s) /\ \A q \in Requests \ {r} : tasks'[q] = tasks[q]
    BY <2>1 DEF TypeOK
  <2>3. s \in Sources
    BY DEF Sources
  <2> HIDE DEF s
  <2>4. DOMAIN Append(tasks[r], s) = {1} /\ Append(tasks[r], s)[1] = s
    BY <2>3 DEF TypeOK
  <2>5. \A i \in DOMAIN tasks'[r] : tasks'[r][i] = s
    BY <2>2, <2>4
  <2> QED
    BY <1>2, <2>2, <2>5 DEF s
<1> QED
  BY <1>1, <1>2

AnswerInv == OutcomeInv /\ AnswerMatchesOutcomes

\* A result that arrives at the race keeps AnswerInv: the premises say how the
\* chain came to have it.
LEMMA ArriveAnswer ==
  ASSUME TypeOK, RaceInv, AnswerInv, NEW r \in Requests,
         NEW source \in {"handler", "error500"}, NEW e \in Outcomes,
         Arrive(r, source, e), UNCHANGED sent,
         token[r] # "main",
         stage' = [stage EXCEPT ![r] = "settled"],
         \/ UNCHANGED outcome
         \/ outcome' = [outcome EXCEPT ![r]["error500"] = e],
         outcome'[r][source] = e,
         source = "handler" => e \in {"value", "other"},
         source = "error500" => outcome[r]["handler"] \in {"std", "timedOut"}
  PROVE  AnswerInv'
<1>1. /\ outcome'[r]["handler"] = outcome[r]["handler"]
      /\ outcome'[r]["error503"] = outcome[r]["error503"]
      /\ \A q \in Requests \ {r} : outcome'[q] = outcome[q] /\ stage'[q] = stage[q]
      /\ stage'[r] = "settled"
  BY DEF TypeOK, Functions
<1>2. CASE token[r] # "free"
  <2>1. token[r] = "timer" /\ UNCHANGED <<token, fallback, tasks, sent>>
    BY <1>2 DEF Arrive, TypeOK
  <2>2. OutcomeInv'
    BY <1>1, <2>1 DEF AnswerInv, OutcomeInv
  <2>3. AnswerMatchesOutcomes'
    BY <1>1, <2>1 DEF AnswerInv, AnswerMatchesOutcomes, Justified
  <2> QED
    BY <2>2, <2>3 DEF AnswerInv
<1>3. CASE token[r] = "free"
  <2>1. tasks[r] = <<>> /\ sent[r] = <<>> /\ fallback[r] = "unset"
    BY <1>3 DEF RaceInv
  <2>2. token'[r] = "main" /\ \A q \in Requests \ {r} : token'[q] = token[q]
    BY <1>3 DEF Arrive, TypeOK
  <2>3. CASE e = "timedOut"
    <3>1. /\ UNCHANGED tasks
          /\ \A q \in Requests \ {r} : fallback'[q] = fallback[q]
      BY <1>3, <2>3 DEF Arrive, StartFallback, TypeOK
    <3>2. outcome'[r]["error500"] = "timedOut"
      BY <2>3
    <3>3. DOMAIN tasks[r] = {} /\ DOMAIN sent[r] = {}
      BY <2>1
    <3>4. OutcomeInv'
      BY <1>1, <2>2, <3>1, <3>2 DEF AnswerInv, OutcomeInv
    <3>5. AnswerMatchesOutcomes'
      BY <1>1, <2>2, <3>1, <3>3 DEF AnswerInv, AnswerMatchesOutcomes, Justified
    <3> QED
      BY <3>4, <3>5 DEF AnswerInv
  <2>4. CASE e # "timedOut"
    <3>1. Post(r, source, e) /\ UNCHANGED fallback
      BY <1>3, <2>4 DEF Arrive
    <3>2. /\ \A i \in DOMAIN tasks'[r] :
                /\ e # "other"
                /\ tasks'[r][i] = IF e = "value" THEN source ELSE "unknown"
          /\ \A q \in Requests \ {r} : tasks'[q] = tasks[q]
      <4>1. source \in Functions
        BY DEF Functions
      <4> QED
        BY <2>1, <3>1, <4>1, PostedSource
    <3>3. (\A i \in DOMAIN tasks[r] : Justified(r, tasks[r][i]))'
      BY <1>1, <2>2, <2>4, <3>2 DEF Justified, Outcomes
    <3>4. DOMAIN sent[r] = {}
      BY <2>1
    <3>5. OutcomeInv'
      BY <1>1, <2>1, <2>2, <3>1 DEF AnswerInv, OutcomeInv
    <3>6. \A q \in Requests \ {r} :
            /\ (\A i \in DOMAIN tasks[q] : Justified(q, tasks[q][i]))'
            /\ (\A i \in DOMAIN sent[q] : Justified(q, sent[q][i]))'
      BY <1>1, <2>2, <3>2 DEF AnswerInv, AnswerMatchesOutcomes, Justified
    <3> QED
      BY <3>3, <3>4, <3>5, <3>6 DEF AnswerInv, AnswerMatchesOutcomes
  <2> QED
    BY <2>3, <2>4
<1> QED
  BY <1>2, <1>3

LEMMA AnswerInvariant == Spec => []AnswerInv
<1>1. Init => AnswerInv
  BY DEF Init, AnswerInv, OutcomeInv, AnswerMatchesOutcomes
<1>2. TypeOK /\ RaceInv /\ StageInv /\ AnswerInv /\ [Next]_vars => AnswerInv'
  <2> SUFFICES ASSUME TypeOK, RaceInv, StageInv, AnswerInv, [Next]_vars PROVE AnswerInv'
    OBVIOUS
  <2> USE DEF AnswerInv, OutcomeInv, AnswerMatchesOutcomes, Justified
  <2>1. CASE UNCHANGED <<stage, outcome, token, fallback, tasks, sent>>
    BY <2>1
  <2>2. ASSUME NEW r \in Requests,
               OnRequest(r) \/ OnBody(r) \/ RequestComplete(r) \/ OnError(r)
        PROVE UNCHANGED <<stage, outcome, token, fallback, tasks, sent>>
    BY <2>2 DEF OnRequest, OnBody, RequestComplete, OnError, futures
  <2>3. ASSUME NEW r \in Requests, OnEOM(r) PROVE AnswerInv'
    BY <2>3 DEF OnEOM, TypeOK
  <2>4. ASSUME NEW r \in Requests,
               BeginHandler(r) \/ HandlerPending(r) \/ HandleError(r) \/ Error500Pending(r)
        PROVE AnswerInv'
    <3>1. /\ UNCHANGED <<outcome, token, fallback, tasks, sent>>
          /\ \A q \in Requests \ {r} : stage'[q] = stage[q]
      BY <2>4 DEF BeginHandler, HandlerPending, HandleError, Error500Pending, TypeOK
    <3>2. AnswerMatchesOutcomes'
      BY <3>1
    <3>3. OutcomeInv'
      BY <2>4, <3>1 DEF BeginHandler, HandlerPending, HandleError, Error500Pending, TypeOK
    <3> QED
      BY <3>2, <3>3
  <2>5. ASSUME NEW r \in Requests, NEW e \in Ends, HandlerEnds(r, e) PROVE AnswerInv'
    BY <2>5 DEF HandlerEnds, StageInv, TypeOK, Functions
  <2>6. ASSUME NEW r \in Requests, PassResult(r) PROVE AnswerInv'
    <3>1. /\ outcome[r]["handler"] \in {"value", "other"}
          /\ outcome[r]["handler"] \in Outcomes
          /\ token[r] # "main"
      BY <2>6 DEF PassResult, StageInv, Outcomes
    <3>2. /\ Arrive(r, "handler", outcome[r]["handler"])
          /\ stage' = [stage EXCEPT ![r] = "settled"]
          /\ UNCHANGED <<outcome, sent>>
      BY <2>6 DEF PassResult
    <3> HIDE DEF AnswerInv, OutcomeInv, AnswerMatchesOutcomes, Justified
    <3>3. outcome'[r]["handler"] = outcome[r]["handler"]
      BY <3>2
    <3> QED
      BY <3>1, <3>2, <3>3, ArriveAnswer
  <2>7. ASSUME NEW r \in Requests, NEW e \in Outcomes, Error500Ends(r, e)
        PROVE AnswerInv'
    <3>1. /\ Arrive(r, "error500", e)
          /\ stage' = [stage EXCEPT ![r] = "settled"]
          /\ outcome' = [outcome EXCEPT ![r]["error500"] = e]
          /\ UNCHANGED sent
          /\ outcome[r]["handler"] \in {"std", "timedOut"}
          /\ token[r] # "main"
      BY <2>7 DEF Error500Ends, StageInv
    <3>2. outcome'[r]["error500"] = e
      BY <3>1 DEF TypeOK, Functions
    <3> HIDE DEF AnswerInv, OutcomeInv, AnswerMatchesOutcomes, Justified
    <3> QED
      BY <3>1, <3>2, ArriveAnswer
  <2>8. ASSUME NEW r \in Requests, TimeoutFires(r) PROVE AnswerInv'
    <3>1. CASE token[r] # "free"
      BY <2>8, <3>1 DEF TimeoutFires
    <3>2. CASE token[r] = "free"
      <4>0. tasks[r] = <<>> /\ sent[r] = <<>>
        BY <3>2 DEF RaceInv
      <4>1. DOMAIN tasks[r] = {} /\ DOMAIN sent[r] = {}
        BY <4>0
      <4>2. /\ token' = [token EXCEPT ![r] = "timer"]
            /\ fallback' = [fallback EXCEPT ![r] = "running"]
            /\ UNCHANGED <<stage, outcome, tasks, sent>>
        BY <2>8, <3>2 DEF TimeoutFires, StartFallback
      <4>3. /\ token'[r] = "timer"
            /\ \A q \in Requests \ {r} : token'[q] = token[q] /\ fallback'[q] = fallback[q]
        BY <4>2 DEF TypeOK
      <4>4. OutcomeInv'
        BY <4>2, <4>3
      <4>5. AnswerMatchesOutcomes'
        BY <4>1, <4>2, <4>3
      <4> QED
        BY <4>4, <4>5
    <3> QED
      BY <3>1, <3>2
  <2>9. ASSUME NEW r \in Requests, Error503Pending(r) PROVE AnswerInv'
    BY <2>9 DEF Error503Pending, TypeOK
  <2>10. ASSUME NEW r \in Requests, NEW e \in Outcomes, Error503Ends(r, e)
         PROVE AnswerInv'
    <3>1. /\ fallback[r] \in {"running", "pending"}
          /\ fallback' = [fallback EXCEPT ![r] = "settled"]
          /\ outcome' = [outcome EXCEPT ![r]["error503"] = e]
          /\ Post(r, "error503", e)
          /\ UNCHANGED <<stage, token, sent>>
      BY <2>10 DEF Error503Ends
    <3>2. tasks[r] = <<>> /\ sent[r] = <<>> /\ "error503" \in Functions
      BY <3>1 DEF RaceInv, Functions
    <3>3. /\ \A i \in DOMAIN tasks'[r] :
                /\ e # "other"
                /\ tasks'[r][i] = IF e = "value" THEN "error503" ELSE "unknown"
          /\ \A q \in Requests \ {r} : tasks'[q] = tasks[q]
      BY <3>1, <3>2, PostedSource
    <3>4. /\ outcome'[r]["error503"] = e
          /\ outcome'[r]["handler"] = outcome[r]["handler"]
          /\ outcome'[r]["error500"] = outcome[r]["error500"]
          /\ \A q \in Requests \ {r} : outcome'[q] = outcome[q] /\ fallback'[q] = fallback[q]
      BY <3>1 DEF TypeOK, Functions
    <3>5. DOMAIN sent[r] = {}
      BY <3>2
    <3>6. OutcomeInv'
      BY <3>1, <3>4
    <3>7. AnswerMatchesOutcomes'
      BY <3>1, <3>3, <3>4, <3>5 DEF Outcomes
    <3> QED
      BY <3>6, <3>7
  <2>11. ASSUME NEW r \in Requests, SendResponse(r) PROVE AnswerInv'
    <3>1. sent[r] = <<>>
      BY <2>11, AfterAnswer DEF SendResponse
    <3>2. /\ tasks[r] # <<>>
          /\ tasks' = [tasks EXCEPT ![r] = Tail(@)]
          /\ sent' = sent \/ sent' = [sent EXCEPT ![r] = Append(@, Head(tasks[r]))]
          /\ UNCHANGED <<stage, outcome, token, fallback>>
      BY <2>11 DEF SendResponse, futures
    <3>3. tasks[r] \in Seq(Sources) /\ Len(tasks[r]) <= 1
      BY <3>1 DEF RaceInv, TypeOK
    <3>4. DOMAIN Tail(tasks[r]) = {} /\ 1 \in DOMAIN tasks[r] /\ Head(tasks[r]) = tasks[r][1]
      BY <3>2, <3>3
    <3>5. sent'[r] = <<>> \/ sent'[r] = Append(sent[r], Head(tasks[r]))
      BY <3>1, <3>2 DEF TypeOK
    <3>6. \A i \in DOMAIN sent'[r] : sent'[r][i] = Head(tasks[r])
      BY <3>1, <3>2, <3>3, <3>5
    <3>7. \A q \in Requests \ {r} : tasks'[q] = tasks[q] /\ sent'[q] = sent[q]
      BY <3>2 DEF TypeOK
    <3>8. tasks'[r] = Tail(tasks[r])
      BY <3>2 DEF TypeOK
    <3>9. AnswerMatchesOutcomes'
      BY <3>2, <3>4, <3>6, <3>7, <3>8
    <3> QED
      BY <3>2, <3>9
  <2> QED
    BY <2>1, <2>2, <2>3, <2>4, <2>5, <2>6, <2>7, <2>8, <2>9, <2>10, <2>11
    DEF Next, Proxygen, Chain, Timeout, vars, futures
<1> QED
  BY <1>1, <1>2, TypeCorrect, RaceInvariant, StageInvariant, PTL DEF Spec

\* Every response, posted or written, agrees with how the user's functions
\* ended and with who won the race (HTTPHandler.cpp:75-85).
THEOREM AnswersJustified == Spec => []AnswerMatchesOutcomes
<1>1. AnswerInv => AnswerMatchesOutcomes
  BY DEF AnswerInv
<1> QED
  BY <1>1, AnswerInvariant, PTL

-----------------------------------------------------------------------------
(* Refinement: what clients see is RequestReply.                             *)

\* A step of one request leaves the phase of every other one alone.
LEMMA PhaseElsewhere ==
  ASSUME NEW q \in Requests, UNCHANGED <<object[q], sent[q], ingress[q]>>
  PROVE  Phase(q)' = Phase(q)
BY DEF Phase

\* HTTPHandler implements RequestReply: at most one reply, after the whole
\* request, and not from the handler once the timeout has won.
THEOREM Refinement == Spec => ImplementsRequestReply
<1> DEFINE ph == [q \in Requests |-> Phase(q)]
           rp == [q \in Requests |-> IF sent[q] = <<>> THEN "none" ELSE sent[q][1]]
           ex == [q \in Requests |-> token[q] = "timer"]
<1>1. ASSUME Init PROVE RR!Init
  <2>1. ph = [q \in Requests |-> "idle"]
    BY <1>1 DEF Init, Phase
  <2>2. rp = [q \in Requests |-> "none"]
    BY <1>1 DEF Init
  <2>3. \A q \in Requests : (token[q] = "timer") = FALSE
    BY <1>1 DEF Init
  <2>4. ex = [q \in Requests |-> FALSE]
    BY <2>3, Zenon
  <2> QED
    BY <2>1, <2>2, <2>4 DEF RR!Init
<1>2. TypeOK /\ RaceInv /\ StageInv /\ AnswerInv /\ [Next]_vars => [RR!Next]_(RR!vars)
  <2> SUFFICES ASSUME TypeOK, RaceInv, StageInv, AnswerInv, [Next]_vars
               PROVE  RR!Next \/ (ph' = ph /\ rp' = rp /\ ex' = ex)
    BY DEF RR!vars
  <2>1. CASE UNCHANGED <<object, sent, ingress, token>>
    BY <2>1 DEF Phase
  <2>2. ASSUME NEW r \in Requests, OnRequest(r) PROVE RR!Next
    <3>1. sent[r] = <<>>
      BY <2>2 DEF OnRequest, RaceInv, StageInv
    <3>2. /\ Phase(r) = "idle" /\ Phase(r)' = "reading"
          /\ \A q \in Requests \ {r} : Phase(q)' = Phase(q)
          /\ UNCHANGED <<sent, token>>
      BY <2>2, <3>1, PhaseElsewhere DEF OnRequest, futures, TypeOK, Phase
    <3>3. RR!Open(r)
      BY <3>2 DEF RR!Open
    <3> QED
      BY <3>3 DEF RR!Next
  <2>3. ASSUME NEW r \in Requests, OnEOM(r) PROVE RR!Next
    <3>1. sent[r] = <<>>
      BY <2>3 DEF OnEOM, RaceInv, StageInv
    <3>2. /\ Phase(r) = "reading" /\ Phase(r)' = "waiting"
          /\ \A q \in Requests \ {r} : Phase(q)' = Phase(q)
          /\ UNCHANGED <<sent, token>>
      BY <2>3, <3>1, PhaseElsewhere DEF OnEOM, TypeOK, Phase
    <3>3. RR!Submit(r)
      BY <3>2 DEF RR!Submit
    <3> QED
      BY <3>3 DEF RR!Next
  <2>4. ASSUME NEW r \in Requests, RequestComplete(r) PROVE RR!Next
    <3>1. /\ Phase(r) = "replied" /\ Phase(r)' = "closed"
          /\ \A q \in Requests \ {r} : Phase(q)' = Phase(q)
          /\ UNCHANGED <<sent, token>>
      BY <2>4, PhaseElsewhere DEF RequestComplete, Delete, client, futures, TypeOK, Phase
    <3>2. RR!Close(r)
      BY <3>1 DEF RR!Close
    <3> QED
      BY <3>2 DEF RR!Next
  <2>5. ASSUME NEW r \in Requests, OnError(r) PROVE RR!Next
    <3>1. /\ Phase(r) \in {"reading", "waiting", "replied"} /\ Phase(r)' = "closed"
          /\ \A q \in Requests \ {r} : Phase(q)' = Phase(q)
          /\ UNCHANGED <<sent, token>>
      BY <2>5, PhaseElsewhere DEF OnError, Delete, client, futures, TypeOK, Phase
    <3>2. RR!Abort(r)
      BY <3>1 DEF RR!Abort
    <3> QED
      BY <3>2 DEF RR!Next
  <2>6. ASSUME NEW r \in Requests,
               \/ OnBody(r)
               \/ BeginHandler(r)
               \/ HandlerPending(r)
               \/ \E e \in Ends : HandlerEnds(r, e)
               \/ HandleError(r)
               \/ Error500Pending(r)
               \/ Error503Pending(r)
               \/ \E e \in Outcomes : Error503Ends(r, e)
        PROVE  UNCHANGED <<object, sent, ingress, token>>
    BY <2>6
    DEF OnBody, BeginHandler, HandlerPending, HandlerEnds, HandleError, Error500Pending,
        Error503Pending, Error503Ends, client, futures
  <2>7. ASSUME NEW r \in Requests,
               PassResult(r) \/ \E e \in Outcomes : Error500Ends(r, e)
        PROVE  ph' = ph /\ rp' = rp /\ ex' = ex
    <3>1. UNCHANGED <<object, sent, ingress>>
      BY <2>7 DEF PassResult, Error500Ends, client
    <3>2. \/ UNCHANGED token
          \/ token[r] = "free" /\ token' = [token EXCEPT ![r] = "main"]
      BY <2>7 DEF PassResult, Error500Ends, Arrive
    <3>3. \A q \in Requests : (token'[q] = "timer") = (token[q] = "timer")
      BY <3>2 DEF TypeOK
    <3> QED
      BY <3>1, <3>3 DEF Phase
  <2>8. ASSUME NEW r \in Requests, TimeoutFires(r)
        PROVE  RR!Next \/ (ph' = ph /\ rp' = rp /\ ex' = ex)
    <3>1. UNCHANGED <<object, sent, ingress>>
      BY <2>8 DEF TimeoutFires, client
    <3>2. CASE token[r] # "free"
      BY <2>8, <3>1, <3>2 DEF TimeoutFires, Phase
    <3>3. CASE token[r] = "free"
      <4>1. sent[r] = <<>>
        BY <3>3 DEF RaceInv
      <4>2. ingress[r] = "eom"
        BY <2>8 DEF TimeoutFires, StageInv
      <4>3. Phase(r) \in {"waiting", "closed"}
        BY <4>1, <4>2 DEF Phase
      <4>4. /\ token'[r] = "timer"
            /\ \A q \in Requests \ {r} : token'[q] = token[q]
        BY <2>8, <3>3 DEF TimeoutFires, TypeOK
      <4>5. RR!Expire(r)
        BY <3>1, <4>1, <4>3, <4>4 DEF RR!Expire, Phase
      <4> QED
        BY <4>5 DEF RR!Next
    <3> QED
      BY <3>2, <3>3
  <2>9. ASSUME NEW r \in Requests, SendResponse(r)
        PROVE  RR!Next \/ (ph' = ph /\ rp' = rp /\ ex' = ex)
    <3>1. UNCHANGED <<object, ingress, token>>
      BY <2>9 DEF SendResponse, client, futures
    <3>2. CASE object[r] # "live"
      BY <2>9, <3>1, <3>2 DEF SendResponse, Phase
    <3>3. CASE object[r] = "live"
      <4> DEFINE s == Head(tasks[r])
      <4>1. tasks[r] # <<>> /\ sent[r] = <<>>
        BY <2>9, AfterAnswer DEF SendResponse
      <4>2. s \in Sources /\ 1 \in DOMAIN tasks[r] /\ s = tasks[r][1]
        BY <4>1 DEF TypeOK
      <4>3. ingress[r] = "eom"
        BY <4>1 DEF RaceInv, StageInv
      <4>4. /\ sent'[r] = Append(<<>>, s)
            /\ \A q \in Requests \ {r} : sent'[q] = sent[q]
        BY <2>9, <3>3, <4>1 DEF SendResponse, TypeOK
      <4>5. token[r] = "timer" => s \in {"error503", "unknown"}
        BY <4>2 DEF AnswerInv, AnswerMatchesOutcomes, Justified
      <4> HIDE DEF s
      <4>6. sent'[r] # <<>> /\ sent'[r][1] = s
        BY <4>2, <4>4
      <4>7. /\ Phase(r) = "waiting" /\ Phase(r)' = "replied"
            /\ \A q \in Requests \ {r} : Phase(q)' = Phase(q)
        BY <3>1, <3>3, <4>1, <4>3, <4>4, <4>6, PhaseElsewhere DEF Phase
      <4>8. PICK t \in RR!Replies : t = s
        BY <4>2 DEF RR!Replies, Sources, Functions
      <4>9. RR!Reply(r, t)
        BY <3>1, <4>4, <4>5, <4>6, <4>7, <4>8 DEF RR!Reply
      <4> QED
        BY <4>9 DEF RR!Next
    <3> QED
      BY <3>2, <3>3
  <2> QED
    BY <2>1, <2>2, <2>3, <2>4, <2>5, <2>6, <2>7, <2>8, <2>9
    DEF Next, Proxygen, Chain, Timeout, vars, client, futures
<1> QED
  BY <1>1, <1>2, TypeCorrect, RaceInvariant, StageInvariant, AnswerInvariant, PTL
  DEF Spec, ImplementsRequestReply, RR!Spec
=============================================================================
