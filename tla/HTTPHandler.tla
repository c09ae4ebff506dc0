----------------------------- MODULE HTTPHandler -----------------------------
(***************************************************************************)
(* HTTPHandler (src/src/HTTPHandler.cpp): the non-streaming handler of one *)
(* request, for several requests that share the IO thread pool, the thread *)
(* of the future timers and one event base.                                *)
(*                                                                         *)
(* Four kinds of threads step a request:                                   *)
(*   - the event base thread, in which proxygen calls onRequest, onBody,   *)
(*     onEOM and finally exactly one of requestComplete and onError, and   *)
(*     in which the continuation that calls sendResponse runs;             *)
(*   - the IO threads, which run the user's handler and the 500 handler;   *)
(*   - the timer thread, which runs the 503 handler when the timeout wins; *)
(*   - whatever thread completes a future that a user function returned.   *)
(*                                                                         *)
(* A C++ object that was deleted stays in the model as dead memory that    *)
(* still reads as before: `dangling` records who used it, and the          *)
(* properties about lifetimes speak of `dangling`.                         *)
(***************************************************************************)
EXTENDS Naturals, Sequences, FiniteSets

CONSTANTS Requests,     \* the requests, each with an HTTPHandler of its own
          IOThreads,    \* number of threads of the IO executor
          MaxChunks,    \* bound: body chunks a client sends
          ErrorRoutes,  \* status codes with a user-defined error handler
          Ends          \* how the user's functions may end

\* Ways in which a user function, or the future it returns, ends: with a
\* response, a std::exception, folly's TimedOut (a std::exception too), or
\* with something that is not a std::exception.
Outcomes == {"value", "std", "timedOut", "other"}

ASSUME HTTPHandlerAssumption ==
  /\ IOThreads \in Nat \ {0}
  /\ MaxChunks \in Nat
  /\ ErrorRoutes \subseteq {500, 503}
  /\ Ends \subseteq Outcomes

VARIABLES ingress,   \* what proxygen has delivered: nothing, headers, or all
          received,  \* number of body chunks delivered so far
          body,      \* body_, the chunks gathered by onBody
          request,   \* the body held by request_
          object,    \* the HTTPHandler: live, or deleted by which callback
          stage,     \* how far the handler -> 500 handler chain has got
          outcome,   \* how each of the user's functions ended
          timer,     \* the timer started by onTimeout
          token,     \* which side of the timeout race took its token
          fallback,  \* the 503 handler
          tasks,     \* responses posted to the event base, by their origin
          sent,      \* responses written by sendResponse, by their origin
          dangling   \* uses of the HTTPHandler after it was deleted

client  == <<ingress, received, body, request>>
futures == <<stage, outcome, timer, token, fallback>>
vars == <<client, object, futures, tasks, sent, dangling>>

Functions == {"handler", "error500", "error503"}
Sources   == Functions \cup {"unknown"}
Uses      == Functions \cup {"send"}

Stages == {"unset", "queued", "running", "pending", "resolved",
           "running500", "pending500", "settled"}

TypeOK ==
  /\ ingress \in [Requests -> {"none", "open", "eom"}]
  /\ received \in [Requests -> Nat]
  /\ body \in [Requests -> Seq(Nat)]
  /\ request \in [Requests -> Seq(Nat)]
  /\ object \in [Requests -> {"live", "completed", "aborted"}]
  /\ stage \in [Requests -> Stages]
  /\ outcome \in [Requests -> [Functions -> Outcomes \cup {"none"}]]
  /\ timer \in [Requests -> {"unset", "armed", "done"}]
  /\ token \in [Requests -> {"free", "main", "timer"}]
  /\ fallback \in [Requests -> {"unset", "running", "pending", "settled"}]
  /\ tasks \in [Requests -> Seq(Sources)]
  /\ sent \in [Requests -> Seq(Sources)]
  /\ dangling \in [Requests -> SUBSET Uses]

Init ==
  /\ ingress = [r \in Requests |-> "none"]
  /\ received = [r \in Requests |-> 0]
  /\ body = [r \in Requests |-> <<>>]
  /\ request = [r \in Requests |-> <<>>]
  /\ object = [r \in Requests |-> "live"]
  /\ stage = [r \in Requests |-> "unset"]
  /\ outcome = [r \in Requests |-> [f \in Functions |-> "none"]]
  /\ timer = [r \in Requests |-> "unset"]
  /\ token = [r \in Requests |-> "free"]
  /\ fallback = [r \in Requests |-> "unset"]
  /\ tasks = [r \in Requests |-> <<>>]
  /\ sent = [r \in Requests |-> <<>>]
  /\ dangling = [r \in Requests |-> {}]

-----------------------------------------------------------------------------
(* Helpers *)

\* An IO thread is occupied while a user function runs on it, not while the
\* future that the function returned is pending.
Occupied == {r \in Requests : stage[r] \in {"running", "running500"}}
IOThreadFree == Cardinality(Occupied) < IOThreads

\* The 503 handler of a request whose timeout won runs on the timer thread.
TimerThreadFree ==
  \A r \in Requests : ~(token[r] = "timer" /\ fallback[r] = "running")

\* Without a user-defined error handler, getErrorHandler returns a function
\* whose future already holds a response.
EndsOf(code) == IF code \in ErrorRoutes THEN Ends ELSE {"value"}

\* Code running on behalf of r dereferences the HTTPHandler (u says which
\* code): harmless while it lives, recorded once it is deleted.
Touch(r, u) ==
  dangling' = IF object[r] = "live" THEN dangling
              ELSE [dangling EXCEPT ![r] = @ \cup {u}]

\* The functions that are executing, and hold a reference to request_.
Executing(r) ==
  (IF stage[r] = "running" THEN {"handler"} ELSE {})
    \cup (IF stage[r] = "running500" THEN {"error500"} ELSE {})
    \cup (IF fallback[r] = "running" THEN {"error503"} ELSE {})

\* `delete this`, seen by every function still executing.
Delete(r, by) ==
  /\ object' = [object EXCEPT ![r] = by]
  /\ dangling' = [dangling EXCEPT ![r] = @ \cup Executing(r)]

\* Mutant: the last onError is missing and what was thrown is posted on.
Post_Raw(r, source, e) ==
  tasks' = [tasks EXCEPT ![r] = Append(@, IF e = "value" THEN source ELSE e)]

\* Mutant: the last onError is missing and an exception posts nothing.
Post_NoOnError(r, source, e) ==
  tasks' = IF e = "value" THEN [tasks EXCEPT ![r] = Append(@, source)] ELSE tasks

\* The end of the chain: a std::exception becomes the response "Unknown
\* error", and a response is posted to the event base. Anything else that was
\* thrown skips every continuation, the posting included.
Post(r, source, e) ==
  tasks' = IF e = "other" THEN tasks
           ELSE [tasks EXCEPT ![r] =
                   Append(@, IF e = "value" THEN source ELSE "unknown")]

\* router_->getErrorHandler(503)(*request_) starts.
StartFallback(r) ==
  /\ fallback' = [fallback EXCEPT ![r] = "running"]
  /\ Touch(r, "error503")

\* The handler's side of the timeout race gets a result e, computed by
\* `source`. The first side to come takes the token; the other is ignored.
\* A TimedOut thrown by user code looks like the timeout itself.
Arrive(r, source, e) ==
  \/ /\ token[r] # "free"
     /\ UNCHANGED <<token, fallback, tasks, dangling>>
  \/ /\ token[r] = "free"
     /\ token' = [token EXCEPT ![r] = "main"]
     /\ \/ /\ e = "timedOut"
           /\ StartFallback(r)
           /\ UNCHANGED tasks
        \/ /\ e # "timedOut"
           /\ Post(r, source, e)
           /\ UNCHANGED <<fallback, dangling>>

-----------------------------------------------------------------------------
(* proxygen's callbacks, in the event base thread *)

OnRequest(r) ==
  /\ object[r] = "live"
  /\ ingress[r] = "none"
  /\ ingress' = [ingress EXCEPT ![r] = "open"]
  /\ UNCHANGED <<received, body, request, object, futures, tasks, sent, dangling>>

\* Mutant: the chunk is put before the chain instead of after it.
OnBody_Front(r) ==
  /\ object[r] = "live"
  /\ ingress[r] = "open"
  /\ received[r] < MaxChunks
  /\ received' = [received EXCEPT ![r] = @ + 1]
  /\ body' = [body EXCEPT ![r] = <<received[r] + 1>> \o @]
  /\ UNCHANGED <<ingress, request, object, futures, tasks, sent, dangling>>

\* Chunk number n arrives: IOBuf::prependChain on the head of a circular chain
\* adds at its end.
OnBody(r) ==
  /\ object[r] = "live"
  /\ ingress[r] = "open"
  /\ received[r] < MaxChunks
  /\ received' = [received EXCEPT ![r] = @ + 1]
  /\ body' = [body EXCEPT ![r] = Append(@, received[r] + 1)]
  /\ UNCHANGED <<ingress, request, object, futures, tasks, sent, dangling>>

\* The request is complete: queue the handler on the IO executor, chain the
\* continuations, start the timer.
OnEOM(r) ==
  /\ object[r] = "live"
  /\ ingress[r] = "open"
  /\ ingress' = [ingress EXCEPT ![r] = "eom"]
  /\ request' = [request EXCEPT ![r] = body[r]]
  /\ body' = [body EXCEPT ![r] = <<>>]
  /\ stage' = [stage EXCEPT ![r] = "queued"]
  /\ timer' = [timer EXCEPT ![r] = "armed"]
  /\ UNCHANGED <<received, object, outcome, token, fallback, tasks, sent, dangling>>

\* proxygen has written the whole response.
RequestComplete(r) ==
  /\ object[r] = "live"
  /\ ingress[r] = "eom"
  /\ sent[r] # <<>>
  /\ Delete(r, "completed")
  /\ UNCHANGED <<client, futures, tasks, sent>>

\* The client is gone, or the exchange failed in some other way.
OnError(r) ==
  /\ object[r] = "live"
  /\ ingress[r] # "none"
  /\ Delete(r, "aborted")
  /\ UNCHANGED <<client, futures, tasks, sent>>

-----------------------------------------------------------------------------
(* The handler and the 500 handler, on the IO threads *)

BeginHandler(r) ==
  /\ stage[r] = "queued"
  /\ IOThreadFree
  /\ stage' = [stage EXCEPT ![r] = "running"]
  /\ Touch(r, "handler")
  /\ UNCHANGED <<client, object, outcome, timer, token, fallback, tasks, sent>>

\* handler_ returned a future that is not ready.
HandlerPending(r) ==
  /\ stage[r] = "running"
  /\ stage' = [stage EXCEPT ![r] = "pending"]
  /\ UNCHANGED <<client, object, outcome, timer, token, fallback, tasks, sent, dangling>>

\* handler_ threw, or its future is ready; the continuation is handed to the
\* IO executor.
HandlerEnds(r, e) ==
  /\ stage[r] \in {"running", "pending"}
  /\ stage' = [stage EXCEPT ![r] = "resolved"]
  /\ outcome' = [outcome EXCEPT ![r]["handler"] = e]
  /\ UNCHANGED <<client, object, timer, token, fallback, tasks, sent, dangling>>

\* The first onError does not apply: there is a response, or what was thrown
\* is not a std::exception.
PassResult(r) ==
  /\ stage[r] = "resolved"
  /\ IOThreadFree
  /\ outcome[r]["handler"] \in {"value", "other"}
  /\ stage' = [stage EXCEPT ![r] = "settled"]
  /\ Arrive(r, "handler", outcome[r]["handler"])
  /\ UNCHANGED <<client, object, outcome, timer, sent>>

\* Mutant: the error is passed on while the 500 handler still runs.
HandleError_Early(r) ==
  /\ stage[r] = "resolved"
  /\ IOThreadFree
  /\ outcome[r]["handler"] \in {"std", "timedOut"}
  /\ stage' = [stage EXCEPT ![r] = "running500"]
  /\ token' = [token EXCEPT ![r] = "main"]
  /\ IF token[r] = "free" THEN Post(r, "unknown", "value") ELSE UNCHANGED tasks
  /\ Touch(r, "error500")
  /\ UNCHANGED <<client, object, outcome, timer, fallback, sent>>

\* The first onError calls router_->getErrorHandler(500)(*request_).
HandleError(r) ==
  /\ stage[r] = "resolved"
  /\ IOThreadFree
  /\ outcome[r]["handler"] \in {"std", "timedOut"}
  /\ stage' = [stage EXCEPT ![r] = "running500"]
  /\ Touch(r, "error500")
  /\ UNCHANGED <<client, object, outcome, timer, token, fallback, tasks, sent>>

Error500Pending(r) ==
  /\ 500 \in ErrorRoutes
  /\ stage[r] = "running500"
  /\ stage' = [stage EXCEPT ![r] = "pending500"]
  /\ UNCHANGED <<client, object, outcome, timer, token, fallback, tasks, sent, dangling>>

Error500Ends(r, e) ==
  /\ stage[r] \in {"running500", "pending500"}
  /\ e \in EndsOf(500)
  /\ stage' = [stage EXCEPT ![r] = "settled"]
  /\ outcome' = [outcome EXCEPT ![r]["error500"] = e]
  /\ Arrive(r, "error500", e)
  /\ UNCHANGED <<client, object, timer, sent>>

-----------------------------------------------------------------------------
(* The timeout and the 503 handler *)

\* Mutant: the timer only counts once the handler has been started.
TimeoutFires_AfterStart(r) ==
  /\ timer[r] = "armed"
  /\ stage[r] # "queued"
  /\ TimerThreadFree
  /\ timer' = [timer EXCEPT ![r] = "done"]
  /\ \/ /\ token[r] # "free"
        /\ UNCHANGED <<token, fallback, dangling>>
     \/ /\ token[r] = "free"
        /\ token' = [token EXCEPT ![r] = "timer"]
        /\ StartFallback(r)
  /\ UNCHANGED <<client, object, stage, outcome, tasks, sent>>

\* Mutant: the timer does not ask whether a result came first.
TimeoutFires_NoToken(r) ==
  /\ timer[r] = "armed"
  /\ TimerThreadFree
  /\ timer' = [timer EXCEPT ![r] = "done"]
  /\ token' = [token EXCEPT ![r] = "timer"]
  /\ StartFallback(r)
  /\ UNCHANGED <<client, object, stage, outcome, tasks, sent>>

\* The timer fires: if no result came first, the 503 handler is called. The
\* handler is not stopped.
TimeoutFires(r) ==
  /\ timer[r] = "armed"
  /\ TimerThreadFree
  /\ timer' = [timer EXCEPT ![r] = "done"]
  /\ \/ /\ token[r] # "free"
        /\ UNCHANGED <<token, fallback, dangling>>
     \/ /\ token[r] = "free"
        /\ token' = [token EXCEPT ![r] = "timer"]
        /\ StartFallback(r)
  /\ UNCHANGED <<client, object, stage, outcome, tasks, sent>>

Error503Pending(r) ==
  /\ 503 \in ErrorRoutes
  /\ fallback[r] = "running"
  /\ fallback' = [fallback EXCEPT ![r] = "pending"]
  /\ UNCHANGED <<client, object, stage, outcome, timer, token, tasks, sent, dangling>>

\* Mutant: an exception of the 503 handler is swallowed and its (absent)
\* response taken for good.
Error503Ends_Unchecked(r, e) ==
  /\ fallback[r] \in {"running", "pending"}
  /\ e \in EndsOf(503)
  /\ fallback' = [fallback EXCEPT ![r] = "settled"]
  /\ outcome' = [outcome EXCEPT ![r]["error503"] = e]
  /\ tasks' = [tasks EXCEPT ![r] = Append(@, "error503")]
  /\ UNCHANGED <<client, object, stage, timer, token, sent, dangling>>

Error503Ends(r, e) ==
  /\ fallback[r] \in {"running", "pending"}
  /\ e \in EndsOf(503)
  /\ fallback' = [fallback EXCEPT ![r] = "settled"]
  /\ outcome' = [outcome EXCEPT ![r]["error503"] = e]
  /\ Post(r, "error503", e)
  /\ UNCHANGED <<client, object, stage, timer, token, sent, dangling>>

-----------------------------------------------------------------------------
(* The response, back in the event base thread *)

\* sendResponse writes to downstream_: to the client if the HTTPHandler still
\* exists, through a freed object otherwise.
SendResponse(r) ==
  /\ tasks[r] # <<>>
  /\ tasks' = [tasks EXCEPT ![r] = Tail(@)]
  /\ sent' = IF object[r] = "live"
             THEN [sent EXCEPT ![r] = Append(@, Head(tasks[r]))]
             ELSE sent
  /\ Touch(r, "send")
  /\ UNCHANGED <<client, object, futures>>

-----------------------------------------------------------------------------

Proxygen(r) ==
  \/ OnRequest(r)
  \/ OnBody(r)
  \/ OnEOM(r)
  \/ RequestComplete(r)
  \/ OnError(r)

Chain(r) ==
  \/ BeginHandler(r)
  \/ HandlerPending(r)
  \/ \E e \in Ends : HandlerEnds(r, e)
  \/ PassResult(r)
  \/ HandleError(r)
  \/ Error500Pending(r)
  \/ \E e \in Outcomes : Error500Ends(r, e)

Timeout(r) ==
  \/ TimeoutFires(r)
  \/ Error503Pending(r)
  \/ \E e \in Outcomes : Error503Ends(r, e)

Next == \E r \in Requests : Proxygen(r) \/ Chain(r) \/ Timeout(r) \/ SendResponse(r)

Spec == Init /\ [][Next]_vars

\* The event base runs what was posted to it, the timer fires, and a 503
\* handler that has been called ends. Nothing is assumed of the IO threads,
\* of the user's handler or of the 500 handler: they may hang for ever.
Fairness ==
  \A r \in Requests :
    /\ WF_vars(TimeoutFires(r))
    /\ WF_vars(\E e \in Outcomes : Error503Ends(r, e))
    /\ WF_vars(SendResponse(r))

FairSpec == Spec /\ Fairness

-----------------------------------------------------------------------------
(* Properties *)

\* onEOM chains two sides that can both end with a response: at most one
\* response is ever written or on its way (HTTPHandler.cpp:75-88).
AtMostOneAnswer ==
  \A r \in Requests : Len(tasks[r]) + Len(sent[r]) <= 1

\* Whoever runs sees the chunks of onBody once each and in order
\* (HTTPHandler.cpp:55-57 and 64), and the body is still empty afterwards.
WholeBody ==
  \A r \in Requests :
    ingress[r] = "eom" => /\ request[r] = [i \in 1..received[r] |-> i]
                          /\ body[r] = <<>>

\* What must have happened for r to be answered by s.
Justified(r, s) ==
  LET o == outcome[r]
      in503 == token[r] = "timer" \/ o["error500"] = "timedOut"
  IN  \/ s = "handler" /\ token[r] = "main" /\ o["handler"] = "value"
      \/ /\ s = "error500"
         /\ token[r] = "main"
         /\ o["handler"] \in {"std", "timedOut"}
         /\ o["error500"] = "value"
      \/ s = "error503" /\ in503 /\ o["error503"] = "value"
      \/ s = "unknown" /\ token[r] = "main" /\ o["error500"] = "std"
      \/ s = "unknown" /\ in503 /\ o["error503"] \in {"std", "timedOut"}

\* What a response says agrees with how the user's functions ended and with
\* who won the race: no response of the handler after the timeout has won, no
\* response of a function that failed, "Unknown error" only when an error
\* handler failed (HTTPHandler.cpp:75-85).
AnswerMatchesOutcomes ==
  \A r \in Requests :
    /\ \A i \in DOMAIN tasks[r] : Justified(r, tasks[r][i])
    /\ \A i \in DOMAIN sent[r] : Justified(r, sent[r][i])

\* A deleted HTTPHandler is used only in two situations: the client went away
\* (onError), or the timeout won and its response went out while the handler
\* or the 500 handler was still to run or running (HTTPHandler.cpp:91-102). A
\* request whose response came from the handler's side is clean.
DanglingExplained ==
  \A r \in Requests :
    dangling[r] # {} =>
      \/ object[r] = "aborted"
      \/ /\ object[r] = "completed"
         /\ token[r] = "timer"
         /\ dangling[r] \subseteq {"handler", "error500"}

\* When both sides of the race are through and no response exists, something
\* that is not a std::exception was thrown (HTTPHandler.cpp:83 catches only
\* std::exception), or the client had gone before the response could be sent.
SilentOnlyAfterForeignException ==
  \A r \in Requests :
    (/\ token[r] # "free"
     /\ fallback[r] \in {"unset", "settled"}
     /\ tasks[r] = <<>>
     /\ sent[r] = <<>>)
    => \/ object[r] = "aborted"
       \/ \E f \in Functions : outcome[r][f] = "other"

\* Refinement: what clients observe is RequestReply. The exchange is closed
\* once the object is gone, and has its reply once sendResponse has run.
Phase(r) ==
  IF object[r] # "live" THEN "closed"
  ELSE IF sent[r] # <<>> THEN "replied"
  ELSE IF ingress[r] = "eom" THEN "waiting"
  ELSE IF ingress[r] = "open" THEN "reading"
  ELSE "idle"

RR == INSTANCE RequestReply WITH
        phase <- [r \in Requests |-> Phase(r)],
        reply <- [r \in Requests |-> IF sent[r] = <<>> THEN "none" ELSE sent[r][1]],
        expired <- [r \in Requests |-> token[r] = "timer"]

\* The handler implements the exchange that RequestReply describes: one reply,
\* after the whole request, never the handler's once the timeout has won.
ImplementsRequestReply == RR!Spec

\* Every request that was read completely is answered, or its client goes
\* away, although the IO threads may be exhausted and the handler or the 500
\* handler may never end (HTTPHandler.cpp:79-82). Holds where user functions
\* only throw std::exceptions and the 503 handler ends.
EventuallyAnswered ==
  \A r \in Requests :
    ingress[r] = "eom" ~> (sent[r] # <<>> \/ object[r] = "aborted")

\* The comment at HTTPHandler.cpp:92-94: requestComplete comes after the
\* response, "so deleting here is fine".
NoUseAfterComplete ==
  \A r \in Requests : object[r] = "completed" => dangling[r] = {}

\* The comment at HTTPHandler.cpp:99-100: after onError "no other callbacks
\* will be run, so it's safe to delete here".
NoUseAfterError ==
  \A r \in Requests : object[r] = "aborted" => dangling[r] = {}
=============================================================================
