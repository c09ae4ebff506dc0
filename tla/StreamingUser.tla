--------------------------- MODULE StreamingUser ---------------------------
(***************************************************************************)
(* Any subclass of StreamingHTTPHandler that keeps to the documented order *)
(* of calls (StreamingHTTPHandler.h:71-90): sendResponseHeaders, then      *)
(* sendBody any number of times, then sendEOF, all from one thread: the    *)
(* event base thread, inside a callback, or another thread of its own, at  *)
(* any moment.                                                             *)
(***************************************************************************)
EXTENDS StreamingHTTPHandler

CONSTANTS Callers,   \* threads in which a subclass may be written to call
          MaxBodies  \* bound: calls of sendBody

ASSUME StreamingUserAssumption ==
  /\ Callers \subseteq Threads
  /\ MaxBodies \in Nat

VARIABLES caller,  \* the thread in which this subclass calls
          phase,   \* how far the subclass has got
          bodies   \* calls of sendBody so far

user == <<caller, phase, bodies>>
vars == <<baseVars, user>>

TypeOK ==
  /\ BaseTypeOK
  /\ caller \in Callers
  /\ phase \in {"silent", "streaming", "finished"}
  /\ bodies \in Nat

Init ==
  /\ BaseInit
  /\ caller \in Callers
  /\ phase = "silent"
  /\ bodies = 0

\* The event base thread runs code of the subclass only inside a callback of
\* proxygen, and there are none after the final one.
MayCall ==
  /\ ingress # "none"
  /\ caller = "evb" => ended = "no"

SendResponseHeaders ==
  /\ MayCall
  /\ phase = "silent"
  /\ phase' = "streaming"
  /\ Send(caller, Headers(200))
  /\ UNCHANGED <<caller, bodies>>

\* Mutant: the position of a piece is off by one.
SendBody_OffByOne(length) ==
  /\ MayCall
  /\ phase = "streaming"
  /\ bodies < MaxBodies
  /\ bodies' = bodies + 1
  /\ Send(caller, Body([first |-> bodies - 1, bytes |-> length, garbage |-> 0]))
  /\ UNCHANGED <<caller, phase>>

SendBody(length) ==
  /\ MayCall
  /\ phase = "streaming"
  /\ bodies < MaxBodies
  /\ bodies' = bodies + 1
  /\ Send(caller, Body([first |-> bodies, bytes |-> length, garbage |-> 0]))
  /\ UNCHANGED <<caller, phase>>

SendEOF ==
  /\ MayCall
  /\ phase = "streaming"
  /\ phase' = "finished"
  /\ Send(caller, Eof)
  /\ UNCHANGED <<caller, bodies>>

\* onEOM is the subclass's own.
OnEOM ==
  /\ ingress = "open"
  /\ ended = "no"
  /\ ingress' = "eom"
  /\ UNCHANGED <<ended, object, sentHeaders, loopQ, notifQ, calls, wire, dchecks,
                 dangling, user>>

Subclass ==
  \/ SendResponseHeaders
  \/ \E length \in {0, 1} : SendBody(length)
  \/ SendEOF

Base == OnRequest \/ OnError \/ RequestComplete \/ EventBase

Next ==
  \/ Subclass
  \/ OnEOM
  \/ Base /\ UNCHANGED user

Spec == Init /\ [][Next]_vars

\* The event base runs what is queued.
FairSpec == Spec /\ WF_vars(RunLoopCallback /\ UNCHANGED user)
                 /\ WF_vars(RunNotification /\ UNCHANGED user)

-----------------------------------------------------------------------------

\* A subclass that calls from the event base thread never meets its own
\* deletion, not even after onError: the delete is queued behind everything it
\* sent (StreamingHTTPHandler-inl.h:28 and 38).
EventBaseNeverDangles == caller = "evb" => dangling = {}

\* A response that the subclass has finished is written to its end, or the
\* client goes away (StreamingHTTPHandler-inl.h:77-83).
FinishedIsWritten ==
  phase = "finished" ~>
    (ended = "error" \/ \E i \in DOMAIN wire : wire[i].op = "eof")
=============================================================================
