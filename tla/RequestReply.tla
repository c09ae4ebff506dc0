---------------------------- MODULE RequestReply ----------------------------
(***************************************************************************)
(* What an HTTP handler promises to each client, without threads, futures  *)
(* or timers: once the whole request has been read, at most one reply goes *)
(* out; after the timeout has been taken to have won, only the 503 handler *)
(* (or the last-resort reply) may answer; an exchange closes after its     *)
(* reply, or at any moment because the client went away.                   *)
(***************************************************************************)
CONSTANT Requests

VARIABLES phase,    \* where the exchange of a request stands
          reply,    \* the reply put on the wire, or "none"
          expired   \* whether the timeout has won

vars == <<phase, reply, expired>>

Replies == {"handler", "error500", "error503", "unknown"}

TypeOK ==
  /\ phase \in [Requests -> {"idle", "reading", "waiting", "replied", "closed"}]
  /\ reply \in [Requests -> Replies \cup {"none"}]
  /\ expired \in [Requests -> BOOLEAN]

Init ==
  /\ phase = [r \in Requests |-> "idle"]
  /\ reply = [r \in Requests |-> "none"]
  /\ expired = [r \in Requests |-> FALSE]

Open(r) ==
  /\ phase[r] = "idle"
  /\ phase' = [phase EXCEPT ![r] = "reading"]
  /\ UNCHANGED <<reply, expired>>

Submit(r) ==
  /\ phase[r] = "reading"
  /\ phase' = [phase EXCEPT ![r] = "waiting"]
  /\ UNCHANGED <<reply, expired>>

\* The timer keeps running after the client has gone, so the timeout may win
\* in a closed exchange too, provided nothing was replied.
Expire(r) ==
  /\ phase[r] \in {"waiting", "closed"}
  /\ reply[r] = "none"
  /\ expired' = [expired EXCEPT ![r] = TRUE]
  /\ UNCHANGED <<phase, reply>>

Reply(r, s) ==
  /\ phase[r] = "waiting"
  /\ expired[r] => s \in {"error503", "unknown"}
  /\ phase' = [phase EXCEPT ![r] = "replied"]
  /\ reply' = [reply EXCEPT ![r] = s]
  /\ UNCHANGED expired

Close(r) ==
  /\ phase[r] = "replied"
  /\ phase' = [phase EXCEPT ![r] = "closed"]
  /\ UNCHANGED <<reply, expired>>

Abort(r) ==
  /\ phase[r] \in {"reading", "waiting", "replied"}
  /\ phase' = [phase EXCEPT ![r] = "closed"]
  /\ UNCHANGED <<reply, expired>>

Next ==
  \E r \in Requests :
    \/ Open(r)
    \/ Submit(r)
    \/ Expire(r)
    \/ \E s \in Replies : Reply(r, s)
    \/ Close(r)
    \/ Abort(r)

Spec == Init /\ [][Next]_vars
=============================================================================
