------------------------ MODULE StreamingHTTPHandler ------------------------
(***************************************************************************)
(* StreamingHTTPHandler (src/src/StreamingHTTPHandler.h and -inl.h): the   *)
(* base class of the handlers that stream. One object, its event base, the *)
(* calls of the subclass and the callbacks of proxygen. This module holds  *)
(* the state and the operations; StreamingUser and StreamingFileHandler    *)
(* are the subclasses that call them.                                      *)
(*                                                                         *)
(* runInEventBaseThread queues a function for the event base thread: among *)
(* the loop callbacks when called in that thread, on the notification      *)
(* queue when called from another. Each is first-in first-out; nothing     *)
(* orders one against the other.                                           *)
(***************************************************************************)
EXTENDS Naturals, Sequences

VARIABLES ingress,      \* what proxygen has delivered: nothing, headers, or all
          ended,        \* which final callback proxygen has made
          object,       \* the handler object
          sentHeaders,  \* sentHeaders_
          loopQ,        \* functions queued by the event base thread
          notifQ,       \* functions queued by other threads
          calls,        \* what the subclass asked to send, in order of call
          wire,         \* what responseBuilder_ has sent
          dchecks,      \* whether every DCHECK of the send functions held
          dangling      \* uses of the object after it was deleted

proxygen == <<ingress, ended>>
baseVars == <<proxygen, object, sentHeaders, loopQ, notifQ, calls, wire,
              dchecks, dangling>>

Threads == {"evb", "other"}

\* A piece of body: `bytes` bytes of the source from position `first` on,
\* followed by `garbage` bytes that nobody wrote.
Piece == [first : Nat, bytes : Nat, garbage : Nat]
NoPiece == [first |-> 0, bytes |-> 0, garbage |-> 0]

Tasks == [op : {"headers", "body", "eof", "delete"}, code : Nat, piece : Piece]

Headers(code) == [op |-> "headers", code |-> code, piece |-> NoPiece]
Body(piece) == [op |-> "body", code |-> 0, piece |-> piece]
Eof == [op |-> "eof", code |-> 0, piece |-> NoPiece]
Delete == [op |-> "delete", code |-> 0, piece |-> NoPiece]

BaseTypeOK ==
  /\ ingress \in {"none", "open", "eom"}
  /\ ended \in {"no", "complete", "error"}
  /\ object \in {"live", "deleted"}
  /\ sentHeaders \in BOOLEAN
  /\ loopQ \in Seq(Tasks)
  /\ notifQ \in Seq(Tasks)
  /\ calls \in Seq(Tasks)
  /\ wire \in Seq(Tasks)
  /\ dchecks \in BOOLEAN
  /\ dangling \in SUBSET {"call", "headers", "body", "eof"}

BaseInit ==
  /\ ingress = "none"
  /\ ended = "no"
  /\ object = "live"
  /\ sentHeaders = FALSE
  /\ loopQ = <<>>
  /\ notifQ = <<>>
  /\ calls = <<>>
  /\ wire = <<>>
  /\ dchecks = TRUE
  /\ dangling = {}

-----------------------------------------------------------------------------
(* Calls of the subclass *)

\* The calling thread t queues the functions ts.
RunInEventBaseThread(t, ts) ==
  IF t = "evb"
  THEN loopQ' = loopQ \o ts /\ UNCHANGED notifQ
  ELSE notifQ' = notifQ \o ts /\ UNCHANGED loopQ

\* Mutant: the early return is taken by every send function without data.
Empty_AnyTask(task) == task.piece.bytes + task.piece.garbage = 0

\* sendBody returns early for a buffer of length 0.
Empty(task) ==
  task.op = "body" /\ task.piece.bytes + task.piece.garbage = 0

\* Code of the subclass uses the handler.
Touch == dangling' = IF object = "live" THEN dangling ELSE dangling \cup {"call"}

\* The DCHECKs: no headers before headers, headers before anything else.
DcheckHolds(task) == (task.op = "headers") # sentHeaders

\* Mutant: sendEOF ends the response at once instead of in the event loop.
Send_EofAtOnce(t, task) ==
  LET queued == IF Empty(task) THEN <<>> ELSE <<task>>
  IN  /\ RunInEventBaseThread(t, IF task.op = "eof" THEN <<>> ELSE queued)
      /\ wire' = IF task.op = "eof" THEN Append(wire, task) ELSE wire
      /\ calls' = calls \o queued
      /\ sentHeaders' = (sentHeaders \/ task.op = "headers")
      /\ dchecks' = (dchecks /\ DcheckHolds(task))
      /\ Touch
      /\ UNCHANGED <<proxygen, object>>

\* The subclass calls sendResponseHeaders, sendBody or sendEOF in thread t,
\* as task says.
Send(t, task) ==
  LET queued == IF Empty(task) THEN <<>> ELSE <<task>>
  IN  /\ RunInEventBaseThread(t, queued)
      /\ calls' = calls \o queued
      /\ sentHeaders' = (sentHeaders \/ task.op = "headers")
      /\ dchecks' = (dchecks /\ DcheckHolds(task))
      /\ Touch
      /\ UNCHANGED <<proxygen, object, wire>>

-----------------------------------------------------------------------------
(* Callbacks of proxygen, in the event base thread *)

\* The subclass sees onRequestReceived.
OnRequest ==
  /\ ingress = "none"
  /\ ended = "no"
  /\ ingress' = "open"
  /\ UNCHANGED <<ended, object, sentHeaders, loopQ, notifQ, calls, wire,
                 dchecks, dangling>>

\* Mutant: deletes at once instead of in the event loop.
OnError_Now ==
  /\ ended = "no"
  /\ ingress # "none"
  /\ ended' = "error"
  /\ object' = "deleted"
  /\ UNCHANGED <<ingress, sentHeaders, loopQ, notifQ, calls, wire, dchecks, dangling>>

\* onError and requestComplete, after telling the subclass, queue `delete this`
\* (they run in the event base thread, so among the loop callbacks).
OnError ==
  /\ ended = "no"
  /\ ingress # "none"
  /\ ended' = "error"
  /\ RunInEventBaseThread("evb", <<Delete>>)
  /\ UNCHANGED <<ingress, object, sentHeaders, calls, wire, dchecks, dangling>>

\* Mutant: proxygen's condition for completion is taken to be that the
\* subclass has called sendEOF.
RequestComplete_Early ==
  /\ ended = "no"
  /\ ingress = "eom"
  /\ \E i \in DOMAIN calls : calls[i].op = "eof"
  /\ ended' = "complete"
  /\ RunInEventBaseThread("evb", <<Delete>>)
  /\ UNCHANGED <<ingress, object, sentHeaders, calls, wire, dchecks, dangling>>

RequestComplete ==
  /\ ended = "no"
  /\ ingress = "eom"
  /\ \E i \in DOMAIN wire : wire[i].op = "eof"
  /\ ended' = "complete"
  /\ RunInEventBaseThread("evb", <<Delete>>)
  /\ UNCHANGED <<ingress, object, sentHeaders, calls, wire, dchecks, dangling>>

-----------------------------------------------------------------------------
(* The event base thread runs what was queued *)

\* A function queued by send... uses responseBuilder_: a write if the exchange
\* still stands, nothing visible after onError, a use of freed memory once the
\* object is gone.
Run(task) ==
  /\ object' = IF task.op = "delete" THEN "deleted" ELSE object
  /\ wire' = IF task.op # "delete" /\ object = "live" /\ ended = "no"
             THEN Append(wire, task) ELSE wire
  /\ dangling' = IF task.op # "delete" /\ object = "deleted"
                 THEN dangling \cup {task.op} ELSE dangling
  /\ UNCHANGED <<proxygen, sentHeaders, calls, dchecks>>

RunLoopCallback ==
  /\ loopQ # <<>>
  /\ loopQ' = Tail(loopQ)
  /\ Run(Head(loopQ))
  /\ UNCHANGED notifQ

RunNotification ==
  /\ notifQ # <<>>
  /\ notifQ' = Tail(notifQ)
  /\ Run(Head(notifQ))
  /\ UNCHANGED loopQ

EventBase == RunLoopCallback \/ RunNotification

-----------------------------------------------------------------------------
(* Properties that hold of any subclass that keeps to one thread *)

IsPrefixOf(s, t) == Len(s) <= Len(t) /\ s = SubSeq(t, 1, Len(s))

\* What went out is what the subclass sent, in the order in which it called:
\* nothing is overtaken, repeated or dropped while the exchange stands
\* (StreamingHTTPHandler-inl.h:41-83).
WireFollowsCalls ==
  /\ IsPrefixOf(wire, calls)
  /\ ended = "no" => calls = wire \o loopQ \o notifQ

\* A deleted handler is used only if the client went away: after the end of a
\* response nothing can be left (StreamingHTTPHandler-inl.h:22-39).
DanglingOnlyAfterError == dangling # {} => ended = "error"
=============================================================================
