------------------------- MODULE StreamingUserProofs -------------------------
(***************************************************************************)
(* Theorems about StreamingUser, for any number of calls of sendBody and   *)
(* either thread.                                                          *)
(***************************************************************************)
EXTENDS StreamingUser, StreamingHTTPHandlerProofs

\* What the subclass asks for can be queued.
LEMMA TasksOfUser ==
  /\ Headers(200) \in Tasks /\ Headers(200).op = "headers"
  /\ Eof \in Tasks /\ Eof.op = "eof"
  /\ \A first \in Nat, bytes \in Nat :
       LET task == Body([first |-> first, bytes |-> bytes, garbage |-> 0])
       IN  task \in Tasks /\ task.op = "body"
BY DEF Headers, Body, Eof, Tasks, Piece, NoPiece

\* A step of the subclass is one call, from the thread it calls in.
LEMMA Calls ==
  ASSUME TypeOK, Subclass
  PROVE  /\ caller \in Threads /\ caller' = caller
         /\ MayCall
         /\ phase # "finished"
         /\ \E task \in Tasks : /\ task.op # "delete"
                                /\ Send(caller, task)
                                /\ task.op = "eof" => phase' = "finished"
         /\ phase' \in {"silent", "streaming", "finished"}
         /\ bodies' \in Nat
<1>1. caller \in Threads /\ bodies \in Nat
  BY StreamingUserAssumption DEF TypeOK
<1>2. CASE SendResponseHeaders
  BY <1>1, <1>2, TasksOfUser DEF SendResponseHeaders
<1>3. ASSUME NEW length \in {0, 1}, SendBody(length)
      PROVE  /\ caller' = caller /\ MayCall
             /\ phase # "finished" /\ phase' = phase /\ phase = "streaming"
             /\ bodies' \in Nat
             /\ \E task \in Tasks : task.op = "body" /\ Send(caller, task)
  BY <1>1, <1>3, TasksOfUser DEF SendBody
<1>4. CASE SendEOF
  BY <1>1, <1>4, TasksOfUser DEF SendEOF
<1> QED
  BY <1>1, <1>2, <1>3, <1>4 DEF Subclass

\* Every variable keeps its type (StreamingHTTPHandler-inl.h:7-83).
THEOREM UserTypeCorrect == Spec => []TypeOK
<1>1. Init => TypeOK
  <2>1. BaseInit => BaseTypeOK
    BY Empties DEF BaseInit, BaseTypeOK
  <2> QED
    BY <2>1 DEF Init, TypeOK
<1>2. TypeOK /\ [Next]_vars => TypeOK'
  <2> SUFFICES ASSUME TypeOK, [Next]_vars PROVE TypeOK'
    OBVIOUS
  <2>1. CASE UNCHANGED vars
    BY <2>1 DEF vars, user, baseVars, proxygen, TypeOK, BaseTypeOK
  <2>2. CASE Subclass
    <3>1. BaseTypeOK'
      BY <2>2, Calls, SendType DEF TypeOK
    <3> QED
      BY <2>2, <3>1, Calls DEF TypeOK
  <2>3. CASE OnEOM
    BY <2>3 DEF OnEOM, user, TypeOK, BaseTypeOK
  <2>4. CASE Base /\ UNCHANGED user
    <3>1. BaseTypeOK'
      BY <2>4, CallbackType, EventBaseType DEF Base, TypeOK
    <3> QED
      BY <2>4, <3>1 DEF user, TypeOK
  <2> QED
    BY <2>1, <2>2, <2>3, <2>4 DEF Next
<1> QED
  BY <1>1, <1>2, PTL DEF Spec

-----------------------------------------------------------------------------
(* Order *)

\* A subclass uses one queue only; proxygen's delete goes to the other at the
\* earliest when the exchange is over.
CallerInv ==
  /\ caller = "evb" => notifQ = <<>>
  /\ caller = "other" /\ ended = "no" => loopQ = <<>>

LEMMA CallerMaySend == ASSUME TypeOK, CallerInv PROVE MaySend(caller)
BY StreamingUserAssumption DEF CallerInv, MaySend, TypeOK, Threads

LEMMA CallerInvariant == Spec => []CallerInv
<1>1. Init => CallerInv
  BY DEF Init, BaseInit, CallerInv
<1>2. TypeOK /\ CallerInv /\ [Next]_vars => CallerInv'
  <2> SUFFICES ASSUME TypeOK, CallerInv, [Next]_vars PROVE CallerInv'
    OBVIOUS
  <2>1. CASE UNCHANGED vars
    BY <2>1 DEF vars, user, baseVars, proxygen, CallerInv
  <2>2. CASE Subclass
    <3>1. PICK task \in Tasks : Send(caller, task)
      BY <2>2, Calls
    <3> QED
      BY <2>2, <3>1, Calls DEF Send, RunInEventBaseThread, proxygen, CallerInv
  <2>3. CASE OnEOM
    BY <2>3 DEF OnEOM, user, CallerInv
  <2>4. CASE (OnRequest \/ OnError \/ RequestComplete) /\ UNCHANGED user
    BY <2>4 DEF OnRequest, OnError, RequestComplete, RunInEventBaseThread, user, CallerInv
  <2>5. CASE EventBase /\ UNCHANGED user
    BY <2>5 DEF EventBase, RunLoopCallback, RunNotification, Run, proxygen, user, CallerInv
  <2> QED
    BY <2>1, <2>2, <2>3, <2>4, <2>5 DEF Next, Base
<1> QED
  BY <1>1, <1>2, UserTypeCorrect, PTL DEF Spec

LEMMA OrderInvariant == Spec => []OrderInv
<1>1. Init => OrderInv
  <2>1. Init => /\ loopQ = <<>> /\ notifQ = <<>>
                /\ wire = <<>> /\ calls = <<>> /\ object = "live"
    BY DEF Init, BaseInit
  <2> QED
    BY <2>1, Empties DEF OrderInv, QueueInv, WireFollowsCalls
<1>2. TypeOK /\ CallerInv /\ OrderInv /\ [Next]_vars => OrderInv'
  <2> SUFFICES ASSUME TypeOK, CallerInv, OrderInv, [Next]_vars PROVE OrderInv'
    OBVIOUS
  <2>1. CASE UNCHANGED <<ended, object, loopQ, notifQ, calls, wire>>
    BY <2>1 DEF OrderInv, QueueInv, WireFollowsCalls, IsPrefixOf
  <2>2. CASE Subclass
    BY <2>2, Calls, CallerMaySend, SendOrder DEF TypeOK
  <2>3. CASE OnEOM
    BY <2>1, <2>3 DEF OnEOM
  <2>4. CASE Base
    BY <2>4, CallbackOrder, EventBaseOrder DEF Base, TypeOK
  <2> QED
    BY <2>1, <2>2, <2>3, <2>4 DEF Next, vars, baseVars, proxygen
<1> QED
  BY <1>1, <1>2, UserTypeCorrect, CallerInvariant, PTL DEF Spec

\* The wire is a beginning of what the subclass asked for, and while the
\* exchange stands the rest is queued, in order
\* (StreamingHTTPHandler-inl.h:41-83).
THEOREM UserInOrder == Spec => []WireFollowsCalls
<1>1. OrderInv => WireFollowsCalls
  BY DEF OrderInv
<1> QED
  BY <1>1, OrderInvariant, PTL

-----------------------------------------------------------------------------
(* Lifetime *)

\* The subclass calls nothing after sendEOF, and a response that is complete
\* was finished by the subclass.
FinishInv ==
  /\ phase # "finished" => NoEof
  /\ EofLast
  /\ ended = "complete" => phase = "finished"

LEMMA FinishInvariant == Spec => []FinishInv
<1>1. Init => FinishInv
  BY DEF Init, BaseInit, FinishInv, NoEof, EofLast
<1>2. TypeOK /\ OrderInv /\ FinishInv /\ [Next]_vars => FinishInv'
  <2> SUFFICES ASSUME TypeOK, OrderInv, FinishInv, [Next]_vars PROVE FinishInv'
    OBVIOUS
  <2>1. CASE UNCHANGED <<ended, calls, phase>>
    BY <2>1 DEF FinishInv, NoEof, EofLast
  <2>2. CASE Subclass
    <3>1. PICK task \in Tasks : /\ Send(caller, task)
                                /\ task.op = "eof" => phase' = "finished"
      BY <2>2, Calls
    <3>2. NoEof /\ phase # "finished"
      BY <2>2, Calls DEF FinishInv
    <3>3. EofLast' /\ (task.op # "eof" => NoEof') /\ ended' = ended
      BY <2>2, <3>1, <3>2, Calls, SendEof DEF TypeOK, Send, proxygen
    <3> QED
      BY <3>1, <3>2, <3>3 DEF FinishInv
  <2>3. CASE (OnRequest \/ OnError \/ EventBase) /\ UNCHANGED user
    BY <2>3 DEF OnRequest, OnError, EventBase, RunLoopCallback, RunNotification, Run,
                proxygen, user, FinishInv, NoEof, EofLast
  <2>4. CASE RequestComplete /\ UNCHANGED user
    <3>1. PICK i \in DOMAIN wire : wire[i].op = "eof"
      BY <2>4 DEF RequestComplete
    <3>2. ended = "no" /\ UNCHANGED <<calls, phase>>
      BY <2>4 DEF RequestComplete, user
    <3>3. i \in DOMAIN calls /\ calls[i].op = "eof"
      BY <3>1, <3>2, WrittenToTheEnd DEF FinishInv, TypeOK
    <3>4. phase = "finished"
      BY <3>3 DEF FinishInv, NoEof
    <3> QED
      BY <3>2, <3>4 DEF FinishInv, NoEof, EofLast
  <2> QED
    BY <2>1, <2>2, <2>3, <2>4 DEF Next, Base, OnEOM, vars, baseVars, proxygen, user
<1> QED
  BY <1>1, <1>2, UserTypeCorrect, OrderInvariant, PTL DEF Spec

LEMMA LifeInvariant == Spec => []LifeInv
<1>1. Init => LifeInv
  BY DEF Init, BaseInit, LifeInv
<1>2. TypeOK /\ OrderInv /\ FinishInv /\ LifeInv /\ [Next]_vars => LifeInv'
  <2> SUFFICES ASSUME TypeOK, OrderInv, FinishInv, LifeInv, [Next]_vars PROVE LifeInv'
    OBVIOUS
  <2>1. CASE UNCHANGED <<ended, dangling, loopQ, notifQ>>
    BY <2>1 DEF LifeInv
  <2>2. CASE Subclass
    BY <2>2, Calls, SendLife DEF FinishInv, TypeOK
  <2>3. CASE Base
    BY <2>3, CallbackLife, EventBaseLife DEF Base, FinishInv, TypeOK
  <2> QED
    BY <2>1, <2>2, <2>3 DEF Next, OnEOM, vars, baseVars, proxygen
<1> QED
  BY <1>1, <1>2, UserTypeCorrect, OrderInvariant, FinishInvariant, PTL DEF Spec

\* After a response that was written to its end the deleted handler is not
\* used, whichever thread the subclass calls in
\* (StreamingHTTPHandler-inl.h:22-29).
THEOREM UserDanglingOnly == Spec => []DanglingOnlyAfterError
<1>1. LifeInv => DanglingOnlyAfterError
  BY DEF LifeInv, DanglingOnlyAfterError
<1> QED
  BY <1>1, LifeInvariant, PTL

\* For a subclass of the event base thread, the delete is the last thing in
\* the only queue that is used.
DeleteLast ==
  caller = "evb" =>
    /\ dangling = {}
    /\ ended # "no" =>
         IF object = "deleted" THEN loopQ = <<>>
         ELSE \A i \in DOMAIN loopQ : (loopQ[i].op = "delete") = (i = Len(loopQ))

LEMMA DeleteLastInvariant == Spec => []DeleteLast
<1>1. Init => DeleteLast
  BY DEF Init, BaseInit, DeleteLast
<1>2. TypeOK /\ CallerInv /\ OrderInv /\ DeleteLast /\ [Next]_vars => DeleteLast'
  <2> SUFFICES ASSUME TypeOK, CallerInv, OrderInv, DeleteLast, caller = "evb", [Next]_vars
               PROVE  DeleteLast'
    BY DEF DeleteLast, Next, Subclass, SendResponseHeaders, SendBody, SendEOF, OnEOM, user, vars
  <2>0. loopQ \in Seq(Tasks) /\ notifQ = <<>> /\ object \in {"live", "deleted"}
    BY DEF TypeOK, BaseTypeOK, CallerInv
  <2>1. CASE UNCHANGED <<ended, object, dangling, loopQ, caller>>
    BY <2>1 DEF DeleteLast
  <2>2. CASE Subclass
    <3>1. ended = "no" /\ ended' = "no" /\ object = "live" /\ caller' = caller
      BY <2>2, Calls DEF MayCall, Send, proxygen, OrderInv, QueueInv
    <3>2. dangling' = dangling
      BY <2>2, <3>1, Calls DEF Send, Touch
    <3> QED
      BY <3>1, <3>2 DEF DeleteLast
  <2>3. CASE OnRequest /\ UNCHANGED user
    BY <2>1, <2>3 DEF OnRequest, user
  <2>4. CASE (OnError \/ RequestComplete) /\ UNCHANGED user
    <3>1. /\ ended = "no"
          /\ loopQ' = loopQ \o <<Delete>>
          /\ UNCHANGED <<object, dangling, caller>>
      BY <2>4 DEF OnError, RequestComplete, RunInEventBaseThread, user
    <3>2. object = "live" /\ \A i \in DOMAIN loopQ : loopQ[i].op # "delete"
      BY <3>1 DEF OrderInv, QueueInv
    <3>3. /\ Len(loopQ') = Len(loopQ) + 1
          /\ DOMAIN loopQ' = 1..Len(loopQ) + 1
          /\ DOMAIN loopQ = 1..Len(loopQ)
          /\ Len(loopQ) \in Nat
          /\ loopQ'[Len(loopQ) + 1] = Delete
          /\ \A i \in 1..Len(loopQ) : loopQ'[i] = loopQ[i]
      BY <2>0, <3>1, DeleteType
    <3>4. \A i \in DOMAIN loopQ' : (loopQ'[i].op = "delete") = (i = Len(loopQ'))
      <4> SUFFICES ASSUME NEW i \in DOMAIN loopQ'
                   PROVE  (loopQ'[i].op = "delete") = (i = Len(loopQ'))
        OBVIOUS
      <4>1. CASE i \in DOMAIN loopQ
        BY <3>2, <3>3, <4>1
      <4>2. CASE i = Len(loopQ) + 1
        BY <3>3, <4>2 DEF Delete
      <4> QED
        BY <3>3, <4>1, <4>2
    <3> QED
      BY <3>1, <3>2, <3>4 DEF DeleteLast
  <2>5. CASE EventBase /\ UNCHANGED user
    <3>1. /\ loopQ # <<>>
          /\ loopQ' = Tail(loopQ)
          /\ Run(Head(loopQ))
          /\ ended' = ended
          /\ caller' = caller
      BY <2>0, <2>5 DEF EventBase, RunLoopCallback, RunNotification, Run, proxygen, user
    <3>2. CASE ended = "no"
      BY <3>1, <3>2 DEF Run, OrderInv, QueueInv, DeleteLast
    <3>3. CASE ended # "no"
      <4>1. object = "live" /\ \A i \in DOMAIN loopQ : (loopQ[i].op = "delete") = (i = Len(loopQ))
        BY <2>0, <3>1, <3>3 DEF DeleteLast
      <4>2. dangling' = dangling
        BY <3>1, <4>1 DEF Run
      <4>3. /\ Len(loopQ) \in Nat \ {0}
            /\ DOMAIN loopQ = 1..Len(loopQ)
            /\ Len(loopQ') = Len(loopQ) - 1
            /\ DOMAIN loopQ' = 1..Len(loopQ) - 1
            /\ \A i \in 1..Len(loopQ) - 1 : loopQ'[i] = loopQ[i + 1]
            /\ Head(loopQ) = loopQ[1]
        BY <2>0, <3>1
      <4>4. CASE Len(loopQ) = 1
        <5>1. object' = "deleted"
          BY <3>1, <4>1, <4>3, <4>4 DEF Run
        <5>2. loopQ' = <<>>
          BY <2>0, <3>1, <4>3, <4>4
        <5> QED
          BY <3>1, <4>2, <5>1, <5>2 DEF DeleteLast
      <4>5. CASE Len(loopQ) > 1
        <5>1. object' = "live"
          BY <3>1, <4>1, <4>3, <4>5 DEF Run
        <5>2. \A i \in DOMAIN loopQ' : (loopQ'[i].op = "delete") = (i = Len(loopQ'))
          BY <4>1, <4>3
        <5> QED
          BY <3>1, <4>2, <5>1, <5>2 DEF DeleteLast
      <4> QED
        BY <4>3, <4>4, <4>5
    <3> QED
      BY <3>2, <3>3
  <2> QED
    BY <2>1, <2>2, <2>3, <2>4, <2>5 DEF Next, Base, OnEOM, vars, baseVars, proxygen, user
<1> QED
  BY <1>1, <1>2, UserTypeCorrect, CallerInvariant, OrderInvariant, PTL DEF Spec

\* A subclass of the event base thread never uses the deleted handler, not
\* even after onError (StreamingHTTPHandler-inl.h:28 and 38).
THEOREM EventBaseSafe == Spec => []EventBaseNeverDangles
<1>1. DeleteLast => EventBaseNeverDangles
  BY DEF DeleteLast, EventBaseNeverDangles
<1> QED
  BY <1>1, DeleteLastInvariant, PTL
=============================================================================
