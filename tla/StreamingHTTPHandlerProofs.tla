---------------------- MODULE StreamingHTTPHandlerProofs ----------------------
(***************************************************************************)
(* Lemmas about the operations of StreamingHTTPHandler, for the proofs     *)
(* about its subclasses: what each operation keeps, and under which        *)
(* condition on the subclass.                                              *)
(***************************************************************************)
EXTENDS StreamingHTTPHandler, SequenceTheorems, TLAPS

-----------------------------------------------------------------------------
(* Sequences *)

\* The empty sequence.
LEMMA Empties ==
  /\ <<>> \in Seq(Tasks)
  /\ <<>> \o <<>> \o <<>> = <<>>
  /\ IsPrefixOf(<<>>, <<>>)
<1>1. <<>> \in Seq(Tasks) /\ Len(<<>>) = 0
  BY EmptySeq
<1>2. SubSeq(<<>>, 1, 0) = <<>>
  BY SubSeqEmpty
<1>3. IsPrefixOf(<<>>, <<>>)
  BY <1>1, <1>2 DEF IsPrefixOf
<1>4. <<>> \o <<>> = <<>>
  BY <1>1, ConcatEmptySeq
<1> QED
  BY <1>1, <1>3, <1>4

\* Moving the head of t to the end of s leaves their concatenation as it was.
LEMMA HeadMoved ==
  ASSUME NEW S, NEW s \in Seq(S), NEW t \in Seq(S), t # <<>>
  PROVE  Append(s, Head(t)) \o Tail(t) = s \o t
<1>1. Head(t) \in S /\ Tail(t) \in Seq(S) /\ Len(t) \in Nat \ {0} /\ Len(Tail(t)) = Len(t) - 1
  BY HeadTailProperties, EmptySeq
<1>2. Append(s, Head(t)) \in Seq(S) /\ Len(Append(s, Head(t))) = Len(s) + 1
  BY <1>1
<1>3. /\ Append(s, Head(t)) \o Tail(t) \in Seq(S)
      /\ s \o t \in Seq(S)
      /\ Len(Append(s, Head(t)) \o Tail(t)) = Len(s \o t)
  BY <1>1, <1>2
<1>4. ASSUME NEW i \in 1..Len(s \o t)
      PROVE  (Append(s, Head(t)) \o Tail(t))[i] = (s \o t)[i]
  <2>1. CASE i <= Len(s)
    BY <1>1, <1>2, <2>1
  <2>2. CASE i = Len(s) + 1
    BY <1>1, <1>2, <2>2
  <2>3. CASE i > Len(s) + 1
    BY <1>1, <1>2, <2>3
  <2> QED
    BY <2>1, <2>2, <2>3
<1> QED
  BY <1>3, <1>4, SeqEqual

\* A prefix stays one when the longer sequence grows at its end.
LEMMA PrefixGrows ==
  ASSUME NEW S, NEW s \in Seq(S), NEW t \in Seq(S), NEW u \in Seq(S), IsPrefixOf(s, t)
  PROVE  IsPrefixOf(s, t \o u)
<1>1. Len(s) \in Nat /\ Len(t) \in Nat /\ Len(s) <= Len(t) /\ s = SubSeq(t, 1, Len(s))
  BY DEF IsPrefixOf
<1>2. t \o u \in Seq(S) /\ Len(t \o u) = Len(t) + Len(u) /\ Len(u) \in Nat
  OBVIOUS
<1>3. \A i \in 1..Len(s) : s[i] = t[i]
  BY <1>1
<1>4. \A i \in 1..Len(s) : (t \o u)[i] = s[i]
  BY <1>1, <1>3
<1>5. SubSeq(t \o u, 1, Len(s)) \in Seq(S) /\ Len(SubSeq(t \o u, 1, Len(s))) = Len(s)
  BY <1>1, <1>2
<1>6. \A i \in 1..Len(s) : SubSeq(t \o u, 1, Len(s))[i] = s[i]
  BY <1>1, <1>2, <1>4
<1>7. SubSeq(t \o u, 1, Len(s)) = s
  BY <1>5, <1>6, SeqEqual
<1> QED
  BY <1>1, <1>2, <1>7 DEF IsPrefixOf

\* A sequence is a prefix of its concatenations.
LEMMA PrefixOfConcat ==
  ASSUME NEW S, NEW s \in Seq(S), NEW u \in Seq(S)
  PROVE  IsPrefixOf(s, s \o u)
<1>1. IsPrefixOf(s, s)
  BY SubSeqFull DEF IsPrefixOf
<1> QED
  BY <1>1, PrefixGrows

\* Concatenation, for sequences of what is queued.
LEMMA AssocTasks ==
  ASSUME NEW q1 \in Seq(Tasks), NEW q2 \in Seq(Tasks), NEW q3 \in Seq(Tasks)
  PROVE  (q1 \o q2) \o q3 = q1 \o (q2 \o q3)
BY ConcatAssociative

LEMMA ConcatTasks ==
  ASSUME NEW q1 \in Seq(Tasks), NEW q2 \in Seq(Tasks)
  PROVE  /\ q1 \o q2 \in Seq(Tasks)
         /\ q1 \o <<>> = q1
         /\ (q1 \o q2) \o <<>> = q1 \o q2
<1>1. q1 \o q2 \in Seq(Tasks)
  OBVIOUS
<1> QED
  BY <1>1, ConcatEmptySeq

\* A function runs: the head of a queue moves to the end of the wire.
LEMMA TaskMoved ==
  ASSUME NEW q1 \in Seq(Tasks), NEW q2 \in Seq(Tasks), q2 # <<>>
  PROVE  /\ Append(q1, Head(q2)) \o Tail(q2) = q1 \o q2
         /\ Append(q1, Head(q2)) \in Seq(Tasks)
         /\ Tail(q2) \in Seq(Tasks)
<1>1. Append(q1, Head(q2)) \o Tail(q2) = q1 \o q2
  BY HeadMoved
<1> QED
  BY <1>1, HeadTailProperties

-----------------------------------------------------------------------------
(* Types *)

LEMMA SendType ==
  ASSUME BaseTypeOK, NEW t \in Threads, NEW task \in Tasks, Send(t, task)
  PROVE  BaseTypeOK'
<1>1. \A q \in Seq(Tasks) : Append(q, task) \in Seq(Tasks) /\ q \o <<task>> \in Seq(Tasks)
                              /\ q \o <<>> \in Seq(Tasks)
  OBVIOUS
<1> QED
  BY <1>1 DEF BaseTypeOK, Send, RunInEventBaseThread, Touch, DcheckHolds, proxygen

LEMMA DeleteType == Delete \in Tasks
BY DEF Delete, Tasks, Piece, NoPiece

LEMMA CallbackType ==
  ASSUME BaseTypeOK, OnRequest \/ OnError \/ RequestComplete
  PROVE  BaseTypeOK'
<1>1. loopQ \o <<Delete>> \in Seq(Tasks)
  BY DeleteType DEF BaseTypeOK
<1>2. CASE OnRequest
  BY <1>2 DEF OnRequest, BaseTypeOK
<1>3. CASE OnError
  BY <1>1, <1>3 DEF OnError, RunInEventBaseThread, BaseTypeOK
<1>4. CASE RequestComplete
  BY <1>1, <1>4 DEF RequestComplete, RunInEventBaseThread, BaseTypeOK
<1> QED
  BY <1>2, <1>3, <1>4

LEMMA RunType ==
  ASSUME BaseTypeOK, NEW task \in Tasks, Run(task)
  PROVE  /\ object' \in {"live", "deleted"}
         /\ wire' \in Seq(Tasks)
         /\ dangling' \in SUBSET {"call", "headers", "body", "eof"}
<1>1. task.op \in {"headers", "body", "eof", "delete"}
  BY DEF Tasks
<1>2. Append(wire, task) \in Seq(Tasks)
  BY DEF BaseTypeOK
<1> QED
  BY <1>1, <1>2 DEF Run, BaseTypeOK

LEMMA EventBaseType == ASSUME BaseTypeOK, EventBase PROVE BaseTypeOK'
<1>1. CASE RunLoopCallback
  <2>1. Head(loopQ) \in Tasks /\ Tail(loopQ) \in Seq(Tasks)
    BY <1>1 DEF RunLoopCallback, BaseTypeOK
  <2>2. UNCHANGED <<proxygen, sentHeaders, calls, dchecks, notifQ>>
    BY <1>1 DEF RunLoopCallback, Run
  <2>3. loopQ' = Tail(loopQ) /\ Run(Head(loopQ))
    BY <1>1 DEF RunLoopCallback
  <2> QED
    BY <2>1, <2>2, <2>3, RunType DEF BaseTypeOK, proxygen
<1>2. CASE RunNotification
  <2>1. Head(notifQ) \in Tasks /\ Tail(notifQ) \in Seq(Tasks)
    BY <1>2 DEF RunNotification, BaseTypeOK
  <2>2. UNCHANGED <<proxygen, sentHeaders, calls, dchecks, loopQ>>
    BY <1>2 DEF RunNotification, Run
  <2>3. notifQ' = Tail(notifQ) /\ Run(Head(notifQ))
    BY <1>2 DEF RunNotification
  <2> QED
    BY <2>1, <2>2, <2>3, RunType DEF BaseTypeOK, proxygen
<1> QED
  BY <1>1, <1>2 DEF EventBase
-----------------------------------------------------------------------------
(* Order. While the exchange stands only one of the queues is in use, and    *)
(* neither holds the delete, so the queue that is in use goes to the wire as *)
(* it is.                                                                    *)

QueueInv ==
  /\ \A i \in DOMAIN notifQ : notifQ[i].op # "delete"
  /\ ended = "no" => /\ object = "live"
                     /\ \A i \in DOMAIN loopQ : loopQ[i].op # "delete"
                     /\ loopQ = <<>> \/ notifQ = <<>>

OrderInv == QueueInv /\ WireFollowsCalls

\* What the queue of thread t has to be for a call in t: the other one empty.
MaySend(t) == ended = "no" => IF t = "evb" THEN notifQ = <<>> ELSE loopQ = <<>>

\* The elements of a queue that grew.
LEMMA Appended ==
  ASSUME NEW q \in Seq(Tasks), NEW new \in {<<>>} \cup {<<task>> : task \in Tasks},
         \A i \in DOMAIN new : new[i].op # "delete",
         \A i \in DOMAIN q : q[i].op # "delete"
  PROVE  \A i \in DOMAIN (q \o new) : (q \o new)[i].op # "delete"
<1>1. new \in Seq(Tasks)
  <2>1. CASE new = <<>>
    BY <2>1
  <2>2. ASSUME NEW task \in Tasks, new = <<task>> PROVE new \in Seq(Tasks)
    BY <2>2
  <2> QED
    BY <2>1, <2>2
<1>2. Len(q) \in Nat /\ Len(new) \in Nat /\ DOMAIN q = 1..Len(q) /\ DOMAIN new = 1..Len(new)
  BY <1>1
<1>3. /\ DOMAIN (q \o new) = 1..Len(q) + Len(new)
      /\ \A i \in 1..Len(q) + Len(new) :
           (q \o new)[i] = IF i <= Len(q) THEN q[i] ELSE new[i - Len(q)]
  BY <1>1, ConcatProperties, LenProperties
<1> SUFFICES ASSUME NEW i \in 1..Len(q) + Len(new)
             PROVE  (q \o new)[i].op # "delete"
  BY <1>3
<1>4. CASE i <= Len(q)
  BY <1>2, <1>3, <1>4
<1>5. CASE i > Len(q)
  <2>1. i - Len(q) \in DOMAIN new
    BY <1>2, <1>5
  <2>2. (q \o new)[i] = new[i - Len(q)]
    BY <1>2, <1>3, <1>5
  <2> QED
    BY <2>1, <2>2
<1> QED
  BY <1>2, <1>4, <1>5

LEMMA SendOrder ==
  ASSUME BaseTypeOK, OrderInv, NEW t \in Threads, NEW task \in Tasks,
         task.op # "delete", MaySend(t), Send(t, task)
  PROVE  OrderInv'
<1> DEFINE new == IF Empty(task) THEN <<>> ELSE <<task>>
<1>1. /\ new \in {<<>>} \cup {<<x>> : x \in Tasks}
      /\ new \in Seq(Tasks)
      /\ \A i \in DOMAIN new : new[i].op # "delete"
  OBVIOUS
<1>2. /\ RunInEventBaseThread(t, new)
      /\ calls' = calls \o new
      /\ UNCHANGED <<ended, object, wire>>
  BY DEF Send, proxygen
<1>3. loopQ \in Seq(Tasks) /\ notifQ \in Seq(Tasks) /\ calls \in Seq(Tasks) /\ wire \in Seq(Tasks)
  BY DEF BaseTypeOK
<1>0. new \in Seq(Tasks)
  BY <1>1
<1> HIDE DEF new
<1>4. IsPrefixOf(wire, calls)'
  BY <1>1, <1>2, <1>3, PrefixGrows DEF OrderInv, WireFollowsCalls, IsPrefixOf
<1>5. CASE t = "evb"
  <2>1. loopQ' = loopQ \o new /\ notifQ' = notifQ
    BY <1>2, <1>5 DEF RunInEventBaseThread
  <2>2. ended = "no" => notifQ = <<>>
    BY <1>5 DEF MaySend
  <2>3. QueueInv'
    BY <1>1, <1>2, <1>3, <2>1, <2>2, Appended DEF OrderInv, QueueInv
  <2>4. ASSUME ended = "no" PROVE calls' = wire' \o loopQ' \o notifQ'
    <3>1. calls = wire \o loopQ
      BY <1>3, <2>2, <2>4, ConcatTasks DEF OrderInv, WireFollowsCalls
    <3>2. calls' = wire \o (loopQ \o new)
      <4>1. calls' = (wire \o loopQ) \o new
        BY <1>2, <3>1
      <4>2. (wire \o loopQ) \o new = wire \o (loopQ \o new)
        BY <1>0, <1>3, AssocTasks
      <4> QED
        BY <4>1, <4>2
    <3>3. (wire \o (loopQ \o new)) \o <<>> = wire \o (loopQ \o new)
      BY <1>1, <1>3, ConcatTasks
    <3> QED
      BY <1>2, <2>1, <2>2, <2>4, <3>2, <3>3
  <2> QED
    BY <1>2, <1>4, <2>3, <2>4 DEF OrderInv, WireFollowsCalls
<1>6. CASE t = "other"
  <2>1. notifQ' = notifQ \o new /\ loopQ' = loopQ
    BY <1>2, <1>6 DEF RunInEventBaseThread
  <2>2. ended = "no" => loopQ = <<>>
    BY <1>6 DEF MaySend
  <2>3. QueueInv'
    BY <1>1, <1>2, <1>3, <2>1, <2>2, Appended DEF OrderInv, QueueInv
  <2>4. ASSUME ended = "no" PROVE calls' = wire' \o loopQ' \o notifQ'
    <3>1. calls = wire \o notifQ
      BY <1>3, <2>2, <2>4, ConcatTasks DEF OrderInv, WireFollowsCalls
    <3>2. calls' = wire \o (notifQ \o new)
      <4>1. calls' = (wire \o notifQ) \o new
        BY <1>2, <3>1
      <4>2. (wire \o notifQ) \o new = wire \o (notifQ \o new)
        BY <1>0, <1>3, AssocTasks
      <4> QED
        BY <4>1, <4>2
    <3>3. wire \o <<>> = wire
      BY <1>3, ConcatTasks
    <3> QED
      BY <1>2, <2>1, <2>2, <2>4, <3>2, <3>3
  <2> QED
    BY <1>2, <1>4, <2>3, <2>4 DEF OrderInv, WireFollowsCalls
<1> QED
  BY <1>5, <1>6 DEF Threads

LEMMA CallbackOrder ==
  ASSUME BaseTypeOK, OrderInv, OnRequest \/ OnError \/ RequestComplete
  PROVE  OrderInv'
<1>1. CASE OnRequest
  BY <1>1 DEF OnRequest, OrderInv, QueueInv, WireFollowsCalls, IsPrefixOf
<1>2. CASE OnError \/ RequestComplete
  <2>1. ended' # "no" /\ UNCHANGED <<notifQ, wire, calls>>
    BY <1>2 DEF OnError, RequestComplete, RunInEventBaseThread
  <2> QED
    BY <2>1 DEF OrderInv, QueueInv, WireFollowsCalls, IsPrefixOf
<1> QED
  BY <1>1, <1>2

\* What is left of a queue was in it.
LEMMA TailKeeps ==
  ASSUME NEW q \in Seq(Tasks), q # <<>>
  PROVE  /\ Head(q) \in Tasks
         /\ Tail(q) \in Seq(Tasks)
         /\ \A i \in DOMAIN Tail(q) : \E j \in DOMAIN q : Tail(q)[i] = q[j]
         /\ \E j \in DOMAIN q : Head(q) = q[j]
<1>1. /\ Tail(q) \in Seq(Tasks)
      /\ Len(Tail(q)) = Len(q) - 1
      /\ \A i \in 1..Len(Tail(q)) : Tail(q)[i] = q[i + 1]
      /\ Len(q) \in Nat \ {0}
      /\ Head(q) \in Tasks
  BY HeadTailProperties, EmptySeq
<1>2. DOMAIN q = 1..Len(q) /\ DOMAIN Tail(q) = 1..Len(Tail(q))
  BY <1>1
<1>3. \A i \in DOMAIN Tail(q) : i + 1 \in DOMAIN q
  BY <1>1, <1>2
<1>4. 1 \in DOMAIN q /\ Head(q) = q[1]
  BY <1>1, <1>2
<1> QED
  BY <1>1, <1>2, <1>3, <1>4

LEMMA EventBaseOrder ==
  ASSUME BaseTypeOK, OrderInv, EventBase
  PROVE  OrderInv'
<1>1. /\ loopQ \in Seq(Tasks) /\ notifQ \in Seq(Tasks)
      /\ calls \in Seq(Tasks) /\ wire \in Seq(Tasks)
  BY DEF BaseTypeOK
<1>2. UNCHANGED <<ended, calls>>
  BY DEF EventBase, RunLoopCallback, RunNotification, Run, proxygen
<1>3. CASE RunLoopCallback
  <2>1. /\ loopQ # <<>>
        /\ loopQ' = Tail(loopQ)
        /\ notifQ' = notifQ
        /\ Run(Head(loopQ))
    BY <1>3 DEF RunLoopCallback
  <2>2. CASE ended # "no"
    <3>1. wire' = wire
      BY <2>1, <2>2 DEF Run
    <3> QED
      BY <1>2, <2>1, <2>2, <3>1 DEF OrderInv, QueueInv, WireFollowsCalls, IsPrefixOf
  <2>3. CASE ended = "no"
    <3>1. notifQ = <<>> /\ object = "live" /\ Head(loopQ).op # "delete"
      BY <1>1, <2>1, <2>3, TailKeeps DEF OrderInv, QueueInv
    <3>2. wire' = Append(wire, Head(loopQ)) /\ object' = "live"
      BY <2>1, <2>3, <3>1 DEF Run
    <3>3. QueueInv'
      BY <1>1, <1>2, <2>1, <2>3, <3>1, <3>2, TailKeeps DEF OrderInv, QueueInv
    <3>4. calls = wire \o loopQ
      BY <1>1, <2>3, <3>1, ConcatTasks DEF OrderInv, WireFollowsCalls
    <3>5. calls = wire' \o loopQ' /\ wire' \in Seq(Tasks) /\ loopQ' \in Seq(Tasks)
      BY <1>1, <2>1, <3>2, <3>4, TaskMoved
    <3>6. IsPrefixOf(wire', calls)
      BY <3>5, PrefixOfConcat
    <3>7. calls = wire' \o loopQ' \o notifQ'
      BY <2>1, <3>1, <3>5, ConcatTasks
    <3> QED
      BY <1>2, <3>3, <3>6, <3>7 DEF OrderInv, WireFollowsCalls, IsPrefixOf
  <2> QED
    BY <2>2, <2>3
<1>4. CASE RunNotification
  <2>1. /\ notifQ # <<>>
        /\ notifQ' = Tail(notifQ)
        /\ loopQ' = loopQ
        /\ Run(Head(notifQ))
    BY <1>4 DEF RunNotification
  <2>2. \A i \in DOMAIN notifQ' : notifQ'[i].op # "delete"
    BY <1>1, <2>1, TailKeeps DEF OrderInv, QueueInv
  <2>3. CASE ended # "no"
    <3>1. wire' = wire
      BY <2>1, <2>3 DEF Run
    <3> QED
      BY <1>2, <2>1, <2>2, <2>3, <3>1 DEF OrderInv, QueueInv, WireFollowsCalls, IsPrefixOf
  <2>4. CASE ended = "no"
    <3>1. loopQ = <<>> /\ object = "live" /\ Head(notifQ).op # "delete"
      BY <1>1, <2>1, <2>4, TailKeeps DEF OrderInv, QueueInv
    <3>2. wire' = Append(wire, Head(notifQ)) /\ object' = "live"
      BY <2>1, <2>4, <3>1 DEF Run
    <3>3. QueueInv'
      BY <1>2, <2>1, <2>2, <2>4, <3>1, <3>2 DEF OrderInv, QueueInv
    <3>4. calls = wire \o notifQ
      BY <1>1, <2>4, <3>1, ConcatTasks DEF OrderInv, WireFollowsCalls
    <3>5. calls = wire' \o notifQ' /\ wire' \in Seq(Tasks) /\ notifQ' \in Seq(Tasks)
      BY <1>1, <2>1, <3>2, <3>4, TaskMoved
    <3>6. IsPrefixOf(wire', calls)
      BY <3>5, PrefixOfConcat
    <3>7. calls = wire' \o loopQ' \o notifQ'
      BY <2>1, <3>1, <3>5, ConcatTasks
    <3> QED
      BY <1>2, <3>3, <3>6, <3>7 DEF OrderInv, WireFollowsCalls, IsPrefixOf
  <2> QED
    BY <2>3, <2>4
<1> QED
  BY <1>3, <1>4 DEF EventBase
-----------------------------------------------------------------------------
(* Lifetime. proxygen completes a response that was written to its end; the  *)
(* end is the last call of the subclass, so nothing is left in the queues    *)
(* when the delete is queued.                                                *)

EofLast == \A i \in DOMAIN calls : calls[i].op = "eof" => i = Len(calls)

NoEof == \A i \in DOMAIN calls : calls[i].op # "eof"

LifeInv ==
  /\ ended # "error" => dangling = {}
  /\ ended = "complete" =>
       notifQ = <<>> /\ \A i \in DOMAIN loopQ : loopQ[i].op = "delete"

\* A call other than sendEOF adds no end, and sendEOF adds the only one.
LEMMA SendEof ==
  ASSUME BaseTypeOK, NoEof, NEW t \in Threads, NEW task \in Tasks, Send(t, task)
  PROVE  EofLast' /\ (task.op # "eof" => NoEof')
<1>1. calls \in Seq(Tasks) /\ Len(calls) \in Nat /\ DOMAIN calls = 1..Len(calls)
  BY DEF BaseTypeOK
<1>2. calls' = calls \o <<>> \/ calls' = calls \o <<task>>
  BY DEF Send
<1>3. CASE calls' = calls \o <<>>
  <2>1. calls' = calls
    BY <1>1, <1>3, ConcatEmptySeq
  <2> QED
    BY <2>1 DEF NoEof, EofLast
<1>4. CASE calls' = calls \o <<task>>
  <2>1. /\ DOMAIN calls' = 1..Len(calls) + 1
        /\ Len(calls') = Len(calls) + 1
        /\ calls'[Len(calls) + 1] = task
        /\ \A i \in 1..Len(calls) : calls'[i] = calls[i]
    BY <1>1, <1>4
  <2>2. \A i \in DOMAIN calls' : i \in DOMAIN calls \/ i = Len(calls) + 1
    BY <1>1, <2>1
  <2> QED
    BY <1>1, <2>1, <2>2 DEF NoEof, EofLast
<1> QED
  BY <1>2, <1>3, <1>4

LEMMA SendLife ==
  ASSUME BaseTypeOK, OrderInv, LifeInv, ended # "complete", NEW t, NEW task, Send(t, task)
  PROVE  LifeInv'
BY DEF BaseTypeOK, OrderInv, QueueInv, LifeInv, Send, Touch, proxygen

\* When the end is on the wire everything is.
LEMMA WrittenToTheEnd ==
  ASSUME BaseTypeOK, OrderInv, EofLast, ended = "no", NEW i \in DOMAIN wire, wire[i].op = "eof"
  PROVE  loopQ = <<>> /\ notifQ = <<>> /\ i \in DOMAIN calls /\ calls[i].op = "eof"
<1>1. /\ wire \in Seq(Tasks) /\ calls \in Seq(Tasks)
      /\ loopQ \in Seq(Tasks) /\ notifQ \in Seq(Tasks)
  BY DEF BaseTypeOK
<1>2. /\ Len(wire) <= Len(calls)
      /\ wire = SubSeq(calls, 1, Len(wire))
      /\ calls = wire \o loopQ \o notifQ
  BY DEF OrderInv, WireFollowsCalls, IsPrefixOf
<1>3. i \in 1..Len(wire) /\ Len(wire) \in Nat /\ Len(calls) \in Nat
  BY <1>1
<1>4. i \in DOMAIN calls /\ wire[i] = calls[i]
  BY <1>1, <1>2, <1>3
<1>5. i = Len(calls)
  BY <1>4 DEF EofLast
<1>6. Len(calls) = Len(wire) + Len(loopQ) + Len(notifQ)
  BY <1>1, <1>2
<1>7. Len(loopQ) = 0 /\ Len(notifQ) = 0
  BY <1>1, <1>3, <1>5, <1>6
<1>8. loopQ = <<>> /\ notifQ = <<>>
  BY <1>1, <1>7
<1>9. calls[i].op = "eof"
  BY <1>4
<1> QED
  BY <1>4, <1>8, <1>9

LEMMA CallbackLife ==
  ASSUME BaseTypeOK, OrderInv, LifeInv, EofLast, OnRequest \/ OnError \/ RequestComplete
  PROVE  LifeInv'
<1>1. CASE OnRequest
  BY <1>1 DEF OnRequest, LifeInv
<1>2. CASE OnError
  BY <1>2 DEF OnError, LifeInv
<1>3. CASE RequestComplete
  <2>1. ended = "no" /\ \E i \in DOMAIN wire : wire[i].op = "eof"
    BY <1>3 DEF RequestComplete
  <2>2. loopQ = <<>> /\ notifQ = <<>>
    BY <2>1, WrittenToTheEnd
  <2>3. loopQ' = <<>> \o <<Delete>> /\ notifQ' = notifQ /\ dangling' = dangling
    BY <1>3, <2>2 DEF RequestComplete, RunInEventBaseThread
  <2>4. DOMAIN loopQ' = {1} /\ loopQ'[1] = Delete
    BY <2>3, DeleteType
  <2> QED
    BY <2>1, <2>2, <2>3, <2>4 DEF LifeInv, Delete
<1> QED
  BY <1>1, <1>2, <1>3

LEMMA EventBaseLife ==
  ASSUME BaseTypeOK, OrderInv, LifeInv, EventBase
  PROVE  LifeInv'
<1>1. loopQ \in Seq(Tasks) /\ notifQ \in Seq(Tasks)
  BY DEF BaseTypeOK
<1>2. ended' = ended
  BY DEF EventBase, RunLoopCallback, RunNotification, Run, proxygen
<1>3. CASE ended = "no"
  <2>1. dangling' = dangling
    BY <1>3 DEF EventBase, RunLoopCallback, RunNotification, Run, OrderInv, QueueInv
  <2> QED
    BY <1>2, <1>3, <2>1 DEF LifeInv
<1>4. CASE ended = "complete"
  <2>1. notifQ = <<>> /\ \A i \in DOMAIN loopQ : loopQ[i].op = "delete"
    BY <1>4 DEF LifeInv
  <2>2. /\ loopQ # <<>>
        /\ loopQ' = Tail(loopQ)
        /\ notifQ' = notifQ
        /\ Run(Head(loopQ))
    BY <2>1 DEF EventBase, RunLoopCallback, RunNotification
  <2>3. Head(loopQ).op = "delete" /\ \A i \in DOMAIN loopQ' : loopQ'[i].op = "delete"
    BY <1>1, <2>1, <2>2, TailKeeps
  <2>4. dangling' = dangling
    BY <2>2, <2>3 DEF Run
  <2> QED
    BY <1>2, <2>1, <2>2, <2>3, <2>4 DEF LifeInv
<1>5. CASE ended = "error"
  BY <1>2, <1>5 DEF LifeInv
<1> QED
  BY <1>3, <1>4, <1>5 DEF BaseTypeOK
=============================================================================
