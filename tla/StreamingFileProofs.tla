------------------------- MODULE StreamingFileProofs -------------------------
(***************************************************************************)
(* Theorems about StreamingFileHandler, for files and buffers of any size, *)
(* any path, and every failure of the reader.                              *)
(***************************************************************************)
EXTENDS StreamingFileHandler, StreamingHTTPHandlerProofs, Induction

-----------------------------------------------------------------------------
(* Types *)

\* What the handler asks for can be queued.
LEMMA TasksOfFile ==
  /\ \A code \in Nat : Headers(code) \in Tasks /\ Headers(code).op = "headers"
                         /\ Headers(code).code = code
  /\ Eof \in Tasks /\ Eof.op = "eof"
  /\ \A first \in Nat, bytes \in Nat, garbage \in Nat :
       LET task == Body([first |-> first, bytes |-> bytes, garbage |-> garbage])
       IN  /\ task \in Tasks
           /\ task.op = "body"
           /\ task.piece = [first |-> first, bytes |-> bytes, garbage |-> garbage]
BY DEF Headers, Body, Eof, Tasks, Piece, NoPiece

\* How much a turn of the loop reads.
LEMMA BytesRead ==
  ASSUME TypeOK
  PROVE  /\ pos \in Nat /\ file.length \in Nat /\ Slack \in Nat
         /\ Smaller(ReadBufferSize, Remaining) \in Nat
         /\ pos + Smaller(ReadBufferSize, Remaining) \in 0..file.length
         /\ Smaller(ReadBufferSize, Remaining) < ReadBufferSize =>
              pos + Smaller(ReadBufferSize, Remaining) = file.length
<1>1. /\ pos \in Nat /\ file.length \in Nat /\ pos <= file.length
      /\ ReadBufferSize \in Nat /\ Slack \in Nat
  BY StreamingFileHandlerAssumption DEF TypeOK
<1> QED
  BY <1>1 DEF Smaller, Remaining

\* What is in a buffer that is sent: trimming leaves the bytes read and what the
\* allocator gave beyond readBufferSize_.
LEMMA FilledPiece ==
  ASSUME NEW bytes \in Nat
  PROVE  Filled(bytes) = [first |-> pos, bytes |-> bytes, garbage |-> Slack]
<1>1. (ReadBufferSize + Slack) - (ReadBufferSize - bytes) - bytes = Slack
  BY StreamingFileHandlerAssumption
<1> QED
  BY <1>1 DEF Filled

\* A step of the reader that sends: one task, from the IO thread.
ReaderSends(task) ==
  /\ Send("other", task)
  /\ \/ /\ OpenFails /\ task = Headers(404)
     \/ /\ OpenSucceeds /\ task = Headers(200)
     \/ /\ Read
        /\ task = Body([first |-> pos, bytes |-> Smaller(ReadBufferSize, Remaining),
                        garbage |-> Slack])
     \/ /\ ReadFails
        /\ task = Body([first |-> pos, bytes |-> 0, garbage |-> Slack])
     \/ /\ SendEOF /\ task = Eof

LEMMA ReaderSteps ==
  ASSUME TypeOK, IOThread
  PROVE  \/ \E task \in Tasks : task.op # "delete" /\ ReaderSends(task)
         \/ AllocFails
         \/ EndOfFile
<1>1. CASE OpenFails
  BY <1>1, TasksOfFile DEF OpenFails, ReaderSends
<1>2. CASE OpenSucceeds
  BY <1>2, TasksOfFile DEF OpenSucceeds, ReaderSends
<1>3. CASE Read
  <2> DEFINE task == Body([first |-> pos, bytes |-> Smaller(ReadBufferSize, Remaining),
                           garbage |-> Slack])
  <2>1. task \in Tasks /\ task.op = "body"
    BY BytesRead, TasksOfFile
  <2>2. Send("other", task)
    BY <1>3, BytesRead, FilledPiece DEF Read
  <2> QED
    BY <1>3, <2>1, <2>2 DEF ReaderSends
<1>4. CASE ReadFails
  <2> DEFINE task == Body([first |-> pos, bytes |-> 0, garbage |-> Slack])
  <2>1. task \in Tasks /\ task.op = "body"
    BY BytesRead, TasksOfFile
  <2>2. Send("other", task)
    BY <1>4, FilledPiece DEF ReadFails
  <2> QED
    BY <1>4, <2>1, <2>2 DEF ReaderSends
<1>5. CASE SendEOF
  BY <1>5, TasksOfFile DEF SendEOF, ReaderSends
<1> QED
  BY <1>1, <1>2, <1>3, <1>4, <1>5 DEF IOThread

\* What onEOM queues when it answers by itself.
LEMMA RespondQueues ==
  ASSUME BaseTypeOK, NEW code \in {304, 404}, Respond(code)
  PROVE  /\ <<Headers(code), Eof>> \in Seq(Tasks)
         /\ loopQ' = loopQ \o <<Headers(code), Eof>>
         /\ calls' = calls \o <<Headers(code), Eof>>
         /\ loopQ' \in Seq(Tasks) /\ calls' \in Seq(Tasks)
<1>1. <<Headers(code), Eof>> \in Seq(Tasks)
  BY TasksOfFile
<1> QED
  BY <1>1 DEF Respond, BaseTypeOK

\* The answers of onEOM.
LEMMA EOMSteps ==
  ASSUME TypeOK, OnEOM
  PROVE  /\ Submit /\ ingress' = "eom"
         /\ \/ \E code \in {304, 404} :
                 /\ Respond(code)
                 /\ code = 304 => kind = "regular" /\ Fresh
            \/ /\ UNCHANGED <<ended, object, sentHeaders, loopQ, notifQ, calls, wire,
                              dchecks, dangling>>
               /\ \/ UNCHANGED <<rawPath, path, file, kind, date, ifModifiedSince, reader,
                                 fin, pos, failed>> /\ terminated' = TRUE
                  \/ Via
<1>1. CASE NotRegular
  BY <1>1 DEF NotRegular, Respond
<1>2. CASE StatThrows
  BY <1>2 DEF StatThrows
<1>3. CASE NotModified
  BY <1>3 DEF NotModified, Respond
<1>4. ASSUME NEW ec \in BOOLEAN, StartReading(ec)
      PROVE  /\ Submit /\ ingress' = "eom"
             /\ UNCHANGED <<ended, object, sentHeaders, loopQ, notifQ, calls, wire,
                            dchecks, dangling>>
             /\ Via
  BY <1>4 DEF StartReading
<1>5. CASE \E ec \in BOOLEAN : StartReading(ec)
  BY <1>4, <1>5
<1> QED
  BY <1>1, <1>2, <1>3, <1>5 DEF OnEOM

\* Every variable keeps its type; the path is the one that sanitizePath made,
\* and no more than the file's length is read (StreamingFileHandler.cpp:12-105).
THEOREM FileTypeCorrect == Spec => []TypeOK
<1>1. Init => TypeOK
  <2> SUFFICES ASSUME Init PROVE TypeOK
    OBVIOUS
  <2>1. BaseTypeOK /\ ingress = "none"
    BY Empties DEF Init, BaseInit, BaseTypeOK
  <2>2. PICK r \in Requests, modified \in 1..MaxTime :
          kind = r.kind /\ file = [length |-> r.length, modified |-> modified]
    BY DEF Init
  <2>3. r.kind \in PathKinds /\ r.length \in 0..MaxFileSize /\ MaxFileSize \in Nat
    BY StreamingFileHandlerAssumption
  <2>4. /\ kind \in PathKinds
        /\ file \in [length : 0..MaxFileSize, modified : 1..MaxTime]
        /\ 0 \in 0..file.length
    BY <2>2, <2>3
  <2>5. 0 \in 0..MaxTime
    BY StreamingFileHandlerAssumption
  <2>6. path = <<>> /\ date = 0 /\ ifModifiedSince \in Int /\ pos = 0
    BY DEF Init
  <2>7. /\ reader \in {"unset", "queued", "reading", "ending", "done"}
        /\ fin \in {"closed", "good", "eof", "bad"}
        /\ failed \in BOOLEAN
        /\ terminated \in BOOLEAN
    BY DEF Init
  <2> QED
    BY <2>1, <2>4, <2>5, <2>6, <2>7 DEF TypeOK
<1>2. TypeOK /\ [Next]_vars => TypeOK'
  <2> SUFFICES ASSUME TypeOK, [Next]_vars PROVE TypeOK'
    OBVIOUS
  <2>1. CASE UNCHANGED vars
    BY <2>1 DEF vars, fileVars, baseVars, proxygen, TypeOK, BaseTypeOK
  <2>2. ASSUME NEW d \in 0..MaxTime, NEW skew \in ClockSkews, OnRequestReceived(d, skew)
        PROVE  TypeOK'
    <3>1. BaseTypeOK' /\ ingress = "none" /\ ingress' = "open"
      BY <2>2, CallbackType DEF OnRequestReceived, OnRequest, TypeOK
    <3>2. path' = PathAppend(<<>>, SanitizePath(rawPath)) /\ rawPath' = rawPath
      BY <2>2, <3>1 DEF OnRequestReceived, TypeOK
    <3>3. ifModifiedSince' \in Int
      BY <2>2, StreamingFileHandlerAssumption DEF OnRequestReceived
    <3> QED
      BY <2>2, <3>1, <3>2, <3>3 DEF OnRequestReceived, TypeOK
  <2>3. ASSUME BaseTypeOK', UNCHANGED <<rawPath, path, file, kind, date, ifModifiedSince>>,
               (ingress # "none" /\ ingress' # "none") \/ ingress' = ingress,
               reader' \in {"unset", "queued", "reading", "ending", "done"},
               fin' \in {"closed", "good", "eof", "bad"}, pos' \in 0..file.length,
               failed' \in BOOLEAN, terminated' \in BOOLEAN
        PROVE  TypeOK'
    BY <2>3 DEF TypeOK
  <2>4. CASE OnEOM
    <3>1. Submit /\ ingress' = "eom"
      BY <2>4, EOMSteps
    <3>2. BaseTypeOK'
      <4>1. ASSUME NEW code \in {304, 404}, Respond(code) PROVE BaseTypeOK'
        <5>1. loopQ' \in Seq(Tasks) /\ calls' \in Seq(Tasks)
          BY <4>1, RespondQueues DEF TypeOK
        <5>2. dchecks' \in BOOLEAN /\ sentHeaders' \in BOOLEAN
          BY <4>1, Zenon DEF Respond
        <5>3. UNCHANGED <<ended, object, notifQ, wire, dangling>>
          BY <4>1 DEF Respond
        <5>4. /\ ended' \in {"no", "complete", "error"} /\ object' \in {"live", "deleted"}
              /\ notifQ' \in Seq(Tasks) /\ wire' \in Seq(Tasks)
              /\ dangling' \in SUBSET {"call", "headers", "body", "eof"}
          BY <5>3 DEF TypeOK, BaseTypeOK
        <5>5. ingress' \in {"none", "open", "eom"}
          BY <3>1
        <5> QED
          BY <5>1, <5>2, <5>4, <5>5, Zenon DEF BaseTypeOK
      <4>2. CASE UNCHANGED <<ended, object, sentHeaders, loopQ, notifQ, calls, wire,
                             dchecks, dangling>>
        BY <3>1, <4>2 DEF TypeOK, BaseTypeOK
      <4>3. \/ \E code \in {304, 404} : Respond(code)
            \/ UNCHANGED <<ended, object, sentHeaders, loopQ, notifQ, calls, wire,
                            dchecks, dangling>>
        BY <2>4, Zenon DEF OnEOM, NotRegular, StatThrows, NotModified, StartReading
      <4> QED
        BY <4>1, <4>2, <4>3
    <3>3. UNCHANGED <<rawPath, path, file, kind, date, ifModifiedSince, fin, pos, failed>>
      BY <2>4, EOMSteps DEF Respond, fileVars, Via
    <3>4. reader' \in {reader, "queued"} /\ terminated' \in {terminated, TRUE}
      BY <2>4, EOMSteps DEF Respond, fileVars, Via
    <3> QED
      BY <2>3, <3>1, <3>2, <3>3, <3>4 DEF Submit, TypeOK
  <2>5. CASE IOThread
    <3>1. UNCHANGED <<rawPath, path, file, kind, date, ifModifiedSince, terminated>>
      BY <2>5 DEF IOThread, OpenFails, OpenSucceeds, Read, ReadFails, AllocFails, EndOfFile, SendEOF
    <3>2. BaseTypeOK' /\ ingress' = ingress
      <4>1. ASSUME NEW task \in Tasks, Send("other", task) PROVE BaseTypeOK' /\ ingress' = ingress
        BY <4>1, SendType DEF TypeOK, Threads, Send, proxygen
      <4>2. CASE AllocFails
        BY <4>2 DEF AllocFails, Touch, TypeOK, BaseTypeOK, proxygen
      <4>3. CASE EndOfFile
        BY <4>3 DEF EndOfFile, TypeOK, BaseTypeOK, baseVars, proxygen
      <4> QED
        BY <2>5, <4>1, <4>2, <4>3, ReaderSteps DEF ReaderSends
    <3>3. pos' \in 0..file.length
      <4>1. pos' = pos \/ pos' = pos + Smaller(ReadBufferSize, Remaining)
        BY <2>5 DEF IOThread, OpenFails, OpenSucceeds, Read, ReadFails, AllocFails,
                    EndOfFile, SendEOF
      <4> QED
        BY <4>1, BytesRead DEF TypeOK
    <3>4. /\ reader' \in {reader, "reading", "ending", "done"}
          /\ fin' \in {fin, "good", "eof", "bad"}
          /\ failed' \in {failed, TRUE}
      BY <2>5 DEF IOThread, OpenFails, OpenSucceeds, Read, ReadFails, AllocFails,
                  EndOfFile, SendEOF
    <3>5. /\ reader \in {"unset", "queued", "reading", "ending", "done"}
          /\ fin \in {"closed", "good", "eof", "bad"}
          /\ failed \in BOOLEAN
      BY DEF TypeOK
    <3>6. /\ reader' \in {"unset", "queued", "reading", "ending", "done"}
          /\ fin' \in {"closed", "good", "eof", "bad"}
          /\ failed' \in BOOLEAN
      BY <3>4, <3>5
    <3> QED
      BY <2>3, <3>1, <3>2, <3>3, <3>6 DEF TypeOK
  <2>7. CASE NoMemory
    BY <2>7 DEF NoMemory, baseVars, proxygen, TypeOK, BaseTypeOK
  <2>6. CASE Base /\ UNCHANGED fileVars
    <3>1. BaseTypeOK' /\ ingress' = ingress
      BY <2>6, CallbackType, EventBaseType
         DEF Base, TypeOK, OnError, RequestComplete, EventBase, RunLoopCallback,
             RunNotification, Run, proxygen
    <3> QED
      BY <2>3, <2>6, <3>1 DEF fileVars, TypeOK
  <2> QED
    BY <2>1, <2>2, <2>4, <2>5, <2>6, <2>7 DEF Next
<1> QED
  BY <1>1, <1>2, PTL DEF Spec

-----------------------------------------------------------------------------
(* Order. onEOM answers on the queue of the event base thread or leaves the  *)
(* answer to the reader, which uses the other queue.                         *)

ReaderInv ==
  /\ ingress # "eom" => /\ reader = "unset"
                        /\ ~sentHeaders
                        /\ calls = <<>>
                        /\ ended = "no" => loopQ = <<>>
  /\ reader = "unset" => notifQ = <<>>
  /\ reader # "unset" /\ ended = "no" => loopQ = <<>>
  /\ reader = "queued" => ~sentHeaders /\ calls = <<>>
  /\ reader = "reading" => sentHeaders
  /\ reader = "ending" => sentHeaders \/ (failed /\ calls = <<>>)
  /\ failed => reader \in {"ending", "done"}

\* Where the reader is before and after it sends.
LEMMA ReaderMoves ==
  ASSUME NEW task \in Tasks, ReaderSends(task)
  PROVE  /\ reader = "queued" =>
              /\ task.op = "headers"
              /\ \/ reader' = "ending" /\ task.code = 404
                 \/ reader' = "reading" /\ task.code = 200
         /\ reader = "reading" => task.op = "body" /\ reader' = "reading"
         /\ reader = "ending" => task.op = "eof" /\ reader' = "done"
         /\ reader \in {"queued", "reading", "ending"}
BY TasksOfFile DEF ReaderSends, OpenFails, OpenSucceeds, Read, ReadFails, SendEOF, Body, Eof

LEMMA ReaderInvariant == Spec => []ReaderInv
<1>1. Init => ReaderInv
  BY DEF Init, BaseInit, ReaderInv
<1>2. TypeOK /\ ReaderInv /\ [Next]_vars => ReaderInv'
  <2> SUFFICES ASSUME TypeOK, ReaderInv, [Next]_vars PROVE ReaderInv'
    OBVIOUS
  <2>1. CASE UNCHANGED vars
    BY <2>1 DEF vars, fileVars, baseVars, proxygen, ReaderInv
  <2>2. ASSUME NEW d, NEW skew, OnRequestReceived(d, skew) PROVE ReaderInv'
    BY <2>2 DEF OnRequestReceived, OnRequest, ReaderInv
  <2>3. CASE OnEOM
    <3>1. Submit /\ ingress' = "eom" /\ reader = "unset" /\ ~sentHeaders /\ calls = <<>>
          /\ ~failed /\ loopQ = <<>> /\ notifQ = <<>>
      BY <2>3, EOMSteps DEF Submit, ReaderInv
    <3>2. ASSUME NEW code, Respond(code) PROVE ReaderInv'
      BY <3>1, <3>2 DEF Respond, fileVars, ReaderInv
    <3>3. CASE UNCHANGED <<ended, sentHeaders, loopQ, notifQ, calls, failed>> /\ reader' \in {reader, "queued"}
      BY <3>1, <3>3 DEF ReaderInv
    <3> QED
      BY <2>3, <3>2, <3>3, EOMSteps DEF Via
  <2>4. CASE IOThread
    <3>1. ASSUME NEW task \in Tasks, ReaderSends(task) PROVE ReaderInv'
      <4>1. /\ UNCHANGED <<ingress, ended, loopQ>>
            /\ sentHeaders' = (sentHeaders \/ task.op = "headers")
        BY <3>1 DEF ReaderSends, Send, RunInEventBaseThread, proxygen
      <4>2. ingress = "eom"
        BY <3>1, ReaderMoves DEF ReaderInv
      <4>3. failed' = failed
        BY <3>1 DEF ReaderSends, OpenFails, OpenSucceeds, Read, ReadFails, SendEOF
      <4> QED
        BY <3>1, <4>1, <4>2, <4>3, ReaderMoves DEF ReaderInv
    <3>2. CASE AllocFails
      BY <3>2 DEF AllocFails, Allocates, ReaderInv, proxygen
    <3>3. CASE EndOfFile
      BY <3>3 DEF EndOfFile, baseVars, proxygen, ReaderInv
    <3> QED
      BY <2>4, <3>1, <3>2, <3>3, ReaderSteps
  <2>5. CASE Base /\ UNCHANGED fileVars
    <3>1. CASE OnError \/ RequestComplete
      BY <2>5, <3>1 DEF OnError, RequestComplete, RunInEventBaseThread, fileVars, ReaderInv
    <3>2. CASE EventBase
      BY <2>5, <3>2 DEF EventBase, RunLoopCallback, RunNotification, Run, proxygen,
                        fileVars, ReaderInv
    <3> QED
      BY <2>5, <3>1, <3>2 DEF Base
  <2>6. CASE NoMemory
    BY <2>6 DEF NoMemory, baseVars, proxygen, ReaderInv
  <2> QED
    BY <2>1, <2>2, <2>3, <2>4, <2>5, <2>6 DEF Next
<1> QED
  BY <1>1, <1>2, FileTypeCorrect, PTL DEF Spec

-----------------------------------------------------------------------------
(* The wire follows the calls *)

\* Nothing has been sent before onEOM.
LEMMA NothingSent ==
  ASSUME TypeOK, ReaderInv, OnEOM
  PROVE  /\ calls = <<>> /\ loopQ = <<>> /\ notifQ = <<>>
         /\ ~sentHeaders /\ ended = "no" /\ ingress = "open" /\ reader = "unset"
BY EOMSteps DEF Submit, ReaderInv

LEMMA RespondOrder ==
  ASSUME TypeOK, ReaderInv, OrderInv, OnEOM, NEW code \in {304, 404}, Respond(code)
  PROVE  OrderInv' /\ calls' = <<Headers(code), Eof>> /\ UNCHANGED <<ended, wire, dangling>>
<1> DEFINE ts == <<Headers(code), Eof>>
<1>1. /\ calls = <<>> /\ loopQ = <<>> /\ notifQ = <<>> /\ ended = "no"
      /\ wire \in Seq(Tasks)
  BY NothingSent DEF TypeOK, BaseTypeOK
<1>2. /\ ts \in Seq(Tasks) /\ Len(ts) = 2 /\ DOMAIN ts = 1..2
      /\ ts[1] = Headers(code) /\ ts[2] = Eof
      /\ Headers(code).op = "headers" /\ Eof.op = "eof"
  BY TasksOfFile
<1>3. /\ loopQ' = <<>> \o ts /\ calls' = <<>> \o ts
      /\ UNCHANGED <<ended, object, notifQ, wire, dangling>>
  BY <1>1 DEF Respond
<1> HIDE DEF ts
<1>4. loopQ' = ts /\ calls' = ts
  BY <1>2, <1>3, ConcatEmptySeq
<1>5. wire = <<>>
  BY <1>1 DEF OrderInv, WireFollowsCalls, IsPrefixOf
<1>6. QueueInv'
  <2>1. \A i \in DOMAIN loopQ' : loopQ'[i].op # "delete"
    BY <1>2, <1>4
  <2> QED
    BY <1>1, <1>3, <2>1 DEF OrderInv, QueueInv
<1>7. IsPrefixOf(<<>>, ts)
  <2>1. <<>> = SubSeq(ts, 1, 0) /\ Len(<<>>) = 0
    BY SubSeqEmpty, EmptySeq
  <2> QED
    BY <1>2, <2>1 DEF IsPrefixOf
<1>8. <<>> \o ts = ts /\ ts \o <<>> = ts
  BY <1>2, ConcatEmptySeq
<1>9. IsPrefixOf(wire, calls)' /\ calls' = wire' \o loopQ' \o notifQ'
  BY <1>1, <1>3, <1>4, <1>5, <1>7, <1>8 DEF IsPrefixOf
<1> QED
  BY <1>3, <1>4, <1>6, <1>9 DEF ts, OrderInv, WireFollowsCalls

LEMMA FileOrderInvariant == Spec => []OrderInv
<1>1. Init => OrderInv
  <2>1. Init => /\ loopQ = <<>> /\ notifQ = <<>>
                /\ wire = <<>> /\ calls = <<>> /\ object = "live"
    BY DEF Init, BaseInit
  <2>2. IsPrefixOf(<<>>, <<>>) /\ <<>> = <<>> \o <<>> \o <<>>
    BY Empties
  <2>3. Init => QueueInv
    BY <2>1, Empties DEF QueueInv
  <2>4. Init => WireFollowsCalls
    BY <2>1, <2>2 DEF WireFollowsCalls
  <2> QED
    BY <2>3, <2>4 DEF OrderInv
<1>2. TypeOK /\ ReaderInv /\ OrderInv /\ [Next]_vars => OrderInv'
  <2> SUFFICES ASSUME TypeOK, ReaderInv, OrderInv, [Next]_vars PROVE OrderInv'
    OBVIOUS
  <2>0. BaseTypeOK
    BY DEF TypeOK
  <2>1. CASE UNCHANGED <<ended, object, loopQ, notifQ, calls, wire>>
    BY <2>1 DEF OrderInv, QueueInv, WireFollowsCalls, IsPrefixOf
  <2>2. ASSUME NEW d, NEW skew, OnRequestReceived(d, skew) PROVE OrderInv'
    BY <2>0, <2>2, CallbackOrder DEF OnRequestReceived
  <2>3. CASE OnEOM
    <3>1. ASSUME NEW code \in {304, 404}, Respond(code) PROVE OrderInv'
      BY <2>3, <3>1, RespondOrder
    <3> QED
      BY <2>1, <2>3, <3>1, EOMSteps
  <2>4. CASE IOThread
    <3>1. ASSUME NEW task \in Tasks, task.op # "delete", ReaderSends(task) PROVE OrderInv'
      <4>1. MaySend("other") /\ Send("other", task)
        BY <3>1, ReaderMoves DEF ReaderInv, MaySend, ReaderSends
      <4> QED
        BY <2>0, <3>1, <4>1, SendOrder DEF Threads
    <3>2. CASE AllocFails \/ EndOfFile
      BY <2>1, <3>2 DEF AllocFails, EndOfFile, baseVars, proxygen
    <3> QED
      BY <2>4, <3>1, <3>2, ReaderSteps
  <2>5. CASE Base
    BY <2>0, <2>5, CallbackOrder, EventBaseOrder DEF Base
  <2> QED
    BY <2>1, <2>2, <2>3, <2>4, <2>5 DEF Next, NoMemory, vars, baseVars, proxygen
<1> QED
  BY <1>1, <1>2, FileTypeCorrect, ReaderInvariant, PTL DEF Spec

-----------------------------------------------------------------------------
(* The response. Its shape, and below its contents, are those of the calls,  *)
(* of which the wire is a beginning.                                         *)

ShapeInv ==
  /\ sentHeaders => \A i \in DOMAIN calls : (calls[i].op = "headers") = (i = 1)
  /\ ~sentHeaders => calls = <<>> \/ (failed /\ reader = "done" /\ calls = <<Eof>>)
  /\ EofLast
  /\ reader \in {"queued", "reading", "ending"} => NoEof
  /\ calls = <<>> => reader \in {"unset", "queued"} \/ (reader = "ending" /\ ~sentHeaders)
  /\ ended = "complete" => reader \in {"unset", "done"}

\* One call, or none for a piece without bytes.
LEMMA CallsGrow ==
  ASSUME TypeOK, NEW task \in Tasks, Send("other", task)
  PROVE  \/ calls' = calls /\ task.op = "body" /\ task.piece.bytes + task.piece.garbage = 0
         \/ /\ ~Empty(task)
            /\ Len(calls) \in Nat
            /\ DOMAIN calls = 1..Len(calls)
            /\ Len(calls') = Len(calls) + 1
            /\ DOMAIN calls' = 1..Len(calls) + 1
            /\ calls'[Len(calls) + 1] = task
            /\ \A i \in 1..Len(calls) : calls'[i] = calls[i]
<1>1. calls \in Seq(Tasks) /\ Len(calls) \in Nat /\ DOMAIN calls = 1..Len(calls)
  BY DEF TypeOK, BaseTypeOK
<1>2. CASE Empty(task)
  <2>1. calls' = calls \o <<>>
    BY <1>2 DEF Send
  <2> QED
    BY <1>1, <1>2, <2>1, ConcatEmptySeq DEF Empty
<1>3. CASE ~Empty(task)
  <2>1. calls' = calls \o <<task>>
    BY <1>3 DEF Send
  <2>2. /\ Len(calls') = Len(calls) + 1
        /\ DOMAIN calls' = 1..Len(calls) + 1
        /\ calls'[Len(calls) + 1] = task
        /\ \A i \in 1..Len(calls) : calls'[i] = calls[i]
    BY <1>1, <2>1
  <2> QED
    BY <1>1, <1>3, <2>2
<1> QED
  BY <1>2, <1>3

\* The calls grow by one task.
Grown(task) ==
  /\ Len(calls) \in Nat
  /\ DOMAIN calls = 1..Len(calls)
  /\ Len(calls') = Len(calls) + 1
  /\ DOMAIN calls' = 1..Len(calls) + 1
  /\ calls'[Len(calls) + 1] = task
  /\ \A i \in 1..Len(calls) : calls'[i] = calls[i]

\* The two calls of a response without a body.
LEMMA ResponseOfTwo ==
  ASSUME NEW code \in {304, 404}
  PROVE  LET ts == <<Headers(code), Eof>>
         IN  /\ Len(ts) = 2 /\ DOMAIN ts = 1..2
             /\ ts[1].op = "headers" /\ ts[1].code = code
             /\ ts[2].op = "eof"
BY TasksOfFile

LEMMA ShapeInvariant == Spec => []ShapeInv
<1>1. Init => ShapeInv
  BY DEF Init, BaseInit, ShapeInv, EofLast, NoEof
<1>2. TypeOK /\ ReaderInv /\ OrderInv /\ ShapeInv /\ [Next]_vars => ShapeInv'
  <2> SUFFICES ASSUME TypeOK, ReaderInv, OrderInv, ShapeInv, [Next]_vars PROVE ShapeInv'
    OBVIOUS
  <2>0. BaseTypeOK
    BY DEF TypeOK
  <2>1. CASE UNCHANGED <<calls, reader, ended, sentHeaders, failed>>
    BY <2>1 DEF ShapeInv, EofLast, NoEof
  <2>2. CASE OnEOM
    <3>1. calls = <<>> /\ reader = "unset" /\ ended = "no"
      BY <2>2, NothingSent
    <3>2. ASSUME NEW code \in {304, 404}, Respond(code) PROVE ShapeInv'
      <4>1. calls' = <<Headers(code), Eof>> /\ ended' = "no" /\ reader' = "unset" /\ sentHeaders'
        BY <2>2, <3>1, <3>2, RespondOrder DEF Respond, fileVars
      <4> QED
        BY <4>1, ResponseOfTwo DEF ShapeInv, EofLast
    <3>3. CASE UNCHANGED <<calls, ended, sentHeaders>> /\ reader' \in {"unset", "queued"}
      BY <3>1, <3>3 DEF ShapeInv, EofLast, NoEof
    <3> QED
      BY <2>2, <3>1, <3>2, <3>3, EOMSteps DEF Via
  <2>3. CASE IOThread
    <3>1. ASSUME NEW task \in Tasks, ReaderSends(task) PROVE ShapeInv'
      <4>1. /\ ended' = ended /\ Send("other", task)
            /\ reader \in {"queued", "reading", "ending"}
            /\ reader' \in {"reading", "ending", "done"}
            /\ ended # "complete" /\ NoEof
        BY <3>1, ReaderMoves DEF ReaderSends, Send, proxygen, ShapeInv
      <4>2. EofLast' /\ (task.op # "eof" => NoEof')
        BY <2>0, <3>1, <4>1, SendEof DEF Threads
      <4>3. task.op = "eof" => reader' = "done"
        BY <3>1, ReaderMoves
      <4>4. /\ sentHeaders \in BOOLEAN /\ failed' = failed
            /\ sentHeaders' = (sentHeaders \/ task.op = "headers")
        BY <2>0, <3>1, <4>1 DEF BaseTypeOK, Send, ReaderSends, OpenFails, OpenSucceeds, Read,
                                ReadFails, SendEOF
      <4>5. CASE calls' = calls /\ task.op = "body"
        <5>1. reader = "reading" /\ reader' = "reading" /\ sentHeaders /\ sentHeaders'
          BY <3>1, <4>4, <4>5, ReaderMoves DEF ReaderInv
        <5> QED
          BY <4>1, <4>2, <4>5, <5>1 DEF ShapeInv
      <4>6. ASSUME Grown(task) PROVE ShapeInv'
        <5>1. (calls = <<>>) = (Len(calls) = 0)
          BY <2>0 DEF BaseTypeOK
        <5>2. calls' # <<>>
          BY <4>6 DEF Grown
        <5>3. CASE sentHeaders'
          <6>1. (task.op = "headers") = (calls = <<>>)
            BY <3>1, <4>4, <5>3, ReaderMoves DEF ReaderInv, ShapeInv
          <6>2. \A i \in 1..Len(calls) : (calls[i].op = "headers") = (i = 1)
            BY <4>4, <4>6, <5>1, <5>3, <6>1 DEF ShapeInv, Grown
          <6>3. ASSUME NEW i \in DOMAIN calls' PROVE (calls'[i].op = "headers") = (i = 1)
            <7>1. CASE i \in 1..Len(calls)
              BY <4>6, <6>2, <7>1 DEF Grown
            <7>2. CASE i = Len(calls) + 1
              BY <4>6, <5>1, <6>1, <7>2 DEF Grown
            <7> QED
              BY <4>6, <6>3, <7>1, <7>2 DEF Grown
          <6> QED
            BY <4>1, <4>2, <4>3, <5>2, <5>3, <6>3 DEF ShapeInv
        <5>4. CASE ~sentHeaders'
          <6>1. reader = "ending" /\ reader' = "done" /\ task.op = "eof" /\ failed /\ calls = <<>>
            BY <3>1, <4>1, <4>4, <5>4, ReaderMoves DEF ReaderInv
          <6>2. task = Eof
            BY <3>1, <6>1 DEF ReaderSends, OpenFails, OpenSucceeds, Read, ReadFails
          <6>3. calls' = <<Eof>>
            <7>1. calls' = calls \o <<task>> \/ calls' = calls \o <<>>
              BY <4>1 DEF Send
            <7> QED
              BY <5>2, <6>1, <6>2, <7>1
          <6> QED
            BY <4>1, <4>2, <4>4, <5>2, <5>4, <6>1, <6>3 DEF ShapeInv
        <5> QED
          BY <5>3, <5>4
      <4> QED
        BY <3>1, <4>1, <4>5, <4>6, CallsGrow DEF Grown
    <3>2. CASE AllocFails
      <4>1. /\ UNCHANGED <<calls, ended, sentHeaders>> /\ ended # "complete" /\ NoEof
            /\ reader' = "ending"
            /\ \/ reader = "queued" /\ ~sentHeaders /\ calls = <<>>
               \/ reader = "reading" /\ sentHeaders /\ calls # <<>>
        BY <3>2 DEF AllocFails, Allocates, proxygen, ReaderInv, ShapeInv
      <4> QED
        BY <4>1 DEF ShapeInv, EofLast, NoEof
    <3>3. CASE EndOfFile
      <4>1. /\ UNCHANGED <<calls, ended, sentHeaders>> /\ ended # "complete" /\ NoEof
            /\ reader' = "ending" /\ sentHeaders /\ calls # <<>>
        BY <3>3 DEF EndOfFile, baseVars, proxygen, ReaderInv, ShapeInv
      <4> QED
        BY <4>1 DEF ShapeInv, EofLast, NoEof
    <3> QED
      BY <2>3, <3>1, <3>2, <3>3, ReaderSteps
  <2>4. CASE Base /\ UNCHANGED fileVars
    <3>1. CASE OnError \/ EventBase
      BY <2>4, <3>1 DEF OnError, EventBase, RunLoopCallback, RunNotification, Run, proxygen,
                        fileVars, ShapeInv, EofLast, NoEof
    <3>2. CASE RequestComplete
      <4>1. PICK i \in DOMAIN wire : wire[i].op = "eof"
        BY <3>2 DEF RequestComplete
      <4>2. ended = "no" /\ UNCHANGED <<calls, reader, sentHeaders, failed>>
        BY <2>4, <3>2 DEF RequestComplete, fileVars
      <4>3. i \in DOMAIN calls /\ calls[i].op = "eof"
        BY <2>0, <4>1, <4>2, WrittenToTheEnd DEF ShapeInv
      <4>4. reader \in {"unset", "done"}
        BY <4>3 DEF ShapeInv, NoEof, TypeOK
      <4> QED
        BY <4>2, <4>4 DEF ShapeInv, EofLast, NoEof
    <3> QED
      BY <2>4, <3>1, <3>2 DEF Base
  <2> QED
    BY <2>1, <2>2, <2>3, <2>4 DEF Next, NoMemory, OnRequestReceived, OnRequest, vars, fileVars,
                                 baseVars, proxygen
<1> QED
  BY <1>1, <1>2, FileTypeCorrect, ReaderInvariant, FileOrderInvariant, PTL DEF Spec

\* One header comes before anything else, the DCHECKs of the send functions
\* hold, on every path through onEOM and the reader but that of an exception
\* before the headers, where the end is the only call
\* (StreamingHTTPHandler-inl.h:45, 67, 80; StreamingFileHandler.cpp:99-102).
THEOREM FileSendsInOrder == Spec => []SendsInOrder
<1>1. Init => SendsInOrder
  BY DEF Init, BaseInit, SendsInOrder
<1>2. TypeOK /\ ReaderInv /\ ShapeInv /\ ShapeInv' /\ SendsInOrder /\ [Next]_vars => SendsInOrder'
  <2> SUFFICES ASSUME TypeOK, ReaderInv, ShapeInv, ShapeInv', SendsInOrder, [Next]_vars
               PROVE  SendsInOrder'
    OBVIOUS
  <2>1. CASE UNCHANGED <<dchecks, calls, failed, sentHeaders>>
    BY <2>1 DEF SendsInOrder, Headless
  <2>2. CASE OnEOM
    <3>1. ASSUME NEW code \in {304, 404}, Respond(code) PROVE SendsInOrder'
      <4>1. ~sentHeaders /\ sentHeaders \in BOOLEAN /\ calls = <<>>
        BY <2>2, NothingSent DEF TypeOK, BaseTypeOK
      <4>2. DcheckHolds(Headers(code))
        BY <4>1, TasksOfFile DEF DcheckHolds
      <4>3. dchecks
        BY <4>1 DEF SendsInOrder
      <4>4. dchecks' = (dchecks /\ DcheckHolds(Headers(code)))
        BY <3>1 DEF Respond
      <4> QED
        BY <4>2, <4>3, <4>4, Zenon DEF SendsInOrder
    <3> QED
      BY <2>1, <2>2, <3>1, EOMSteps DEF Via
  <2>3. CASE IOThread
    <3>1. ASSUME NEW task \in Tasks, ReaderSends(task) PROVE SendsInOrder'
      <4>1. /\ Send("other", task) /\ sentHeaders \in BOOLEAN
            /\ sentHeaders' = (sentHeaders \/ task.op = "headers")
        BY <3>1 DEF ReaderSends, Send, TypeOK, BaseTypeOK
      <4>2. dchecks
        BY <3>1, ReaderMoves DEF SendsInOrder, Headless, ShapeInv
      <4>3. CASE DcheckHolds(task)
        BY <4>1, <4>2, <4>3 DEF Send, SendsInOrder
      <4>4. CASE ~DcheckHolds(task)
        <5>1. ~sentHeaders /\ task.op = "eof"
          BY <3>1, <4>1, <4>4, ReaderMoves DEF DcheckHolds, ReaderInv
        <5>2. calls' # <<>>
          BY <4>1, <5>1, CallsGrow
        <5> QED
          BY <4>1, <5>1, <5>2 DEF ShapeInv, SendsInOrder, Headless
      <4> QED
        BY <4>3, <4>4
    <3>2. CASE AllocFails
      <4>1. UNCHANGED <<dchecks, calls, sentHeaders>> /\ failed' = TRUE
        BY <3>2 DEF AllocFails
      <4> QED
        BY <4>1 DEF SendsInOrder, Headless
    <3> QED
      BY <2>1, <2>3, <3>1, <3>2, ReaderSteps DEF EndOfFile, baseVars
  <2> QED
    BY <2>1, <2>2, <2>3 DEF Next, NoMemory, OnRequestReceived, OnRequest, Base, OnError,
                           RequestComplete, EventBase, RunLoopCallback, RunNotification, Run,
                           vars, fileVars, baseVars
<1> QED
  BY <1>1, <1>2, FileTypeCorrect, ReaderInvariant, ShapeInvariant, PTL DEF Spec

\* What is on the wire is the beginning of the calls.
LEMMA WireIsPrefix ==
  ASSUME TypeOK, OrderInv
  PROVE  /\ wire \in Seq(Tasks) /\ calls \in Seq(Tasks)
         /\ Len(wire) \in Nat /\ Len(calls) \in Nat /\ Len(wire) <= Len(calls)
         /\ DOMAIN wire = 1..Len(wire)
         /\ DOMAIN calls = 1..Len(calls)
         /\ \A i \in DOMAIN wire : i \in DOMAIN calls /\ wire[i] = calls[i]
<1>1. /\ wire \in Seq(Tasks) /\ calls \in Seq(Tasks)
      /\ Len(wire) <= Len(calls)
      /\ wire = SubSeq(calls, 1, Len(wire))
  BY DEF TypeOK, BaseTypeOK, OrderInv, WireFollowsCalls, IsPrefixOf
<1>2. /\ Len(wire) \in Nat /\ Len(calls) \in Nat
      /\ DOMAIN wire = 1..Len(wire) /\ DOMAIN calls = 1..Len(calls)
  BY <1>1
<1>3. \A i \in 1..Len(wire) : wire[i] = calls[i]
  BY <1>1, <1>2
<1> QED
  BY <1>1, <1>2, <1>3

\* The wire always holds one well-formed response or a beginning of one: its
\* header first, and nothing after its end. After an exception before the
\* headers it holds the end at most (StreamingFileHandler.cpp:57-105).
THEOREM FileWellFormed == Spec => []WellFormedWire
<1>1. TypeOK /\ OrderInv /\ ShapeInv => WellFormedWire
  <2> SUFFICES ASSUME TypeOK, OrderInv, ShapeInv PROVE WellFormedWire
    OBVIOUS
  <2>1. CASE sentHeaders
    BY <2>1, WireIsPrefix DEF ShapeInv, EofLast, WellFormedWire, Sent, Headless
  <2>2. CASE ~sentHeaders /\ calls = <<>>
    <3>1. DOMAIN wire = {}
      BY <2>2, WireIsPrefix
    <3> QED
      BY <3>1 DEF WellFormedWire, Sent
  <2>3. CASE ~sentHeaders /\ failed /\ calls = <<Eof>>
    <3>1. \A i \in DOMAIN wire : i = 1 /\ Len(wire) = 1 /\ wire[i] = Eof
      BY <2>3, WireIsPrefix
    <3> QED
      BY <2>3, <3>1, TasksOfFile DEF WellFormedWire, Sent, Headless
  <2> QED
    BY <2>1, <2>2, <2>3 DEF ShapeInv
<1> QED
  BY <1>1, FileTypeCorrect, FileOrderInvariant, ShapeInvariant, PTL

-----------------------------------------------------------------------------
(* Lifetime *)

LEMMA FileLifeInvariant == Spec => []LifeInv
<1>1. Init => LifeInv
  BY DEF Init, BaseInit, LifeInv
<1>2. TypeOK /\ ReaderInv /\ OrderInv /\ ShapeInv /\ LifeInv /\ [Next]_vars => LifeInv'
  <2> SUFFICES ASSUME TypeOK, ReaderInv, OrderInv, ShapeInv, LifeInv, [Next]_vars PROVE LifeInv'
    OBVIOUS
  <2>0. BaseTypeOK
    BY DEF TypeOK
  <2>1. CASE UNCHANGED <<ended, dangling, loopQ, notifQ>>
    BY <2>1 DEF LifeInv
  <2>2. CASE OnEOM
    <3>1. ASSUME NEW code \in {304, 404}, Respond(code) PROVE LifeInv'
      <4>1. ended = "no" /\ UNCHANGED <<ended, dangling>>
        BY <2>2, <3>1, NothingSent, RespondOrder
      <4> QED
        BY <4>1 DEF LifeInv
    <3> QED
      BY <2>1, <2>2, <3>1, EOMSteps
  <2>3. CASE IOThread
    <3>1. ASSUME NEW task \in Tasks, ReaderSends(task) PROVE LifeInv'
      <4>1. ended # "complete" /\ Send("other", task)
        BY <3>1, ReaderMoves DEF ReaderSends, ShapeInv
      <4> QED
        BY <2>0, <4>1, SendLife
    <3>2. CASE AllocFails
      <4>1. ended # "complete" /\ ended' = ended
        BY <3>2 DEF AllocFails, Allocates, ShapeInv, proxygen
      <4>2. ended = "no" => dangling' = dangling
        BY <3>2 DEF AllocFails, Touch, OrderInv, QueueInv
      <4> QED
        BY <2>0, <4>1, <4>2 DEF LifeInv, BaseTypeOK
    <3>3. CASE EndOfFile
      BY <2>1, <3>3 DEF EndOfFile, baseVars, proxygen
    <3> QED
      BY <2>3, <3>1, <3>2, <3>3, ReaderSteps
  <2>4. CASE Base
    BY <2>0, <2>4, CallbackLife, EventBaseLife DEF Base, ShapeInv
  <2> QED
    BY <2>1, <2>2, <2>3, <2>4 DEF Next, NoMemory, OnRequestReceived, OnRequest, vars, baseVars,
                                 proxygen
<1> QED
  BY <1>1, <1>2, FileTypeCorrect, ReaderInvariant, FileOrderInvariant, ShapeInvariant, PTL DEF Spec

\* The reader on the IO thread uses the deleted handler only after onError:
\* proxygen completes no response that the reader still works on
\* (StreamingHTTPHandler-inl.h:22-39; StreamingFileHandler.cpp:69-102).
THEOREM FileDanglingOnly == Spec => []DanglingOnlyAfterError
<1>1. LifeInv => DanglingOnlyAfterError
  BY DEF LifeInv, DanglingOnlyAfterError
<1> QED
  BY <1>1, FileLifeInvariant, PTL

-----------------------------------------------------------------------------
(* Dates *)

\* The limit that the code compares with is never later than the client's date.
DateInv ==
  /\ date = 0 => ifModifiedSince = 0
  /\ date # 0 => ifModifiedSince <= date
  /\ \A i \in DOMAIN calls :
       calls[i].op = "headers" /\ calls[i].code = 304 =>
         kind = "regular" /\ date # 0 /\ file.modified <= date

LEMMA DateInvariant ==
  ASSUME \A skew \in ClockSkews : skew <= 0
  PROVE  Spec => []DateInv
<1>1. Init => DateInv
  BY DEF Init, BaseInit, DateInv
<1>2. TypeOK /\ ReaderInv /\ OrderInv /\ DateInv /\ [Next]_vars => DateInv'
  <2> SUFFICES ASSUME TypeOK, ReaderInv, OrderInv, DateInv, [Next]_vars PROVE DateInv'
    OBVIOUS
  <2>1. CASE UNCHANGED <<date, ifModifiedSince, calls, kind, file>>
    BY <2>1 DEF DateInv
  <2>2. ASSUME NEW d \in 0..MaxTime, NEW skew \in ClockSkews, OnRequestReceived(d, skew)
        PROVE  DateInv'
    <3>1. calls' = <<>>
      BY <2>2 DEF OnRequestReceived, OnRequest, ReaderInv
    <3>2. skew \in Int /\ skew <= 0 /\ d \in Int
      BY StreamingFileHandlerAssumption
    <3>3. date' = d /\ ifModifiedSince' = IF d = 0 THEN 0 ELSE d + skew
      BY <2>2 DEF OnRequestReceived
    <3> QED
      BY <3>1, <3>2, <3>3 DEF DateInv
  <2>3. CASE OnEOM
    <3>1. ASSUME NEW code \in {304, 404}, Respond(code), code = 304 => kind = "regular" /\ Fresh
          PROVE  DateInv'
      <4>0. calls' = <<Headers(code), Eof>>
        BY <2>3, <3>1, RespondOrder
      <4>1. UNCHANGED <<date, ifModifiedSince, kind, file>>
        BY <3>1 DEF Respond, fileVars
      <4>2. code = 304 => date # 0 /\ file.modified <= date
        <5> SUFFICES ASSUME Fresh PROVE date # 0 /\ file.modified <= date
          BY <3>1
        <5>1. /\ date \in Int /\ ifModifiedSince \in Int /\ file.modified \in Int
              /\ ifModifiedSince > 0 /\ ifModifiedSince >= file.modified
          BY StreamingFileHandlerAssumption DEF TypeOK, Fresh
        <5> QED
          BY <5>1 DEF DateInv
      <4>3. /\ DOMAIN calls' = 1..2
            /\ calls'[1].code = code /\ calls'[2].op = "eof"
        BY <4>0, ResponseOfTwo
      <4>4. \A i \in DOMAIN calls' :
              calls'[i].op = "headers" /\ calls'[i].code = 304 =>
                kind = "regular" /\ date # 0 /\ file.modified <= date
        <5> SUFFICES ASSUME NEW i \in DOMAIN calls',
                            calls'[i].op = "headers", calls'[i].code = 304
                     PROVE  kind = "regular" /\ date # 0 /\ file.modified <= date
          OBVIOUS
        <5>1. i = 1
          BY <4>3
        <5> QED
          BY <3>1, <4>2, <4>3, <5>1
      <4> QED
        BY <4>1, <4>4 DEF DateInv
    <3> QED
      BY <2>1, <2>3, <3>1, EOMSteps DEF Via
  <2>4. CASE IOThread
    <3>1. ASSUME NEW task \in Tasks, ReaderSends(task) PROVE DateInv'
      <4>1. Send("other", task) /\ (task.op = "headers" => task.code # 304)
        BY <3>1, ReaderMoves DEF ReaderSends
      <4>2. UNCHANGED <<date, ifModifiedSince, kind, file>>
        BY <3>1 DEF ReaderSends, OpenFails, OpenSucceeds, Read, ReadFails, SendEOF
      <4>3. \A i \in DOMAIN calls' : (i \in DOMAIN calls /\ calls'[i] = calls[i]) \/ calls'[i] = task
        <5>1. CASE calls' = calls
          BY <5>1
        <5>2. CASE calls' # calls
          <6>1. /\ Len(calls) \in Nat
                /\ DOMAIN calls = 1..Len(calls)
                /\ DOMAIN calls' = 1..Len(calls) + 1
                /\ calls'[Len(calls) + 1] = task
                /\ \A i \in 1..Len(calls) : calls'[i] = calls[i]
            BY <4>1, <5>2, CallsGrow
          <6> QED
            BY <6>1
        <5> QED
          BY <5>1, <5>2
      <4> QED
        BY <4>1, <4>2, <4>3 DEF DateInv
    <3>2. CASE AllocFails \/ EndOfFile
      BY <2>1, <3>2 DEF AllocFails, EndOfFile, baseVars
    <3> QED
      BY <2>4, <3>1, <3>2, ReaderSteps
  <2>5. CASE Base /\ UNCHANGED fileVars
    BY <2>1, <2>5 DEF Base, OnError, RequestComplete, EventBase, RunLoopCallback,
                      RunNotification, Run, fileVars
  <2> QED
    BY <2>1, <2>2, <2>3, <2>4, <2>5 DEF Next, NoMemory, vars, fileVars, baseVars
<1> QED
  BY <1>1, <1>2, FileTypeCorrect, ReaderInvariant, FileOrderInvariant, PTL DEF Spec

\* Where mktime does not take the client's date for a later one, that is on a
\* server whose local time is GMT or east of it, a 304 is for a file that was
\* not modified after that date (StreamingFileHandler.cpp:38-67).
THEOREM FileNotModified ==
  ASSUME \A skew \in ClockSkews : skew <= 0
  PROVE  Spec => []NotModifiedIsTrue
<1>1. TypeOK /\ OrderInv /\ DateInv => NotModifiedIsTrue
  BY WireIsPrefix DEF DateInv, NotModifiedIsTrue, Status, Sent
<1> QED
  BY <1>1, FileTypeCorrect, FileOrderInvariant, DateInvariant, PTL

-----------------------------------------------------------------------------
(* Contents. The reader has sent the file up to pos, without gap or overlap. *)

\* What of the file has been sent when s has been.
Reached(s) == IF Len(s) = 1 THEN 0 ELSE s[Len(s)].piece.first + s[Len(s)].piece.bytes

\* The piece at i continues what came before it.
Continues(s, i) ==
  /\ s[1].code = 200
  /\ s[i].piece.garbage = Slack
  /\ s[i].piece.first = IF s[i - 1].op = "body"
                        THEN s[i - 1].piece.first + s[i - 1].piece.bytes ELSE 0

\* Before the end at i everything has been sent.
EndsWhole(s, i) ==
  IF i = 2 THEN file.length = 0
  ELSE s[i - 1].piece.first + s[i - 1].piece.bytes = file.length

BodyInv ==
  /\ reader \in {"unset", "queued"} => pos = 0
  /\ fin = "eof" => pos = file.length
  /\ \A i \in DOMAIN calls : calls[i].op = "body" => Continues(calls, i)
  /\ \A i \in DOMAIN calls :
       calls[i].op = "eof" /\ calls[1].code = 200 /\ ~failed => EndsWhole(calls, i)
  /\ reader = "reading" => /\ calls[1].code = 200
                           /\ Reached(calls) = pos
                           /\ \A i \in 2..Len(calls) : calls[i].op = "body"
  /\ reader = "ending" /\ calls[1].code = 200 /\ ~failed => Reached(calls) = file.length

\* What was said of the calls so far still holds.
LEMMA GrownKeeps ==
  ASSUME ShapeInv, sentHeaders, BodyInv, NEW task, Grown(task), UNCHANGED <<file, failed>>, calls # <<>>
  PROVE  /\ calls'[1] = calls[1] /\ Len(calls) >= 1
         /\ \A i \in 1..Len(calls) : calls'[i].op = "body" => Continues(calls', i)
         /\ \A i \in 1..Len(calls) :
              calls'[i].op = "eof" /\ calls'[1].code = 200 /\ ~failed' => EndsWhole(calls, i)'
<1>1. calls'[1] = calls[1] /\ Len(calls) >= 1
  BY DEF Grown
<1>2. ASSUME NEW i \in 1..Len(calls), calls'[i].op = "body" PROVE Continues(calls', i)
  <2>1. calls[i].op = "body" /\ i # 1 /\ i - 1 \in 1..Len(calls)
    BY <1>2 DEF Grown, ShapeInv
  <2> QED
    BY <1>1, <2>1 DEF Grown, BodyInv, Continues
<1>3. ASSUME NEW i \in 1..Len(calls),
             calls'[i].op = "eof" /\ calls'[1].code = 200 /\ ~failed'
      PROVE  EndsWhole(calls, i)'
  <2>1. calls[i].op = "eof" /\ i # 1 /\ i - 1 \in 1..Len(calls)
    BY <1>3 DEF Grown, ShapeInv
  <2> QED
    BY <1>1, <1>3, <2>1 DEF Grown, BodyInv, EndsWhole
<1> QED
  BY <1>1, <1>2, <1>3

\* A step of the reader that sends keeps BodyInv: opening the file, ...
LEMMA HeadersKeepBody ==
  ASSUME TypeOK, ReaderInv, BodyInv, NEW task \in Tasks, ReaderSends(task),
         task.op = "headers", Grown(task)
  PROVE  BodyInv'
<1>1. /\ reader = "queued" /\ calls = <<>> /\ Len(calls) = 0
      /\ \/ reader' = "ending" /\ task.code = 404
         \/ reader' = "reading" /\ task.code = 200
  BY ReaderMoves DEF ReaderInv
<1>2. /\ pos' = pos /\ file' = file /\ failed' = failed /\ fin' \in {fin, "good"} /\ pos = 0
  BY <1>1 DEF ReaderSends, OpenFails, OpenSucceeds, Read, ReadFails, SendEOF, BodyInv
<1>3. DOMAIN calls' = 1..1 /\ Len(calls') = 1 /\ calls'[1] = task
  BY <1>1 DEF Grown
<1>4. Reached(calls') = 0
  BY <1>3 DEF Reached
<1> QED
  BY <1>1, <1>2, <1>3, <1>4 DEF BodyInv

\* ... a turn of the loop, which reads some bytes or none, ...
Turn(task, bytes) ==
  /\ task.piece = [first |-> pos, bytes |-> bytes, garbage |-> Slack]
  /\ pos' = pos + bytes
  /\ fin' = "eof" => pos + bytes = file.length
  /\ UNCHANGED <<file, failed>>

LEMMA LoopTurns ==
  ASSUME TypeOK, NEW task \in Tasks, ReaderSends(task), task.op = "body"
  PROVE  \E bytes \in Nat : Turn(task, bytes)
<1> DEFINE bytes == Smaller(ReadBufferSize, Remaining)
<1>1. CASE Read /\ task = Body([first |-> pos, bytes |-> bytes, garbage |-> Slack])
  <2>1. /\ task.piece = [first |-> pos, bytes |-> bytes, garbage |-> Slack]
        /\ pos' = pos + bytes /\ UNCHANGED <<file, failed>>
        /\ fin' = IF bytes < ReadBufferSize THEN "eof" ELSE "good"
    BY <1>1 DEF Read, Body
  <2>2. bytes \in Nat /\ (bytes < ReadBufferSize => pos + bytes = file.length)
    BY BytesRead
  <2> HIDE DEF bytes
  <2> QED
    BY <2>1, <2>2 DEF Turn
<1>2. CASE ReadFails /\ task = Body([first |-> pos, bytes |-> 0, garbage |-> Slack])
  <2>1. /\ task.piece = [first |-> pos, bytes |-> 0, garbage |-> Slack]
        /\ pos' = pos /\ UNCHANGED <<file, failed>> /\ fin' = "bad"
    BY <1>2 DEF ReadFails, Body
  <2>2. pos \in Nat
    BY BytesRead
  <2> QED
    BY <2>1, <2>2 DEF Turn
<1> QED
  BY <1>1, <1>2, TasksOfFile DEF ReaderSends

\* ... with something to send, ...
LEMMA PieceKeepsBody ==
  ASSUME TypeOK, ReaderInv, ShapeInv, BodyInv, NEW task \in Tasks, ReaderSends(task),
         task.op = "body", Grown(task)
  PROVE  BodyInv'
<1>1. reader = "reading" /\ reader' = "reading" /\ calls # <<>> /\ sentHeaders
  BY ReaderMoves DEF ReaderInv, ShapeInv
<1>2. PICK bytes \in Nat : Turn(task, bytes)
  BY LoopTurns
<1>3. /\ task.piece = [first |-> pos, bytes |-> bytes, garbage |-> Slack]
      /\ pos' = pos + bytes /\ file' = file /\ failed' = failed
      /\ fin' = "eof" => pos' = file'.length
  BY <1>2 DEF Turn
<1>4. pos \in Nat /\ bytes \in Nat /\ pos + bytes \in Nat
  BY BytesRead
<1>5. /\ calls'[1] = calls[1] /\ Len(calls) >= 1
      /\ \A i \in 1..Len(calls) : calls'[i].op = "body" => Continues(calls', i)
      /\ \A i \in 1..Len(calls) :
           calls'[i].op = "eof" /\ calls'[1].code = 200 /\ ~failed' => EndsWhole(calls, i)'
  BY <1>1, <1>3, GrownKeeps
<1>6. /\ Len(calls) \in Nat /\ Len(calls') = Len(calls) + 1
      /\ DOMAIN calls = 1..Len(calls) /\ DOMAIN calls' = 1..Len(calls) + 1
      /\ calls'[Len(calls) + 1] = task
      /\ \A i \in 1..Len(calls) : calls'[i] = calls[i]
  BY DEF Grown
<1>7. calls[1].code = 200 /\ Reached(calls) = pos /\ \A i \in 2..Len(calls) : calls[i].op = "body"
  BY <1>1 DEF BodyInv
<1>8. Continues(calls', Len(calls) + 1)
  <2>1. calls'[Len(calls) + 1 - 1] = calls[Len(calls)]
    BY <1>5, <1>6
  <2>2. pos = IF calls[Len(calls)].op = "body"
              THEN calls[Len(calls)].piece.first + calls[Len(calls)].piece.bytes ELSE 0
    <3>1. CASE Len(calls) = 1
      <4>1. calls[1].op = "headers" /\ 1 \in DOMAIN calls
        BY <1>1, <1>5, <1>6 DEF ShapeInv
      <4> QED
        BY <1>7, <3>1, <4>1 DEF Reached
    <3>2. CASE Len(calls) # 1
      BY <1>5, <1>6, <1>7, <3>2 DEF Reached
    <3> QED
      BY <3>1, <3>2
  <2> QED
    BY <1>3, <1>5, <1>6, <1>7, <2>1, <2>2 DEF Continues
<1>9. Reached(calls') = pos'
  BY <1>3, <1>5, <1>6 DEF Reached
<1>10. \A i \in 2..Len(calls') : calls'[i].op = "body"
  BY <1>6, <1>7
<1>11. \A i \in DOMAIN calls' : calls'[i].op = "body" => Continues(calls', i)
  BY <1>5, <1>6, <1>8
<1>12. \A i \in DOMAIN calls' :
         calls'[i].op = "eof" /\ calls'[1].code = 200 /\ ~failed' => EndsWhole(calls, i)'
  BY <1>5, <1>6
<1> QED
  BY <1>1, <1>3, <1>5, <1>7, <1>9, <1>10, <1>11, <1>12 DEF BodyInv

\* ... one that finds nothing to send, ...
LEMMA NothingKeepsBody ==
  ASSUME TypeOK, BodyInv, NEW task \in Tasks, ReaderSends(task),
         task.op = "body", task.piece.bytes = 0, calls' = calls
  PROVE  BodyInv'
<1>1. reader = "reading" /\ reader' = "reading"
  BY ReaderMoves
<1>2. PICK bytes \in Nat : Turn(task, bytes)
  BY LoopTurns
<1>3. bytes = 0 /\ pos \in Nat
  BY <1>2, BytesRead DEF Turn
<1>4. pos' = pos /\ UNCHANGED <<file, failed>> /\ (fin' = "eof" => pos' = file'.length)
  BY <1>2, <1>3 DEF Turn
<1> QED
  BY <1>1, <1>4 DEF BodyInv, Continues, EndsWhole, Reached

\* ... and the end of the response.
LEMMA EofKeepsBody ==
  ASSUME TypeOK, ReaderInv, ShapeInv, BodyInv, NEW task \in Tasks, ReaderSends(task),
         task.op = "eof", Grown(task)
  PROVE  BodyInv'
<1>1. reader = "ending" /\ reader' = "done"
  BY ReaderMoves
<1>2. UNCHANGED <<file, failed, pos, fin>>
  BY <1>1 DEF ReaderSends, OpenFails, OpenSucceeds, Read, ReadFails, SendEOF
<1>a. CASE ~sentHeaders
  <2>1. calls = <<>> /\ failed /\ failed'
    BY <1>1, <1>2, <1>a DEF ReaderInv
  <2>2. \A i \in DOMAIN calls' : calls'[i].op = "eof"
    BY <2>1 DEF Grown
  <2> QED
    BY <1>1, <1>2, <2>1, <2>2 DEF BodyInv
<1>b. CASE sentHeaders
  <2>0. calls # <<>>
    BY <1>1, <1>b DEF ShapeInv
  <2>3. /\ calls'[1] = calls[1] /\ Len(calls) >= 1
        /\ \A i \in 1..Len(calls) : calls'[i].op = "body" => Continues(calls', i)
        /\ \A i \in 1..Len(calls) :
             calls'[i].op = "eof" /\ calls'[1].code = 200 /\ ~failed' => EndsWhole(calls, i)'
    BY <1>2, <1>b, <2>0, GrownKeeps
  <2>4. /\ Len(calls) \in Nat /\ Len(calls') = Len(calls) + 1
        /\ DOMAIN calls = 1..Len(calls) /\ DOMAIN calls' = 1..Len(calls) + 1
        /\ calls'[Len(calls) + 1] = task
        /\ \A i \in 1..Len(calls) : calls'[i] = calls[i]
    BY DEF Grown
  <2>5. ASSUME NEW n, n = Len(calls) + 1, calls'[1].code = 200, ~failed'
        PROVE  EndsWhole(calls, n)'
    <3>1. Reached(calls) = file.length
      BY <1>1, <1>2, <2>3, <2>5 DEF BodyInv
    <3>2. calls'[n - 1] = calls[Len(calls)]
      BY <2>3, <2>4, <2>5
    <3> QED
      BY <1>2, <2>3, <2>4, <2>5, <3>1, <3>2 DEF EndsWhole, Reached
  <2>6. \A i \in DOMAIN calls' : calls'[i].op = "body" => Continues(calls', i)
    BY <2>3, <2>4
  <2>7. \A i \in DOMAIN calls' :
          calls'[i].op = "eof" /\ calls'[1].code = 200 /\ ~failed' => EndsWhole(calls, i)'
    BY <2>3, <2>4, <2>5
  <2> QED
    BY <1>1, <1>2, <2>6, <2>7 DEF BodyInv
<1> QED
  BY <1>a, <1>b

LEMMA BodyInvariant == Spec => []BodyInv
<1>1. Init => BodyInv
  BY DEF Init, BaseInit, BodyInv
<1>2. TypeOK /\ ReaderInv /\ OrderInv /\ ShapeInv /\ BodyInv /\ [Next]_vars => BodyInv'
  <2> SUFFICES ASSUME TypeOK, ReaderInv, OrderInv, ShapeInv, BodyInv, [Next]_vars PROVE BodyInv'
    OBVIOUS
  <2>1. CASE UNCHANGED <<calls, reader, file, fin, pos, failed>>
    BY <2>1 DEF BodyInv, Continues, EndsWhole, Reached
  <2>2. CASE OnEOM
    <3>1. calls = <<>> /\ reader = "unset" /\ pos = 0
      BY <2>2, NothingSent DEF BodyInv
    <3>2. UNCHANGED <<file, fin, pos, failed>> /\ reader' \in {"unset", "queued"}
      BY <2>2, <3>1, EOMSteps DEF Respond, fileVars, Via
    <3>3. ASSUME NEW code \in {304, 404}, Respond(code) PROVE BodyInv'
      <4>1. calls' = <<Headers(code), Eof>>
        BY <2>2, <3>3, RespondOrder
      <4>2. /\ DOMAIN calls' = 1..2
            /\ calls'[1].op = "headers" /\ calls'[1].code # 200
            /\ calls'[2].op = "eof"
        BY <4>1, ResponseOfTwo
      <4> QED
        BY <3>1, <3>2, <4>2 DEF BodyInv
    <3>4. CASE UNCHANGED calls
      BY <3>1, <3>2, <3>4 DEF BodyInv
    <3> QED
      BY <2>2, <3>3, <3>4, EOMSteps
  <2>3. CASE IOThread
    <3>1. ASSUME NEW task \in Tasks, ReaderSends(task) PROVE BodyInv'
      <4>1. Send("other", task) /\ task.op \in {"headers", "body", "eof"}
        BY <3>1, ReaderMoves DEF ReaderSends
      <4>2. \/ Grown(task) /\ ~Empty(task)
            \/ calls' = calls /\ task.op = "body" /\ task.piece.bytes + task.piece.garbage = 0
        BY <4>1, CallsGrow DEF Grown
      <4>3. task.piece.bytes \in Nat /\ task.piece.garbage \in Nat
        BY DEF Tasks, Piece
      <4> QED
        BY <3>1, <4>1, <4>2, <4>3, HeadersKeepBody, PieceKeepsBody, NothingKeepsBody, EofKeepsBody
    <3>2. CASE AllocFails
      <4>1. /\ UNCHANGED <<calls, file, fin, pos>>
            /\ reader \in {"queued", "reading"} /\ reader' = "ending" /\ failed'
        BY <3>2 DEF AllocFails, Allocates
      <4> QED
        BY <4>1 DEF BodyInv, Continues
    <3>3. CASE EndOfFile
      <4>1. /\ UNCHANGED <<calls, file, fin, pos, failed>>
            /\ reader = "reading" /\ reader' = "ending" /\ fin = "eof"
        BY <3>3 DEF EndOfFile, baseVars
      <4> QED
        BY <4>1 DEF BodyInv, Continues, EndsWhole, Reached
    <3> QED
      BY <2>3, <3>1, <3>2, <3>3, ReaderSteps
  <2>4. CASE Base /\ UNCHANGED fileVars
    BY <2>1, <2>4 DEF Base, OnError, RequestComplete, EventBase, RunLoopCallback,
                      RunNotification, Run, fileVars
  <2> QED
    BY <2>1, <2>2, <2>3, <2>4 DEF Next, NoMemory, OnRequestReceived, OnRequest, vars, fileVars,
                                 baseVars
<1> QED
  BY <1>1, <1>2, FileTypeCorrect, ReaderInvariant, FileOrderInvariant, ShapeInvariant, PTL DEF Spec

\* The pieces of body hold the file's bytes in order, without gap or overlap,
\* each with no more behind them than the room IOBuf::create gave beyond what was
\* asked for, and the whole of them when a 200 response ends without an
\* exception: for files of any size, any size of the buffer and any such room
\* (StreamingFileHandler.cpp:78-97).
THEOREM FileBodyIsFile == Spec => []BodyIsFile
<1>1. TypeOK /\ OrderInv /\ ShapeInv /\ BodyInv => BodyIsFile
  <2> SUFFICES ASSUME TypeOK, OrderInv, ShapeInv, BodyInv PROVE BodyIsFile
    OBVIOUS
  <2>1. /\ Len(wire) \in Nat /\ Len(calls) \in Nat /\ Len(wire) <= Len(calls)
        /\ DOMAIN wire = 1..Len(wire) /\ DOMAIN calls = 1..Len(calls)
        /\ \A i \in DOMAIN wire : i \in DOMAIN calls /\ wire[i] = calls[i]
    BY WireIsPrefix
  <2>2. ASSUME NEW i \in Sent("body")
        PROVE  /\ i \in 2..Len(wire) /\ Status(200)
               /\ wire[i].piece.garbage = Slack
               /\ wire[i].piece.first = IF i - 1 \in Sent("body")
                                        THEN wire[i - 1].piece.first + wire[i - 1].piece.bytes
                                        ELSE 0
    <3>1. i \in DOMAIN wire /\ calls[i].op = "body" /\ wire[i] = calls[i]
      BY <2>1 DEF Sent
    <3>a. sentHeaders
      <4>1. calls # <<>> /\ calls # <<Eof>>
        BY <2>1, <3>1, TasksOfFile
      <4> QED
        BY <4>1 DEF ShapeInv
    <3>2. i # 1 /\ calls[1].op = "headers" /\ 1 \in DOMAIN wire /\ i - 1 \in DOMAIN wire
      BY <2>1, <3>1, <3>a DEF ShapeInv
    <3>3. Continues(calls, i)
      BY <2>1, <3>1 DEF BodyInv
    <3>4. wire[1] = calls[1] /\ wire[i - 1] = calls[i - 1]
      BY <2>1, <3>2
    <3>5. Status(200)
      BY <3>2, <3>3, <3>4 DEF Status, Sent, Continues
    <3>6. (i - 1 \in Sent("body")) = (calls[i - 1].op = "body")
      BY <3>2, <3>4 DEF Sent
    <3> QED
      BY <2>1, <3>1, <3>2, <3>3, <3>4, <3>5, <3>6 DEF Continues
  <2>3. ASSUME Complete, Status(200), ~failed
        PROVE  IF Len(wire) = 2 THEN file.length = 0
               ELSE wire[Len(wire) - 1].piece.first + wire[Len(wire) - 1].piece.bytes = file.length
    <3>1. PICK e \in DOMAIN wire : wire[e].op = "eof"
      BY <2>3 DEF Complete, Sent
    <3>2. calls[e].op = "eof" /\ e \in DOMAIN calls /\ e = Len(calls) /\ e = Len(wire)
      BY <2>1, <3>1 DEF ShapeInv, EofLast
    <3>3. PICK h \in DOMAIN wire : wire[h].op = "headers" /\ wire[h].code = 200
      BY <2>3 DEF Status, Sent
    <3>a. sentHeaders
      <4>1. calls # <<>>
        BY <2>1, <3>2
      <4> QED
        BY <2>3, <4>1 DEF ShapeInv
    <3>4. h = 1 /\ calls[1].code = 200
      BY <2>1, <3>3, <3>a DEF ShapeInv
    <3>5. EndsWhole(calls, e)
      BY <2>3, <3>2, <3>4 DEF BodyInv
    <3>6. e # 1
      BY <2>1, <3>2, <3>a DEF ShapeInv
    <3>7. e - 1 \in DOMAIN wire /\ wire[e - 1] = calls[e - 1]
      BY <2>1, <3>1, <3>6
    <3> QED
      BY <3>2, <3>5, <3>7 DEF EndsWhole
  <2> QED
    BY <2>2, <2>3 DEF BodyIsFile
<1> QED
  BY <1>1, FileTypeCorrect, FileOrderInvariant, ShapeInvariant, BodyInvariant, PTL

-----------------------------------------------------------------------------
(* The path. sanitizePath keeps the components at increasing places of the   *)
(* raw path; above each kept one there are as many names more than ".."s as  *)
(* kept ones.                                                                *)

Pushed(component) == component \notin {"..", "."}

Alive(raw, i, k) ==
  Pushed(raw[i]) /\ \A j \in i..k : UpsIn(raw, i, j) <= NamesIn(raw, i, j)

\* ret is what is kept of the first k components, place by place.
Kept(raw, ret, k, place) ==
  /\ place \in [1..Len(ret) -> 1..k]
  /\ \A a, b \in 1..Len(ret) : a < b => place[a] < place[b]
  /\ \A a \in 1..Len(ret) :
       /\ ret[a] = raw[place[a]]
       /\ Pushed(ret[a])
       /\ NamesIn(raw, place[a], k) - UpsIn(raw, place[a], k) = Len(ret) - a
  /\ \A i \in 1..k : (\E a \in 1..Len(ret) : place[a] = i) <=> Alive(raw, i, k)

\* One more component is counted if it is a name, or a "..".
LEMMA CountOneMore ==
  ASSUME NEW raw, NEW i \in Nat, NEW j \in Nat, i <= j
  PROVE  /\ NamesIn(raw, i, i) = 0 /\ UpsIn(raw, i, i) = 0
         /\ NamesIn(raw, i, j) \in Nat /\ UpsIn(raw, i, j) \in Nat
         /\ NamesIn(raw, i, j + 1) = NamesIn(raw, i, j) + IF IsName(raw[j + 1]) THEN 1 ELSE 0
         /\ UpsIn(raw, i, j + 1) = UpsIn(raw, i, j) + IF raw[j + 1] = ".." THEN 1 ELSE 0
<1> DEFINE Names(n) == {k \in (i + 1)..n : IsName(raw[k])}
           Ups(n) == {k \in (i + 1)..n : raw[k] = ".."}
<1>1. Names(i) = {} /\ Ups(i) = {}
  OBVIOUS
<1>2. IsFiniteSet(Names(j)) /\ IsFiniteSet(Ups(j))
  <2>1. IsFiniteSet((i + 1)..j)
    BY FS_Interval
  <2>2. Names(j) \in SUBSET ((i + 1)..j) /\ Ups(j) \in SUBSET ((i + 1)..j)
    OBVIOUS
  <2> HIDE DEF Names, Ups
  <2> QED
    BY <2>1, <2>2, FS_Subset
<1>3. Names(j + 1) = IF IsName(raw[j + 1]) THEN Names(j) \cup {j + 1} ELSE Names(j)
  OBVIOUS
<1>4. Ups(j + 1) = IF raw[j + 1] = ".." THEN Ups(j) \cup {j + 1} ELSE Ups(j)
  OBVIOUS
<1>5. j + 1 \notin Names(j) /\ j + 1 \notin Ups(j)
  OBVIOUS
<1>6. /\ NamesIn(raw, i, i) = Cardinality(Names(i)) /\ UpsIn(raw, i, i) = Cardinality(Ups(i))
      /\ NamesIn(raw, i, j) = Cardinality(Names(j)) /\ UpsIn(raw, i, j) = Cardinality(Ups(j))
      /\ NamesIn(raw, i, j + 1) = Cardinality(Names(j + 1))
      /\ UpsIn(raw, i, j + 1) = Cardinality(Ups(j + 1))
  BY DEF NamesIn, UpsIn
<1> HIDE DEF Names, Ups
<1>7. Cardinality(Names(j)) \in Nat /\ Cardinality(Ups(j)) \in Nat
  BY <1>2, FS_CardinalityType
<1>8. Cardinality(Names(j) \cup {j + 1}) = Cardinality(Names(j)) + 1
  BY <1>2, <1>5, FS_AddElement
<1>9. Cardinality(Ups(j) \cup {j + 1}) = Cardinality(Ups(j)) + 1
  BY <1>2, <1>5, FS_AddElement
<1> QED
  BY <1>1, <1>3, <1>4, <1>6, <1>7, <1>8, <1>9, FS_EmptySet

\* What is counted is a number.
LEMMA CountIsNat ==
  ASSUME NEW raw, NEW i \in Nat, NEW j \in Nat, i <= j
  PROVE  NamesIn(raw, i, j) \in Int /\ UpsIn(raw, i, j) \in Int
<1>1. NamesIn(raw, i, j) \in Nat /\ UpsIn(raw, i, j) \in Nat
  BY CountOneMore
<1> QED
  BY <1>1

\* A root stands in front or nowhere.
RootInFront(raw) == \A i \in DOMAIN raw : raw[i] = "/" => i = 1

\* One turn of the loop of sanitizePath.
LEMMA OneTurn ==
  ASSUME NEW raw \in Seq(STRING), RootInFront(raw), NEW k \in 0..(Len(raw) - 1),
         NEW ret \in Seq(STRING), NEW place, Kept(raw, ret, k, place)
  PROVE  \E p : Kept(raw, Sanitize(ret, raw[k + 1]), k + 1, p)
<1> DEFINE c == raw[k + 1]
           m == Len(ret)
<1>1. /\ k \in Nat /\ m \in Nat /\ c \in STRING /\ DOMAIN raw = 1..Len(raw) /\ k + 1 \in DOMAIN raw
      /\ place \in [1..m -> 1..k]
  BY DEF Kept
<1>a. ASSUME NEW a \in 1..m
      PROVE  /\ place[a] \in 1..k
             /\ ret[a] = raw[place[a]] /\ Pushed(ret[a])
             /\ NamesIn(raw, place[a], k) - UpsIn(raw, place[a], k) = m - a
  BY DEF Kept
<1>b. ASSUME NEW i \in 1..k PROVE (\E a \in 1..m : place[a] = i) <=> Alive(raw, i, k)
  BY DEF Kept
<1>c. \A a, b \in 1..m : a < b => place[a] < place[b]
  BY DEF Kept
<1>2. ASSUME NEW i \in 1..k
      PROVE  /\ NamesIn(raw, i, k) \in Nat /\ UpsIn(raw, i, k) \in Nat
             /\ NamesIn(raw, i, k + 1) = NamesIn(raw, i, k) + IF Pushed(c) THEN 1 ELSE 0
             /\ UpsIn(raw, i, k + 1) = UpsIn(raw, i, k) + IF c = ".." THEN 1 ELSE 0
  <2>1. IsName(c) <=> Pushed(c)
    BY <1>1 DEF IsName, Pushed, RootInFront
  <2>2. i \in Nat /\ i <= k /\ raw[k + 1] = c
    BY <1>1
  <2> HIDE DEF c
  <2> QED
    BY <1>1, <2>1, <2>2, CountOneMore
<1>3. NamesIn(raw, k + 1, k + 1) = 0 /\ UpsIn(raw, k + 1, k + 1) = 0
  BY <1>1, CountOneMore
<1>4. ASSUME NEW i \in 1..k
      PROVE  Alive(raw, i, k + 1)
               <=> Alive(raw, i, k) /\ UpsIn(raw, i, k + 1) <= NamesIn(raw, i, k + 1)
  BY <1>1 DEF Alive
<1>5. Alive(raw, k + 1, k + 1) <=> Pushed(c)
  BY <1>1, <1>3 DEF Alive
<1>6. CASE c = ".." /\ ret = <<>>
  <2>1. Sanitize(ret, c) = ret
    BY <1>6 DEF Sanitize, RemoveFilename
  <2>2. m = 0 /\ 1..m = {} /\ place \in [1..m -> 1..(k + 1)]
    BY <1>1, <1>6
  <2>3. ASSUME NEW i \in 1..(k + 1) PROVE ~Alive(raw, i, k + 1)
    <3>1. CASE i = k + 1
      BY <1>5, <1>6, <3>1 DEF Pushed
    <3>2. CASE i \in 1..k
      <4>1. ~Alive(raw, i, k)
        BY <1>b, <2>2, <3>2
      <4> QED
        BY <1>4, <3>2, <4>1
    <3> QED
      BY <1>1, <3>1, <3>2
  <2>4. Kept(raw, ret, k + 1, place)
    BY <2>2, <2>3 DEF Kept
  <2> QED
    BY <2>1, <2>4
<1>7. CASE c = ".." /\ ret # <<>>
  <2> DEFINE r == SubSeq(ret, 1, m - 1)
             p == [a \in 1..(m - 1) |-> place[a]]
  <2>1. m # 0 /\ Sanitize(ret, c) = r
    BY <1>7 DEF Sanitize, RemoveFilename, Front
  <2>2. Len(r) = m - 1 /\ \A a \in 1..(m - 1) : r[a] = ret[a]
    <3>1. r = [a \in 1..(m - 1) |-> ret[a]]
      BY <1>1, <2>1
    <3>2. r \in Seq(STRING) /\ m - 1 \in Nat /\ DOMAIN r = 1..(m - 1)
      BY <1>1, <2>1, <3>1
    <3> HIDE DEF r
    <3> QED
      BY <3>1, <3>2, LenProperties
  <2>3. p \in [1..(m - 1) -> 1..(k + 1)]
    BY <1>1, <2>1
  <2>a. \A a \in 1..(m - 1) : a \in 1..m /\ p[a] = place[a]
    BY <1>1, <2>1
  <2> HIDE DEF r, p
  <2>4. ASSUME NEW a \in 1..(m - 1)
        PROVE  /\ r[a] = raw[p[a]] /\ Pushed(r[a])
               /\ NamesIn(raw, p[a], k + 1) - UpsIn(raw, p[a], k + 1) = (m - 1) - a
    <3>1. /\ a \in 1..m /\ p[a] = place[a] /\ p[a] \in 1..k /\ r[a] = ret[a]
          /\ NamesIn(raw, p[a], k) - UpsIn(raw, p[a], k) = m - a
      BY <1>a, <2>a, <2>2
    <3>2. /\ NamesIn(raw, p[a], k + 1) = NamesIn(raw, p[a], k)
          /\ UpsIn(raw, p[a], k + 1) = UpsIn(raw, p[a], k) + 1
      BY <1>2, <1>7, <3>1 DEF Pushed
    <3>3. NamesIn(raw, p[a], k) \in Nat /\ UpsIn(raw, p[a], k) \in Nat
      BY <1>2, <3>1
    <3>4. NamesIn(raw, p[a], k + 1) - UpsIn(raw, p[a], k + 1) = (m - 1) - a
      <4> DEFINE names == NamesIn(raw, p[a], k)
                 ups == UpsIn(raw, p[a], k)
                 moreNames == NamesIn(raw, p[a], k + 1)
                 moreUps == UpsIn(raw, p[a], k + 1)
      <4>1. /\ names \in Nat /\ ups \in Nat /\ names - ups = m - a
            /\ moreNames = names /\ moreUps = ups + 1 /\ m \in Nat /\ a \in Nat
        BY <1>1, <3>1, <3>2, <3>3
      <4> HIDE DEF names, ups, moreNames, moreUps, m
      <4>2. moreNames - moreUps = (m - 1) - a
        BY <4>1
      <4> QED
        BY <4>2 DEF moreNames, moreUps
    <3> QED
      BY <1>a, <3>1, <3>4
  <2>5. ASSUME NEW i \in 1..(k + 1)
        PROVE  (\E a \in 1..(m - 1) : p[a] = i) <=> Alive(raw, i, k + 1)
    <3>1. CASE i = k + 1
      <4>1. ASSUME NEW a \in 1..(m - 1) PROVE p[a] # k + 1
        BY <1>1, <1>a, <2>a
      <4> QED
        BY <1>5, <1>7, <3>1, <4>1 DEF Pushed
    <3>2. CASE i \in 1..k /\ \E a \in 1..(m - 1) : p[a] = i
      <4>1. PICK a \in 1..(m - 1) : p[a] = i
        BY <3>2
      <4>2. Alive(raw, i, k)
        BY <1>b, <2>a, <3>2, <4>1
      <4>3. UpsIn(raw, i, k + 1) <= NamesIn(raw, i, k + 1)
        <5>1. p[a] = i /\ NamesIn(raw, i, k + 1) - UpsIn(raw, i, k + 1) = (m - 1) - a
          BY <2>4, <4>1
        <5>2. NamesIn(raw, i, k + 1) \in Int /\ UpsIn(raw, i, k + 1) \in Int
          <6>1. i \in Nat /\ k + 1 \in Nat /\ i <= k + 1
            BY <1>1, <3>2
          <6> QED
            BY <6>1, CountIsNat
        <5> DEFINE names == NamesIn(raw, i, k + 1)
                   ups == UpsIn(raw, i, k + 1)
        <5>3. /\ names \in Int /\ ups \in Int /\ names - ups = (m - 1) - a
              /\ m \in Nat /\ a \in Int /\ a <= m - 1
          BY <1>1, <4>1, <5>1, <5>2
        <5> HIDE DEF names, ups, m
        <5>4. ups <= names
          BY <5>3
        <5> QED
          BY <5>4 DEF names, ups
      <4> QED
        BY <1>4, <3>2, <4>2, <4>3
    <3>3. CASE i \in 1..k /\ ~\E a \in 1..(m - 1) : p[a] = i
      <4>1. CASE place[m] = i
        <5>1. NamesIn(raw, i, k) - UpsIn(raw, i, k) = 0
          BY <1>1, <1>a, <2>1, <4>1
        <5>2. ~(UpsIn(raw, i, k + 1) <= NamesIn(raw, i, k + 1))
          BY <1>2, <1>7, <3>3, <5>1 DEF Pushed
        <5> QED
          BY <1>4, <3>3, <5>2
      <4>2. CASE place[m] # i
        <5>1. ~Alive(raw, i, k)
          <6>1. ASSUME NEW a \in 1..m PROVE place[a] # i
            <7>1. CASE a = m
              BY <4>2, <7>1
            <7>2. CASE a # m
              <8>1. a \in 1..(m - 1)
                BY <1>1, <7>2
              <8> QED
                BY <2>a, <3>3, <8>1
            <7> QED
              BY <7>1, <7>2
          <6> QED
            BY <1>b, <3>3, <6>1
        <5> QED
          BY <1>4, <3>3, <5>1
      <4> QED
        BY <4>1, <4>2
    <3> QED
      BY <1>1, <3>1, <3>2, <3>3
  <2>6. \A a, b \in 1..(m - 1) : a < b => p[a] < p[b]
    BY <1>c, <2>a
  <2>7. Kept(raw, r, k + 1, p)
    <3> HIDE DEF m, c
    <3> QED
      BY <2>2, <2>3, <2>4, <2>5, <2>6 DEF Kept
  <2> QED
    BY <2>1, <2>7
<1>8. CASE c = "."
  <2>1. Sanitize(ret, c) = ret
    BY <1>8 DEF Sanitize
  <2>2. place \in [1..m -> 1..(k + 1)]
    BY <1>1
  <2>3. ~Alive(raw, k + 1, k + 1) /\ ~\E a \in 1..m : place[a] = k + 1
    BY <1>1, <1>a, <1>5, <1>8 DEF Pushed
  <2>4. ASSUME NEW i \in 1..k PROVE Alive(raw, i, k + 1) <=> Alive(raw, i, k)
    BY <1>1, <1>2, <1>4, <1>8 DEF Alive, Pushed
  <2>5. ASSUME NEW a \in 1..m
        PROVE  NamesIn(raw, place[a], k + 1) - UpsIn(raw, place[a], k + 1) = m - a
    <3>1. /\ NamesIn(raw, place[a], k + 1) = NamesIn(raw, place[a], k)
          /\ UpsIn(raw, place[a], k + 1) = UpsIn(raw, place[a], k)
      BY <1>2, <1>a, <1>8 DEF Pushed
    <3> QED
      BY <1>a, <3>1
  <2>6. ASSUME NEW i \in 1..(k + 1)
        PROVE  (\E a \in 1..m : place[a] = i) <=> Alive(raw, i, k + 1)
    BY <1>1, <1>b, <2>3, <2>4
  <2>7. Kept(raw, ret, k + 1, place)
    <3> HIDE DEF m, c
    <3> QED
      BY <1>a, <1>c, <2>2, <2>5, <2>6 DEF Kept, m
  <2> QED
    BY <2>1, <2>7
<1>9. CASE Pushed(c)
  <2> DEFINE r == Append(ret, c)
             p == [a \in 1..(m + 1) |-> IF a = m + 1 THEN k + 1 ELSE place[a]]
  <2>1. Sanitize(ret, c) = r
    BY <1>9 DEF Sanitize, Pushed
  <2>2. Len(r) = m + 1 /\ r[m + 1] = c /\ \A a \in 1..m : r[a] = ret[a]
    BY <1>1
  <2>3. p \in [1..(m + 1) -> 1..(k + 1)]
    BY <1>1
  <2>a. p[m + 1] = k + 1 /\ \A a \in 1..m : a \in 1..(m + 1) /\ p[a] = place[a]
    BY <1>1
  <2> HIDE DEF r, p
  <2>4. ASSUME NEW a \in 1..(m + 1)
        PROVE  /\ r[a] = raw[p[a]] /\ Pushed(r[a])
               /\ NamesIn(raw, p[a], k + 1) - UpsIn(raw, p[a], k + 1) = (m + 1) - a
    <3>1. CASE a = m + 1
      BY <1>1, <1>3, <1>9, <2>2, <2>a, <3>1
    <3>2. CASE a \in 1..m
      <4>1. /\ p[a] = place[a] /\ p[a] \in 1..k /\ r[a] = ret[a]
            /\ NamesIn(raw, p[a], k) - UpsIn(raw, p[a], k) = m - a
        BY <1>a, <2>2, <2>a, <3>2
      <4>2. /\ NamesIn(raw, p[a], k + 1) = NamesIn(raw, p[a], k) + 1
            /\ UpsIn(raw, p[a], k + 1) = UpsIn(raw, p[a], k)
        BY <1>2, <1>9, <4>1 DEF Pushed
      <4>3. NamesIn(raw, p[a], k) \in Nat /\ UpsIn(raw, p[a], k) \in Nat
        BY <1>2, <4>1
      <4> QED
        BY <1>1, <1>a, <3>2, <4>1, <4>2, <4>3
    <3> QED
      BY <1>1, <3>1, <3>2
  <2>5. ASSUME NEW i \in 1..(k + 1)
        PROVE  (\E a \in 1..(m + 1) : p[a] = i) <=> Alive(raw, i, k + 1)
    <3>1. CASE i = k + 1
      <4>1. m + 1 \in 1..(m + 1)
        BY <1>1
      <4> QED
        BY <1>5, <1>9, <2>a, <3>1, <4>1
    <3>2. CASE i \in 1..k
      <4>1. (\E a \in 1..(m + 1) : p[a] = i) <=> \E a \in 1..m : place[a] = i
        <5>1. ASSUME NEW a \in 1..(m + 1), p[a] = i PROVE a \in 1..m
          BY <1>1, <2>a, <3>2, <5>1
        <5> QED
          BY <2>a, <5>1
      <4>2. Alive(raw, i, k + 1) <=> Alive(raw, i, k)
        BY <1>1, <1>2, <1>4, <1>9, <3>2 DEF Alive, Pushed
      <4> QED
        BY <1>b, <3>2, <4>1, <4>2
    <3> QED
      BY <1>1, <3>1, <3>2
  <2>6. \A a, b \in 1..(m + 1) : a < b => p[a] < p[b]
    <3>1. ASSUME NEW a \in 1..(m + 1), NEW b \in 1..(m + 1), a < b PROVE p[a] < p[b]
      <4>1. a \in 1..m /\ p[a] = place[a] /\ place[a] \in 1..k
        <5>1. a \in 1..m
          BY <1>1, <3>1
        <5> QED
          BY <1>a, <2>a, <5>1
      <4>2. CASE b = m + 1
        BY <1>1, <2>a, <4>1, <4>2
      <4>3. CASE b # m + 1
        <5>1. b \in 1..m
          BY <1>1, <4>3
        <5> QED
          BY <1>c, <2>a, <3>1, <4>1, <5>1
      <4> QED
        BY <4>2, <4>3
    <3> QED
      BY <3>1
  <2>7. Kept(raw, r, k + 1, p)
    <3> HIDE DEF m, c
    <3> QED
      BY <2>2, <2>3, <2>4, <2>5, <2>6 DEF Kept
  <2> QED
    BY <2>1, <2>7
<1> QED
  BY <1>6, <1>7, <1>8, <1>9 DEF Pushed

\* After the last turn: sanitizePath returns what is kept of the whole path.
LEMMA Sanitized ==
  ASSUME NEW raw \in Seq(STRING), RootInFront(raw)
  PROVE  /\ SanitizePath(raw) \in Seq(STRING)
         /\ \E place : Kept(raw, SanitizePath(raw), Len(raw), place)
<1> DEFINE n == Len(raw)
           V == Seq(STRING)
           step == [i \in 1..n |-> [v \in V |-> Sanitize(v, raw[i])]]
           Turns(f) == f = [k \in 0..n |-> IF k = 0 THEN <<>> ELSE Sanitize(f[k - 1], raw[k])]
           ret == CHOOSE f : Turns(f)
<1>1. n \in Nat /\ \A i \in 1..n : raw[i] \in STRING
  OBVIOUS
<1>2. ASSUME NEW v \in V, NEW i \in 1..n PROVE Sanitize(v, raw[i]) \in V
  <2>1. v # <<>> => Front(v) \in V
    <3>1. \A j \in 1..(Len(v) - 1) : v[j] \in STRING
      OBVIOUS
    <3> QED
      BY <3>1, SubSeqProperties DEF Front
  <2>2. Append(v, raw[i]) \in V /\ <<>> \in V
    BY <1>1
  <2> HIDE DEF V
  <2> QED
    BY <2>1, <2>2 DEF Sanitize, RemoveFilename
<1>3. \E f : Turns(f)
  <2> DEFINE nil == <<>>
  <2>1. step \in Steps(n, V) /\ nil \in V /\ n \in Nat
    BY <1>1, <1>2 DEF Steps
  <2>2. \A i \in 1..n : \A v \in V : step[i][v] = Sanitize(v, raw[i])
    OBVIOUS
  <2> HIDE DEF step, V, n, nil
  <2>3. PICK f : IsRun(f, n, V, nil, step)
    BY <2>1, Recursion
  <2>4. f \in [0..n -> V] /\ f[0] = nil /\ \A i \in 1..n : f[i] = step[i][f[i - 1]]
    BY <2>3 DEF IsRun
  <2>5. ASSUME NEW k \in 0..n
        PROVE  f[k] = IF k = 0 THEN <<>> ELSE Sanitize(f[k - 1], raw[k])
    <3>1. CASE k = 0
      BY <2>4, <3>1 DEF nil
    <3>2. CASE k # 0
      <4>1. k \in 1..n /\ k - 1 \in 0..n
        BY <1>1, <3>2
      <4>2. f[k - 1] \in V
        BY <2>4, <4>1
      <4> QED
        BY <2>2, <2>4, <3>2, <4>1, <4>2
    <3> QED
      BY <3>1, <3>2
  <2>6. Turns(f)
    BY <2>4, <2>5
  <2> QED
    BY <2>6
<1>4. Turns(ret)
  <2> HIDE DEF Turns
  <2> QED
    BY <1>3
<1>5. SanitizePath(raw) = ret[n]
  BY DEF SanitizePath
<1>6. ret[0] = <<>> /\ \A k \in 0..(n - 1) : ret[k + 1] = Sanitize(ret[k], raw[k + 1])
  <2> HIDE DEF ret
  <2>1. \A k \in 0..(n - 1) : k + 1 \in 0..n /\ k + 1 # 0 /\ (k + 1) - 1 = k
    BY <1>1
  <2> QED
    BY <1>1, <1>4, <2>1
<1> DEFINE Good == {k \in 0..n : ret[k] \in V /\ \E p : Kept(raw, ret[k], k, p)}
<1> HIDE DEF Turns, ret, step
<1>7. 0 \in Good
  <2>1. Kept(raw, ret[0], 0, <<>>)
    BY <1>6 DEF Kept
  <2>2. 0 \in 0..n /\ ret[0] \in V
    BY <1>1, <1>6
  <2> QED
    BY <2>1, <2>2
<1>8. ASSUME NEW k \in 0..(n - 1), k \in Good PROVE k + 1 \in Good
  <2>1. PICK p : Kept(raw, ret[k], k, p)
    BY <1>8
  <2>2. k + 1 \in 1..n /\ k + 1 \in 0..n /\ ret[k] \in V
    BY <1>1, <1>8
  <2>3. ret[k + 1] = Sanitize(ret[k], raw[k + 1]) /\ ret[k + 1] \in V
    BY <1>2, <1>6, <2>2
  <2>4. \E q : Kept(raw, ret[k + 1], k + 1, q)
    BY <2>1, <2>2, <2>3, OneTurn
  <2> QED
    BY <2>2, <2>3, <2>4
<1>9. n \in Good
  <2> HIDE DEF Good
  <2>1. 0..n \subseteq Good
    BY <1>1, <1>7, <1>8, UpTo
  <2> QED
    BY <1>1, <2>1
<1> QED
  BY <1>5, <1>9

\* Names of the raw path at increasing places are all that is left of it.
Resolved(raw, q, place) ==
  /\ place \in [1..Len(q) -> 1..Len(raw)]
  /\ \A a, b \in 1..Len(q) : a < b => place[a] < place[b]
  /\ \A a \in 1..Len(q) : q[a] = raw[place[a]]
  /\ \A i \in 1..Len(raw) : (\E a \in 1..Len(q) : place[a] = i) <=> Survives(raw, i)

\* The path below the base directory: what is kept, without a root in front.
LEMMA PathAppended ==
  ASSUME NEW raw \in Seq(STRING), RootInFront(raw)
  PROVE  LET q == PathAppend(<<>>, SanitizePath(raw))
         IN  q \in Seq(STRING) /\ \E place : Resolved(raw, q, place)
<1> DEFINE ret == SanitizePath(raw)
           n == Len(raw)
           m == Len(ret)
           q == PathAppend(<<>>, ret)
<1>1. ret \in Seq(STRING) /\ m \in Nat /\ n \in Nat
  BY Sanitized
<1>2. PICK p : Kept(raw, ret, n, p)
  BY Sanitized
<1> HIDE DEF ret
<1>3. /\ p \in [1..m -> 1..n]
      /\ \A a, b \in 1..m : a < b => p[a] < p[b]
      /\ \A a \in 1..m : ret[a] = raw[p[a]] /\ Pushed(ret[a])
      /\ \A i \in 1..n : (\E a \in 1..m : p[a] = i) <=> Alive(raw, i, n)
  BY <1>2 DEF Kept
<1>4. ASSUME NEW a \in 1..m PROVE raw[p[a]] = "/" => a = 1
  <2>1. SUFFICES ASSUME a # 1, raw[p[a]] = "/" PROVE FALSE
    OBVIOUS
  <2>2. p[a] = 1
    BY <1>1, <1>3, <2>1 DEF RootInFront
  <2>3. 1 \in 1..m /\ 1 < a
    BY <1>1, <2>1
  <2>4. p[1] < p[a] /\ p[1] \in 1..n
    BY <1>3, <2>3
  <2> QED
    BY <1>1, <2>2, <2>4
<1>5. \A i \in 1..n : Survives(raw, i) <=> Alive(raw, i, n) /\ raw[i] # "/"
  BY DEF Survives, Alive, IsName, Pushed
<1>6. CASE ret # <<>> /\ Head(ret) = "/"
  <2> DEFINE P == [a \in 1..(m - 1) |-> p[a + 1]]
  <2>1. m # 0 /\ q = Tail(ret) /\ ret[1] = "/"
    BY <1>1, <1>6 DEF PathAppend
  <2>2. q \in Seq(STRING) /\ Len(q) = m - 1 /\ \A a \in 1..(m - 1) : q[a] = ret[a + 1]
    <3>1. /\ Tail(ret) \in Seq(STRING) /\ Len(Tail(ret)) = Len(ret) - 1
          /\ \A a \in 1..Len(Tail(ret)) : Tail(ret)[a] = ret[a + 1]
      BY <1>1, <1>6, HeadTailProperties
    <3> QED
      BY <2>1, <3>1
  <2>3. \A a \in 1..(m - 1) : a + 1 \in 1..m /\ P[a] = p[a + 1] /\ P[a] \in 1..n
    <3>1. \A a \in 1..(m - 1) : a + 1 \in 1..m
      BY <1>1, <2>1
    <3> QED
      BY <1>3, <3>1
  <2>4. P \in [1..(m - 1) -> 1..n]
    BY <2>3
  <2>5. ASSUME NEW a \in 1..(m - 1), NEW b \in 1..(m - 1), a < b PROVE P[a] < P[b]
    <3>1. a + 1 < b + 1
      BY <2>5
    <3> QED
      BY <1>3, <2>3, <3>1
  <2>6. \A a \in 1..(m - 1) : q[a] = raw[P[a]]
    BY <1>3, <2>2, <2>3
  <2>7. ASSUME NEW i \in 1..n
        PROVE  (\E a \in 1..(m - 1) : P[a] = i) <=> Survives(raw, i)
    <3>1. ASSUME NEW a \in 1..(m - 1), P[a] = i PROVE Survives(raw, i)
      <4>1. a + 1 \in 1..m /\ p[a + 1] = i /\ a + 1 # 1
        BY <2>3, <3>1
      <4> QED
        BY <1>3, <1>4, <1>5, <4>1
    <3>2. ASSUME Survives(raw, i) PROVE \E a \in 1..(m - 1) : P[a] = i
      <4>1. PICK b \in 1..m : p[b] = i
        BY <1>3, <1>5, <3>2
      <4>2. b # 1
        BY <1>3, <1>5, <2>1, <3>2, <4>1
      <4>3. b - 1 \in 1..(m - 1) /\ (b - 1) + 1 = b
        BY <1>1, <4>2
      <4> HIDE DEF P
      <4> QED
        BY <2>3, <4>1, <4>3
    <3> QED
      BY <3>1, <3>2
  <2>8. Resolved(raw, q, P)
    <3> HIDE DEF P, q, m, n
    <3> QED
      BY <2>2, <2>4, <2>5, <2>6, <2>7 DEF Resolved, n
  <2> QED
    BY <2>2, <2>8 DEF ret
<1>7. CASE ~(ret # <<>> /\ Head(ret) = "/")
  <2>1. q = ret
    <3>1. q = <<>> \o ret
      BY <1>7 DEF PathAppend
    <3> QED
      BY <1>1, <3>1
  <2>2. ASSUME NEW a \in 1..m PROVE raw[p[a]] # "/"
    <3>1. SUFFICES ASSUME a = 1 PROVE ret[a] # "/"
      BY <1>3, <1>4
    <3>2. ret # <<>> /\ Head(ret) = ret[1]
      BY <1>1, <3>1
    <3> QED
      BY <1>7, <3>1, <3>2
  <2>3. \A i \in 1..n : (\E a \in 1..m : p[a] = i) <=> Survives(raw, i)
    BY <1>3, <1>5, <2>2
  <2>4. Resolved(raw, q, p)
    BY <1>3, <2>1, <2>3 DEF Resolved
  <2> QED
    BY <1>1, <2>1, <2>4 DEF ret
<1> QED
  BY <1>6, <1>7

\* The path a request leads to is the raw path of one of the requests.
LEMMA RawPathGiven == Spec => [](\E r \in Requests : rawPath = r.rawPath)
<1> DEFINE Given == \E r \in Requests : rawPath = r.rawPath
<1>1. Init => Given
  BY DEF Init
<1>2. Given /\ [Next]_vars => Given'
  <2>1. [Next]_vars => rawPath' = rawPath
    BY DEF Next, OnRequestReceived, OnEOM, NotRegular, StatThrows, NotModified, StartReading,
           Via, Respond, NoMemory, IOThread, OpenFails, OpenSucceeds, Read, ReadFails,
           AllocFails, EndOfFile, SendEOF, vars, fileVars
  <2> QED
    BY <2>1
<1> QED
  BY <1>1, <1>2, PTL DEF Spec

\* The file that is looked for is at the names the path comes to, below the
\* base directory, for every path (sanitizePath and onRequestReceived).
THEOREM FilePathResolved == Spec => []PathIsResolved
<1>1. TypeOK /\ (\E r \in Requests : rawPath = r.rawPath) => PathIsResolved
  <2> SUFFICES ASSUME TypeOK, \E r \in Requests : rawPath = r.rawPath, ingress # "none"
               PROVE  LET left == {i \in DOMAIN rawPath : Survives(rawPath, i)}
                          place(i) == Cardinality({j \in left : j <= i})
                      IN  /\ Len(path) = Cardinality(left)
                          /\ \A i \in left : path[place(i)] = rawPath[i]
    BY DEF PathIsResolved
  <2>1. rawPath \in Seq(STRING) /\ RootInFront(rawPath)
    BY StreamingFileHandlerAssumption DEF RootInFront
  <2>2. path = PathAppend(<<>>, SanitizePath(rawPath))
    BY DEF TypeOK
  <2>3. path \in Seq(STRING) /\ \E p : Resolved(rawPath, path, p)
    BY <2>1, <2>2, PathAppended
  <2>4. PICK p : Resolved(rawPath, path, p)
    BY <2>3
  <2> DEFINE left == {i \in DOMAIN rawPath : Survives(rawPath, i)}
             m == Len(path)
  <2>5. /\ p \in [1..m -> 1..Len(rawPath)]
        /\ \A a, b \in 1..m : a < b => p[a] < p[b]
        /\ \A a \in 1..m : path[a] = rawPath[p[a]]
        /\ \A i \in 1..Len(rawPath) : (\E a \in 1..m : p[a] = i) <=> Survives(rawPath, i)
    BY <2>4 DEF Resolved
  <2>6. m \in Nat /\ DOMAIN rawPath = 1..Len(rawPath)
    BY <2>1, <2>3
  <2>7. left = Values(p, m)
    BY <2>5, <2>6 DEF Values
  <2>8. Increasing(p, m)
    BY <2>5 DEF Increasing
  <2> HIDE DEF left, m
  <2>9. Cardinality(left) = m /\ \A a \in 1..m : Cardinality(Below(left, p[a])) = a
    BY <2>6, <2>7, <2>8, InOrder
  <2>10. ASSUME NEW i \in left PROVE path[Cardinality({j \in left : j <= i})] = rawPath[i]
    <3>1. PICK a \in 1..m : i = p[a]
      BY <2>7 DEF Values
    <3> QED
      BY <2>5, <2>9, <3>1 DEF Below, m
  <2> QED
    BY <2>9, <2>10 DEF left, m
<1> QED
  BY <1>1, FileTypeCorrect, RawPathGiven, PTL
=============================================================================
