------------------------ MODULE StreamingFileHandler ------------------------
(***************************************************************************)
(* StreamingFileHandler (src/src/StreamingFileHandler.cpp): serves one     *)
(* file, by a path below its base directory that the route has given it.   *)
(* A path is a sequence of components. onRequestReceived and onEOM run in  *)
(* the event base thread; opening and reading the file run on an IO        *)
(* thread, which calls the send functions of StreamingHTTPHandler.         *)
(***************************************************************************)
EXTENDS StreamingHTTPHandler, Integers, SequencesExt

CONSTANTS ReadBufferSize,  \* readBufferSize_
          Slack,           \* tailroom of IOBuf::create beyond what was asked for
          MaxFileSize,     \* bound: length of the file
          MaxCalls,        \* bound: what is sent before a read error stops mattering
          Requests,        \* paths asked for, each with what it leads to
          Faults,          \* what may go wrong while reading
          MaxTime,         \* bound: modification times and dates
          ClockSkews       \* by how much mktime may be off a date in GMT

\* What stat says of the path: a regular file, nothing or something else, or
\* an error other than "not found" (no permission for a directory).
PathKinds == {"regular", "other", "denied"}

\* A read fails (badbit), or memory cannot be had (std::bad_alloc).
FaultKinds == {"read", "alloc"}

ASSUME StreamingFileHandlerAssumption ==
  /\ ReadBufferSize \in Nat \ {0}
  /\ Slack \in Nat
  /\ MaxFileSize \in Nat
  /\ MaxCalls \in Nat
  /\ Requests \subseteq [rawPath : Seq(STRING), kind : PathKinds, length : 0..MaxFileSize]
  /\ \A r \in Requests : \A i \in DOMAIN r.rawPath : r.rawPath[i] = "/" => i = 1
  /\ Faults \subseteq FaultKinds
  /\ MaxTime \in Nat
  /\ ClockSkews \subseteq Int

VARIABLES rawPath,          \* rawPath_, what setRequestArgs was given
          path,             \* path_, from the base directory on
          file,             \* the file: its length and modification time
          kind,             \* what path_ leads to
          date,             \* If-Modified-Since in GMT, or 0 if none is usable
          ifModifiedSince,  \* ifModifiedSince_
          reader,           \* how far the continuation on the IO thread is
          fin,              \* state of the stream fin
          pos,              \* bytes read so far
          failed,           \* an exception ended the work on the IO thread
          terminated        \* std::terminate was called

fileVars == <<rawPath, path, file, kind, date, ifModifiedSince, reader, fin, pos, failed, terminated>>
vars == <<baseVars, fileVars>>

-----------------------------------------------------------------------------
(* sanitizePath *)

\* remove_filename drops the last component, the root of a path like any other;
\* there may be none.
RemoveFilename(p) == IF p = <<>> THEN <<>> ELSE Front(p)

\* Mutant: ".." is passed over like ".".
Sanitize_SkipDots(ret, component) ==
  IF component \in {"..", "."} THEN ret ELSE Append(ret, component)

\* One turn of the loop.
Sanitize(ret, component) ==
  CASE component = ".." -> RemoveFilename(ret)
    [] component = "." -> ret
    [] OTHER -> Append(ret, component)

SanitizePath(raw) ==
  LET ret[n \in 0..Len(raw)] == IF n = 0 THEN <<>> ELSE Sanitize(ret[n - 1], raw[n])
  IN  ret[Len(raw)]

\* path_ /= p: a root in front of p is no more than a separator.
PathAppend(p, q) == p \o (IF q # <<>> /\ Head(q) = "/" THEN Tail(q) ELSE q)

-----------------------------------------------------------------------------

TypeOK ==
  /\ BaseTypeOK
  /\ path = IF ingress = "none" THEN <<>> ELSE PathAppend(<<>>, SanitizePath(rawPath))
  /\ file \in [length : 0..MaxFileSize, modified : 1..MaxTime]
  /\ kind \in PathKinds
  /\ date \in 0..MaxTime
  /\ ifModifiedSince \in Int
  /\ reader \in {"unset", "queued", "reading", "ending", "done"}
  /\ fin \in {"closed", "good", "eof", "bad"}
  /\ pos \in 0..file.length
  /\ failed \in BOOLEAN
  /\ terminated \in BOOLEAN

Init ==
  /\ BaseInit
  /\ path = <<>>
  /\ \E r \in Requests, modified \in 1..MaxTime :
       /\ rawPath = r.rawPath
       /\ kind = r.kind
       /\ file = [length |-> r.length, modified |-> modified]
  /\ date = 0
  /\ ifModifiedSince = 0
  /\ reader = "unset"
  /\ fin = "closed"
  /\ pos = 0
  /\ failed = FALSE
  /\ terminated = FALSE

-----------------------------------------------------------------------------
(* In the event base thread *)

\* onRequestReceived: strptime leaves ifModifiedSince_ at 0 when the header is
\* missing or unusable; mktime takes the date, which is in GMT, for local time
\* (and the uninitialized tm_isdst for a daylight saving flag).
OnRequestReceived(d, skew) ==
  /\ OnRequest
  /\ path' = PathAppend(path, SanitizePath(rawPath))
  /\ date' = d
  /\ ifModifiedSince' = IF d = 0 THEN 0 ELSE d + skew
  /\ UNCHANGED <<rawPath, file, kind, reader, fin, pos, failed, terminated>>

\* onEOM is called.
Submit ==
  /\ ingress = "open"
  /\ ended = "no"

\* What onEOM answers by itself: a status and the end of the response.
Respond(code) ==
  LET ts == <<Headers(code), Eof>>
  IN  /\ ingress' = "eom"
      /\ loopQ' = loopQ \o ts
      /\ calls' = calls \o ts
      /\ sentHeaders' = TRUE
      /\ dchecks' = (dchecks /\ DcheckHolds(Headers(code)))
      /\ UNCHANGED <<ended, object, notifQ, wire, dangling, fileVars>>

NotRegular ==
  /\ Submit
  /\ kind = "other"
  /\ Respond(404)

\* is_regular_file throws, in a function that is noexcept.
StatThrows ==
  /\ Submit
  /\ kind = "denied"
  /\ ingress' = "eom"
  /\ terminated' = TRUE
  /\ UNCHANGED <<ended, object, sentHeaders, loopQ, notifQ, calls, wire, dchecks,
                 dangling, rawPath, path, file, kind, date, ifModifiedSince, reader, fin, pos, failed>>

\* Memory cannot be had in a function that is noexcept: a callback (which makes
\* a body for the request, a path, a response or the continuation), or a send
\* function (which makes the function it queues).
NoMemory ==
  /\ "alloc" \in Faults
  /\ \/ ingress = "none" /\ ended = "no"
     \/ Submit
     \/ reader \in {"queued", "reading", "ending"}
  /\ terminated' = TRUE
  /\ UNCHANGED <<baseVars, rawPath, path, file, kind, date, ifModifiedSince, reader, fin, pos, failed>>

\* Mutant: the comparison is turned round.
NotModified_Swapped ==
  /\ Submit
  /\ kind = "regular"
  /\ ifModifiedSince > 0
  /\ ifModifiedSince <= file.modified
  /\ Respond(304)

Fresh == ifModifiedSince > 0 /\ ifModifiedSince >= file.modified

NotModified ==
  /\ Submit
  /\ kind = "regular"
  /\ Fresh
  /\ Respond(304)

\* Hands the file to the IO executor.
Via ==
  /\ reader' = "queued"
  /\ UNCHANGED <<rawPath, path, file, kind, date, ifModifiedSince, fin, pos, failed, terminated>>

\* Mutant: the else is missing, a 304 is followed by the file.
StartReading_Always(ec) ==
  LET ts == IF Fresh /\ ~ec THEN <<Headers(304), Eof>> ELSE <<>>
  IN  /\ Submit
      /\ kind = "regular"
      /\ ingress' = "eom"
      /\ loopQ' = loopQ \o ts
      /\ calls' = calls \o ts
      /\ sentHeaders' = (ts # <<>>)
      /\ UNCHANGED <<ended, object, notifQ, wire, dchecks, dangling>>
      /\ Via

\* The file is handed to the IO executor: the client has no current copy, or
\* last_write_time set ec (the file may have gone just now).
StartReading(ec) ==
  /\ Submit
  /\ kind = "regular"
  /\ ec \/ ~Fresh
  /\ ingress' = "eom"
  /\ UNCHANGED <<ended, object, sentHeaders, loopQ, notifQ, calls, wire, dchecks, dangling>>
  /\ Via

-----------------------------------------------------------------------------
(* On an IO thread *)

\* The file cannot be opened, or has gone since onEOM looked.
OpenFails ==
  /\ reader = "queued"
  /\ reader' = "ending"
  /\ Send("other", Headers(404))
  /\ UNCHANGED <<rawPath, path, file, kind, date, ifModifiedSince, fin, pos, failed, terminated>>

OpenSucceeds ==
  /\ reader = "queued"
  /\ reader' = "reading"
  /\ fin' = "good"
  /\ Send("other", Headers(200))
  /\ UNCHANGED <<rawPath, path, file, kind, date, ifModifiedSince, pos, failed, terminated>>

Remaining == file.length - pos
Smaller(a, b) == IF a < b THEN a ELSE b

\* Mutant: the buffer is not trimmed after a short read.
Filled_NotTrimmed(bytes) ==
  [first |-> pos, bytes |-> bytes, garbage |-> ReadBufferSize + Slack - bytes]

\* A buffer as long as its tailroom, into which fin.read put `bytes` bytes of
\* the file, trimmed by what it left unfilled of readBufferSize_.
Filled(bytes) ==
  LET length == ReadBufferSize + Slack
      unfilled == ReadBufferSize - bytes
  IN  [first |-> pos, bytes |-> bytes, garbage |-> length - unfilled - bytes]

\* Mutant: the position advances by the size of the buffer.
Read_FullStep ==
  LET bytes == Smaller(ReadBufferSize, Remaining)
  IN  /\ reader = "reading"
      /\ fin = "good"
      /\ pos' = pos + ReadBufferSize
      /\ fin' = IF bytes < ReadBufferSize THEN "eof" ELSE "good"
      /\ Send("other", Body(Filled(bytes)))
      /\ UNCHANGED <<rawPath, path, file, kind, date, ifModifiedSince, reader, failed, terminated>>

\* One turn of the loop: a buffer is filled from the file and sent. A short read
\* sets eofbit.
Read ==
  LET bytes == Smaller(ReadBufferSize, Remaining)
  IN  /\ reader = "reading"
      /\ fin = "good"
      /\ pos' = pos + bytes
      /\ fin' = IF bytes < ReadBufferSize THEN "eof" ELSE "good"
      /\ Send("other", Body(Filled(bytes)))
      /\ UNCHANGED <<rawPath, path, file, kind, date, ifModifiedSince, reader, failed, terminated>>

\* A read error sets badbit and not eofbit, and reads nothing. So do all the
\* turns that follow: for ever, if it were not for the bound.
ReadFails ==
  /\ reader = "reading"
  /\ Len(calls) < MaxCalls
  /\ \/ fin = "good" /\ "read" \in Faults
     \/ fin = "bad"
  /\ fin' = "bad"
  /\ Send("other", Body(Filled(0)))
  /\ UNCHANGED <<rawPath, path, file, kind, date, ifModifiedSince, reader, pos, failed, terminated>>

\* Where the IO thread needs memory: before it sends the headers (for the
\* stream and the response) and in each turn of the loop (IOBuf::create).
Allocates == reader = "queued" \/ (reader = "reading" /\ fin # "eof")

\* Mutant: no onError, the exception skips the last continuation as well.
AllocFails_NoOnError ==
  /\ Allocates
  /\ "alloc" \in Faults
  /\ reader' = "done"
  /\ failed' = TRUE
  /\ UNCHANGED <<baseVars, rawPath, path, file, kind, date, ifModifiedSince, fin, pos, terminated>>

\* Mutant: onError ends the response, as the last continuation does again.
AllocFails_Eof ==
  /\ Allocates
  /\ "alloc" \in Faults
  /\ reader' = "ending"
  /\ failed' = TRUE
  /\ Send("other", Eof)
  /\ UNCHANGED <<rawPath, path, file, kind, date, ifModifiedSince, fin, pos, terminated>>

\* The exception ends the continuation; onError logs it, with path_, and the
\* chain goes on, whether or not headers were sent.
AllocFails ==
  /\ Allocates
  /\ "alloc" \in Faults
  /\ reader' = "ending"
  /\ failed' = TRUE
  /\ Touch
  /\ UNCHANGED <<proxygen, object, sentHeaders, loopQ, notifQ, calls, wire, dchecks>>
  /\ UNCHANGED <<rawPath, path, file, kind, date, ifModifiedSince, fin, pos, terminated>>

\* `while (!fin.eof())` ends.
EndOfFile ==
  /\ reader = "reading"
  /\ fin = "eof"
  /\ reader' = "ending"
  /\ UNCHANGED <<baseVars, rawPath, path, file, kind, date, ifModifiedSince, fin, pos, failed, terminated>>

\* The last continuation of onEOM.
SendEOF ==
  /\ reader = "ending"
  /\ reader' = "done"
  /\ Send("other", Eof)
  /\ UNCHANGED <<rawPath, path, file, kind, date, ifModifiedSince, fin, pos, failed, terminated>>

-----------------------------------------------------------------------------

OnEOM ==
  \/ NotRegular
  \/ StatThrows
  \/ NotModified
  \/ \E ec \in BOOLEAN : StartReading(ec)

IOThread ==
  \/ OpenFails \/ OpenSucceeds
  \/ Read \/ ReadFails \/ AllocFails \/ EndOfFile
  \/ SendEOF

Base == OnError \/ RequestComplete \/ EventBase

Next ==
  /\ ~terminated
  /\ \/ \E d \in 0..MaxTime, skew \in ClockSkews : OnRequestReceived(d, skew)
     \/ OnEOM
     \/ IOThread
     \/ NoMemory
     \/ Base /\ UNCHANGED fileVars

Spec == Init /\ [][Next]_vars

\* The event base runs what is queued, and the executor gives the reader a
\* thread; the reader's loop takes its turns.
FairSpec ==
  /\ Spec
  /\ WF_vars(RunLoopCallback /\ UNCHANGED fileVars)
  /\ WF_vars(RunNotification /\ UNCHANGED fileVars)
  /\ WF_vars(IOThread)

-----------------------------------------------------------------------------
(* Properties *)

Sent(op) == {i \in DOMAIN wire : wire[i].op = op}
Status(code) == \E i \in Sent("headers") : wire[i].code = code
Complete == Sent("eof") # {}

\* How many names, and how many "..", there are after i and up to j.
IsName(component) == component \notin {"..", ".", "/"}
NamesIn(raw, i, j) == Cardinality({k \in (i + 1)..j : IsName(raw[k])})
UpsIn(raw, i, j) == Cardinality({k \in (i + 1)..j : raw[k] = ".."})

\* A name of a path is left over if no ".." after it takes it away.
Survives(raw, i) ==
  /\ IsName(raw[i])
  /\ \A j \in i..Len(raw) : UpsIn(raw, i, j) <= NamesIn(raw, i, j)

\* The file that is looked for is below the base directory, at the names that
\* the path comes to, whatever it has of "..", "." and a root: ".." beyond the
\* base directory is passed over (StreamingFileHandler.cpp:12-33).
PathIsResolved ==
  ingress # "none" =>
    LET left == {i \in DOMAIN rawPath : Survives(rawPath, i)}
        place(i) == Cardinality({j \in left : j <= i})
    IN  /\ Len(path) = Cardinality(left)
        /\ \A i \in left : path[place(i)] = rawPath[i]

\* An exception came before the headers, so that there will be none.
Headless == failed /\ ~sentHeaders

\* The DCHECKs of the send functions hold, on every path through onEOM and the
\* reader but one: one header, before anything else. After an exception before
\* the headers the last continuation still ends the response, and that call is
\* the only one that is out of order (StreamingHTTPHandler-inl.h:45,67,80;
\* StreamingFileHandler.cpp:99-102).
SendsInOrder == dchecks \/ (Headless /\ calls = <<Eof>>)

\* What is on the wire is always one well-formed response or a beginning of
\* one: a status, pieces of body, one end. After an exception before the headers
\* it is an end and nothing else (StreamingFileHandler.cpp:57-105).
WellFormedWire ==
  /\ \A i \in DOMAIN wire : (wire[i].op = "headers") = (i = 1 /\ ~Headless)
  /\ \A i \in Sent("eof") : i = Len(wire)
  /\ Headless => Sent("body") = {}

\* The client gets the file: the pieces follow one another without gap or
\* overlap; each holds the bytes read and, beyond them, as many as IOBuf::create
\* gave beyond what was asked for, none if it gave none; and when a 200 response
\* ends they are the whole file, unless an exception cut the reading short
\* (StreamingFileHandler.cpp:78-97).
BodyIsFile ==
  /\ Sent("body") # {} => Status(200)
  /\ \A i \in Sent("body") :
       /\ wire[i].piece.garbage = Slack
       /\ wire[i].piece.first =
            IF i - 1 \in Sent("body")
            THEN wire[i - 1].piece.first + wire[i - 1].piece.bytes ELSE 0
  /\ Complete /\ Status(200) /\ ~failed =>
       IF Len(wire) = 2 THEN file.length = 0
       ELSE LET last == wire[Len(wire) - 1].piece
            IN  last.first + last.bytes = file.length

\* 304 is for a file not modified after the date the client gave
\* (StreamingFileHandler.cpp:65).
NotModifiedIsTrue ==
  Status(304) => kind = "regular" /\ date # 0 /\ file.modified <= date

\* Every request read completely gets a response that is ended, or its client
\* goes away; an exception on the IO thread is no excuse. Two ways to fail this
\* are known and excepted: the loop after a read error, and an exception in a
\* function that is noexcept (StreamingFileHandler.cpp:57-105).
EventuallyComplete ==
  ingress = "eom" ~> (Complete \/ ended = "error" \/ fin = "bad" \/ terminated)

\* The test "returns_200_and_stops_processing_on_error"
\* (StreamingFileHandlerTest.cpp:234-235): after a read error the reader stops.
StopsOnReadError ==
  (fin = "bad" /\ ended = "no") ~> (reader = "done" \/ ended = "error")
=============================================================================
