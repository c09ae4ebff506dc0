---------------------------- MODULE HTTPRequest ----------------------------
(***************************************************************************)
(* HTTPRequest (src/src/HTTPRequest.h and HTTPRequest.cpp) and to_string   *)
(* (StringUtils.h): what a handler reads from a request. A text is a       *)
(* sequence of characters. On the wire each may be itself ("plain"),       *)
(* spelled as an escape ("escaped"), or stand for an escape that names no  *)
(* character ("broken"). An Optional is a sequence of at most one value.   *)
(***************************************************************************)
EXTENDS Integers, SequencesExt

CONSTANT IntLimit  \* the first number that an int is too small for

ASSUME IntLimitAssumption == IntLimit \in Nat \ {0}

Character == [char : STRING, form : {"plain", "escaped", "broken"}]

None == <<>>
Some(value) == <<value>>

Plain(c) == [char |-> c, form |-> "plain"]

-----------------------------------------------------------------------------
(* folly::uriUnescape, and what is done when it throws *)

Unescapable(text) == \A i \in DOMAIN text : text[i].form # "broken"

\* In the mode QUERY a plus is a space.
Unescape(text, mode) ==
  [i \in DOMAIN text |->
     IF mode = "QUERY" /\ text[i] = Plain("+") THEN Plain(" ") ELSE Plain(text[i].char)]

\* The text as it came when it cannot be unescaped.
UnescapeOrRaw(text, mode) == IF Unescapable(text) THEN Unescape(text, mode) ELSE text

\* getUnescapedPath: routes see the same path as the handler's request.
UnescapedPath(path) == UnescapeOrRaw(path, "PATH")

-----------------------------------------------------------------------------
(* QueryParams, Headers, Cookies *)

\* getDecodedQueryParam answers with what it had unescaped when it failed.
Decoded(value) ==
  IF Unescapable(value) THEN {Unescape(value, "QUERY")}
  ELSE {Unescape(p, "QUERY") : p \in {q \in Prefixes(value) : Unescapable(q)}}

\* Mutant: the first key that fits decides, readable value or not.
QueryParam_Stops(query, param) ==
  IF param \in DOMAIN query
  THEN {Some(v) : v \in Decoded(query[param])}
  ELSE LET keys == {k \in DOMAIN query : Unescapable(k) /\ Unescape(k, "QUERY") = param}
       IN  IF keys = {} THEN {None}
           ELSE {IF Unescapable(query[k]) THEN Some(Unescape(query[k], "QUERY")) ELSE None :
                   k \in keys}

\* getQueryParam, all answers that the order of proxygen's map allows: the key
\* as it was sent, else a key that unescapes to it and whose value unescapes.
QueryParam(query, param) ==
  IF param \in DOMAIN query
  THEN {Some(v) : v \in Decoded(query[param])}
  ELSE LET keys == {k \in DOMAIN query :
                      /\ Unescapable(k) /\ Unescape(k, "QUERY") = param
                      /\ Unescapable(query[k])}
       IN  IF keys = {} THEN {None}
           ELSE {Some(Unescape(query[k], "QUERY")) : k \in keys}

\* getHeader and getCookie: a header that comes twice counts as empty, and an
\* empty value as none.
Header(values) == IF Len(values) = 1 /\ values[1] # "" THEN Some(values[1]) ELSE None

-----------------------------------------------------------------------------
(* to_string *)

\* auto offset = 0 is an int.
AsInt(n) == ((n + IntLimit) % (2 * IntLimit)) - IntLimit

\* One turn of the loop: insert throws std::out_of_range past the end, and a
\* negative offset is past every end.
Insert(acc, chunk) ==
  IF acc.offset \in 0..Len(acc.text) /\ ~acc.thrown
  THEN [text |-> SubSeq(acc.text, 1, acc.offset) \o chunk
                   \o SubSeq(acc.text, acc.offset + 1, Len(acc.text)),
        offset |-> AsInt(acc.offset + Len(chunk)),
        thrown |-> FALSE]
  ELSE [acc EXCEPT !.thrown = TRUE]

NoText == [text |-> <<>>, offset |-> 0, thrown |-> FALSE]

\* Mutant: the chunks are put in front.
BufferToString_Front(chain) ==
  LET acc[n \in 0..Len(chain)] ==
        IF n = 0 THEN NoText ELSE Insert([acc[n - 1] EXCEPT !.offset = 0], chain[n])
  IN  acc[Len(chain)]

BufferToString(chain) ==
  LET acc[n \in 0..Len(chain)] == IF n = 0 THEN NoText ELSE Insert(acc[n - 1], chain[n])
  IN  acc[Len(chain)]
=============================================================================
