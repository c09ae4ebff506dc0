----------------------------- MODULE PostParser -----------------------------
(***************************************************************************)
(* PostParser (src/src/PostParser.h and PostParser.cpp): the fields of a   *)
(* form, from a body of the type application/x-www-form-urlencoded. The    *)
(* result maps each key to the list of its values. A map is a function.    *)
(***************************************************************************)
EXTENDS HTTPRequest

Amp == Plain("&")
Eq == Plain("=")

At(text, c) == {i \in DOMAIN text : text[i] = c}

NoFields == [k \in {} |-> <<>>]

\* split(asString, "&"), one character after the other
Cut(pieces, c) ==
  IF c = Amp THEN Append(pieces, <<>>) ELSE [pieces EXCEPT ![Len(pieces)] = Append(@, c)]

Split(text) ==
  LET pieces[n \in 0..Len(text)] ==
        IF n = 0 THEN <<<<>>>> ELSE Cut(pieces[n - 1], text[n])
  IN  pieces[Len(text)]

\* Mutant: divided at the last "=".
KeyValue_Last(piece) ==
  IF At(piece, Eq) = {} THEN <<piece, <<>>>>
  ELSE LET i == Max(At(piece, Eq))
       IN  <<SubSeq(piece, 1, i - 1), SubSeq(piece, i + 1, Len(piece))>>

\* A piece is divided at its first "="; without one it is a key.
KeyValue(piece) ==
  IF At(piece, Eq) = {} THEN <<piece, <<>>>>
  ELSE LET i == Min(At(piece, Eq))
       IN  <<SubSeq(piece, 1, i - 1), SubSeq(piece, i + 1, Len(piece))>>

\* Key and value are unescaped each for itself.
Field(piece) ==
  LET kvp == KeyValue(piece)
  IN  <<UnescapeOrRaw(kvp[1], "QUERY"), UnescapeOrRaw(kvp[2], "QUERY")>>

\* Mutant: a later value replaces an earlier one.
PushBack_Replace(ret, kvp) ==
  [k \in DOMAIN ret \cup {kvp[1]} |-> IF k = kvp[1] THEN <<kvp[2]>> ELSE ret[k]]

\* Mutant: an empty value is not pushed, although ret[key] has made the list.
PushBack_SkipEmpty(ret, kvp) ==
  [k \in DOMAIN ret \cup {kvp[1]} |->
     (IF k \in DOMAIN ret THEN ret[k] ELSE <<>>)
       \o (IF k = kvp[1] /\ kvp[2] # <<>> THEN <<kvp[2]>> ELSE <<>>)]

\* ret[key].push_back(value)
PushBack(ret, kvp) ==
  [k \in DOMAIN ret \cup {kvp[1]} |->
     (IF k \in DOMAIN ret THEN ret[k] ELSE <<>>) \o (IF k = kvp[1] THEN <<kvp[2]>> ELSE <<>>)]

\* The empty pieces are left out.
AddPiece(ret, piece) == IF piece = <<>> THEN ret ELSE PushBack(ret, Field(piece))

ParseUrlEncoded(text) ==
  LET pieces == Split(text)
      ret[n \in 0..Len(pieces)] ==
        IF n = 0 THEN NoFields ELSE AddPiece(ret[n - 1], pieces[n])
  IN  ret[Len(pieces)]

\* parseFormData reads nothing yet.
ParseFormData == NoFields

\* parseRequest looks for the exact name of a type, without parameters.
ParseRequest(contentType, text) ==
  CASE Header(contentType) = Some("urlencoded") -> ParseUrlEncoded(text)
    [] Header(contentType) = Some("form-data") -> ParseFormData
    [] OTHER -> NoFields

\* getString and getBinary, the first value; getStringList and getBinaryList,
\* all of them.
GetString(fields, key) == IF key \in DOMAIN fields THEN Some(Head(fields[key])) ELSE None
GetStringList(fields, key) == IF key \in DOMAIN fields THEN Some(fields[key]) ELSE None
=============================================================================
