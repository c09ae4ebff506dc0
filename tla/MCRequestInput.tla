--------------------------- MODULE MCRequestInput ---------------------------
EXTENDS RequestInput

CONSTANTS MaxPieces,  \* bound: pieces of a pattern, at most two of them parameters
          MaxPath,    \* bound: characters of a path
          MaxBody     \* bound: characters of a body that is not a form's

Parameter(kind, optional, value, consumed, wrapped) ==
  [kind |-> kind, optional |-> optional, value |-> value, consumed |-> consumed,
   wrapped |-> wrapped]

MCParameters ==
  {Parameter("int", FALSE, "", "", w) : w \in BOOLEAN}
  \cup {Parameter("int", TRUE, "", c, FALSE) : c \in {"slash", "bad"}}
  \cup {Parameter("double", FALSE, "", "", TRUE), Parameter("double", TRUE, "", "", FALSE)}
  \cup {Parameter("string", FALSE, v, "", FALSE) : v \in {"word", "any", "bad"}}
  \cup {Parameter("string", TRUE, "any", "slash", FALSE)}

MCPatterns ==
  {p \in SeqOf(MCParameters \cup {Literal}, MaxPieces) : ParametersBefore(p, Len(p) + 1) <= 2}

MCFunctions == SeqOf(Types, 2)

Escaped(c) == [char |-> c, form |-> "escaped"]
Broken == [char |-> "%", form |-> "broken"]

MCDigits == {Plain("7")}

\* A slash may be sent as an escape, one escape names no character, and a number
\* may have a point.
MCRequestPaths ==
  SeqOf({Plain("7"), Plain("x"), Plain("/")}, MaxPath)
  \cup SeqOf({Plain("7"), Plain(".")}, 3) \cup SeqOf({Plain("7"), Escaped("/")}, 3)
  \cup SeqOf({Escaped("/"), Broken}, 2)

-----------------------------------------------------------------------------
(* Clients *)

\* How a client may spell a character of a form.
Spellings(c, inKey) ==
  {Escaped(c)} \cup (IF c = " " THEN {Plain("+")}
                     ELSE IF c = "&" \/ (c = "=" /\ inKey) THEN {} ELSE {Plain(c)})

SpelledText(text, inKey) ==
  IF text = <<>> THEN {<<>>} ELSE {<<s>> : s \in Spellings(text[1].char, inKey)}

\* Texts of a field: at most one character.
FieldTexts == {<<>>} \cup {<<Plain(c)>> : c \in {"a", "&", "=", " "}}
Forms == SeqOf(FieldTexts \X FieldTexts, 2)

\* A pair without a value may be sent without "=" if that leaves a key.
SpelledField(field) ==
  {k \o <<Eq>> \o v : k \in SpelledText(field[1], TRUE), v \in SpelledText(field[2], FALSE)}
  \cup (IF field[2] = <<>> /\ field[1] # <<>> THEN SpelledText(field[1], TRUE) ELSE {})

SpelledForm(form) ==
  CASE Len(form) = 0 -> {<<>>}
    [] Len(form) = 1 -> SpelledField(form[1])
    [] Len(form) = 2 -> {a \o <<Amp>> \o b : a \in SpelledField(form[1]),
                                            b \in SpelledField(form[2])}

FormBodies ==
  UNION {{[contentType |-> <<"urlencoded">>, chain |-> <<text>>, form |-> Some(form)] :
            text \in SpelledForm(form)} : form \in Forms}

\* Any bytes, with any header.
OtherBodies ==
  {[contentType |-> type, chain |-> <<text>>, form |-> None] :
     type \in {<<>>, <<"">>, <<"urlencoded">>, <<"form-data">>, <<"other">>,
               <<"urlencoded", "urlencoded">>},
     text \in SeqOf({Plain("a"), Escaped("a"), Amp, Eq, Plain("+"), Broken}, MaxBody)}

\* Ways to divide a body of ten characters into chunks of up to four, one of
\* which may be empty.
Ten == <<Plain("a"), Eq, Plain("b"), Amp, Plain("a"), Eq, Plain("c"), Amp, Plain("d"), Eq>>

ChunkedBodies ==
  {[contentType |-> <<"urlencoded">>, form |-> None,
    chain |-> [i \in 1..Len(sizes) |->
                 LET before == FoldLeft(LAMBDA n, size : n + size, 0, SubSeq(sizes, 1, i - 1))
                 IN  SubSeq(Ten, before + 1, Min({before + sizes[i], Len(Ten)}))]] :
     sizes \in UNION {[1..n -> {0, 1, 3, 4}] : n \in 1..5}}

MCBodies == FormBodies \cup OtherBodies \cup ChunkedBodies

\* Two characters, each spelled in two ways, as the key.
Keys == {<<a, b>> : a \in {Plain("a"), Escaped("a")}, b \in {Plain("b"), Escaped("b")}}
MCParams == {<<Plain("a"), Plain("b")>>, <<Plain("a"), Escaped("b")>>}
Values == {<<Escaped("x")>>, <<Plain("+"), Broken>>, <<>>}
MCQueries == UNION {[ks -> Values] : ks \in SUBSET (Keys \cup {<<Broken>>})}
=============================================================================
