---------------------------- MODULE RequestInput ----------------------------
(***************************************************************************)
(* What a request brings to the user's function: Route::handler and        *)
(* call_handler (src/src/Route-inl.h) on the route that RouteParsing has   *)
(* made, get_handler_args (RouteParsing.h), and the query parameters and   *)
(* the form that the function then reads (HTTPRequest, PostParser).        *)
(*                                                                         *)
(* boost::regex_match is known from its use: it tries the ways to divide   *)
(* the path among the pieces of the pattern, an optional piece present     *)
(* before absent and each piece long before short, and takes the first     *)
(* that fits.                                                              *)
(***************************************************************************)
EXTENDS RouteParsing, PostParser

CONSTANTS RequestPaths,  \* paths tried, as they are sent
          Queries,       \* query parameters tried, functions from keys to values
          Params,        \* query parameters asked for
          Bodies,        \* bodies tried: [contentType, chain, form]
          Digits,        \* characters that are digits
          MaxDigits      \* digits of a number that an int64_t can hold

\* A client spells a character as itself, as an escape, or a space as a plus.
SpellsText(sent, text) == Unescapable(sent) /\ Unescape(sent, "QUERY") = text

\* One field of a form: the "=" after the key may be missing if there is no
\* value, but not both.
SpellsField(sent, field) ==
  /\ sent # <<>>
  /\ \A i \in DOMAIN sent : sent[i] # Amp
  /\ \/ \E sign \in DOMAIN sent :
          /\ sent[sign] = Eq
          /\ \A i \in 1..(sign - 1) : sent[i] # Eq
          /\ SpellsText(SubSeq(sent, 1, sign - 1), field[1])
          /\ SpellsText(SubSeq(sent, sign + 1, Len(sent)), field[2])
     \/ /\ \A i \in DOMAIN sent : sent[i] # Eq
        /\ SpellsText(sent, field[1])
        /\ field[2] = <<>>

\* A form is the text of its fields with "&" between them; ends are the places
\* behind each.
SpellsForm(sent, form) ==
  LET n == Len(form)
  IN  IF n = 0 THEN sent = <<>>
      ELSE \E ends \in [1..n -> 1..(Len(sent) + 1)] :
             LET first(i) == IF i = 1 THEN 1 ELSE ends[i - 1] + 1
             IN  /\ ends[n] = Len(sent) + 1
                 /\ \A i \in 1..n : i < n => sent[ends[i]] = Amp
                 /\ \A i \in 1..n : SpellsField(SubSeq(sent, first(i), ends[i] - 1), form[i])

\* "max" stands for the largest int64_t (MaxInt) and is no character of a path.
\* No buffer that another one follows is longer than an int can count.
ASSUME RequestInputAssumption ==
  /\ RequestPaths \cup Params \subseteq Seq(Character)
  /\ \A text \in RequestPaths : \A i \in DOMAIN text : text[i].char # "max"
  /\ Digits \subseteq {c \in Character : c.char # "max"}
  /\ MaxDigits \in Nat
  /\ \A q \in Queries : \A k \in DOMAIN q : k \in Seq(Character) /\ q[k] \in Seq(Character)
  /\ \A b \in Bodies :
       /\ b.contentType \in Seq(STRING)
       /\ b.chain \in Seq(Seq(Character)) \ {<<>>}
       /\ \A i \in DOMAIN b.chain : i < Len(b.chain) => Len(b.chain[i]) <= IntLimit
       /\ b.form # None => /\ b.contentType = <<"urlencoded">>
                          /\ b.form[1] \in Seq(Seq(Character) \X Seq(Character))
                          /\ SpellsForm(FlattenSeq(b.chain), b.form[1])

VARIABLES phase,      \* what has become of the request
          path,       \* the path of its first line
          matches,    \* boost::smatch: where each piece of the pattern matched
          arguments,  \* what the function was called with
          body,       \* the body that it reads
          fields,     \* parsedData_ of its PostParser
          query, param, answer  \* the query, what is asked for, and the result

inputVars == <<phase, path, matches, arguments, body, fields, query, param, answer>>
vars == <<routeVars, inputVars>>

NoBody == [contentType |-> <<>>, chain |-> <<>>, form |-> None]

Init ==
  /\ RouteInit
  /\ phase = "none"
  /\ path = <<>>
  /\ matches = <<>>
  /\ arguments = <<>>
  /\ body = NoBody
  /\ fields = NoFields
  /\ query = NoFields
  /\ param = <<>>
  /\ answer = None

-----------------------------------------------------------------------------
(* boost::regex_match *)

IsNumber(text) == text # <<>> /\ \A i \in DOMAIN text : text[i] \in Digits

\* The regular expressions that stand in a group.
InLanguage(name, text) ==
  CASE name = "int" -> IsNumber(text)
    [] name = "double" ->
         \/ IsNumber(text)
         \/ \E i \in At(text, Plain(".")) :
              /\ IsNumber(SubSeq(text, 1, i - 1))
              /\ IsNumber(SubSeq(text, i + 1, Len(text)))
    [] name = "word" ->
         /\ text # <<>>
         /\ \A i \in DOMAIN text : text[i] \in Digits \cup {Plain("x")}
    [] name = "any" -> TRUE
    [] name = "slash" -> text = <<Plain("/")>>

ExpressionOf(piece) ==
  IF piece.kind \in {"int", "double"} THEN piece.kind ELSE piece.value

\* What an optional parameter takes after its value, and only then.
Consumed(piece) == IF piece.consumed = "" THEN <<>> ELSE <<Plain("/")>>

Absent == -1

\* How one piece may match from a position on: its length, and where the next
\* piece begins. (?:(v)c)? takes c only together with v.
Takes(piece, text, from) ==
  {[length |-> n, next |-> from + n + Len(Consumed(piece))] :
     n \in {k \in 0..(Len(text) + 1 - from - Len(Consumed(piece))) :
              /\ InLanguage(ExpressionOf(piece), SubSeq(text, from, from + k - 1))
              /\ SubSeq(text, from + k, from + k + Len(Consumed(piece)) - 1) = Consumed(piece)}}
  \cup (IF piece.optional \/ piece.wrapped
        THEN {[length |-> Absent, next |-> from]} ELSE {})

\* All the ways to divide the text among the pieces; partial[i] are those to
\* divide a beginning of the text among the first i of them.
Divisions(text) ==
  LET partial[i \in 0..Len(finalRoute)] ==
        IF i = 0 THEN {[division |-> <<>>, next |-> 1]}
        ELSE UNION {{[division |-> Append(p.division, [from |-> p.next, length |-> t.length]),
                      next |-> t.next] :
                       t \in Takes(finalRoute[i].piece, text, p.next)} : p \in partial[i - 1]}
  IN  {p.division : p \in {q \in partial[Len(finalRoute)] : q.next = Len(text) + 1}}

\* The order in which perl tries the alternatives.
TriedBefore(d, e) ==
  \E i \in DOMAIN d : /\ d[i].length > e[i].length
                      /\ \A j \in 1..(i - 1) : d[j].length = e[j].length

Preferred(divisions) ==
  CHOOSE d \in divisions : \A e \in divisions : ~TriedBefore(e, d)

\* Route::handler on a route that exists.
MatchPath ==
  /\ route = "built"
  /\ phase = "none"
  /\ \E p \in RequestPaths :
       LET divisions == Divisions(UnescapedPath(p))
       IN  /\ path' = p
           /\ IF divisions = {}
              THEN phase' = "not matched" /\ UNCHANGED matches
              ELSE phase' = "matched" /\ matches' = Preferred(divisions)
  /\ UNCHANGED <<routeVars, arguments, body, fields, query, param, answer>>

-----------------------------------------------------------------------------
(* get_handler_args *)

\* std::numeric_limits<int64_t>::max(), for any number that does not fit.
MaxInt == <<Plain("max")>>

\* matches["__N"]: a group that is not there, or has not matched, is empty.
Group(n) ==
  LET groups == {i \in DOMAIN finalRoute : finalRoute[i].group = n}
  IN  IF \E i \in groups : matches[i].length # Absent
      THEN LET i == CHOOSE i \in groups : matches[i].length # Absent
           IN  Some(SubSeq(UnescapedPath(path), matches[i].from,
                           matches[i].from + matches[i].length - 1))
      ELSE None

\* folly::to<int64_t>, its exceptions caught
ToInt(text) == IF text # <<>> /\ Len(text) <= MaxDigits THEN text ELSE MaxInt

\* folly::to<double> throws for an empty text, and nobody catches it here.
Throws(type, text) == type = [kind |-> "double", optional |-> FALSE] /\ text = None

Text(option) == IF option = None THEN <<>> ELSE option[1]

\* Mutant: an empty value of an optional parameter counts as none.
HandlerArg_Empty(type, text) ==
  LET value == IF type.kind = "int" THEN ToInt(Text(text)) ELSE Text(text)
  IN  IF ~type.optional THEN value ELSE IF Text(text) = <<>> THEN None ELSE Some(value)

\* get_handler_args<T>
HandlerArg(type, text) ==
  LET value == IF type.kind = "int" THEN ToInt(Text(text)) ELSE Text(text)
  IN  IF ~type.optional THEN value ELSE IF text = None THEN None ELSE Some(value)

\* call_handler: every argument is converted before the function runs; what
\* one of them throws goes to the caller.
CallHandler ==
  /\ phase = "matched"
  /\ IF \E n \in DOMAIN function : Throws(function[n], Group(n - 1))
     THEN phase' = "thrown" /\ UNCHANGED arguments
     ELSE /\ phase' = "called"
          /\ arguments' = [n \in DOMAIN function |-> HandlerArg(function[n], Group(n - 1))]
  /\ UNCHANGED <<routeVars, path, matches, body, fields, query, param, answer>>

-----------------------------------------------------------------------------
(* What the user's function asks for *)

\* Bound: a function without parameters, in a pattern of at most one piece,
\* reads the form or the query.
Reads == phase = "called" /\ function = <<>> /\ Len(pattern) <= 1

\* PostParser(request)
ReadForm(b) ==
  /\ body' = b
  /\ IF BufferToString(b.chain).thrown /\ Header(b.contentType) = Some("urlencoded")
     THEN phase' = "body thrown" /\ UNCHANGED fields
     ELSE /\ phase' = "form read"
          /\ fields' = ParseRequest(b.contentType, BufferToString(b.chain).text)
  /\ UNCHANGED <<routeVars, path, matches, arguments, query, param, answer>>

\* getQueryParams()[param]
ReadQuery(q, k) ==
  /\ query' = q
  /\ param' = k
  /\ answer' \in QueryParam(q, k)
  /\ phase' = "query read"
  /\ UNCHANGED <<routeVars, path, matches, arguments, body, fields>>

Next ==
  \/ MakeRoute /\ UNCHANGED inputVars
  \/ MatchPath
  \/ CallHandler
  \/ Reads /\ \E b \in Bodies : ReadForm(b)
  \/ Reads /\ \E q \in Queries, k \in Params : ReadQuery(q, k)

Spec == Init /\ [][Next]_vars

-----------------------------------------------------------------------------
(* Properties *)

InputTypeOK ==
  /\ RouteTypeOK
  /\ phase \in {"none", "not matched", "matched", "thrown", "called", "form read",
                "body thrown", "query read"}
  /\ \A i \in DOMAIN matches :
       /\ matches[i].from \in 1..(Len(path) + 1)
       /\ matches[i].length \in Absent..Len(path)
  /\ DOMAIN arguments = IF phase \in {"none", "not matched", "matched", "thrown"} THEN {} ELSE DOMAIN function
  /\ body # NoBody <=> phase \in {"form read", "body thrown"}
  /\ \A k \in DOMAIN fields : fields[k] # <<>>
  /\ phase # "query read" => query = NoFields /\ param = <<>> /\ answer = None
  /\ Len(answer) <= 1

\* A number that an argument may stand for: itself, or for the largest int64_t
\* one that does not fit, or none in an optional group of the pattern's own.
MayBe(argument, piece, text) ==
  IF argument = MaxInt
  THEN (IsNumber(text) /\ Len(text) > MaxDigits) \/ (piece.wrapped /\ text = <<>>)
  ELSE text = argument

\* What a parameter takes of the path for an argument.
Spelled(piece, argument) ==
  LET option == IF piece.optional THEN argument ELSE Some(argument)
  IN  IF option = None THEN {<<>>}
      ELSE {t \o Consumed(piece) :
              t \in {n \in SeqOf(Digits, Len(path)) \cup {option[1]} :
                      MayBe(option[1], piece, n)}}

\* What the i-th piece of the pattern takes of the path.
TextsOf(i) ==
  IF IsParameter(pattern[i])
  THEN Spelled(pattern[i], arguments[ParametersBefore(pattern, i) + 1]) ELSE {<<Plain("/")>>}

\* The arguments put back into the pattern as it was written, each into the
\* parameter of its own number, spell the path: nothing of the path is taken by
\* no one, by two, or by the wrong one, and only a number too large for its
\* type, or one that is missing, is replaced by another. A call that does not
\* take place has a double missing (RouteParsing.h:69-141; Route-inl.h:30-45).
ArgumentsSpellPath ==
  LET text == UnescapedPath(path)
      spelled[i \in 0..Len(pattern)] ==  \* what of it the first i pieces may be
        IF i = 0 THEN {0}
        ELSE {q \in 0..Len(text) :
                \E p \in spelled[i - 1] : p <= q /\ SubSeq(text, p + 1, q) \in TextsOf(i)}
  IN  /\ phase = "called" => Len(text) \in spelled[Len(pattern)]
      /\ phase = "thrown" =>
           \E i \in DOMAIN pattern : /\ pattern[i].kind = "double" /\ pattern[i].wrapped
                                    /\ matches[i].length = Absent

\* A form that was sent is the form that is read, however the client has
\* spelled and divided it: its keys and no others, and for each key its values
\* in the order in which they were sent (PostParser.cpp:100-133).
FormIsRead ==
  phase = "form read" /\ body.form # None =>
    LET form == body.form[1]
        place(i) == Cardinality({j \in 1..i : form[j][1] = form[i][1]})
    IN  /\ DOMAIN fields = {form[i][1] : i \in DOMAIN form}
        /\ \A key \in DOMAIN fields :
             Len(fields[key]) = Cardinality({i \in DOMAIN form : form[i][1] = key})
        /\ \A i \in DOMAIN form :
             /\ GetStringList(fields, form[i][1])[1][place(i)] = form[i][2]
             /\ place(i) = 1 => GetString(fields, form[i][1]) = Some(form[i][2])

\* A body is read in the order of its chunks, or not at all, and the latter
\* only if an int cannot hold the length before its last chunk
\* (StringUtils.h:9-19).
BodyIsWhole ==
  LET text == BufferToString(body.chain)
  IN  IF text.thrown
      THEN Len(FlattenSeq(Front(body.chain))) >= IntLimit
      ELSE text.text = FlattenSeq(body.chain)

\* Whatever was sent, no character is lost or doubled but the "&"s and the
\* first "=" of each pair, and no pair: "better to give something rather than
\* nothing" (PostParser.cpp:99-127).
NothingLost ==
  phase = "form read" /\ Header(body.contentType) = Some("urlencoded") =>
    LET text == FlattenSeq(body.chain)
        starts == {i \in DOMAIN text : text[i] # Amp /\ (i = 1 \/ text[i - 1] = Amp)}
        signs == {i \in At(text, Eq) :
                    \A j \in 1..(i - 1) : text[j] = Eq => \E k \in j..i : text[k] = Amp}
        values == UNION {{key} \X DOMAIN fields[key] : key \in DOMAIN fields}
        chars == UNION {{v} \X (1..(Len(v[1]) + Len(fields[v[1]][v[2]]))) : v \in values}
    IN  /\ Cardinality(values) = Cardinality(starts)
        /\ Cardinality(chars) = Cardinality({i \in DOMAIN text : text[i] # Amp} \ signs)

\* A query parameter that is given was sent under a key that means param, in any
\* spelling, and one is given if there is one that can be read
\* (HTTPRequest.h:34-54).
QueryAnswerWasSent ==
  phase = "query read" =>
    LET meant == {k \in DOMAIN query : k = param \/
                    (Unescapable(k) /\ Unescape(k, "QUERY") = param)}
    IN  /\ answer # None => \E k \in meant : IsPrefix(answer[1], Unescape(query[k], "QUERY"))
        /\ answer = None => \A k \in meant : k # param /\ ~Unescapable(query[k])
=============================================================================
