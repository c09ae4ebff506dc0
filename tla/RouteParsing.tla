---------------------------- MODULE RouteParsing ----------------------------
(***************************************************************************)
(* RouteParsing (src/src/RouteParsing.h and RouteParsing.cpp) and the      *)
(* constructor of Route (Route-inl.h): a pattern such as                   *)
(* /user/{{i}}/{{s?:\w+:/}} becomes a regular expression with one named    *)
(* group for each parameter, and the parameters are compared with those of *)
(* the user's function. A pattern is a sequence of pieces: a literal       *)
(* character, or a parameter                                               *)
(*   [kind, optional, value, consumed, wrapped]                            *)
(* with the names of its regular expressions. wrapped says that the user   *)
(* has put the parameter into an optional group of the pattern's own,      *)
(* (?:...)?.                                                               *)
(***************************************************************************)
EXTENDS Integers, SequencesExt

CONSTANTS Patterns,   \* patterns tried
          Functions   \* parameter types of the functions tried

Literal == [kind |-> "literal", optional |-> FALSE, value |-> "slash",
            consumed |-> "", wrapped |-> FALSE]

\* Regular expressions by name, with their lengths in characters; "bad" cannot
\* be compiled.
Lengths == [int |-> 8, double |-> 18, word |-> 3, any |-> 2, bad |-> 1, slash |-> 1]
LengthOf(name) == IF name = "" THEN 0 ELSE Lengths[name]

Parameters ==
  [kind : {"int", "double"}, optional : {FALSE}, value : {""}, consumed : {""},
   wrapped : BOOLEAN]
  \cup [kind : {"int", "double"}, optional : {TRUE}, value : {""},
        consumed : {"", "slash", "bad"}, wrapped : {FALSE}]
  \cup [kind : {"string"}, optional : {FALSE}, value : {"word", "any", "bad"},
        consumed : {""}, wrapped : BOOLEAN]
  \cup [kind : {"string"}, optional : {TRUE}, value : {"word", "any", "bad"},
        consumed : {"", "slash", "bad"}, wrapped : {FALSE}]

Types == [kind : {"int", "double", "string"}, optional : BOOLEAN]

ASSUME RouteAssumption ==
  /\ Patterns \subseteq Seq(Parameters \cup {Literal})
  /\ Functions \subseteq Seq(Types)

VARIABLES pattern,       \* originalPattern_
          replacements,  \* the parameters found, each with what replaces it
          finalRoute,    \* the pattern, parameters replaced one after the other
          replaced,      \* how many were replaced
          it,            \* position in finalRoute where the next search starts
          function,      \* types of the function's parameters
          route          \* how far the constructor is, or how it ended

routeVars == <<pattern, replacements, finalRoute, replaced, it, function, route>>

\* A piece of finalRoute is still as written or was replaced by group __N.
NoGroup == -1
Written(piece) == [piece |-> piece, group |-> NoGroup]

IsParameter(piece) == piece.kind # "literal"

\* How many parameters a pattern has before its i-th piece.
ParametersBefore(p, i) == Cardinality({j \in 1..(i - 1) : IsParameter(p[j])})

\* The type of parameter that a match of the route parser stands for.
TypeOf(piece) == [kind |-> piece.kind, optional |-> piece.optional]

RouteTypeOK ==
  /\ pattern \in Patterns
  /\ replacements \in Seq([piece : Parameters, group : Nat])
  /\ finalRoute \in Seq([piece : Parameters \cup {Literal}, group : Nat \cup {NoGroup}])
  /\ replaced \in 0..Len(replacements)
  /\ it \in Nat
  /\ function \in Seq(Types)
  /\ route \in {"parsing", "replacing", "compiling", "checking", "built",
                "invalid regex", "library error", "mismatch"}

RouteInit ==
  /\ pattern \in Patterns
  /\ replacements = <<>>
  /\ finalRoute = [i \in DOMAIN pattern |-> Written(pattern[i])]
  /\ replaced = 0
  /\ it = 0
  /\ function = <<>>
  /\ route = "parsing"

-----------------------------------------------------------------------------
(* parse_route_pattern, first loop *)

\* route_to_regex compiles the value of a string before it is put in a group.
ValueIsRegex(piece) == piece.value # "bad"

\* route_to_regex: the piece and the number in the name of its group.
RouteToRegex(paramNum, piece) == [piece |-> piece, group |-> paramNum]

\* One match of the route parser in the pattern.
ParseMatch ==
  LET n == Len(replacements)
      found == {i \in DOMAIN pattern :
                    IsParameter(pattern[i]) /\ ParametersBefore(pattern, i) = n}
  IN  /\ route = "parsing"
      /\ \/ /\ found = {}
            /\ route' = "replacing"
            /\ UNCHANGED replacements
         \/ \E i \in found :
              IF ValueIsRegex(pattern[i])
              THEN /\ replacements' = Append(replacements, RouteToRegex(n, pattern[i]))
                   /\ UNCHANGED route
              ELSE route' = "invalid regex" /\ UNCHANGED replacements
      /\ UNCHANGED <<pattern, finalRoute, replaced, it, function>>

-----------------------------------------------------------------------------
(* parse_route_pattern, second loop, on positions in characters *)

\* {{i}}, {{i?:c}}, {{s:v}}, {{s?:v:c}}
WrittenLength(piece) ==
  IF ~IsParameter(piece) THEN LengthOf(piece.value)
  ELSE 5 + (IF piece.optional THEN 1 ELSE 0)
         + (IF piece.kind = "string" THEN 1 + LengthOf(piece.value) ELSE 0)
         + (IF piece.consumed # "" THEN 1 + LengthOf(piece.consumed) ELSE 0)

\* The digits of a number.
NumberLength(n) == 1 + Cardinality({d \in 1..n : 10 ^ d <= n})

\* Mutant: without their names the groups can be shorter than what was written.
GroupLength_Unnamed(piece, n) ==
  2 + LengthOf(IF piece.kind = "string" THEN piece.value ELSE piece.kind)

\* (?<__N>v), or (?:(?<__N>v)c)?
GroupLength(piece, n) ==
  7 + NumberLength(n) + LengthOf(IF piece.kind = "string" THEN piece.value ELSE piece.kind)
    + (IF piece.optional THEN 5 + LengthOf(piece.consumed) ELSE 0)

ItemLength(item) ==
  (IF item.group = NoGroup THEN WrittenLength(item.piece) ELSE GroupLength(item.piece, item.group))
  + (IF item.piece.wrapped THEN 5 ELSE 0)

\* The length of the first i items.
LengthUpTo(items, i) ==
  LET sum[k \in 0..Len(items)] == IF k = 0 THEN 0 ELSE sum[k - 1] + ItemLength(items[k])
  IN  sum[i]

\* Where the text of an item begins, past the (?: of a wrapped one.
Position(i) ==
  LengthUpTo(finalRoute, i - 1) + (IF finalRoute[i].piece.wrapped THEN 3 ELSE 0)

\* finalRoute.find(first, it), for a text that may or may not stand in (?:...)?
Found(first) ==
  {i \in DOMAIN finalRoute :
     /\ finalRoute[i] \in {Written([first EXCEPT !.wrapped = w]) : w \in BOOLEAN}
     /\ Position(i) >= it}

\* The position advances by the length of what was written.
Replace ==
  LET next == replacements[replaced + 1]
      found == Found(next.piece)
  IN  /\ route = "replacing"
      /\ replaced < Len(replacements)
      /\ IF found = {}
         THEN route' = "library error" /\ UNCHANGED <<finalRoute, replaced, it>>
         ELSE /\ finalRoute' = [finalRoute EXCEPT ![Min(found)].group = next.group]
              /\ it' = Position(Min(found)) + WrittenLength(next.piece)
              /\ replaced' = replaced + 1
              /\ UNCHANGED route
      /\ UNCHANGED <<pattern, replacements, function>>

AllReplaced ==
  /\ route = "replacing"
  /\ replaced = Len(replacements)
  /\ route' = "compiling"
  /\ UNCHANGED <<pattern, replacements, finalRoute, replaced, it, function>>

\* What is consumed after an optional value is compiled here for the first time.
Compile ==
  /\ route = "compiling"
  /\ route' = IF \E i \in DOMAIN finalRoute : finalRoute[i].piece.consumed = "bad"
              THEN "invalid regex" ELSE "checking"
  /\ UNCHANGED <<pattern, replacements, finalRoute, replaced, it, function>>

-----------------------------------------------------------------------------
(* The constructor of Route *)

\* Mutant: parameters are compared as far as the pattern goes.
SameParameters_Prefix(patternParams, functionParams) == IsPrefix(patternParams, functionParams)

\* The numbers of parameters first, then their types one after the other.
SameParameters(patternParams, functionParams) ==
  /\ Len(patternParams) = Len(functionParams)
  /\ \A i \in DOMAIN patternParams : patternParams[i] = functionParams[i]

\* functionParams come from the type of the function that make_route was given.
CheckParameters ==
  /\ route = "checking"
  /\ \E f \in Functions :
       /\ function' = f
       /\ route' = IF SameParameters([i \in DOMAIN replacements |->
                                        TypeOf(replacements[i].piece)], f)
                   THEN "built" ELSE "mismatch"
  /\ UNCHANGED <<pattern, replacements, finalRoute, replaced, it>>

MakeRoute == ParseMatch \/ Replace \/ AllReplaced \/ Compile \/ CheckParameters

-----------------------------------------------------------------------------
(* Properties *)

\* Although the position advances by the length of what was replaced, no
\* parameter is passed over or replaced out of place: in the pattern that is
\* compiled the N-th parameter is group __N, and the error that the code calls
\* a library error is not reached (RouteParsing.cpp:186-198).
GroupsInPlace ==
  /\ route # "library error"
  /\ route \in {"checking", "built"} =>
       finalRoute =
         [i \in DOMAIN pattern |->
            [piece |-> pattern[i],
             group |-> IF IsParameter(pattern[i])
                       THEN ParametersBefore(pattern, i) ELSE NoGroup]]

\* A route exists exactly if the function takes the parameters that the
\* pattern has, in order, and all its regular expressions are valid; parts are
\* looked at in three places (RouteParsing.cpp:115, 199; Route-inl.h:139-163).
RouteIsChecked ==
  LET valid == \A i \in DOMAIN pattern : "bad" \notin {pattern[i].value, pattern[i].consumed}
      params == {i \in DOMAIN pattern : IsParameter(pattern[i])}
      fits == /\ Len(function) = Cardinality(params)
              /\ \A i \in params :
                   function[ParametersBefore(pattern, i) + 1] = TypeOf(pattern[i])
  IN  /\ route = "built" => valid /\ fits
      /\ route = "mismatch" => valid /\ ~fits
      /\ route = "invalid regex" => ~valid
=============================================================================
