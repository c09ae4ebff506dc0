------------------------- MODULE RequestInputProofs -------------------------
(***************************************************************************)
(* Theorems about RouteParsing and RequestInput, for every set of          *)
(* patterns, functions, paths, queries and bodies.                         *)
(***************************************************************************)
EXTENDS RequestInput, SequenceTheorems, Induction

-----------------------------------------------------------------------------
(* Counting parameters *)

PieceSet == Parameters \cup {Literal}

\* One more piece is counted if it is a parameter.
LEMMA OneMoreParameter ==
  ASSUME NEW p, NEW i \in Nat \ {0}
  PROVE  /\ ParametersBefore(p, 1) = 0
         /\ ParametersBefore(p, i) \in Nat
         /\ ParametersBefore(p, i + 1) = ParametersBefore(p, i) + IF IsParameter(p[i]) THEN 1 ELSE 0
<1> DEFINE P(n) == {j \in 1..(n - 1) : IsParameter(p[j])}
<1>1. P(1) = {} /\ i \notin P(i)
  OBVIOUS
<1>2. P(i + 1) = IF IsParameter(p[i]) THEN P(i) \cup {i} ELSE P(i)
  OBVIOUS
<1>3. IsFiniteSet(P(i))
  <2>1. IsFiniteSet(1..(i - 1)) /\ P(i) \subseteq 1..(i - 1)
    BY FS_Interval
  <2> HIDE DEF P
  <2> QED
    BY <2>1, FS_Subset
<1>4. /\ ParametersBefore(p, 1) = Cardinality(P(1))
      /\ ParametersBefore(p, i) = Cardinality(P(i))
      /\ ParametersBefore(p, i + 1) = Cardinality(P(i + 1))
  BY DEF ParametersBefore
<1> HIDE DEF P
<1>5. Cardinality(P(i)) \in Nat
  BY <1>3, FS_CardinalityType
<1>6. Cardinality(P(i) \cup {i}) = Cardinality(P(i)) + 1
  BY <1>1, <1>3, FS_AddElement
<1> QED
  BY <1>1, <1>2, <1>4, <1>5, <1>6, FS_EmptySet

\* A later piece has as many parameters before it, or more; a piece after a
\* parameter has more.
LEMMA ParametersInOrder ==
  ASSUME NEW p, NEW i \in Nat \ {0}, NEW j \in Nat, i <= j
  PROVE  /\ ParametersBefore(p, i) <= ParametersBefore(p, j)
         /\ IsParameter(p[i]) /\ i < j => ParametersBefore(p, i) < ParametersBefore(p, j)
<1> DEFINE T(m) == {d \in Nat : ParametersBefore(p, m) <= ParametersBefore(p, m + d)}
<1>1. ASSUME NEW m \in Nat \ {0}, NEW d \in Nat
      PROVE  ParametersBefore(p, m) <= ParametersBefore(p, m + d)
  <2>1. 0 \in T(m)
    BY OneMoreParameter
  <2>2. ASSUME NEW k \in Nat, k \in T(m) PROVE k + 1 \in T(m)
    <3>1. /\ m + k \in Nat \ {0} /\ m + (k + 1) = (m + k) + 1
          /\ ParametersBefore(p, m) \in Nat /\ ParametersBefore(p, m + k) \in Nat
      BY OneMoreParameter
    <3>2. ParametersBefore(p, m + k) <= ParametersBefore(p, (m + k) + 1)
      BY <3>1, OneMoreParameter
    <3>3. ParametersBefore(p, (m + k) + 1) \in Nat
      BY <3>1, OneMoreParameter
    <3> QED
      BY <2>2, <3>1, <3>2, <3>3
  <2>3. Nat \subseteq T(m)
    <3> HIDE DEF T
    <3> QED
      BY <2>1, <2>2, AllNat
  <2> QED
    BY <2>3
<1>2. ParametersBefore(p, i) <= ParametersBefore(p, j)
  <2>1. j - i \in Nat /\ i + (j - i) = j
    OBVIOUS
  <2> QED
    BY <1>1, <2>1
<1>3. ASSUME IsParameter(p[i]), i < j PROVE ParametersBefore(p, i) < ParametersBefore(p, j)
  <2>1. i + 1 \in Nat \ {0} /\ j - (i + 1) \in Nat /\ (i + 1) + (j - (i + 1)) = j /\ j \in Nat \ {0}
    BY <1>3
  <2>2. ParametersBefore(p, i + 1) <= ParametersBefore(p, j)
    BY <1>1, <2>1
  <2>3. ParametersBefore(p, i + 1) = ParametersBefore(p, i) + 1 /\ ParametersBefore(p, i) \in Nat
    BY <1>3, OneMoreParameter
  <2>4. ParametersBefore(p, j) \in Nat
    BY <2>1, OneMoreParameter
  <2> QED
    BY <2>2, <2>3, <2>4
<1> QED
  BY <1>2, <1>3

\* If there are more than n parameters, one of them has n before it.
LEMMA NthParameter ==
  ASSUME NEW p, NEW m \in Nat, NEW n \in Nat, n < ParametersBefore(p, m + 1)
  PROVE  \E i \in 1..m : IsParameter(p[i]) /\ ParametersBefore(p, i) = n
<1> DEFINE T == {k \in Nat : n < ParametersBefore(p, k + 1)}
<1>1. PICK k \in T : \A l \in T : k <= l
  <2>1. T \in SUBSET Nat /\ T # {}
    OBVIOUS
  <2> HIDE DEF T
  <2> QED
    BY <2>1, LeastNat
<1>2. k \in 1..m
  <2>1. m \in T /\ 0 \notin T
    BY OneMoreParameter
  <2> QED
    BY <1>1, <2>1
<1>3. ~(n < ParametersBefore(p, k))
  <2>1. k - 1 \in Nat /\ (k - 1) + 1 = k /\ k - 1 < k
    BY <1>2
  <2> QED
    BY <1>1, <2>1
<1>4. /\ ParametersBefore(p, k + 1) = ParametersBefore(p, k) + IF IsParameter(p[k]) THEN 1 ELSE 0
      /\ ParametersBefore(p, k) \in Nat
  BY <1>2, OneMoreParameter
<1>5. n < ParametersBefore(p, k + 1)
  BY <1>1
<1> QED
  BY <1>2, <1>3, <1>4, <1>5

-----------------------------------------------------------------------------
(* Lengths of pieces *)

LEMMA LengthsOfNames ==
  ASSUME NEW name \in {"int", "double", "word", "any", "bad", "slash", ""}
  PROVE  LengthOf(name) \in Nat
<1>1. /\ Lengths["int"] \in Nat /\ Lengths["double"] \in Nat /\ Lengths["word"] \in Nat
      /\ Lengths["any"] \in Nat /\ Lengths["bad"] \in Nat /\ Lengths["slash"] \in Nat
  BY DEF Lengths
<1>2. name # "" => Lengths[name] \in Nat
  BY <1>1
<1>3. (IF name = "" THEN 0 ELSE Lengths[name]) \in Nat
  BY <1>2
<1> QED
  BY <1>3 DEF LengthOf

LEMMA NumberHasDigits ==
  ASSUME NEW n \in Nat
  PROVE  NumberLength(n) \in Nat \ {0}
<1> DEFINE P == {d \in 1..n : 10 ^ d <= n}
<1>1. IsFiniteSet(1..n) /\ P \subseteq 1..n
  BY FS_Interval
<1>2. NumberLength(n) = 1 + Cardinality(P)
  BY DEF NumberLength
<1> HIDE DEF P
<1>3. IsFiniteSet(P)
  BY <1>1, FS_Subset
<1>4. Cardinality(P) \in Nat
  BY <1>3, FS_CardinalityType
<1> QED
  BY <1>2, <1>4

\* What replaces a parameter is no shorter than what was written.
LEMMA GroupIsLonger ==
  /\ \A piece \in PieceSet : WrittenLength(piece) \in Nat
  /\ \A piece \in Parameters, n \in Nat :
       GroupLength(piece, n) \in Nat /\ WrittenLength(piece) <= GroupLength(piece, n)
<1>1. ASSUME NEW piece \in Parameters
      PROVE  /\ LengthOf(piece.value) \in Nat /\ LengthOf(piece.consumed) \in Nat
             /\ LengthOf(IF piece.kind = "string" THEN piece.value ELSE piece.kind) \in Nat
             /\ piece.kind = "string" =>
                  LengthOf(IF piece.kind = "string" THEN piece.value ELSE piece.kind) = LengthOf(piece.value)
             /\ piece.optional \in BOOLEAN
             /\ ~piece.optional => piece.consumed = ""
             /\ IsParameter(piece)
  <2>1. /\ piece.value \in {"int", "double", "word", "any", "bad", "slash", ""}
        /\ piece.consumed \in {"int", "double", "word", "any", "bad", "slash", ""}
        /\ piece.kind # "string" => piece.kind \in {"int", "double", "word", "any", "bad", "slash", ""}
        /\ piece.optional \in BOOLEAN
        /\ ~piece.optional => piece.consumed = ""
        /\ piece.kind # "literal"
    BY DEF Parameters
  <2> QED
    BY <2>1, LengthsOfNames DEF IsParameter
<1>2. WrittenLength(Literal) \in Nat
  BY LengthsOfNames DEF WrittenLength, Literal, IsParameter
<1>3. ASSUME NEW piece \in Parameters, NEW n \in Nat
      PROVE  /\ WrittenLength(piece) \in Nat
             /\ GroupLength(piece, n) \in Nat /\ WrittenLength(piece) <= GroupLength(piece, n)
  <2> DEFINE a == LengthOf(piece.value)
             b == LengthOf(IF piece.kind = "string" THEN piece.value ELSE piece.kind)
             c == LengthOf(piece.consumed)
             d == NumberLength(n)
             one == IF piece.optional THEN 1 ELSE 0
             value == IF piece.kind = "string" THEN 1 + a ELSE 0
             empty == ""
             after == IF piece.consumed # empty THEN 1 + c ELSE 0
             tail == IF piece.optional THEN 5 + c ELSE 0
  <2>1. WrittenLength(piece) = 5 + one + value + after
    BY <1>1 DEF WrittenLength
  <2>2. GroupLength(piece, n) = 7 + d + b + tail
    BY DEF GroupLength
  <2>3. /\ a \in Nat /\ b \in Nat /\ c \in Nat /\ d \in Nat \ {0}
        /\ piece.kind = "string" => b = a
    BY <1>1, NumberHasDigits
  <2> HIDE DEF a, b, c, d, empty
  <2>4. one \in Nat /\ value \in Nat /\ tail \in Nat
    BY <2>3
  <2>5. after \in Nat /\ (after = 0 \/ after = 1 + c)
    BY <2>3
  <2>6. value <= 1 + b
    BY <2>3
  <2>7. one + after <= 2 + tail
    <3>1. CASE piece.optional
      BY <2>3, <2>5, <3>1
    <3>2. CASE ~piece.optional
      <4>1. piece.consumed = ""
        BY <1>1, <3>2
      <4>2. after = 0
        BY <4>1 DEF empty
      <4> QED
        BY <2>3, <3>2, <4>2
    <3> QED
      BY <3>1, <3>2
  <2> HIDE DEF a, b, c, d, one, value, after, tail
  <2>8. WrittenLength(piece) \in Nat /\ GroupLength(piece, n) \in Nat
    BY <2>1, <2>2, <2>3, <2>4, <2>5
  <2> QED
    BY <2>1, <2>2, <2>3, <2>4, <2>5, <2>6, <2>7, <2>8
<1>4. \A piece \in Parameters : WrittenLength(piece) \in Nat
  BY <1>3, 0 \in Nat
<1> QED
  BY <1>2, <1>3, <1>4 DEF PieceSet

Item == {item \in [piece : PieceSet, group : Nat \cup {NoGroup}] :
           item.group = NoGroup \/ item.piece \in Parameters}

LEMMA ItemHasLength ==
  ASSUME NEW item \in Item
  PROVE  ItemLength(item) \in Nat
<1>1. /\ item.piece \in PieceSet /\ item.group \in Nat \cup {NoGroup}
      /\ item.group = NoGroup \/ item.piece \in Parameters
  BY DEF Item
<1> DEFINE w == IF item.piece.wrapped THEN 5 ELSE 0
           l == IF item.group = NoGroup THEN WrittenLength(item.piece)
                ELSE GroupLength(item.piece, item.group)
<1>2. w \in Nat /\ l \in Nat
  BY <1>1, GroupIsLonger
<1>3. ItemLength(item) = l + w
  BY DEF ItemLength
<1> HIDE DEF w, l
<1> QED
  BY <1>2, <1>3

\* The length of some items is that of those before the last one, and its own.
LEMMA LengthOfItems ==
  ASSUME NEW items \in Seq(Item)
  PROVE  /\ \A k \in 0..Len(items) : LengthUpTo(items, k) \in Nat
         /\ LengthUpTo(items, 0) = 0
         /\ \A k \in 1..Len(items) :
              LengthUpTo(items, k) = LengthUpTo(items, k - 1) + ItemLength(items[k])
<1> DEFINE n == Len(items)
           step == [k \in 1..n |-> [v \in Nat |-> v + ItemLength(items[k])]]
           IsSum(f) == f = [k \in 0..n |-> IF k = 0 THEN 0 ELSE f[k - 1] + ItemLength(items[k])]
           sum == CHOOSE f : IsSum(f)
<1>1. n \in Nat /\ \A k \in 1..n : ItemLength(items[k]) \in Nat
  BY ItemHasLength
<1>2. \E f : IsSum(f)
  <2>1. step \in Steps(n, Nat) /\ 0 \in Nat
    BY <1>1 DEF Steps
  <2>2. \A k \in 1..n, v \in Nat : step[k][v] = v + ItemLength(items[k])
    OBVIOUS
  <2> HIDE DEF step, n
  <2>3. PICK f : IsRun(f, n, Nat, 0, step)
    BY <1>1, <2>1, Recursion
  <2>4. f \in [0..n -> Nat] /\ f[0] = 0 /\ \A k \in 1..n : f[k] = step[k][f[k - 1]]
    BY <2>3 DEF IsRun
  <2>5. ASSUME NEW k \in 0..n
        PROVE  f[k] = IF k = 0 THEN 0 ELSE f[k - 1] + ItemLength(items[k])
    <3>1. CASE k = 0
      BY <2>4, <3>1
    <3>2. CASE k # 0
      <4>1. k \in 1..n /\ k - 1 \in 0..n
        BY <1>1, <3>2
      <4>2. f[k - 1] \in Nat
        BY <2>4, <4>1
      <4> QED
        BY <2>2, <2>4, <3>2, <4>1, <4>2
    <3> QED
      BY <3>1, <3>2
  <2>6. IsSum(f)
    BY <2>4, <2>5
  <2> QED
    BY <2>6
<1>3. IsSum(sum)
  <2> HIDE DEF IsSum
  <2> QED
    BY <1>2
<1>4. \A k : LengthUpTo(items, k) = sum[k]
  BY DEF LengthUpTo
<1> HIDE DEF sum
<1>5. sum[0] = 0 /\ \A k \in 1..n : sum[k] = sum[k - 1] + ItemLength(items[k])
  <2>1. \A k \in 1..n : k \in 0..n /\ k # 0
    BY <1>1
  <2> QED
    BY <1>1, <1>3, <2>1
<1> HIDE DEF IsSum, step
<1>6. 0..n \subseteq {k \in 0..n : sum[k] \in Nat}
  <2> DEFINE T == {k \in 0..n : sum[k] \in Nat}
  <2>1. 0 \in T
    BY <1>1, <1>5
  <2>2. ASSUME NEW k \in 0..(n - 1), k \in T PROVE k + 1 \in T
    <3>1. k + 1 \in 1..n /\ k + 1 \in 0..n /\ (k + 1) - 1 = k /\ sum[k] \in Nat
      BY <1>1, <2>2
    <3>2. sum[k + 1] = sum[k] + ItemLength(items[k + 1])
      BY <1>5, <3>1
    <3> QED
      BY <1>1, <3>1, <3>2
  <2> HIDE DEF T
  <2>3. 0..n \subseteq T
    BY <1>1, <2>1, <2>2, UpTo
  <2> QED
    BY <2>3 DEF T
<1> QED
  BY <1>4, <1>5, <1>6

\* More items are no shorter.
LEMMA LengthGrows ==
  ASSUME NEW items \in Seq(Item), NEW i \in 0..Len(items), NEW j \in 0..Len(items), i <= j
  PROVE  LengthUpTo(items, i) <= LengthUpTo(items, j)
<1> DEFINE n == Len(items) - i
           T == {d \in 0..n : LengthUpTo(items, i) <= LengthUpTo(items, i + d)}
<1>1. n \in Nat /\ Len(items) \in Nat /\ \A k \in 0..n : i + k \in 0..Len(items)
  OBVIOUS
<1>2. 0 \in T
  <2>1. i + 0 = i /\ LengthUpTo(items, i) \in Nat /\ 0 \in 0..n
    BY <1>1, LengthOfItems
  <2> QED
    BY <2>1
<1>3. ASSUME NEW k \in 0..(n - 1), k \in T PROVE k + 1 \in T
  <2>1. k + 1 \in 0..n /\ i + (k + 1) \in 1..Len(items) /\ (i + (k + 1)) - 1 = i + k
    BY <1>1
  <2>2. LengthUpTo(items, i + (k + 1)) = LengthUpTo(items, i + k) + ItemLength(items[i + (k + 1)])
    BY <2>1, LengthOfItems
  <2>3. ItemLength(items[i + (k + 1)]) \in Nat
    BY <2>1, ItemHasLength
  <2>4. LengthUpTo(items, i + k) \in Nat /\ LengthUpTo(items, i) \in Nat
    BY <1>1, LengthOfItems
  <2>5. LengthUpTo(items, i) <= LengthUpTo(items, i + k)
    BY <1>3
  <2> HIDE DEF n
  <2> QED
    BY <2>1, <2>2, <2>3, <2>4, <2>5
<1>4. j - i \in 0..n /\ i + (j - i) = j
  OBVIOUS
<1> HIDE DEF T, n
<1>5. j - i \in T
  BY <1>1, <1>2, <1>3, <1>4, UpTo
<1> QED
  BY <1>4, <1>5 DEF T

\* Items that are the same up to a place have the same length up to there.
LEMMA SameLength ==
  ASSUME NEW items \in Seq(Item), NEW others \in Seq(Item), Len(items) = Len(others),
         NEW i \in 0..Len(items), \A k \in 1..i : items[k] = others[k]
  PROVE  LengthUpTo(items, i) = LengthUpTo(others, i)
<1> DEFINE T == {k \in 0..i : LengthUpTo(items, k) = LengthUpTo(others, k)}
<1>1. 0 \in T
  BY LengthOfItems
<1>2. ASSUME NEW k \in 0..(i - 1), k \in T PROVE k + 1 \in T
  <2>1. k + 1 \in 0..i /\ k + 1 \in 1..i /\ k + 1 \in 1..Len(items) /\ (k + 1) - 1 = k
    OBVIOUS
  <2>2. LengthUpTo(items, k + 1) = LengthUpTo(items, k) + ItemLength(items[k + 1])
    BY <2>1, LengthOfItems
  <2>3. LengthUpTo(others, k + 1) = LengthUpTo(others, k) + ItemLength(others[k + 1])
    BY <2>1, LengthOfItems
  <2> QED
    BY <1>2, <2>1, <2>2, <2>3
<1>3. i \in Nat /\ i \in 0..i
  OBVIOUS
<1> HIDE DEF T
<1>4. i \in T
  BY <1>1, <1>2, <1>3, UpTo
<1> QED
  BY <1>4 DEF T

-----------------------------------------------------------------------------
(* Replacing parameters *)

\* A pattern whose first r parameters have become groups.
ItemsOf(p, r) ==
  [i \in 1..Len(p) |->
     [piece |-> p[i],
      group |-> IF IsParameter(p[i]) /\ ParametersBefore(p, i) < r
                THEN ParametersBefore(p, i) ELSE NoGroup]]

Start(items, i) == LengthUpTo(items, i - 1) + (IF items[i].piece.wrapped THEN 3 ELSE 0)

LEMMA ItemsHaveType ==
  ASSUME NEW p \in Seq(PieceSet), NEW r \in Nat
  PROVE  /\ ItemsOf(p, r) \in Seq(Item)
         /\ Len(ItemsOf(p, r)) = Len(p)
         /\ \A i \in 1..Len(p) : p[i] \in PieceSet /\ (IsParameter(p[i]) <=> p[i] \in Parameters)
<1>1. ASSUME NEW i \in 1..Len(p)
      PROVE  p[i] \in PieceSet /\ (IsParameter(p[i]) <=> p[i] \in Parameters)
  <2>1. p[i] \in Parameters \/ p[i] = Literal
    BY DEF PieceSet
  <2>2. \A piece \in Parameters : piece.kind # "literal"
    BY DEF Parameters
  <2>3. Literal.kind = "literal"
    BY DEF Literal
  <2> QED
    BY <2>1, <2>2, <2>3 DEF PieceSet, IsParameter
<1>2. ASSUME NEW i \in 1..Len(p) PROVE ItemsOf(p, r)[i] \in Item
  <2>1. ParametersBefore(p, i) \in Nat
    BY OneMoreParameter
  <2> QED
    BY <1>1, <2>1 DEF ItemsOf, Item
<1>3. ItemsOf(p, r) = [i \in 1..Len(p) |-> ItemsOf(p, r)[i]]
  BY DEF ItemsOf
<1>4. Len(p) \in Nat
  OBVIOUS
<1>5. ItemsOf(p, r) \in Seq(Item)
  BY <1>2, <1>3, <1>4
<1>6. DOMAIN ItemsOf(p, r) = 1..Len(p)
  BY <1>3
<1> QED
  BY <1>1, <1>4, <1>5, <1>6, LenProperties

LEMMA ItemsInType ==
  ASSUME NEW items \in Seq(Item)
  PROVE  items \in Seq([piece : Parameters \cup {Literal}, group : Nat \cup {NoGroup}])
<1> DEFINE T == [piece : Parameters \cup {Literal}, group : Nat \cup {NoGroup}]
<1>1. Item \subseteq T
  BY DEF Item, PieceSet
<1> HIDE DEF T
<1>2. \A i \in 1..Len(items) : items[i] \in T
  BY <1>1
<1>3. items = [i \in 1..Len(items) |-> items[i]] /\ Len(items) \in Nat
  OBVIOUS
<1>4. items \in Seq(T)
  BY <1>2, <1>3
<1> QED
  BY <1>4 DEF T

LEMMA StartIsNat ==
  ASSUME NEW items \in Seq(Item), NEW i \in 1..Len(items)
  PROVE  Start(items, i) \in Nat /\ LengthUpTo(items, i - 1) <= Start(items, i)
<1>1. i - 1 \in 0..Len(items)
  OBVIOUS
<1>2. LengthUpTo(items, i - 1) \in Nat
  BY <1>1, LengthOfItems
<1> QED
  BY <1>2 DEF Start

\* The next parameter becomes a group, and every other one that is left begins
\* after what the position has advanced by.
LEMMA ReplaceOne ==
  ASSUME NEW p \in Seq(PieceSet), NEW r \in Nat, NEW i \in 1..Len(p),
         IsParameter(p[i]), ParametersBefore(p, i) = r
  PROVE  /\ ItemsOf(p, r + 1) = [ItemsOf(p, r) EXCEPT ![i].group = r]
         /\ \A j \in 1..Len(p) :
              IsParameter(p[j]) /\ ParametersBefore(p, j) >= r + 1 =>
                Start(ItemsOf(p, r), i) + WrittenLength(p[i]) <= Start(ItemsOf(p, r + 1), j)
<1> DEFINE old == ItemsOf(p, r)
           new == ItemsOf(p, r + 1)
           n == Len(p)
<1>1. /\ n \in Nat /\ r + 1 \in Nat
      /\ \A j \in 1..n : ParametersBefore(p, j) \in Nat
  <2>1. \A j \in Nat \ {0} : ParametersBefore(p, j) \in Nat
    BY OneMoreParameter
  <2> QED
    BY <2>1
<1>2. ASSUME NEW j \in 1..n, IsParameter(p[j]), j # i PROVE ParametersBefore(p, j) # r
  <2>1. j < i \/ i < j
    BY <1>2
  <2>2. j < i => ParametersBefore(p, j) < ParametersBefore(p, i)
    BY <1>2, ParametersInOrder
  <2>3. i < j => ParametersBefore(p, i) < ParametersBefore(p, j)
    BY ParametersInOrder
  <2> QED
    BY <1>1, <2>1, <2>2, <2>3
<1>3. new = [old EXCEPT ![i].group = r]
  <2>1. ASSUME NEW j \in 1..n PROVE new[j] = [old EXCEPT ![i].group = r][j]
    <3>1. CASE j = i
      BY <1>1, <3>1 DEF ItemsOf
    <3>2. CASE j # i
      BY <1>1, <1>2, <3>2 DEF ItemsOf
    <3> QED
      BY <3>1, <3>2
  <2>2. new = [j \in 1..n |-> new[j]] /\ old = [j \in 1..n |-> old[j]]
    BY DEF ItemsOf
  <2>3. [old EXCEPT ![i].group = r] = [j \in 1..n |-> [old EXCEPT ![i].group = r][j]]
    BY <2>2
  <2> QED
    BY <2>1, <2>2, <2>3
<1>4. ASSUME NEW j \in 1..n, IsParameter(p[j]), ParametersBefore(p, j) >= r + 1
      PROVE  Start(old, i) + WrittenLength(p[i]) <= Start(new, j)
  <2>1. i < j
    <3>1. j <= i => ParametersBefore(p, j) <= ParametersBefore(p, i)
      BY ParametersInOrder
    <3> QED
      BY <1>1, <1>4, <3>1
  <2>2. /\ old \in Seq(Item) /\ new \in Seq(Item) /\ Len(old) = n /\ Len(new) = n
        /\ p[i] \in Parameters
    BY <1>1, ItemsHaveType
  <2>3. \A k \in 1..(i - 1) : old[k] = new[k]
    <3>1. ASSUME NEW k \in 1..(i - 1), IsParameter(p[k]) PROVE ParametersBefore(p, k) < r
      BY <3>1, ParametersInOrder
    <3>2. \A k \in 1..(i - 1) : k \in 1..n
      BY <1>1
    <3> QED
      BY <1>1, <3>1, <3>2 DEF ItemsOf
  <2>4. i - 1 \in 0..n /\ i \in 0..n /\ j - 1 \in 0..n /\ i <= j - 1
    BY <1>1, <2>1
  <2> DEFINE w == WrittenLength(p[i])
             g == GroupLength(p[i], r)
  <2>5. w \in Nat /\ g \in Nat /\ w <= g
    BY <2>2, GroupIsLonger DEF PieceSet
  <2>6. ItemLength(new[i]) = g + (IF p[i].wrapped THEN 5 ELSE 0)
    <3>1. new[i] = [piece |-> p[i], group |-> r]
      BY <1>1 DEF ItemsOf
    <3> QED
      BY <3>1 DEF ItemLength, NoGroup
  <2>7. old[i].piece = p[i]
    BY DEF ItemsOf
  <2> HIDE DEF old, new, n, w, g
  <2>8. LengthUpTo(new, i - 1) = LengthUpTo(old, i - 1)
    BY <2>2, <2>3, <2>4, SameLength
  <2>9. LengthUpTo(new, i) = LengthUpTo(new, i - 1) + ItemLength(new[i])
    BY <2>2, LengthOfItems, i \in 1..n DEF n
  <2>10. LengthUpTo(new, i) <= LengthUpTo(new, j - 1)
    BY <2>2, <2>4, LengthGrows
  <2>11. /\ LengthUpTo(new, j - 1) \in Nat /\ LengthUpTo(old, i - 1) \in Nat
         /\ LengthUpTo(new, i) \in Nat
    BY <2>2, <2>4, LengthOfItems
  <2>12. LengthUpTo(new, j - 1) <= Start(new, j) /\ Start(new, j) \in Nat
    BY <2>2, StartIsNat
  <2> DEFINE x == IF p[i].wrapped THEN 3 ELSE 0
             y == IF p[i].wrapped THEN 5 ELSE 0
  <2>13. x \in Nat /\ y \in Nat /\ x <= y
    OBVIOUS
  <2>14. Start(old, i) = LengthUpTo(old, i - 1) + x
    BY <2>7 DEF Start
  <2> HIDE DEF x
  <2>15. ItemLength(new[i]) = g + y
    BY <2>6
  <2> HIDE DEF y
  <2> DEFINE before == LengthUpTo(old, i - 1)
  <2>16. before \in Nat /\ LengthUpTo(new, i) = before + (g + y) /\ Start(old, i) = before + x
    BY <2>8, <2>9, <2>11, <2>14, <2>15
  <2> HIDE DEF before
  <2>17. Start(old, i) + w <= LengthUpTo(new, i) /\ Start(old, i) + w \in Nat
    <3>1. (before + x) + w <= before + (g + y) /\ (before + x) + w \in Nat
      BY <2>5, <2>13, <2>16
    <3> QED
      BY <2>16, <3>1
  <2> QED
    BY <2>10, <2>11, <2>12, <2>17 DEF w
<1> QED
  BY <1>3, <1>4

-----------------------------------------------------------------------------
(* The invariant of the constructor of Route *)

\* The k-th replacement is that of the k-th parameter, a valid one.
ReplacementsInv ==
  \A k \in 1..Len(replacements) : \E i \in 1..Len(pattern) :
    /\ IsParameter(pattern[i]) /\ ParametersBefore(pattern, i) = k - 1
    /\ replacements[k] = [piece |-> pattern[i], group |-> k - 1]
    /\ pattern[i].value # "bad"

\* The first loop ends when no parameter is left.
AllFoundInv ==
  route \notin {"parsing", "invalid regex"} =>
    \A i \in 1..Len(pattern) :
      IsParameter(pattern[i]) => ParametersBefore(pattern, i) < Len(replacements)

\* The parameters are replaced in order; the next one has not been passed.
PlaceInv ==
  /\ finalRoute = ItemsOf(pattern, replaced)
  /\ \A i \in 1..Len(pattern) :
       IsParameter(pattern[i]) /\ ParametersBefore(pattern, i) >= replaced => it <= Position(i)
  /\ route \in {"compiling", "checking", "built", "mismatch"} => replaced = Len(replacements)
  /\ route # "library error"

\* What is known of the regular expressions and of the types when the
\* constructor has come that far.
CheckedInv ==
  /\ route \in {"checking", "built", "mismatch"} =>
       \A i \in 1..Len(pattern) : pattern[i].consumed # "bad"
  /\ route = "invalid regex" =>
       \E i \in 1..Len(pattern) : "bad" \in {pattern[i].value, pattern[i].consumed}
  /\ LET types == [k \in DOMAIN replacements |-> TypeOf(replacements[k].piece)]
     IN  /\ route = "built" => SameParameters(types, function)
         /\ route = "mismatch" => ~SameParameters(types, function)

RouteInv == RouteTypeOK /\ ReplacementsInv /\ AllFoundInv /\ PlaceInv /\ CheckedInv

LEMMA PatternHasType ==
  ASSUME pattern \in Patterns
  PROVE  pattern \in Seq(PieceSet) /\ Len(pattern) \in Nat /\ DOMAIN pattern = 1..Len(pattern)
BY RouteAssumption DEF PieceSet

LEMMA RouteInitial == RouteInit => RouteInv
<1> SUFFICES ASSUME RouteInit PROVE RouteInv
  OBVIOUS
<1>1. /\ pattern \in Seq(PieceSet) /\ Len(pattern) \in Nat /\ DOMAIN pattern = 1..Len(pattern)
  BY PatternHasType DEF RouteInit
<1>2. finalRoute = ItemsOf(pattern, 0)
  <2>1. \A i \in 1..Len(pattern) : ~(ParametersBefore(pattern, i) < 0)
    BY OneMoreParameter
  <2> QED
    BY <1>1, <2>1 DEF RouteInit, ItemsOf, Written
<1>3. finalRoute \in Seq(Item) /\ Len(finalRoute) = Len(pattern)
  BY <1>1, <1>2, ItemsHaveType
<1>4. RouteTypeOK
  <2>1. finalRoute \in Seq([piece : Parameters \cup {Literal}, group : Nat \cup {NoGroup}])
    BY <1>3, ItemsInType
  <2> QED
    BY <2>1 DEF RouteInit, RouteTypeOK
<1>5. ReplacementsInv /\ AllFoundInv /\ CheckedInv
  BY DEF RouteInit, ReplacementsInv, AllFoundInv, CheckedInv
<1>6. \A i \in 1..Len(pattern) : 0 <= Position(i)
  <2>1. \A i \in 1..Len(finalRoute) : Start(finalRoute, i) \in Nat
    BY <1>3, StartIsNat
  <2> QED
    BY <1>3, <2>1 DEF Start, Position
<1> QED
  BY <1>2, <1>4, <1>5, <1>6 DEF RouteInv, RouteInit, PlaceInv

\* A step of the constructor that leaves the pattern and what is replaced.
LEMMA KeepsPlaces ==
  ASSUME RouteInv, UNCHANGED <<pattern, finalRoute, replaced, it>>,
         route' \in {"compiling", "checking", "built", "mismatch"} => replaced = Len(replacements'),
         route' # "library error"
  PROVE  PlaceInv'
<1>1. ASSUME NEW i PROVE Position(i)' = Position(i)
  BY DEF Position
<1> QED
  BY <1>1 DEF RouteInv, PlaceInv

LEMMA RouteFacts ==
  ASSUME RouteInv
  PROVE  /\ pattern \in Seq(PieceSet) /\ Len(pattern) \in Nat /\ DOMAIN pattern = 1..Len(pattern)
         /\ replacements \in Seq([piece : Parameters, group : Nat])
         /\ Len(replacements) \in Nat /\ DOMAIN replacements = 1..Len(replacements)
         /\ replaced \in 0..Len(replacements) /\ replaced \in Nat
         /\ \A i \in 1..Len(pattern) : ParametersBefore(pattern, i) \in Nat
<1>1. pattern \in Seq(PieceSet) /\ Len(pattern) \in Nat /\ DOMAIN pattern = 1..Len(pattern)
  BY PatternHasType DEF RouteInv, RouteTypeOK
<1>2. replacements \in Seq([piece : Parameters, group : Nat])
  BY DEF RouteInv, RouteTypeOK
<1>3. Len(replacements) \in Nat /\ DOMAIN replacements = 1..Len(replacements)
  BY <1>2
<1>4. replaced \in 0..Len(replacements) /\ replaced \in Nat
  <2>1. replaced \in 0..Len(replacements)
    BY DEF RouteInv, RouteTypeOK
  <2> QED
    BY <1>3, <2>1
<1>5. \A i \in 1..Len(pattern) : ParametersBefore(pattern, i) \in Nat
  <2>1. \A i \in 1..Len(pattern) : i \in Nat \ {0}
    OBVIOUS
  <2> QED
    BY <2>1, OneMoreParameter
<1> QED
  BY <1>1, <1>2, <1>3, <1>4, <1>5

LEMMA ParseMatchKeeps ==
  ASSUME RouteInv, ParseMatch
  PROVE  RouteInv'
<1> DEFINE n == Len(replacements)
           found == {i \in DOMAIN pattern :
                       IsParameter(pattern[i]) /\ ParametersBefore(pattern, i) = n}
<1>1. /\ pattern \in Seq(PieceSet) /\ Len(pattern) \in Nat /\ DOMAIN pattern = 1..Len(pattern)
      /\ replacements \in Seq([piece : Parameters, group : Nat]) /\ n \in Nat
      /\ route = "parsing" /\ UNCHANGED <<pattern, finalRoute, replaced, it, function>>
      /\ replaced \in 0..n
  BY RouteFacts DEF ParseMatch
<1>2. route' # "parsing" => replacements' = replacements
  BY DEF ParseMatch
<1>3. route' \in {"parsing", "replacing", "invalid regex"}
  BY <1>1 DEF ParseMatch
<1>4. PlaceInv'
  BY <1>1, <1>3, KeepsPlaces
<1>5. CASE route' = "replacing"
  <2>1. found = {} /\ replacements' = replacements
    BY <1>2, <1>5, <1>1 DEF ParseMatch
  <2>2. ASSUME NEW i \in 1..Len(pattern), IsParameter(pattern[i])
        PROVE  ParametersBefore(pattern, i) < n
    <3>1. /\ ParametersBefore(pattern, i) \in Nat
          /\ ParametersBefore(pattern, i + 1) = ParametersBefore(pattern, i) + 1
      BY <2>2, OneMoreParameter
    <3>2. ~(n < ParametersBefore(pattern, i + 1))
      <4>1. SUFFICES ASSUME n < ParametersBefore(pattern, i + 1) PROVE FALSE
        OBVIOUS
      <4>2. PICK j \in 1..i : IsParameter(pattern[j]) /\ ParametersBefore(pattern, j) = n
        BY <1>1, <4>1, NthParameter
      <4>3. j \in found
        BY <1>1, <4>2
      <4> QED
        BY <2>1, <4>3
    <3> QED
      BY <1>1, <3>1, <3>2
  <2>3. AllFoundInv'
    BY <1>1, <2>1, <2>2 DEF AllFoundInv
  <2>4. RouteTypeOK' /\ ReplacementsInv' /\ CheckedInv'
    BY <1>1, <1>5, <2>1 DEF RouteInv, RouteTypeOK, ReplacementsInv, CheckedInv
  <2> QED
    BY <1>4, <2>3, <2>4 DEF RouteInv
<1>6. CASE route' # "replacing"
  <2>1. PICK i \in found : IF ValueIsRegex(pattern[i])
                           THEN /\ replacements' = Append(replacements, RouteToRegex(n, pattern[i]))
                                /\ UNCHANGED route
                           ELSE route' = "invalid regex" /\ UNCHANGED replacements
    BY <1>6 DEF ParseMatch
  <2>2. i \in 1..Len(pattern) /\ IsParameter(pattern[i]) /\ ParametersBefore(pattern, i) = n
    BY <1>1, <2>1
  <2>3. pattern[i] \in Parameters
    BY <1>1, <2>2, ItemsHaveType
  <2>4. CASE ValueIsRegex(pattern[i])
    <3> DEFINE new == [piece |-> pattern[i], group |-> n]
    <3>1. replacements' = Append(replacements, new) /\ route' = "parsing"
      BY <1>1, <2>1, <2>4 DEF RouteToRegex
    <3>2. /\ replacements' \in Seq([piece : Parameters, group : Nat])
          /\ Len(replacements') = n + 1 /\ replacements'[n + 1] = new
          /\ \A k \in 1..n : replacements'[k] = replacements[k]
      <4>1. new \in [piece : Parameters, group : Nat]
        BY <1>1, <2>3
      <4> HIDE DEF new
      <4> QED
        BY <1>1, <3>1, <4>1
    <3>3. ReplacementsInv'
      <4>1. SUFFICES ASSUME NEW k \in 1..(n + 1)
                     PROVE  \E j \in 1..Len(pattern) :
                              /\ IsParameter(pattern[j]) /\ ParametersBefore(pattern, j) = k - 1
                              /\ replacements'[k] = [piece |-> pattern[j], group |-> k - 1]
                              /\ pattern[j].value # "bad"
        BY <1>1, <3>2 DEF ReplacementsInv
      <4>2. CASE k = n + 1
        <5>1. k - 1 = n
          BY <1>1, <4>2
        <5> QED
          <6>1. replacements'[k] = [piece |-> pattern[i], group |-> k - 1]
            BY <3>2, <4>2, <5>1
          <6>2. pattern[i].value # "bad"
            BY <2>4 DEF ValueIsRegex
          <6> QED
            BY <2>2, <5>1, <6>1, <6>2
      <4>3. CASE k \in 1..n
        <5>1. replacements'[k] = replacements[k]
          BY <3>2, <4>3
        <5>2. PICK j \in 1..Len(pattern) :
                /\ IsParameter(pattern[j]) /\ ParametersBefore(pattern, j) = k - 1
                /\ replacements[k] = [piece |-> pattern[j], group |-> k - 1]
                /\ pattern[j].value # "bad"
          BY <4>3 DEF RouteInv, ReplacementsInv
        <5>3. replacements'[k] = [piece |-> pattern[j], group |-> k - 1]
          BY <5>1, <5>2
        <5> QED
          BY <5>2, <5>3
      <4>4. k = n + 1 \/ k \in 1..n
        BY <1>1
      <4> QED
        BY <4>2, <4>3, <4>4
    <3>4. RouteTypeOK'
      BY <1>1, <3>1, <3>2 DEF RouteInv, RouteTypeOK
    <3>5. AllFoundInv' /\ CheckedInv'
      BY <3>1 DEF AllFoundInv, CheckedInv
    <3> QED
      BY <1>4, <3>3, <3>4, <3>5 DEF RouteInv
  <2>5. CASE ~ValueIsRegex(pattern[i])
    <3>1. replacements' = replacements /\ route' = "invalid regex"
      BY <2>1, <2>5
    <3>2. CheckedInv'
      BY <1>1, <2>2, <2>5, <3>1 DEF CheckedInv, ValueIsRegex
    <3>3. RouteTypeOK' /\ ReplacementsInv' /\ AllFoundInv'
      BY <1>1, <3>1 DEF RouteInv, RouteTypeOK, ReplacementsInv, AllFoundInv
    <3> QED
      BY <1>4, <3>2, <3>3 DEF RouteInv
  <2> QED
    BY <2>4, <2>5
<1> QED
  BY <1>5, <1>6

\* The text of the next parameter is found, and where it was written.
LEMMA ReplaceFinds ==
  ASSUME RouteInv, route = "replacing", replaced < Len(replacements)
  PROVE  LET next == replacements[replaced + 1]
         IN  \E i \in 1..Len(pattern) :
               /\ IsParameter(pattern[i]) /\ ParametersBefore(pattern, i) = replaced
               /\ next = [piece |-> pattern[i], group |-> replaced]
               /\ i \in Found(next.piece) /\ Min(Found(next.piece)) = i
<1> DEFINE next == replacements[replaced + 1]
<1>1. /\ pattern \in Seq(PieceSet) /\ Len(pattern) \in Nat
      /\ replaced \in Nat /\ replaced + 1 \in 1..Len(replacements)
  BY PatternHasType DEF RouteInv, RouteTypeOK
<1>2. PICK i \in 1..Len(pattern) :
        /\ IsParameter(pattern[i]) /\ ParametersBefore(pattern, i) = replaced
        /\ next = [piece |-> pattern[i], group |-> replaced]
  <2>1. (replaced + 1) - 1 = replaced
    BY <1>1
  <2> QED
    BY <1>1, <2>1 DEF RouteInv, ReplacementsInv
<1>3. /\ finalRoute = ItemsOf(pattern, replaced)
      /\ DOMAIN finalRoute = 1..Len(pattern)
      /\ \A j \in 1..Len(pattern) : IsParameter(pattern[j]) /\ ParametersBefore(pattern, j) >= replaced
                                      => it <= Position(j)
  BY DEF RouteInv, PlaceInv, ItemsOf
<1>4. i \in Found(next.piece)
  <2>1. finalRoute[i] = [piece |-> pattern[i], group |-> NoGroup]
    BY <1>1, <1>2, <1>3 DEF ItemsOf
  <2>2. pattern[i] \in Parameters
    BY <1>1, <1>2, ItemsHaveType
  <2>3. pattern[i].wrapped \in BOOLEAN /\ [pattern[i] EXCEPT !.wrapped = pattern[i].wrapped] = pattern[i]
    BY <2>2 DEF Parameters
  <2>4. finalRoute[i] \in {Written([pattern[i] EXCEPT !.wrapped = w]) : w \in BOOLEAN}
    BY <2>1, <2>3 DEF Written
  <2>5. it <= Position(i) /\ replaced >= replaced
    BY <1>1, <1>2, <1>3
  <2>6. Position(i) >= it
    BY <2>5
  <2> QED
    BY <1>2, <1>3, <2>4, <2>6 DEF Found
<1>5. ASSUME NEW k \in Found(next.piece) PROVE k \in 1..Len(pattern) /\ i <= k
  <2>1. k \in 1..Len(pattern)
    BY <1>3 DEF Found
  <2>2. PICK w \in BOOLEAN : finalRoute[k] = Written([pattern[i] EXCEPT !.wrapped = w])
    BY <1>2 DEF Found
  <2>3. finalRoute[k].group = NoGroup /\ finalRoute[k].piece = [pattern[i] EXCEPT !.wrapped = w]
    BY <2>2 DEF Written
  <2>4. /\ finalRoute[k].piece = pattern[k]
        /\ finalRoute[k].group = IF IsParameter(pattern[k]) /\ ParametersBefore(pattern, k) < replaced
                                 THEN ParametersBefore(pattern, k) ELSE NoGroup
    BY <1>3, <2>1 DEF ItemsOf
  <2>5. IsParameter(pattern[k])
    <3>1. pattern[i] \in Parameters
      BY <1>1, <1>2, ItemsHaveType
    <3>2. [pattern[i] EXCEPT !.wrapped = w].kind = pattern[i].kind
      BY <3>1 DEF Parameters
    <3> QED
      BY <1>2, <2>3, <2>4, <3>2 DEF IsParameter
  <2>6. ParametersBefore(pattern, k) \in Nat
    BY <2>1, OneMoreParameter
  <2>7. ~(ParametersBefore(pattern, k) < replaced)
    BY <2>3, <2>4, <2>5, <2>6 DEF NoGroup
  <2>8. k < i => ParametersBefore(pattern, k) < ParametersBefore(pattern, i)
    BY <2>1, <2>5, ParametersInOrder
  <2> QED
    BY <1>1, <1>2, <2>1, <2>6, <2>7, <2>8
<1>6. Min(Found(next.piece)) = i
  <2>1. \A k \in Found(next.piece) : k \in Int /\ i <= k
    BY <1>5
  <2>2. i \in Int
    OBVIOUS
  <2> DEFINE S == Found(next.piece)
  <2> HIDE DEF S
  <2>3. ASSUME NEW m \in S, \A k \in S : m <= k PROVE m = i
    BY <1>4, <2>1, <2>2, <2>3 DEF S
  <2>4. i \in S /\ \A k \in S : i <= k
    BY <1>4, <2>1 DEF S
  <2>5. Min(S) = i
    BY <2>3, <2>4 DEF Min
  <2> QED
    BY <2>5 DEF S
<1> QED
  BY <1>2, <1>4, <1>6

LEMMA ReplaceKeeps ==
  ASSUME RouteInv, Replace
  PROVE  RouteInv'
<1> DEFINE next == replacements[replaced + 1]
           found == Found(next.piece)
<1>1. /\ pattern \in Seq(PieceSet) /\ Len(pattern) \in Nat
      /\ route = "replacing" /\ replaced < Len(replacements)
      /\ replaced \in Nat /\ replaced + 1 \in 0..Len(replacements)
      /\ UNCHANGED <<pattern, replacements, function>>
  <2>1. route = "replacing" /\ replaced < Len(replacements)
        /\ UNCHANGED <<pattern, replacements, function>>
    BY DEF Replace
  <2> QED
    BY <2>1, RouteFacts
<1>2. PICK i \in 1..Len(pattern) :
        /\ IsParameter(pattern[i]) /\ ParametersBefore(pattern, i) = replaced
        /\ next = [piece |-> pattern[i], group |-> replaced]
        /\ i \in found /\ Min(found) = i
  BY <1>1, ReplaceFinds
<1>3. /\ finalRoute' = [finalRoute EXCEPT ![i].group = replaced]
      /\ it' = Position(i) + WrittenLength(pattern[i])
      /\ replaced' = replaced + 1 /\ route' = "replacing"
  <2>1. found # {}
    BY <1>2
  <2>2. /\ finalRoute' = [finalRoute EXCEPT ![Min(found)].group = next.group]
        /\ it' = Position(Min(found)) + WrittenLength(next.piece)
        /\ replaced' = replaced + 1 /\ route' = route
    <3> HIDE DEF found, next
    <3>1. IF found = {}
          THEN route' = "library error" /\ UNCHANGED <<finalRoute, replaced, it>>
          ELSE /\ finalRoute' = [finalRoute EXCEPT ![Min(found)].group = next.group]
               /\ it' = Position(Min(found)) + WrittenLength(next.piece)
               /\ replaced' = replaced + 1
               /\ UNCHANGED route
      BY DEF Replace, found, next
    <3> QED
      BY <2>1, <3>1
  <2>3. next.group = replaced /\ next.piece = pattern[i]
    BY <1>2
  <2> HIDE DEF found, next
  <2> QED
    BY <1>1, <1>2, <2>2, <2>3
<1>4. finalRoute = ItemsOf(pattern, replaced)
  BY DEF RouteInv, PlaceInv
<1>5. finalRoute' = ItemsOf(pattern, replaced + 1)
  BY <1>1, <1>2, <1>3, <1>4, ReplaceOne
<1>6. Position(i) = Start(finalRoute, i) /\ \A j : Position(j)' = Start(finalRoute', j)
  BY DEF Position, Start, LengthUpTo
<1>7. /\ finalRoute \in Seq(Item) /\ Len(finalRoute) = Len(pattern)
      /\ finalRoute' \in Seq(Item) /\ Len(finalRoute') = Len(pattern)
      /\ pattern[i] \in PieceSet
  <2>1. replaced + 1 \in Nat
    BY <1>1
  <2> QED
    BY <1>1, <1>4, <1>5, <2>1, ItemsHaveType
<1>8. it' \in Nat
  <2>1. Start(finalRoute, i) \in Nat
    BY <1>7, StartIsNat
  <2>2. WrittenLength(pattern[i]) \in Nat
    BY <1>7, GroupIsLonger
  <2> QED
    BY <1>3, <1>6, <2>1, <2>2
<1>9. ASSUME NEW j \in 1..Len(pattern), IsParameter(pattern[j]),
             ParametersBefore(pattern, j) >= replaced + 1
      PROVE  it' <= Start(finalRoute', j)
  BY <1>1, <1>2, <1>3, <1>4, <1>5, <1>6, <1>9, ReplaceOne
<1>10. PlaceInv'
  BY <1>1, <1>3, <1>5, <1>6, <1>9 DEF PlaceInv
<1>11. RouteTypeOK'
  <2>1. finalRoute' \in Seq([piece : Parameters \cup {Literal}, group : Nat \cup {NoGroup}])
    BY <1>7, ItemsInType
  <2> QED
    BY <1>1, <1>3, <1>8, <2>1 DEF RouteInv, RouteTypeOK
<1>12. ReplacementsInv' /\ AllFoundInv' /\ CheckedInv'
  BY <1>1, <1>3 DEF RouteInv, ReplacementsInv, AllFoundInv, CheckedInv
<1> QED
  BY <1>10, <1>11, <1>12 DEF RouteInv

LEMMA RestKeeps ==
  ASSUME RouteInv, AllReplaced \/ Compile \/ CheckParameters \/ UNCHANGED routeVars
  PROVE  RouteInv'
<1>1. UNCHANGED <<pattern, replacements, finalRoute, replaced, it>>
  BY DEF AllReplaced, Compile, CheckParameters, routeVars
<1>2. route \notin {"parsing", "invalid regex"} \/ UNCHANGED <<route, function>>
  BY DEF AllReplaced, Compile, CheckParameters, routeVars
<1>3. ReplacementsInv' /\ AllFoundInv'
  BY <1>1, <1>2 DEF RouteInv, ReplacementsInv, AllFoundInv
<1>4. PlaceInv'
  <2>1. /\ route' \in {"compiling", "checking", "built", "mismatch"} => replaced = Len(replacements)
        /\ route' # "library error"
    BY DEF RouteInv, PlaceInv, AllReplaced, Compile, CheckParameters, routeVars
  <2> QED
    BY <1>1, <2>1, KeepsPlaces
<1>5. RouteTypeOK'
  BY <1>1, RouteAssumption DEF RouteInv, RouteTypeOK, AllReplaced, Compile, CheckParameters, routeVars
<1>6. CheckedInv'
  <2>1. CASE AllReplaced
    BY <2>1 DEF AllReplaced, CheckedInv
  <2>2. CASE Compile
    <3>1. \A i \in 1..Len(pattern) : finalRoute[i].piece = pattern[i]
      BY DEF RouteInv, PlaceInv, ItemsOf
    <3>2. DOMAIN finalRoute = 1..Len(pattern)
      BY DEF RouteInv, PlaceInv, ItemsOf
    <3> QED
      BY <1>1, <2>2, <3>1, <3>2 DEF Compile, CheckedInv
  <2>3. CASE CheckParameters
    <3>1. PICK f \in Functions :
            /\ function' = f
            /\ route' = IF SameParameters([k \in DOMAIN replacements |->
                                             TypeOf(replacements[k].piece)], f)
                        THEN "built" ELSE "mismatch"
      BY <2>3 DEF CheckParameters
    <3> QED
      BY <1>1, <2>3, <3>1 DEF RouteInv, CheckedInv, CheckParameters
  <2>4. CASE UNCHANGED routeVars
    BY <1>1, <2>4 DEF RouteInv, CheckedInv, routeVars
  <2> QED
    BY <2>1, <2>2, <2>3, <2>4
<1> QED
  BY <1>3, <1>4, <1>5, <1>6 DEF RouteInv

LEMMA RouteInvStep == RouteInv /\ [Next]_vars => RouteInv'
<1> SUFFICES ASSUME RouteInv, [Next]_vars PROVE RouteInv'
  OBVIOUS
<1>1. MakeRoute \/ UNCHANGED routeVars
  BY DEF Next, MatchPath, CallHandler, ReadForm, ReadQuery, vars
<1> QED
  BY <1>1, ParseMatchKeeps, ReplaceKeeps, RestKeeps DEF MakeRoute

LEMMA RouteInvariant == Spec => []RouteInv
<1>1. Init => RouteInv
  BY RouteInitial DEF Init
<1> QED
  BY <1>1, RouteInvStep, PTL DEF Spec

LEMMA GroupsArePlaced == RouteInv => GroupsInPlace
<1> SUFFICES ASSUME RouteInv PROVE GroupsInPlace
  OBVIOUS
<1>1. route # "library error"
  BY DEF RouteInv, PlaceInv
<1>2. ASSUME route \in {"checking", "built"}
      PROVE  finalRoute =
               [i \in DOMAIN pattern |->
                  [piece |-> pattern[i],
                   group |-> IF IsParameter(pattern[i])
                             THEN ParametersBefore(pattern, i) ELSE NoGroup]]
  <2>1. DOMAIN pattern = 1..Len(pattern)
    BY PatternHasType DEF RouteInv, RouteTypeOK
  <2>2. finalRoute = ItemsOf(pattern, replaced) /\ replaced = Len(replacements)
    BY <1>2 DEF RouteInv, PlaceInv
  <2>3. \A i \in 1..Len(pattern) :
          IsParameter(pattern[i]) => ParametersBefore(pattern, i) < replaced
    BY <1>2, <2>2 DEF RouteInv, AllFoundInv
  <2> QED
    BY <2>1, <2>2, <2>3 DEF ItemsOf
<1> QED
  BY <1>1, <1>2 DEF GroupsInPlace

\* In the pattern that is compiled the N-th parameter is group __N, and the
\* library error is not reached, for every pattern (parse_route_pattern).
THEOREM RouteGroupsInPlace == Spec => []GroupsInPlace
BY RouteInvariant, GroupsArePlaced, PTL

LEMMA PatternIsChecked == RouteInv => RouteIsChecked
<1> SUFFICES ASSUME RouteInv PROVE RouteIsChecked
  OBVIOUS
<1> DEFINE valid == \A i \in DOMAIN pattern : "bad" \notin {pattern[i].value, pattern[i].consumed}
           params == {i \in DOMAIN pattern : IsParameter(pattern[i])}
           fits == /\ Len(function) = Cardinality(params)
                   /\ \A i \in params :
                        function[ParametersBefore(pattern, i) + 1] = TypeOf(pattern[i])
           types == [k \in DOMAIN replacements |-> TypeOf(replacements[k].piece)]
           n == Len(replacements)
<1>1. /\ pattern \in Seq(PieceSet) /\ Len(pattern) \in Nat /\ DOMAIN pattern = 1..Len(pattern)
      /\ n \in Nat /\ DOMAIN replacements = 1..n
      /\ \A i \in 1..Len(pattern) : ParametersBefore(pattern, i) \in Nat
  BY RouteFacts
<1>2. route = "invalid regex" => ~valid
  BY <1>1 DEF RouteInv, CheckedInv
<1>3. ASSUME NEW k \in 1..n
      PROVE  \E i \in params : /\ ParametersBefore(pattern, i) = k - 1
                               /\ replacements[k].piece = pattern[i]
                               /\ pattern[i].value # "bad"
  BY <1>1 DEF RouteInv, ReplacementsInv
<1>4. ASSUME NEW i \in params, NEW j \in params,
             ParametersBefore(pattern, i) = ParametersBefore(pattern, j)
      PROVE  i = j
  <2>1. /\ i \in Nat \ {0} /\ j \in Nat \ {0} /\ IsParameter(pattern[i]) /\ IsParameter(pattern[j])
        /\ ParametersBefore(pattern, i) \in Nat
    BY <1>1
  <2>2. i < j => ParametersBefore(pattern, i) < ParametersBefore(pattern, j)
    BY <2>1, ParametersInOrder
  <2>3. j < i => ParametersBefore(pattern, j) < ParametersBefore(pattern, i)
    BY <2>1, ParametersInOrder
  <2> HIDE DEF params
  <2> QED
    BY <1>4, <2>1, <2>2, <2>3
<1>5. ASSUME route \in {"built", "mismatch"}
      PROVE  valid /\ (fits <=> SameParameters(types, function))
  <2>1. ASSUME NEW i \in params
        PROVE  /\ ParametersBefore(pattern, i) + 1 \in 1..n
               /\ replacements[ParametersBefore(pattern, i) + 1].piece = pattern[i]
               /\ pattern[i].value # "bad"
    <3>1. ParametersBefore(pattern, i) \in Nat /\ ParametersBefore(pattern, i) < n
      BY <1>1, <1>5 DEF RouteInv, AllFoundInv
    <3>2. /\ ParametersBefore(pattern, i) + 1 \in 1..n
          /\ (ParametersBefore(pattern, i) + 1) - 1 = ParametersBefore(pattern, i)
      BY <1>1, <3>1
    <3> HIDE DEF params, n
    <3> QED
      BY <1>3, <1>4, <3>2
  <2>2. valid
    <3>1. ASSUME NEW i \in 1..Len(pattern)
          PROVE  pattern[i].value # "bad" /\ pattern[i].consumed # "bad"
      <4>1. pattern[i].consumed # "bad"
        BY <1>5 DEF RouteInv, CheckedInv
      <4>2. CASE IsParameter(pattern[i])
        BY <1>1, <2>1, <4>1, <4>2
      <4>3. CASE ~IsParameter(pattern[i])
        <5>1. pattern[i] = Literal
          BY <1>1, <4>3, ItemsHaveType, 0 \in Nat DEF PieceSet
        <5>2. Literal.value = "slash"
          BY DEF Literal
        <5> QED
          BY <4>1, <5>1, <5>2
      <4> QED
        BY <4>2, <4>3
    <3> QED
      BY <1>1, <3>1
  <2>3. Cardinality(params) = n
    <3>1. Cardinality(params) = ParametersBefore(pattern, Len(pattern) + 1)
      <4>1. (Len(pattern) + 1) - 1 = Len(pattern)
        BY <1>1
      <4> QED
        BY <1>1, <4>1 DEF ParametersBefore
    <3>2. Cardinality(params) \in Nat
      BY <1>1, <3>1, OneMoreParameter, Len(pattern) + 1 \in Nat \ {0}
    <3>3. ~(n < Cardinality(params))
      <4>1. SUFFICES ASSUME n < Cardinality(params) PROVE FALSE
        OBVIOUS
      <4>2. PICK i \in 1..Len(pattern) : IsParameter(pattern[i]) /\ ParametersBefore(pattern, i) = n
        BY <1>1, <3>1, <4>1, NthParameter
      <4>3. n + 1 \in 1..n
        BY <1>1, <2>1, <4>2
      <4> QED
        BY <1>1, <4>3
    <3>4. ~(Cardinality(params) < n)
      <4>1. SUFFICES ASSUME n # 0 PROVE n <= Cardinality(params)
        BY <1>1, <3>2
      <4>2. PICK i \in params : ParametersBefore(pattern, i) = n - 1
        BY <1>1, <1>3, <4>1, n \in 1..n
      <4>3. ParametersBefore(pattern, i) < ParametersBefore(pattern, Len(pattern) + 1)
        BY <1>1, ParametersInOrder
      <4> HIDE DEF n, params
      <4> QED
        BY <1>1, <3>1, <3>2, <4>2, <4>3
    <3> HIDE DEF n, params
    <3> QED
      BY <1>1, <3>2, <3>3, <3>4
  <2>4. ASSUME fits PROVE SameParameters(types, function)
    <3>1. ASSUME NEW k \in 1..n PROVE types[k] = function[k]
      <4>1. PICK i \in params : ParametersBefore(pattern, i) = k - 1 /\ replacements[k].piece = pattern[i]
        BY <1>3
      <4>2. (k - 1) + 1 = k
        OBVIOUS
      <4> QED
        BY <1>1, <2>4, <4>1, <4>2
    <3>2. Len(types) = n /\ DOMAIN types = 1..n
      BY <1>1
    <3> QED
      BY <2>3, <2>4, <3>1, <3>2 DEF SameParameters
  <2>5. ASSUME SameParameters(types, function) PROVE fits
    <3>1. Len(types) = n /\ DOMAIN types = 1..n
      BY <1>1
    <3>2. Len(function) = n /\ \A k \in 1..n : types[k] = function[k]
      BY <2>5, <3>1 DEF SameParameters
    <3>3. ASSUME NEW i \in params
          PROVE  function[ParametersBefore(pattern, i) + 1] = TypeOf(pattern[i])
      BY <1>1, <2>1, <3>2
    <3> QED
      BY <2>3, <3>2, <3>3
  <2> QED
    BY <2>2, <2>4, <2>5
<1>6. /\ route = "built" => SameParameters(types, function)
      /\ route = "mismatch" => ~SameParameters(types, function)
  BY DEF RouteInv, CheckedInv
<1>7. /\ route = "built" => valid /\ fits
      /\ route = "mismatch" => valid /\ ~fits
      /\ route = "invalid regex" => ~valid
  <2> HIDE DEF valid, fits, types
  <2> QED
    BY <1>2, <1>5, <1>6
<1> QED
  BY <1>7 DEF RouteIsChecked

\* A route is made exactly of a valid pattern and a function with its
\* parameters, for every pattern and function (Route::Route).
THEOREM RouteChecked == Spec => []RouteIsChecked
BY RouteInvariant, PatternIsChecked, PTL

-----------------------------------------------------------------------------
(* Query parameters *)

\* The answer is one that QueryParam allows for a query that was sent.
QueryInv ==
  phase = "query read" =>
    query \in Queries /\ param \in Params /\ answer \in QueryParam(query, param)

LEMMA QueryInvariant == Spec => []QueryInv
<1>1. Init => QueryInv
  BY DEF Init, QueryInv
<1>2. QueryInv /\ [Next]_vars => QueryInv'
  <2> SUFFICES ASSUME QueryInv, [Next]_vars PROVE QueryInv'
    OBVIOUS
  <2>1. ASSUME NEW q \in Queries, NEW k \in Params, ReadQuery(q, k) PROVE QueryInv'
    BY <2>1 DEF ReadQuery, QueryInv
  <2>2. ASSUME NEW b \in Bodies, ReadForm(b) PROVE QueryInv'
    BY <2>2 DEF ReadForm, QueryInv
  <2>3. CASE MatchPath
    BY <2>3 DEF MatchPath, QueryInv
  <2>4. CASE CallHandler
    BY <2>4 DEF CallHandler, QueryInv
  <2>5. CASE UNCHANGED inputVars
    BY <2>5 DEF inputVars, QueryInv
  <2> QED
    BY <2>1, <2>2, <2>3, <2>4, <2>5 DEF Next, vars
<1> QED
  BY <1>1, <1>2, PTL DEF Spec

\* The characters of what is unescaped.
UnescapedSet == Character \cup {Plain(" ")}

LEMMA UnescapeHasLength ==
  ASSUME NEW text \in Seq(Character), NEW mode
  PROVE  /\ Unescape(text, mode) \in Seq(UnescapedSet)
         /\ Len(Unescape(text, mode)) = Len(text)
<1>1. \A c \in STRING : Plain(c) \in Character
  BY DEF Plain, Character
<1>2. \A c \in Character : c.char \in STRING
  BY DEF Character
<1>3. \A i \in 1..Len(text) : Plain(text[i].char) \in Character
  <2>1. \A i \in 1..Len(text) : text[i] \in Character
    OBVIOUS
  <2> QED
    BY <1>1, <1>2, <2>1, Zenon
<1>4. Len(text) \in Nat /\ DOMAIN text = 1..Len(text)
  OBVIOUS
<1>5. Unescape(text, mode) \in [1..Len(text) -> UnescapedSet]
  BY <1>3, <1>4, Zenon DEF Unescape, UnescapedSet
<1> QED
  BY <1>4, <1>5

\* What is unescaped of the beginning is the beginning of what is unescaped.
LEMMA UnescapePrefix ==
  ASSUME NEW text \in Seq(Character), NEW l \in 0..Len(text), NEW mode
  PROVE  IsPrefix(Unescape(SubSeq(text, 1, l), mode), Unescape(text, mode))
<1> DEFINE s == Unescape(SubSeq(text, 1, l), mode)
           t == Unescape(text, mode)
<1>1. /\ SubSeq(text, 1, l) \in Seq(Character) /\ Len(SubSeq(text, 1, l)) = l
      /\ \A i \in 1..l : SubSeq(text, 1, l)[i] = text[i]
  OBVIOUS
<1>2. s \in Seq(UnescapedSet) /\ Len(s) = l /\ t \in Seq(UnescapedSet) /\ Len(t) = Len(text)
  BY <1>1, UnescapeHasLength
<1>3. \A i \in 1..l : s[i] = t[i]
  <2>1. DOMAIN SubSeq(text, 1, l) = 1..l /\ DOMAIN text = 1..Len(text) /\ 1..l \subseteq 1..Len(text)
    BY <1>1
  <2> QED
    BY <1>1, <2>1 DEF Unescape
<1> HIDE DEF s, t
<1>4. SubSeq(s, 1, l) = SubSeq(t, 1, l)
  BY <1>2, <1>3
<1>5. IsPrefix(s, t)
  BY <1>2, <1>4 DEF IsPrefix
<1> QED
  BY <1>5 DEF s, t

\* What QueryParam allows.
LEMMA QueryParamWasSent ==
  ASSUME NEW q \in Queries, NEW p, NEW a \in QueryParam(q, p)
  PROVE  LET meant == {k \in DOMAIN q : k = p \/ (Unescapable(k) /\ Unescape(k, "QUERY") = p)}
         IN  /\ a # None => \E k \in meant : IsPrefix(a[1], Unescape(q[k], "QUERY"))
             /\ a = None => \A k \in meant : k # p /\ ~Unescapable(q[k])
<1> DEFINE meant == {k \in DOMAIN q : k = p \/ (Unescapable(k) /\ Unescape(k, "QUERY") = p)}
           keys == {k \in DOMAIN q : /\ Unescapable(k) /\ Unescape(k, "QUERY") = p
                                     /\ Unescapable(q[k])}
<1>1. \A k \in DOMAIN q : q[k] \in Seq(Character)
  BY RequestInputAssumption
<1>2. ASSUME NEW k \in DOMAIN q PROVE IsPrefix(Unescape(q[k], "QUERY"), Unescape(q[k], "QUERY"))
  <2>1. SubSeq(q[k], 1, Len(q[k])) = q[k]
    BY <1>1, SubSeqFull
  <2>2. Len(q[k]) \in 0..Len(q[k])
    BY <1>1, LenProperties
  <2> QED
    BY <1>1, <2>1, <2>2, UnescapePrefix
<1>3. CASE p \in DOMAIN q
  <2>1. PICK v \in Decoded(q[p]) : a = Some(v)
    BY <1>3 DEF QueryParam
  <2>2. IsPrefix(v, Unescape(q[p], "QUERY"))
    <3>1. CASE Unescapable(q[p])
      BY <1>2, <1>3, <2>1, <3>1 DEF Decoded
    <3>2. CASE ~Unescapable(q[p])
      <4>1. PICK l \in 0..Len(q[p]) : v = Unescape(SubSeq(q[p], 1, l), "QUERY")
        BY <2>1, <3>2 DEF Decoded, Prefixes
      <4> QED
        BY <1>1, <1>3, <4>1, UnescapePrefix
    <3> QED
      BY <3>1, <3>2
  <2>3. a # None /\ a[1] = v
    BY <2>1 DEF Some, None
  <2> QED
    BY <1>3, <2>2, <2>3
<1>4. CASE p \notin DOMAIN q /\ keys = {}
  <2>1. a = None
    BY <1>4 DEF QueryParam
  <2> QED
    BY <1>4, <2>1
<1>5. CASE p \notin DOMAIN q /\ keys # {}
  <2>1. PICK k \in keys : a = Some(Unescape(q[k], "QUERY"))
    BY <1>5 DEF QueryParam
  <2>2. a # None /\ a[1] = Unescape(q[k], "QUERY")
    BY <2>1 DEF Some, None
  <2> QED
    BY <1>2, <2>2
<1> QED
  BY <1>3, <1>4, <1>5

\* QueryAnswerWasSent (HTTPRequest.h:34-54).
THEOREM QueryAnswered == Spec => []QueryAnswerWasSent
<1>1. QueryInv => QueryAnswerWasSent
  BY QueryParamWasSent, Zenon DEF QueryInv, QueryAnswerWasSent
<1> QED
  BY <1>1, QueryInvariant, PTL

-----------------------------------------------------------------------------
(* Reading a body *)

\* FlattenSeq appends one element after the other.
LEMMA FlattenOneMore ==
  ASSUME NEW V, NEW seqs \in Seq(Seq(V)), NEW k \in 1..Len(seqs)
  PROVE  /\ FlattenSeq(SubSeq(seqs, 1, k - 1)) \in Seq(V)
         /\ FlattenSeq(SubSeq(seqs, 1, k)) = FlattenSeq(SubSeq(seqs, 1, k - 1)) \o seqs[k]
<1> DEFINE n == Len(seqs)
           step == [i \in 1..n |-> [t \in Seq(V) |-> t \o seqs[i]]]
<1>1. n \in Nat /\ \A i \in 1..n : seqs[i] \in Seq(V)
  OBVIOUS
<1>2. step \in Steps(n, Seq(V)) /\ <<>> \in Seq(V)
  BY <1>1 DEF Steps
<1>3. \A i \in 1..n, t \in Seq(V) : step[i][t] = t \o seqs[i]
  OBVIOUS
<1> HIDE DEF n, step
<1>4. PICK run : IsRun(run, n, Seq(V), <<>>, step)
  BY <1>1, <1>2, Recursion
<1>5. /\ \A i \in 0..n : run[i] \in Seq(V)
      /\ run[0] = <<>>
      /\ \A i \in 1..n : run[i] = run[i - 1] \o seqs[i]
  <2>1. \A i \in 1..n : i - 1 \in 0..n
    BY <1>1
  <2> QED
    BY <1>3, <1>4, <2>1 DEF IsRun
<1>6. run[1] = seqs[1] \/ n = 0
  <2>1. n = 0 \/ 1 \in 1..n
    BY <1>1
  <2>2. ASSUME 1 \in 1..n PROVE run[1] = seqs[1]
    <3>1. run[1] = run[0] \o seqs[1]
      <4>1. 1 - 1 = 0
        OBVIOUS
      <4> QED
        BY <1>5, <2>2, <4>1
    <3>2. run[1] = <<>> \o seqs[1] /\ seqs[1] \in Seq(V)
      BY <1>1, <1>5, <2>2, <3>1
    <3> QED
      BY <3>2
  <2> QED
    BY <2>1, <2>2
<1>7. ASSUME NEW j \in 0..n PROVE FlattenSeq(SubSeq(seqs, 1, j)) = run[j]
  <2> DEFINE s == SubSeq(seqs, 1, j)
             IsFlat(f) == f = [i \in 1..Len(s) |-> IF i = 1 THEN s[i] ELSE f[i - 1] \o s[i]]
             flat == CHOOSE f : IsFlat(f)
  <2>1. Len(s) = j /\ \A i \in 1..j : s[i] = seqs[i]
    BY <1>1 DEF n
  <2>2. FlattenSeq(s) = IF Len(s) = 0 THEN s ELSE flat[Len(s)]
    BY DEF FlattenSeq
  <2>3. CASE j = 0
    <3>1. s = <<>>
      BY <2>3
    <3> QED
      BY <1>5, <2>1, <2>2, <2>3, <3>1
  <2>4. CASE j # 0
    <3> HIDE DEF s
    <3>1. \E f : IsFlat(f)
      <4> DEFINE f == [i \in 1..j |-> run[i]]
      <4>1. ASSUME NEW i \in 1..j PROVE f[i] = IF i = 1 THEN s[i] ELSE f[i - 1] \o s[i]
        <5>1. i \in 1..n /\ n # 0 /\ f[i] = run[i] /\ s[i] = seqs[i]
          BY <1>1, <2>1
        <5>2. i # 1 => i - 1 \in 1..j
          OBVIOUS
        <5>3. i # 1 => f[i - 1] = run[i - 1]
          BY <5>2
        <5>4. run[i] = run[i - 1] \o seqs[i]
          BY <1>5, <5>1
        <5> HIDE DEF f
        <5> QED
          BY <1>6, <5>1, <5>3, <5>4
      <4>2. IsFlat(f)
        BY <2>1, <4>1
      <4> QED
        BY <4>2
    <3>2. IsFlat(flat)
      <4> HIDE DEF IsFlat
      <4> QED
        BY <3>1
    <3> HIDE DEF flat
    <3>3. \A i \in 1..j : flat[i] = IF i = 1 THEN s[i] ELSE flat[i - 1] \o s[i]
      BY <2>1, <3>2
    <3> DEFINE T == {i \in 0..(j - 1) : flat[i + 1] = run[i + 1]}
    <3>4. 0 \in T
      <4>1. 1 \in 1..j /\ 0 \in 0..(j - 1) /\ n # 0
        BY <1>1, <2>4
      <4> QED
        BY <1>6, <2>1, <3>3, <4>1
    <3>5. ASSUME NEW i \in 0..(j - 2), i \in T PROVE i + 1 \in T
      <4>1. /\ (i + 1) + 1 \in 1..j /\ (i + 1) + 1 \in 1..n /\ (i + 1) + 1 # 1
            /\ ((i + 1) + 1) - 1 = i + 1 /\ i + 1 \in 0..(j - 1)
        BY <1>1
      <4>2. flat[(i + 1) + 1] = flat[i + 1] \o seqs[(i + 1) + 1]
        BY <2>1, <3>3, <4>1
      <4>3. run[(i + 1) + 1] = run[i + 1] \o seqs[(i + 1) + 1]
        BY <1>5, <4>1
      <4>4. flat[i + 1] = run[i + 1]
        BY <3>5
      <4> QED
        BY <4>1, <4>2, <4>3, <4>4
    <3>6. j - 1 \in Nat /\ j \in Nat /\ (j - 1) - 1 = j - 2 /\ j - 1 \in 0..(j - 1) /\ (j - 1) + 1 = j
      BY <1>1, <2>4
    <3>7. 0..(j - 1) \subseteq T
      <4> HIDE DEF T
      <4> QED
        BY <3>4, <3>5, <3>6, UpTo
    <3>8. flat[j] = run[j]
      BY <3>6, <3>7
    <3> QED
      BY <2>1, <2>2, <2>4, <3>8 DEF s
  <2> QED
    BY <2>3, <2>4
<1>8. k \in 1..n /\ k \in 0..n /\ k - 1 \in 0..n
  BY <1>1 DEF n
<1> QED
  BY <1>5, <1>7, <1>8

\* What the loop of to_string keeps.
Buffers == [text : Seq(Character), offset : Int, thrown : BOOLEAN]

LEMMA InsertHasType ==
  ASSUME NEW acc \in Buffers, NEW chunk \in Seq(Character)
  PROVE  Insert(acc, chunk) \in Buffers
<1>1. acc.text \in Seq(Character) /\ acc.offset \in Int /\ acc.thrown \in BOOLEAN
  BY DEF Buffers
<1>2. ASSUME NEW n \in Int PROVE AsInt(n) \in Int
  BY IntLimitAssumption DEF AsInt
<1>3. [acc EXCEPT !.thrown = TRUE] \in Buffers
  BY DEF Buffers
<1>4. CASE acc.offset \in 0..Len(acc.text) /\ ~acc.thrown
  <2> DEFINE before == SubSeq(acc.text, 1, acc.offset)
             after == SubSeq(acc.text, acc.offset + 1, Len(acc.text))
  <2>1. before \in Seq(Character) /\ after \in Seq(Character)
    BY <1>1, <1>4
  <2>2. Len(chunk) \in Int /\ acc.offset + Len(chunk) \in Int
    BY <1>1
  <2>3. AsInt(acc.offset + Len(chunk)) \in Int
    BY <1>2, <2>2
  <2> HIDE DEF before, after
  <2>4. before \o chunk \o after \in Seq(Character)
    BY <2>1
  <2>5. Insert(acc, chunk) = [text |-> before \o chunk \o after,
                              offset |-> AsInt(acc.offset + Len(chunk)), thrown |-> FALSE]
    BY <1>4 DEF Insert, before, after
  <2> QED
    BY <2>3, <2>4, <2>5 DEF Buffers
<1>5. CASE ~(acc.offset \in 0..Len(acc.text) /\ ~acc.thrown)
  <2>1. Insert(acc, chunk) = [acc EXCEPT !.thrown = TRUE]
    BY <1>5, Zenon DEF Insert
  <2> QED
    BY <1>3, <2>1
<1> QED
  BY <1>4, <1>5

\* BufferToString inserts one buffer after the other.
LEMMA BufferSteps ==
  ASSUME NEW chain \in Seq(Seq(Character))
  PROVE  \E acc \in [0..Len(chain) -> Buffers] :
           /\ acc[0] = NoText
           /\ \A n \in 1..Len(chain) : acc[n] = Insert(acc[n - 1], chain[n])
           /\ BufferToString(chain) = acc[Len(chain)]
<1> DEFINE n == Len(chain)
           step == [i \in 1..n |-> [b \in Buffers |-> Insert(b, chain[i])]]
           IsAcc(f) == f = [i \in 0..n |-> IF i = 0 THEN NoText ELSE Insert(f[i - 1], chain[i])]
           acc == CHOOSE f : IsAcc(f)
<1>1. n \in Nat /\ \A i \in 1..n : chain[i] \in Seq(Character)
  OBVIOUS
<1>2. step \in Steps(n, Buffers)
  BY <1>1, InsertHasType DEF Steps
<1>3. \A i \in 1..n, b \in Buffers : step[i][b] = Insert(b, chain[i])
  OBVIOUS
<1>4. NoText \in Buffers
  BY DEF NoText, Buffers
<1>5. BufferToString(chain) = acc[n]
  BY DEF BufferToString
<1> HIDE DEF step, n
<1>6. \E f : IsAcc(f)
  <2>1. PICK f : IsRun(f, n, Buffers, NoText, step)
    BY <1>1, <1>2, <1>4, Recursion
  <2>2. f \in [0..n -> Buffers] /\ f[0] = NoText /\ \A i \in 1..n : f[i] = step[i][f[i - 1]]
    BY <2>1 DEF IsRun
  <2>3. ASSUME NEW i \in 0..n, i # 0 PROVE f[i] = Insert(f[i - 1], chain[i])
    <3>1. i \in 1..n /\ i - 1 \in 0..n
      BY <1>1, <2>3
    <3> QED
      BY <1>3, <2>2, <3>1
  <2>4. IsAcc(f)
    BY <2>2, <2>3
  <2> QED
    BY <2>4
<1>7. IsAcc(acc)
  <2> HIDE DEF IsAcc
  <2> QED
    BY <1>6
<1> HIDE DEF acc
<1>8. \A i \in 1..n : acc[i] = Insert(acc[i - 1], chain[i])
  <2>1. \A i \in 1..n : i \in 0..n /\ i # 0
    BY <1>1
  <2> QED
    BY <1>7, <2>1
<1>9. acc = [i \in 0..n |-> acc[i]] /\ acc[0] = NoText
  BY <1>1, <1>7
<1>10. IsRun(acc, n, Buffers, NoText, step)
  <2> HIDE DEF IsAcc
  <2>1. \A i \in 1..n : acc[i - 1] \in Buffers => acc[i] = step[i][acc[i - 1]]
    BY <1>3, <1>8
  <2> QED
    BY <1>1, <1>2, <1>4, <1>9, <2>1, TakesSteps
<1> QED
  BY <1>5, <1>8, <1>9, <1>10 DEF IsRun, n

LEMMA OffsetWraps ==
  ASSUME NEW n \in 0..(2 * IntLimit - 1)
  PROVE  AsInt(n) = IF n < IntLimit THEN n ELSE n - 2 * IntLimit
<1> DEFINE b == 2 * IntLimit
<1>1. b \in Nat \ {0} /\ IntLimit \in Nat
  BY IntLimitAssumption
<1>2. CASE n < IntLimit
  <2>1. n + IntLimit \in 0..(b - 1)
    BY <1>1, <1>2
  <2> HIDE DEF b
  <2>2. (n + IntLimit) % b = n + IntLimit
    BY <1>1, <2>1
  <2> QED
    BY <1>1, <1>2, <2>2 DEF AsInt, b
<1>3. CASE n >= IntLimit
  <2>1. n + IntLimit \in b..(2 * b - 1)
    BY <1>1, <1>3
  <2> HIDE DEF b
  <2>2. (n + IntLimit) % b = n + IntLimit - b
    BY <1>1, <2>1
  <2> QED
    BY <1>1, <1>3, <2>2 DEF AsInt, b
<1> QED
  BY <1>1, <1>2, <1>3

\* The loop has copied the first n buffers, and each byte of the last one has
\* been counted; or it has thrown, when the count no longer was a position.
LEMMA BufferIsWholeOrTooLong ==
  ASSUME NEW chain \in Seq(Seq(Character)),
         \A i \in DOMAIN chain : i < Len(chain) => Len(chain[i]) <= IntLimit
  PROVE  IF BufferToString(chain).thrown
         THEN Len(FlattenSeq(Front(chain))) >= IntLimit
         ELSE BufferToString(chain).text = FlattenSeq(chain)
<1> DEFINE flat(k) == FlattenSeq(SubSeq(chain, 1, k))
<1>1. PICK acc \in [0..Len(chain) -> Buffers] :
        /\ acc[0] = NoText
        /\ \A n \in 1..Len(chain) : acc[n] = Insert(acc[n - 1], chain[n])
        /\ BufferToString(chain) = acc[Len(chain)]
  BY BufferSteps
<1>2. /\ Len(chain) \in Nat /\ DOMAIN chain = 1..Len(chain) /\ flat(Len(chain)) = FlattenSeq(chain)
      /\ Front(chain) = SubSeq(chain, 1, Len(chain) - 1)
  <2>1. SubSeq(chain, 1, Len(chain)) = chain
    BY SubSeqFull
  <2>2. Len(chain) \in Nat /\ DOMAIN chain = 1..Len(chain)
    OBVIOUS
  <2> QED
    BY <2>1, <2>2, Zenon DEF Front
<1>3. flat(0) = <<>>
  <2>1. SubSeq(chain, 1, 0) = <<>> /\ Len(<<>>) = 0
    OBVIOUS
  <2> QED
    BY <2>1 DEF FlattenSeq
<1>4. ASSUME NEW k \in 1..Len(chain)
      PROVE  flat(k - 1) \in Seq(Character) /\ flat(k) = flat(k - 1) \o chain[k]
  BY FlattenOneMore
<1> HIDE DEF flat
<1>5. ASSUME NEW k \in 1..Len(chain)
      PROVE  /\ Len(flat(k)) = Len(flat(k - 1)) + Len(chain[k])
             /\ Len(flat(k - 1)) \in Nat /\ Len(chain[k]) \in Nat
             /\ chain[k] \in Seq(Character) /\ flat(k) \in Seq(Character)
  <2>1. chain[k] \in Seq(Character)
    BY ElementOfSeq
  <2>2. \A s, t \in Seq(Character) :
          s \o t \in Seq(Character) /\ Len(s \o t) = Len(s) + Len(t) /\ Len(s) \in Nat
    OBVIOUS
  <2> QED
    BY <1>4, <2>1, <2>2, Zenon
<1> DEFINE Copied(k) == /\ acc[k].text = flat(k) /\ acc[k].thrown = FALSE
                        /\ acc[k].offset = AsInt(Len(flat(k)))
                        /\ k # 0 => Len(flat(k - 1)) < IntLimit
           Thrown(k) == acc[k].thrown = TRUE /\ k # 0 /\ Len(flat(k - 1)) >= IntLimit
           T == {k \in 0..Len(chain) : Copied(k) \/ Thrown(k)}
<1>6. 0 \in T
  <2>1. AsInt(0) = 0
    BY OffsetWraps, IntLimitAssumption
  <2>2. Copied(0)
    BY <1>1, <1>3, <2>1 DEF NoText
  <2> QED
    BY <1>2, <2>2
<1>7. ASSUME NEW n \in 0..(Len(chain) - 1), n \in T PROVE n + 1 \in T
  <2>1. /\ n + 1 \in 1..Len(chain) /\ n + 1 \in 0..Len(chain) /\ (n + 1) - 1 = n /\ n + 1 # 0
        /\ n \in 0..Len(chain) /\ (n # 0 => n \in 1..Len(chain) /\ n < Len(chain))
    BY <1>2
  <2>2. acc[n + 1] = Insert(acc[n], chain[n + 1]) /\ acc[n] \in Buffers
    BY <1>1, <2>1
  <2>3. /\ flat(n + 1) = flat(n) \o chain[n + 1]
        /\ flat(n) \in Seq(Character) /\ Len(flat(n)) \in Nat
        /\ chain[n + 1] \in Seq(Character) /\ Len(chain[n + 1]) \in Nat
        /\ Len(flat(n + 1)) = Len(flat(n)) + Len(chain[n + 1])
    BY <1>4, <1>5, <2>1
  <2>4. CASE Thrown(n)
    <3>1. acc[n + 1].thrown = TRUE
      BY <2>2, <2>4 DEF Insert, Buffers
    <3>2. Len(flat(n)) >= IntLimit
      <4>1. /\ n \in 1..Len(chain) /\ Len(flat(n - 1)) >= IntLimit
            /\ Len(flat(n)) = Len(flat(n - 1)) + Len(chain[n])
            /\ Len(flat(n - 1)) \in Nat /\ Len(chain[n]) \in Nat
        BY <1>5, <2>1, <2>4
      <4> DEFINE a == Len(flat(n))
                 b == Len(flat(n - 1))
                 c == Len(chain[n])
      <4> HIDE DEF a, b, c
      <4>2. a = b + c /\ b \in Nat /\ c \in Nat /\ b >= IntLimit
        BY <4>1 DEF a, b, c
      <4>3. a >= IntLimit
        BY <4>2, IntLimitAssumption
      <4> QED
        BY <4>3 DEF a
    <3>3. Thrown(n + 1)
      BY <2>1, <3>1, <3>2
    <3> QED
      BY <2>1, <3>3
  <2>5. CASE Copied(n) /\ Len(flat(n)) < IntLimit
    <3>1. acc[n].offset = Len(flat(n)) /\ acc[n].text = flat(n) /\ ~acc[n].thrown
      <4>1. Len(flat(n)) \in 0..(2 * IntLimit - 1)
        BY <2>3, <2>5, IntLimitAssumption
      <4> QED
        BY <2>5, <4>1, OffsetWraps
    <3>2. /\ Len(flat(n)) \in 0..Len(flat(n)) /\ SubSeq(flat(n), 1, Len(flat(n))) = flat(n)
          /\ SubSeq(flat(n), Len(flat(n)) + 1, Len(flat(n))) = <<>>
      <4>1. Len(flat(n)) \in 0..Len(flat(n)) /\ Len(flat(n)) < Len(flat(n)) + 1
            /\ Len(flat(n)) \in Int /\ Len(flat(n)) + 1 \in Int
        BY <2>3
      <4> QED
        BY <2>3, <4>1, SubSeqFull, SubSeqEmpty
    <3>3. acc[n + 1] = [text |-> flat(n) \o chain[n + 1] \o <<>>,
                        offset |-> AsInt(Len(flat(n)) + Len(chain[n + 1])), thrown |-> FALSE]
      BY <2>2, <3>1, <3>2 DEF Insert
    <3>4. flat(n) \o chain[n + 1] \o <<>> = flat(n + 1)
      BY <2>3
    <3>5. /\ acc[n + 1].text = flat(n + 1) /\ acc[n + 1].thrown = FALSE
          /\ acc[n + 1].offset = AsInt(Len(flat(n)) + Len(chain[n + 1]))
      BY <3>3, <3>4
    <3>6. Copied(n + 1)
      BY <2>1, <2>3, <2>5, <3>5, Zenon
    <3> QED
      BY <2>1, <3>6
  <2>6. CASE Copied(n) /\ ~(Len(flat(n)) < IntLimit)
    <3>1. n # 0
      <4>1. Len(<<>>) = 0 /\ 0 < IntLimit
        BY IntLimitAssumption
      <4> QED
        BY <1>3, <2>6, <4>1
    <3>2. Len(flat(n)) \in 0..(2 * IntLimit - 1) /\ Len(flat(n)) >= IntLimit
      <4>1. /\ Len(flat(n)) = Len(flat(n - 1)) + Len(chain[n]) /\ Len(flat(n - 1)) < IntLimit
            /\ Len(flat(n - 1)) \in Nat /\ Len(chain[n]) \in Nat /\ Len(chain[n]) <= IntLimit
        BY <1>2, <1>5, <2>1, <2>6, <3>1
      <4> DEFINE a == Len(flat(n))
                 b == Len(flat(n - 1))
                 c == Len(chain[n])
      <4> HIDE DEF a, b, c
      <4>2. a = b + c /\ b \in Nat /\ c \in Nat /\ b < IntLimit /\ c <= IntLimit /\ ~(a < IntLimit)
        BY <2>6, <4>1 DEF a, b, c
      <4>3. a \in 0..(2 * IntLimit - 1) /\ a >= IntLimit
        BY <4>2, IntLimitAssumption
      <4> QED
        BY <4>3 DEF a
    <3>3. acc[n].offset < 0 /\ acc[n].offset \in Int
      BY <2>6, <3>2, OffsetWraps, IntLimitAssumption
    <3>4. acc[n + 1].thrown = TRUE
      <4>1. ~(acc[n].offset \in 0..Len(acc[n].text))
        BY <3>3
      <4> QED
        BY <2>2, <4>1 DEF Insert, Buffers
    <3>5. Thrown(n + 1)
      BY <2>1, <3>2, <3>4
    <3> QED
      BY <2>1, <3>5
  <2>7. Copied(n) \/ Thrown(n)
    BY <1>7
  <2> QED
    BY <2>4, <2>5, <2>6, <2>7
<1>8. Len(chain) \in T
  <2>1. 0..Len(chain) \subseteq T
    <3> HIDE DEF T
    <3> QED
      BY <1>2, <1>6, <1>7, UpTo
  <2> HIDE DEF T
  <2> QED
    BY <1>2, <2>1
<1>9. CASE Copied(Len(chain))
  BY <1>1, <1>2, <1>9
<1>10. CASE Thrown(Len(chain))
  BY <1>1, <1>2, <1>10 DEF flat
<1> QED
  BY <1>8, <1>9, <1>10

\* The body is one of those that are sent, or there is none.
BodyInv == body \in Bodies \cup {NoBody}

LEMMA BodyInvariant == Spec => []BodyInv
<1>1. Init => BodyInv
  BY DEF Init, BodyInv
<1>2. BodyInv /\ [Next]_vars => BodyInv'
  <2> SUFFICES ASSUME BodyInv, [Next]_vars PROVE BodyInv'
    OBVIOUS
  <2>1. ASSUME NEW b \in Bodies, ReadForm(b) PROVE BodyInv'
    BY <2>1 DEF ReadForm, BodyInv
  <2>2. CASE UNCHANGED body
    BY <2>2 DEF BodyInv
  <2> QED
    BY <2>1, <2>2 DEF Next, vars, inputVars, MatchPath, CallHandler, ReadQuery
<1> QED
  BY <1>1, <1>2, PTL DEF Spec

\* BodyIsWhole (StringUtils.h:9-19).
THEOREM BodyRead == Spec => []BodyIsWhole
<1>1. BodyInv => BodyIsWhole
  <2>1. ASSUME body \in Bodies PROVE BodyIsWhole
    <3>1. /\ body.chain \in Seq(Seq(Character))
          /\ \A i \in DOMAIN body.chain : i < Len(body.chain) => Len(body.chain[i]) <= IntLimit
      BY <2>1, RequestInputAssumption
    <3> QED
      BY <3>1, BufferIsWholeOrTooLong DEF BodyIsWhole
  <2>2. ASSUME body = NoBody PROVE BodyIsWhole
    <3>1. body.chain = <<>>
      BY <2>2 DEF NoBody
    <3>2. <<>> \in Seq(Seq(Character)) /\ DOMAIN <<>> = {}
      OBVIOUS
    <3> QED
      BY <3>1, <3>2, BufferIsWholeOrTooLong DEF BodyIsWhole
  <2> QED
    BY <2>1, <2>2 DEF BodyInv
<1> QED
  BY <1>1, BodyInvariant, PTL

-----------------------------------------------------------------------------
(* Dividing a path *)

\* A piece takes nothing from before or behind the text.
LEMMA TakesInText ==
  ASSUME NEW piece, NEW text, Len(text) \in Nat, NEW from \in 1..(Len(text) + 1),
         NEW t \in Takes(piece, text, from)
  PROVE  /\ t.next \in from..(Len(text) + 1) /\ t.length \in Absent..Len(text)
         /\ t = [length |-> t.length, next |-> t.next]
<1> DEFINE c == Len(Consumed(piece))
           slash == <<Plain("/")>>
<1>1. c \in Nat
  <2>1. Consumed(piece) = <<>> \/ Consumed(piece) = slash
    BY Zenon DEF Consumed
  <2>2. Len(<<>>) = 0 /\ Len(slash) = 1
    OBVIOUS
  <2> HIDE DEF slash
  <2> QED
    BY <2>1, <2>2
<1> HIDE DEF c
<1>2. CASE t = [length |-> Absent, next |-> from]
  BY <1>2 DEF Absent
<1>3. CASE t # [length |-> Absent, next |-> from]
  <2>1. PICK n \in 0..(Len(text) + 1 - from - c) : t = [length |-> n, next |-> from + n + c]
    BY <1>3 DEF Takes, c
  <2>2. n \in 0..Len(text) /\ from + n + c \in from..(Len(text) + 1)
    BY <1>1
  <2> QED
    BY <2>1, <2>2 DEF Absent
<1> QED
  BY <1>2, <1>3

\* Parts of a text, and beginnings of divisions of it with where they end.
Part == [from : Int, length : Int]
Partial(text) == [division : Seq(Part), next : 1..(Len(text) + 1)]

\* All ways to let the i-th piece take its part after that of the pieces before.
Extend(S, i, text) ==
  UNION {{[division |-> Append(p.division, [from |-> p.next, length |-> t.length]),
           next |-> t.next] :
            t \in Takes(finalRoute[i].piece, text, p.next)} : p \in S}

LEMMA ExtendHasType ==
  ASSUME NEW text, Len(text) \in Nat, NEW S \in SUBSET Partial(text), NEW i
  PROVE  Extend(S, i, text) \subseteq Partial(text)
<1> DEFINE Longer(p, t) == [division |-> Append(p.division, [from |-> p.next, length |-> t.length]),
                          next |-> t.next]
<1>1. ASSUME NEW p \in S, NEW t \in Takes(finalRoute[i].piece, text, p.next)
      PROVE  Longer(p, t) \in Partial(text)
  <2>1. p.division \in Seq(Part) /\ p.next \in 1..(Len(text) + 1)
    BY DEF Partial
  <2>2. t.next \in p.next..(Len(text) + 1) /\ t.length \in Absent..Len(text)
    BY <2>1, TakesInText
  <2>3. t.next \in 1..(Len(text) + 1)
    BY <2>1, <2>2
  <2>4. [from |-> p.next, length |-> t.length] \in Part
    BY <2>1, <2>2 DEF Part, Absent
  <2>5. Append(p.division, [from |-> p.next, length |-> t.length]) \in Seq(Part)
    BY <2>1, <2>4
  <2> QED
    BY <2>3, <2>5 DEF Partial
<1>2. Extend(S, i, text) = UNION {{Longer(p, t) : t \in Takes(finalRoute[i].piece, text, p.next)} : p \in S}
  BY DEF Extend
<1> HIDE DEF Longer
<1> QED
  BY <1>1, <1>2

\* A division is found piece by piece.
LEMMA DivisionSteps ==
  ASSUME Len(finalRoute) \in Nat, NEW text, Len(text) \in Nat
  PROVE  \E partial \in [0..Len(finalRoute) -> SUBSET Partial(text)] :
           /\ partial[0] = {[division |-> <<>>, next |-> 1]}
           /\ \A i \in 1..Len(finalRoute) : partial[i] = Extend(partial[i - 1], i, text)
           /\ Divisions(text) = {p.division : p \in {q \in partial[Len(finalRoute)] : q.next = Len(text) + 1}}
<1> DEFINE n == Len(finalRoute)
           V == SUBSET Partial(text)
           first == {[division |-> <<>>, next |-> 1]}
           step == [i \in 1..n |-> [S \in V |-> Extend(S, i, text)]]
           IsPartial(f) == f = [i \in 0..n |-> IF i = 0 THEN first ELSE Extend(f[i - 1], i, text)]
           partial == CHOOSE f : IsPartial(f)
<1>1. Divisions(text) = {p.division : p \in {q \in partial[n] : q.next = Len(text) + 1}}
  BY DEF Divisions, Extend
<1>2. step \in Steps(n, V)
  BY ExtendHasType DEF Steps
<1>3. first \in V
  <2>1. <<>> \in Seq(Part) /\ 1 \in 1..(Len(text) + 1)
    OBVIOUS
  <2> QED
    BY <2>1 DEF Partial
<1>4. \A i \in 1..n, S \in V : step[i][S] = Extend(S, i, text)
  OBVIOUS
<1>5. n \in Nat
  OBVIOUS
<1> HIDE DEF step, n, first, V
<1>6. \E f : IsPartial(f)
  <2>1. PICK f : IsRun(f, n, V, first, step)
    BY <1>2, <1>3, <1>5, Recursion
  <2>2. f \in [0..n -> V] /\ f[0] = first /\ \A i \in 1..n : f[i] = step[i][f[i - 1]]
    BY <2>1 DEF IsRun
  <2>3. ASSUME NEW i \in 0..n, i # 0 PROVE f[i] = Extend(f[i - 1], i, text)
    <3>1. i \in 1..n /\ i - 1 \in 0..n
      BY <1>5, <2>3
    <3> QED
      BY <1>4, <2>2, <3>1
  <2>4. IsPartial(f)
    BY <2>2, <2>3
  <2> QED
    BY <2>4
<1>7. IsPartial(partial)
  <2> HIDE DEF IsPartial
  <2> QED
    BY <1>6
<1> HIDE DEF partial
<1>8. \A i \in 1..n : partial[i] = Extend(partial[i - 1], i, text)
  <2>1. \A i \in 1..n : i \in 0..n /\ i # 0
    BY <1>5
  <2> QED
    BY <1>7, <2>1
<1>9. partial = [i \in 0..n |-> partial[i]] /\ partial[0] = first
  BY <1>5, <1>7
<1>10. partial \in [0..n -> V]
  <2>1. \A i \in 1..n : partial[i - 1] \in V => partial[i] = step[i][partial[i - 1]]
    BY <1>4, <1>8
  <2> HIDE DEF IsPartial
  <2>2. IsRun(partial, n, V, first, step)
    BY <1>2, <1>3, <1>5, <1>9, <2>1, TakesSteps
  <2> QED
    BY <2>2 DEF IsRun
<1> QED
  BY <1>1, <1>8, <1>9, <1>10 DEF n, first, V

\* d gives each of the first n pieces a part; ends are where the parts end.
Divides(d, ends, n, text) ==
  /\ d \in Seq(Part) /\ Len(d) = n
  /\ ends \in [0..n -> 1..(Len(text) + 1)] /\ ends[0] = 1
  /\ \A i \in 1..n :
       /\ d[i].from = ends[i - 1]
       /\ [length |-> d[i].length, next |-> ends[i]] \in Takes(finalRoute[i].piece, text, ends[i - 1])

LEMMA DivideOneMore ==
  ASSUME NEW text, Len(text) \in Nat, NEW n \in Nat, NEW d, NEW ends, Divides(d, ends, n, text),
         NEW t \in Takes(finalRoute[n + 1].piece, text, ends[n])
  PROVE  Divides(Append(d, [from |-> ends[n], length |-> t.length]),
                 [i \in 0..(n + 1) |-> IF i = n + 1 THEN t.next ELSE ends[i]], n + 1, text)
<1> DEFINE part == [from |-> ends[n], length |-> t.length]
           d2 == Append(d, part)
           ends2 == [i \in 0..(n + 1) |-> IF i = n + 1 THEN t.next ELSE ends[i]]
<1>1. /\ d \in Seq(Part) /\ Len(d) = n
      /\ ends \in [0..n -> 1..(Len(text) + 1)] /\ ends[0] = 1
  BY DEF Divides
<1>2. ends[n] \in 1..(Len(text) + 1)
  BY <1>1
<1>3. /\ t.next \in ends[n]..(Len(text) + 1) /\ t.length \in Absent..Len(text)
      /\ t = [length |-> t.length, next |-> t.next]
  BY <1>2, TakesInText
<1>4. part \in Part
  BY <1>2, <1>3 DEF Part, Absent
<1>5. /\ d2 \in Seq(Part) /\ Len(d2) = n + 1 /\ d2[n + 1] = part
      /\ \A i \in 1..n : d2[i] = d[i]
  <2> HIDE DEF part
  <2> QED
    BY <1>1, <1>4
<1>6. ends2 \in [0..(n + 1) -> 1..(Len(text) + 1)] /\ ends2[0] = 1
  <2>1. t.next \in 1..(Len(text) + 1)
    BY <1>2, <1>3
  <2> QED
    BY <1>1, <2>1
<1>7. ends2[n + 1] = t.next /\ \A i \in 0..n : ends2[i] = ends[i]
  OBVIOUS
<1> HIDE DEF d2, ends2
<1>8. ASSUME NEW i \in 1..(n + 1)
      PROVE  /\ d2[i].from = ends2[i - 1]
             /\ [length |-> d2[i].length, next |-> ends2[i]] \in
                  Takes(finalRoute[i].piece, text, ends2[i - 1])
  <2>1. CASE i = n + 1
    <3>1. ends2[i - 1] = ends[n] /\ ends2[i] = t.next
      BY <1>7, <2>1
    <3>2. d2[i].from = ends[n] /\ d2[i].length = t.length
      BY <1>5, <2>1
    <3>3. [length |-> t.length, next |-> t.next] \in Takes(finalRoute[n + 1].piece, text, ends[n])
      BY <1>3
    <3> QED
      BY <2>1, <3>1, <3>2, <3>3
  <2>2. CASE i \in 1..n
    <3>1. ends2[i - 1] = ends[i - 1] /\ ends2[i] = ends[i] /\ d2[i] = d[i]
      <4>1. i - 1 \in 0..n /\ i \in 0..n
        BY <2>2
      <4> QED
        BY <1>5, <1>7, <2>2, <4>1
    <3>2. /\ d[i].from = ends[i - 1]
          /\ [length |-> d[i].length, next |-> ends[i]] \in Takes(finalRoute[i].piece, text, ends[i - 1])
      BY <2>2 DEF Divides
    <3> QED
      BY <3>1, <3>2
  <2> QED
    BY <2>1, <2>2
<1>9. Divides(d2, ends2, n + 1, text)
  BY <1>5, <1>6, <1>8 DEF Divides
<1> QED
  BY <1>9 DEF d2, ends2

LEMMA DivisionsDivide ==
  ASSUME Len(finalRoute) \in Nat, NEW text, Len(text) \in Nat, NEW d \in Divisions(text)
  PROVE  \E ends : /\ Divides(d, ends, Len(finalRoute), text)
                   /\ ends[Len(finalRoute)] = Len(text) + 1
<1> DEFINE n == Len(finalRoute)
<1>1. PICK partial \in [0..n -> SUBSET Partial(text)] :
        /\ partial[0] = {[division |-> <<>>, next |-> 1]}
        /\ \A i \in 1..n : partial[i] = Extend(partial[i - 1], i, text)
        /\ Divisions(text) = {p.division : p \in {q \in partial[n] : q.next = Len(text) + 1}}
  BY DivisionSteps
<1> DEFINE Good(p, i) == \E ends : Divides(p.division, ends, i, text) /\ ends[i] = p.next
           T == {i \in 0..n : \A p \in partial[i] : Good(p, i)}
<1>2. 0 \in T
  <2> DEFINE ends == [i \in 0..0 |-> 1]
  <2>1. ends \in [0..0 -> 1..(Len(text) + 1)] /\ ends[0] = 1
    OBVIOUS
  <2>2. <<>> \in Seq(Part) /\ Len(<<>>) = 0
    OBVIOUS
  <2> HIDE DEF ends
  <2>3. Divides(<<>>, ends, 0, text)
    BY <2>1, <2>2 DEF Divides
  <2>4. \A p \in partial[0] : p.division = <<>> /\ p.next = 1
    BY <1>1
  <2>5. \A p \in partial[0] : Good(p, 0)
    BY <2>1, <2>3, <2>4
  <2> QED
    BY <2>5
<1>3. ASSUME NEW i \in 0..(n - 1), i \in T PROVE i + 1 \in T
  <2>1. i + 1 \in 1..n /\ i + 1 \in 0..n /\ (i + 1) - 1 = i /\ i \in Nat
    OBVIOUS
  <2>2. partial[i + 1] = Extend(partial[i], i + 1, text)
    BY <1>1, <2>1
  <2>3. ASSUME NEW q \in partial[i + 1] PROVE Good(q, i + 1)
    <3>1. PICK p \in partial[i] :
            q \in {[division |-> Append(p.division, [from |-> p.next, length |-> t.length]),
                    next |-> t.next] : t \in Takes(finalRoute[i + 1].piece, text, p.next)}
      BY <2>2 DEF Extend
    <3>2. PICK t \in Takes(finalRoute[i + 1].piece, text, p.next) :
            q = [division |-> Append(p.division, [from |-> p.next, length |-> t.length]),
                 next |-> t.next]
      BY <3>1
    <3>3. PICK ends : Divides(p.division, ends, i, text) /\ ends[i] = p.next
      BY <1>3
    <3> DEFINE ends2 == [j \in 0..(i + 1) |-> IF j = i + 1 THEN t.next ELSE ends[j]]
    <3>4. ends2[i + 1] = t.next
      BY <2>1
    <3>5. Divides(Append(p.division, [from |-> ends[i], length |-> t.length]), ends2, i + 1, text)
      BY <2>1, <3>3, DivideOneMore
    <3> HIDE DEF ends2
    <3> QED
      BY <3>2, <3>3, <3>4, <3>5
  <2> HIDE DEF Good
  <2> QED
    BY <2>1, <2>3
<1>4. 0..n \subseteq T
  <2> HIDE DEF T
  <2> QED
    BY <1>2, <1>3, UpTo
<1>5. PICK p \in partial[n] : p.next = Len(text) + 1 /\ d = p.division
  BY <1>1
<1>6. Good(p, n)
  <2> HIDE DEF Good
  <2> QED
    BY <1>4
<1> QED
  BY <1>5, <1>6

\* Among divisions of the same pieces there is one that no other is tried before.
LEMMA PreferredIsDivision ==
  ASSUME NEW n \in Nat, NEW b \in Int, NEW D, D # {},
         \A d \in D : /\ DOMAIN d = 1..n
                      /\ \A i \in 1..n : d[i].length \in Int /\ d[i].length <= b
  PROVE  Preferred(D) \in D
<1> DEFINE Beats(e, d, i) == /\ e[i].length > d[i].length
                             /\ \A j \in 1..(i - 1) : e[j].length = d[j].length
           First(d, k) == \A e \in D : \A i \in 1..k : ~Beats(e, d, i)
           T == {k \in 0..n : \E d \in D : First(d, k)}
<1>1. 0 \in T
  <2>1. PICK d \in D : TRUE
    OBVIOUS
  <2>2. First(d, 0)
    OBVIOUS
  <2> HIDE DEF First
  <2>3. 0 \in 0..n
    OBVIOUS
  <2> QED
    BY <2>2, <2>3
<1>2. ASSUME NEW k \in 0..(n - 1), k \in T PROVE k + 1 \in T
  <2>1. k + 1 \in 1..n /\ k + 1 \in 0..n /\ (k + 1) - 1 = k
    OBVIOUS
  <2>2. PICK d \in D : First(d, k)
    BY <1>2
  <2> DEFINE Same == {e \in D : \A j \in 1..k : e[j].length = d[j].length}
             L == {e[k + 1].length : e \in Same}
  <2>3. d \in Same
    OBVIOUS
  <2>4. PICK m \in L : \A l \in L : l <= m
    <3>1. L \in SUBSET Int /\ \A l \in L : l <= b
      BY <2>1
    <3>2. L # {}
      BY <2>3
    <3> HIDE DEF L
    <3> QED
      BY <3>1, <3>2, Greatest
  <2>5. PICK c \in Same : m = c[k + 1].length
    OBVIOUS
  <2>6. ASSUME NEW e \in D, NEW i \in 1..(k + 1), Beats(e, c, i) PROVE FALSE
    <3>1. CASE i \in 1..k
      <4>1. \A j \in 1..i : c[j].length = d[j].length
        BY <3>1
      <4>2. \A j \in 1..(i - 1) : j \in 1..i
        OBVIOUS
      <4>3. Beats(e, d, i)
        BY <2>6, <4>1, <4>2
      <4> HIDE DEF Beats
      <4> QED
        BY <2>2, <3>1, <4>3
    <3>2. CASE i = k + 1
      <4>1. e \in Same
        <5>1. \A j \in 1..k : e[j].length = c[j].length
          BY <2>1, <2>6, <3>2
        <5> QED
          BY <5>1
      <4>2. e[k + 1].length > c[k + 1].length
        BY <2>6, <3>2
      <4>3. e[k + 1].length \in L
        BY <4>1
      <4>4. e[k + 1].length <= c[k + 1].length /\ e[k + 1].length \in Int /\ c[k + 1].length \in Int
        <5> HIDE DEF L
        <5> QED
          BY <2>1, <2>4, <2>5, <4>3
      <4> QED
        BY <4>2, <4>4
    <3> QED
      BY <3>1, <3>2
  <2>7. c \in D /\ First(c, k + 1)
    <3> HIDE DEF Beats
    <3> QED
      BY <2>6
  <2> HIDE DEF First
  <2> QED
    BY <2>1, <2>7
<1>3. n \in T
  <2>1. 0..n \subseteq T
    <3> HIDE DEF T
    <3> QED
      BY <1>1, <1>2, UpTo
  <2> HIDE DEF T
  <2> QED
    BY <2>1
<1>4. PICK d \in D : First(d, n)
  BY <1>3
<1>5. \A e \in D : ~TriedBefore(e, d)
  <2>1. ASSUME NEW e \in D, TriedBefore(e, d) PROVE FALSE
    <3>1. DOMAIN e = 1..n
      OBVIOUS
    <3>2. PICK i \in 1..n : Beats(e, d, i)
      BY <2>1, <3>1 DEF TriedBefore
    <3> HIDE DEF Beats
    <3> QED
      BY <1>4, <3>2
  <2> QED
    BY <2>1
<1> QED
  BY <1>4, <1>5 DEF Preferred

\* What boost::regex_match finds is a division of the path.
LEMMA MatchDivides ==
  ASSUME Len(finalRoute) \in Nat, NEW text, Len(text) \in Nat, Divisions(text) # {}
  PROVE  Preferred(Divisions(text)) \in Divisions(text)
<1> DEFINE n == Len(finalRoute)
<1>1. ASSUME NEW d \in Divisions(text)
      PROVE  /\ DOMAIN d = 1..n
             /\ \A i \in 1..n : d[i].length \in Int /\ d[i].length <= Len(text)
  <2>1. PICK ends : Divides(d, ends, n, text)
    BY DivisionsDivide
  <2>2. /\ d \in Seq(Part) /\ Len(d) = n
        /\ ends \in [0..n -> 1..(Len(text) + 1)]
        /\ \A i \in 1..n : [length |-> d[i].length, next |-> ends[i]] \in
                             Takes(finalRoute[i].piece, text, ends[i - 1])
    BY <2>1 DEF Divides
  <2>3. DOMAIN d = 1..n
    BY <2>2
  <2>4. ASSUME NEW i \in 1..n PROVE d[i].length \in Int /\ d[i].length <= Len(text)
    <3> DEFINE t == [length |-> d[i].length, next |-> ends[i]]
    <3>1. ends[i - 1] \in 1..(Len(text) + 1)
      <4>1. i - 1 \in 0..n
        OBVIOUS
      <4> QED
        BY <2>2, <4>1
    <3>2. t \in Takes(finalRoute[i].piece, text, ends[i - 1]) /\ t.length = d[i].length
      BY <2>2
    <3> HIDE DEF t
    <3>3. t.length \in Absent..Len(text)
      BY <3>1, <3>2, TakesInText
    <3> QED
      BY <3>2, <3>3 DEF Absent
  <2> QED
    BY <2>3, <2>4
<1> HIDE DEF n
<1>2. n \in Nat /\ Len(text) \in Int
  BY DEF n
<1> QED
  BY <1>1, <1>2, PreferredIsDivision

-----------------------------------------------------------------------------
(* Reading a form *)

\* The pieces of a text, and maps from keys to the lists of their values.
PieceLists == Seq(Seq(Character)) \ {<<>>}
Texts == Seq(UnescapedSet)
ValueLists == Seq(Texts) \ {<<>>}
FieldMaps == UNION {[K -> ValueLists] : K \in SUBSET Texts}

LEMMA CutHasType ==
  ASSUME NEW pieces \in PieceLists, NEW c \in Character
  PROVE  Cut(pieces, c) \in PieceLists
<1>1. pieces \in Seq(Seq(Character)) /\ Len(pieces) \in Nat /\ Len(pieces) \in 1..Len(pieces)
  BY DEF PieceLists
<1>2. CASE c = Amp
  <2>1. Append(pieces, <<>>) \in Seq(Seq(Character)) /\ Append(pieces, <<>>) # <<>>
    BY <1>1
  <2> QED
    BY <1>2, <2>1 DEF Cut, PieceLists
<1>3. CASE c # Amp
  <2> DEFINE last == Append(pieces[Len(pieces)], c)
             new == [pieces EXCEPT ![Len(pieces)] = last]
  <2>1. last \in Seq(Character)
    BY <1>1
  <2> HIDE DEF last
  <2>2. new \in Seq(Seq(Character)) /\ Len(new) = Len(pieces)
    BY <1>1, <2>1, ExceptSeq
  <2>3. new # <<>>
    BY <1>1, <2>2
  <2> QED
    BY <1>3, <2>2, <2>3 DEF Cut, PieceLists, last
<1> QED
  BY <1>2, <1>3

\* Split looks at one character after the other.
LEMMA SplitSteps ==
  ASSUME NEW text \in Seq(Character)
  PROVE  \E pieces \in [0..Len(text) -> PieceLists] :
           /\ pieces[0] = <<<<>>>>
           /\ \A i \in 1..Len(text) : pieces[i] = Cut(pieces[i - 1], text[i])
           /\ Split(text) = pieces[Len(text)]
<1> DEFINE n == Len(text)
           step == [i \in 1..n |-> [p \in PieceLists |-> Cut(p, text[i])]]
           IsSplit(f) == f = [i \in 0..n |-> IF i = 0 THEN <<<<>>>> ELSE Cut(f[i - 1], text[i])]
           pieces == CHOOSE f : IsSplit(f)
<1>1. n \in Nat /\ \A i \in 1..n : text[i] \in Character
  OBVIOUS
<1>2. step \in Steps(n, PieceLists)
  BY <1>1, CutHasType DEF Steps
<1>3. \A i \in 1..n, p \in PieceLists : step[i][p] = Cut(p, text[i])
  OBVIOUS
<1>4. <<<<>>>> \in PieceLists
  BY DEF PieceLists
<1>5. Split(text) = pieces[n]
  BY DEF Split
<1> HIDE DEF step, n
<1>6. \E f : IsSplit(f)
  <2>1. PICK f : IsRun(f, n, PieceLists, <<<<>>>>, step)
    BY <1>1, <1>2, <1>4, Recursion
  <2>2. f \in [0..n -> PieceLists] /\ f[0] = <<<<>>>> /\ \A i \in 1..n : f[i] = step[i][f[i - 1]]
    BY <2>1 DEF IsRun
  <2>3. ASSUME NEW i \in 0..n, i # 0 PROVE f[i] = Cut(f[i - 1], text[i])
    <3>1. i \in 1..n /\ i - 1 \in 0..n
      BY <1>1, <2>3
    <3> QED
      BY <1>3, <2>2, <3>1
  <2>4. IsSplit(f)
    BY <2>2, <2>3
  <2> QED
    BY <2>4
<1>7. IsSplit(pieces)
  <2> HIDE DEF IsSplit
  <2> QED
    BY <1>6
<1> HIDE DEF pieces
<1>8. \A i \in 1..n : pieces[i] = Cut(pieces[i - 1], text[i])
  <2>1. \A i \in 1..n : i \in 0..n /\ i # 0
    BY <1>1
  <2> QED
    BY <1>7, <2>1
<1>9. pieces = [i \in 0..n |-> pieces[i]] /\ pieces[0] = <<<<>>>>
  BY <1>1, <1>7
<1>10. IsRun(pieces, n, PieceLists, <<<<>>>>, step)
  <2> HIDE DEF IsSplit
  <2>1. \A i \in 1..n : pieces[i - 1] \in PieceLists => pieces[i] = step[i][pieces[i - 1]]
    BY <1>3, <1>8
  <2> QED
    BY <1>1, <1>2, <1>4, <1>9, <2>1, TakesSteps
<1> QED
  BY <1>5, <1>8, <1>9, <1>10 DEF IsRun, n

\* The key and the value of a piece: what is before and behind its first "=".
LEMMA KeyValueOfPiece ==
  ASSUME NEW piece \in Seq(Character)
  PROVE  \/ At(piece, Eq) = {} /\ KeyValue(piece) = <<piece, <<>>>>
         \/ \E i \in At(piece, Eq) :
              /\ \A j \in At(piece, Eq) : i <= j
              /\ KeyValue(piece) = <<SubSeq(piece, 1, i - 1), SubSeq(piece, i + 1, Len(piece))>>
<1>1. CASE At(piece, Eq) = {}
  BY <1>1 DEF KeyValue
<1>2. CASE At(piece, Eq) # {}
  <2>1. At(piece, Eq) \in SUBSET Nat
    BY DEF At
  <2>2. \E m \in At(piece, Eq) : \A k \in At(piece, Eq) : m <= k
    BY <1>2, <2>1, LeastNat
  <2>3. /\ Min(At(piece, Eq)) \in At(piece, Eq)
        /\ \A k \in At(piece, Eq) : Min(At(piece, Eq)) <= k
    BY <2>2 DEF Min
  <2>4. KeyValue(piece) = <<SubSeq(piece, 1, Min(At(piece, Eq)) - 1),
                            SubSeq(piece, Min(At(piece, Eq)) + 1, Len(piece))>>
    BY <1>2 DEF KeyValue
  <2> QED
    BY <2>3, <2>4
<1> QED
  BY <1>1, <1>2

LEMMA UnescapeOrRawHasType ==
  ASSUME NEW text \in Seq(Character), NEW mode
  PROVE  UnescapeOrRaw(text, mode) \in Texts /\ Len(UnescapeOrRaw(text, mode)) = Len(text)
<1>1. text \in Texts
  <2>1. Character \subseteq UnescapedSet
    BY DEF UnescapedSet
  <2> QED
    BY <2>1, SeqMonotonic DEF Texts
<1> QED
  BY <1>1, UnescapeHasLength DEF UnescapeOrRaw, Texts

LEMMA FieldHasType ==
  ASSUME NEW piece \in Seq(Character)
  PROVE  /\ KeyValue(piece)[1] \in Seq(Character) /\ KeyValue(piece)[2] \in Seq(Character)
         /\ Field(piece)[1] \in Texts /\ Field(piece)[2] \in Texts
<1>1. KeyValue(piece)[1] \in Seq(Character) /\ KeyValue(piece)[2] \in Seq(Character)
  <2>1. CASE KeyValue(piece) = <<piece, <<>>>>
    BY <2>1
  <2>2. ASSUME NEW i \in At(piece, Eq),
               KeyValue(piece) = <<SubSeq(piece, 1, i - 1), SubSeq(piece, i + 1, Len(piece))>>
        PROVE  KeyValue(piece)[1] \in Seq(Character) /\ KeyValue(piece)[2] \in Seq(Character)
    <3>1. i \in 1..Len(piece) /\ Len(piece) \in Nat
      BY DEF At
    <3>2. SubSeq(piece, 1, i - 1) \in Seq(Character) /\ SubSeq(piece, i + 1, Len(piece)) \in Seq(Character)
      BY <3>1
    <3> QED
      BY <2>2, <3>2
  <2> QED
    BY <2>1, <2>2, KeyValueOfPiece
<1>2. /\ Field(piece)[1] = UnescapeOrRaw(KeyValue(piece)[1], "QUERY")
      /\ Field(piece)[2] = UnescapeOrRaw(KeyValue(piece)[2], "QUERY")
  BY DEF Field
<1> QED
  BY <1>1, <1>2, UnescapeOrRawHasType

\* A pair is added at the end of the list of its key.
LEMMA PushBackHasType ==
  ASSUME NEW ret \in FieldMaps, NEW kvp, kvp[1] \in Texts, kvp[2] \in Texts
  PROVE  PushBack(ret, kvp) \in FieldMaps
<1> DEFINE new == PushBack(ret, kvp)
           K == DOMAIN ret \cup {kvp[1]}
<1>1. DOMAIN ret \subseteq Texts /\ \A k \in DOMAIN ret : ret[k] \in ValueLists
  BY DEF FieldMaps
<1>2. new = [k \in K |-> new[k]]
  BY DEF PushBack
<1>3. ASSUME NEW k \in K PROVE new[k] \in ValueLists
  <2> DEFINE old == IF k \in DOMAIN ret THEN ret[k] ELSE <<>>
             add == IF k = kvp[1] THEN <<kvp[2]>> ELSE <<>>
  <2>1. new[k] = old \o add
    BY DEF PushBack
  <2>2. old \in Seq(Texts) /\ add \in Seq(Texts)
    BY <1>1 DEF ValueLists
  <2>3. Len(old) # 0 \/ Len(add) # 0
    <3>1. \A l \in ValueLists : Len(l) # 0
      BY DEF ValueLists
    <3>2. Len(<<kvp[2]>>) = 1
      OBVIOUS
    <3>3. k \in DOMAIN ret \/ k = kvp[1]
      OBVIOUS
    <3> QED
      BY <1>1, <3>1, <3>2, <3>3
  <2> HIDE DEF old, add
  <2>4. old \o add \in Seq(Texts) /\ Len(old \o add) = Len(old) + Len(add) /\ Len(old) \in Nat /\ Len(add) \in Nat
    BY <2>2
  <2>5. old \o add # <<>>
    <3>1. Len(<<>>) = 0
      OBVIOUS
    <3> QED
      BY <2>3, <2>4, <3>1
  <2> QED
    BY <2>1, <2>4, <2>5 DEF ValueLists
<1>4. K \in SUBSET Texts
  BY <1>1
<1> HIDE DEF new, K
<1>5. new \in [K -> ValueLists]
  BY <1>2, <1>3
<1> QED
  BY <1>4, <1>5 DEF FieldMaps, new

LEMMA AddPieceHasType ==
  ASSUME NEW ret \in FieldMaps, NEW piece \in Seq(Character)
  PROVE  AddPiece(ret, piece) \in FieldMaps
BY FieldHasType, PushBackHasType DEF AddPiece

\* ParseUrlEncoded looks at one piece after the other.
LEMMA ParseSteps ==
  ASSUME NEW text \in Seq(Character)
  PROVE  \E ret \in [0..Len(Split(text)) -> FieldMaps] :
           /\ ret[0] = NoFields
           /\ \A i \in 1..Len(Split(text)) : ret[i] = AddPiece(ret[i - 1], Split(text)[i])
           /\ ParseUrlEncoded(text) = ret[Len(Split(text))]
<1> DEFINE pieces == Split(text)
           n == Len(pieces)
           step == [i \in 1..n |-> [r \in FieldMaps |-> AddPiece(r, pieces[i])]]
           IsRet(f) == f = [i \in 0..n |-> IF i = 0 THEN NoFields ELSE AddPiece(f[i - 1], pieces[i])]
           ret == CHOOSE f : IsRet(f)
<1>1. pieces \in PieceLists
  <2>1. Len(text) \in 0..Len(text)
    BY LenProperties
  <2> QED
    BY <2>1, SplitSteps
<1>2. n \in Nat /\ \A i \in 1..n : pieces[i] \in Seq(Character)
  <2> HIDE DEF pieces
  <2> QED
    BY <1>1 DEF PieceLists
<1>3. step \in Steps(n, FieldMaps)
  BY <1>2, AddPieceHasType DEF Steps
<1>4. \A i \in 1..n, r \in FieldMaps : step[i][r] = AddPiece(r, pieces[i])
  OBVIOUS
<1>5. NoFields \in FieldMaps
  <2>1. NoFields \in [{} -> ValueLists] /\ {} \in SUBSET Texts
    BY DEF NoFields
  <2> QED
    BY <2>1 DEF FieldMaps
<1>6. ParseUrlEncoded(text) = ret[n]
  BY DEF ParseUrlEncoded
<1> HIDE DEF step, n, pieces
<1>7. \E f : IsRet(f)
  <2>1. PICK f : IsRun(f, n, FieldMaps, NoFields, step)
    BY <1>2, <1>3, <1>5, Recursion
  <2>2. f \in [0..n -> FieldMaps] /\ f[0] = NoFields /\ \A i \in 1..n : f[i] = step[i][f[i - 1]]
    BY <2>1 DEF IsRun
  <2>3. ASSUME NEW i \in 0..n, i # 0 PROVE f[i] = AddPiece(f[i - 1], pieces[i])
    <3>1. i \in 1..n /\ i - 1 \in 0..n
      BY <1>2, <2>3
    <3> QED
      BY <1>4, <2>2, <3>1
  <2>4. IsRet(f)
    BY <2>2, <2>3
  <2> QED
    BY <2>4
<1>8. IsRet(ret)
  <2> HIDE DEF IsRet
  <2> QED
    BY <1>7
<1> HIDE DEF ret
<1>9. \A i \in 1..n : ret[i] = AddPiece(ret[i - 1], pieces[i])
  <2>1. \A i \in 1..n : i \in 0..n /\ i # 0
    BY <1>2
  <2> QED
    BY <1>8, <2>1
<1>10. ret = [i \in 0..n |-> ret[i]] /\ ret[0] = NoFields
  BY <1>2, <1>8
<1>11. IsRun(ret, n, FieldMaps, NoFields, step)
  <2> HIDE DEF IsRet
  <2>1. \A i \in 1..n : ret[i - 1] \in FieldMaps => ret[i] = step[i][ret[i - 1]]
    BY <1>4, <1>9
  <2> QED
    BY <1>2, <1>3, <1>5, <1>10, <2>1, TakesSteps
<1> QED
  BY <1>6, <1>9, <1>10, <1>11 DEF IsRun, n, pieces

\* No key without a value.
LEMMA ParsedHasType ==
  ASSUME NEW contentType, NEW text \in Seq(Character)
  PROVE  ParseRequest(contentType, text) \in FieldMaps
<1>1. NoFields \in FieldMaps
  <2>1. NoFields \in [{} -> ValueLists] /\ {} \in SUBSET Texts
    BY DEF NoFields
  <2> QED
    BY <2>1 DEF FieldMaps
<1>2. ParseUrlEncoded(text) \in FieldMaps
  <2>1. Split(text) \in PieceLists
    <3>1. Len(text) \in 0..Len(text)
      BY LenProperties
    <3> QED
      BY <3>1, SplitSteps
  <2>2. Len(Split(text)) \in 0..Len(Split(text))
    BY <2>1 DEF PieceLists
  <2> QED
    BY <2>2, ParseSteps
<1> QED
  BY <1>1, <1>2, Zenon DEF ParseRequest, ParseFormData

-----------------------------------------------------------------------------
(* From the path to the arguments *)

Matched == phase \notin {"none", "not matched"}
Called == phase \notin {"none", "not matched", "matched", "thrown"}

\* What the arguments are made of, and whether making them throws.
Results == [n \in DOMAIN function |-> HandlerArg(function[n], Group(n - 1))]
Fails == \E n \in DOMAIN function : Throws(function[n], Group(n - 1))

\* Requests come when the route is there, and what it has matched of the path
\* is a division of it.
MatchInv ==
  /\ route # "built" => phase = "none"
  /\ Matched => /\ path \in RequestPaths
                /\ \E text : text = UnescapedPath(path) /\ matches \in Divisions(text)
  /\ ~Matched => matches = <<>>

ArgumentsInv ==
  /\ Called => arguments = Results /\ ~Fails
  /\ ~Called => arguments = <<>>
  /\ phase = "thrown" => Fails

ReadInv ==
  /\ phase \in {"none", "not matched", "matched", "thrown", "called", "form read",
                "body thrown", "query read"}
  /\ body \in Bodies \cup {NoBody}
  /\ body # NoBody <=> phase \in {"form read", "body thrown"}
  /\ fields \in FieldMaps
  /\ phase # "query read" => query = NoFields /\ param = <<>> /\ answer = None
  /\ Len(answer) <= 1

LEMMA PathHasType ==
  ASSUME NEW p \in RequestPaths
  PROVE  /\ UnescapedPath(p) \in Texts /\ Len(UnescapedPath(p)) = Len(p) /\ Len(p) \in Nat
<1>1. p \in Seq(Character)
  BY RequestInputAssumption
<1> QED
  BY <1>1, UnescapeOrRawHasType, LenProperties DEF UnescapedPath

LEMMA FinalRouteHasLength ==
  ASSUME RouteInv
  PROVE  Len(finalRoute) \in Nat
<1>1. finalRoute \in Seq([piece : Parameters \cup {Literal}, group : Nat \cup {NoGroup}])
  BY DEF RouteInv, RouteTypeOK
<1> QED
  BY <1>1, LenProperties

\* Making the route is over before there is a request.
LEMMA MakeRouteIsFirst == MakeRoute => route # "built"
BY DEF MakeRoute, ParseMatch, Replace, AllReplaced, Compile, CheckParameters

LEMMA MatchPathKeeps ==
  ASSUME RouteInv, MatchInv, MatchPath
  PROVE  MatchInv'
<1>1. /\ route = "built" /\ phase = "none" /\ UNCHANGED routeVars
      /\ \E p \in RequestPaths :
           /\ path' = p
           /\ \/ phase' = "not matched" /\ matches' = matches
              \/ /\ phase' = "matched" /\ Divisions(UnescapedPath(p)) # {}
                 /\ matches' = Preferred(Divisions(UnescapedPath(p)))
  BY Zenon DEF MatchPath
<1>2. matches = <<>>
  BY <1>1, Zenon DEF MatchInv, Matched
<1>3. route' = "built"
  BY <1>1 DEF routeVars
<1>4. CASE phase' = "not matched" /\ matches' = matches
  <2>1. ~Matched'
    BY <1>4, Zenon DEF Matched
  <2> QED
    BY <1>2, <1>3, <1>4, <2>1, Zenon DEF MatchInv
<1>5. ASSUME NEW p \in RequestPaths, path' = p, phase' = "matched",
             Divisions(UnescapedPath(p)) # {},
             matches' = Preferred(Divisions(UnescapedPath(p)))
      PROVE  MatchInv'
  <2> DEFINE text == UnescapedPath(p)
  <2>1. Len(text) \in Nat
    BY PathHasType
  <2>2. matches' \in Divisions(text)
    BY <1>5, <2>1, FinalRouteHasLength, MatchDivides
  <2>3. Divisions(text)' = Divisions(text)
    <3>1. finalRoute' = finalRoute
      BY <1>1 DEF routeVars
    <3> HIDE DEF text
    <3> QED
      BY <3>1 DEF Divisions
  <2>4. Matched'
    BY <1>5, Zenon DEF Matched
  <2>5. \E t : t = UnescapedPath(path') /\ (matches \in Divisions(t))'
    <3>1. text = UnescapedPath(path') /\ (matches \in Divisions(text))'
      BY <1>5, <2>2, <2>3
    <3> QED
      BY <3>1
  <2> QED
    BY <1>3, <1>5, <2>4, <2>5, Zenon DEF MatchInv
<1> QED
  BY <1>1, <1>4, <1>5, Zenon

\* What has been matched stays.
LEMMA KeepsMatch ==
  ASSUME MatchInv, UNCHANGED <<finalRoute, route, path, matches>>,
         Matched' <=> Matched, phase # "none" \/ phase' = "none"
  PROVE  MatchInv'
<1>1. ASSUME NEW text PROVE Divisions(text)' = Divisions(text)
  BY DEF Divisions
<1> QED
  BY <1>1 DEF MatchInv

\* So do the results and the arguments.
LEMMA KeepsArguments ==
  ASSUME ArgumentsInv, UNCHANGED <<function, finalRoute, path, matches, arguments>>,
         Called' <=> Called, phase' = "thrown" => phase = "thrown"
  PROVE  ArgumentsInv'
<1>1. ASSUME NEW n PROVE Group(n)' = Group(n)
  BY DEF Group
<1>2. Results' = Results
  BY <1>1 DEF Results
<1>3. Fails' <=> Fails
  BY <1>1 DEF Fails
<1> QED
  BY <1>2, <1>3 DEF ArgumentsInv

LEMMA CallHandlerKeeps ==
  ASSUME MatchInv, ArgumentsInv, CallHandler
  PROVE  MatchInv' /\ ArgumentsInv'
<1>1. /\ UNCHANGED <<routeVars, path, matches>> /\ phase = "matched"
      /\ \/ phase' = "thrown" /\ Fails /\ arguments' = arguments
         \/ phase' = "called" /\ ~Fails /\ arguments' = Results
  BY DEF CallHandler, Fails, Results
<1>2. UNCHANGED <<function, finalRoute, route, path, matches>>
  BY <1>1 DEF routeVars
<1>3. ASSUME NEW n PROVE Group(n)' = Group(n)
  BY <1>2 DEF Group
<1>4. Results' = Results /\ (Fails' <=> Fails)
  BY <1>2, <1>3 DEF Results, Fails
<1>5. Matched' /\ Matched /\ ~Called
  BY <1>1, Zenon DEF Matched, Called
<1>6. MatchInv'
  BY <1>1, <1>2, <1>5, KeepsMatch
<1>7. ArgumentsInv'
  <2>1. arguments = <<>>
    BY <1>5 DEF ArgumentsInv
  <2>2. CASE phase' = "thrown" /\ Fails /\ arguments' = arguments
    <3>1. ~Called'
      BY <2>2 DEF Called
    <3> QED
      BY <1>4, <2>1, <2>2, <3>1 DEF ArgumentsInv
  <2>3. CASE phase' = "called" /\ ~Fails /\ arguments' = Results
    <3>1. Called'
      BY <2>3, Zenon DEF Called
    <3> QED
      BY <1>4, <2>3, <3>1 DEF ArgumentsInv
  <2> QED
    BY <1>1, <2>2, <2>3
<1> QED
  BY <1>6, <1>7

InputInv == RouteInv /\ MatchInv /\ ArgumentsInv /\ ReadInv

LEMMA InputInitial == Init => InputInv
<1> SUFFICES ASSUME Init PROVE InputInv
  OBVIOUS
<1>1. /\ RouteInit /\ phase = "none" /\ matches = <<>> /\ arguments = <<>> /\ body = NoBody
      /\ fields = NoFields /\ query = NoFields /\ param = <<>> /\ answer = None
  BY DEF Init
<1>2. RouteInv
  BY <1>1, RouteInitial
<1>3. ~Matched /\ ~Called
  BY <1>1 DEF Matched, Called
<1>4. MatchInv /\ ArgumentsInv
  BY <1>1, <1>3 DEF MatchInv, ArgumentsInv
<1>5. NoFields \in FieldMaps
  <2>1. NoFields \in [{} -> ValueLists] /\ {} \in SUBSET Texts
    BY DEF NoFields
  <2> QED
    BY <2>1 DEF FieldMaps
<1>6. Len(answer) <= 1
  BY <1>1 DEF None
<1>7. ReadInv
  BY <1>1, <1>5, <1>6, Zenon DEF ReadInv
<1> QED
  BY <1>2, <1>4, <1>7 DEF InputInv

LEMMA AnswerIsOptional ==
  ASSUME NEW q, NEW k, NEW a \in QueryParam(q, k)
  PROVE  Len(a) <= 1
<1>1. a = None \/ \E v : a = Some(v)
  BY Zenon DEF QueryParam
<1>2. ASSUME NEW v, a = Some(v) PROVE Len(a) <= 1
  <2>1. Len(<<v>>) = 1
    OBVIOUS
  <2> QED
    BY <1>2, <2>1 DEF Some
<1>3. ASSUME a = None PROVE Len(a) <= 1
  <2>1. Len(<<>>) = 0
    OBVIOUS
  <2> QED
    BY <1>3, <2>1 DEF None
<1> QED
  BY <1>1, <1>2, <1>3

\* Reading the body or the query.
LEMMA ReadKeeps ==
  ASSUME MatchInv, ArgumentsInv, ReadInv, Reads,
         (\E b \in Bodies : ReadForm(b)) \/ (\E q \in Queries, k \in Params : ReadQuery(q, k))
  PROVE  MatchInv' /\ ArgumentsInv' /\ ReadInv'
<1>1. /\ phase = "called" /\ phase' \in {"body thrown", "form read", "query read"}
      /\ UNCHANGED <<routeVars, path, matches, arguments>>
  BY Zenon DEF Reads, ReadForm, ReadQuery
<1>2. UNCHANGED <<function, finalRoute, route, path, matches, arguments>>
  BY <1>1 DEF routeVars
<1>3. Matched /\ Matched' /\ Called /\ Called'
  BY <1>1, Zenon DEF Matched, Called
<1>4. phase # "none" /\ phase' # "thrown"
  BY <1>1, Zenon
<1>5. MatchInv' /\ ArgumentsInv'
  BY <1>2, <1>3, <1>4, KeepsMatch, KeepsArguments
<1>6. /\ body = NoBody /\ fields \in FieldMaps /\ Len(answer) <= 1
      /\ query = NoFields /\ param = <<>> /\ answer = None
  BY <1>1, Zenon DEF ReadInv
<1>7. ASSUME NEW b \in Bodies, ReadForm(b) PROVE ReadInv'
  <2>1. /\ body' = b /\ phase' \in {"body thrown", "form read"}
        /\ \/ fields' = fields
           \/ fields' = ParseRequest(b.contentType, BufferToString(b.chain).text)
        /\ UNCHANGED <<query, param, answer>>
    BY <1>7, Zenon DEF ReadForm
  <2>2. b # NoBody
    <3>1. b.chain # <<>> /\ NoBody.chain = <<>>
      BY RequestInputAssumption DEF NoBody
    <3> QED
      BY <3>1
  <2>3. fields' \in FieldMaps
    <3>1. b.chain \in Seq(Seq(Character))
      BY RequestInputAssumption
    <3>2. BufferToString(b.chain) \in Buffers
      <4>1. Len(b.chain) \in 0..Len(b.chain)
        BY <3>1, LenProperties
      <4> QED
        BY <3>1, <4>1, BufferSteps
    <3>3. BufferToString(b.chain).text \in Seq(Character)
      BY <3>2 DEF Buffers
    <3> QED
      BY <1>6, <2>1, <3>3, ParsedHasType
  <2>4. /\ body' \in Bodies \cup {NoBody} /\ Len(answer') <= 1
        /\ query' = NoFields /\ param' = <<>> /\ answer' = None
    BY <1>6, <2>1
  <2>5. /\ phase' \in {"none", "not matched", "matched", "thrown", "called", "form read",
                       "body thrown", "query read"}
        /\ body' # NoBody <=> phase' \in {"form read", "body thrown"}
    BY <2>1, <2>2, Zenon
  <2> QED
    BY <2>3, <2>4, <2>5, Zenon DEF ReadInv
<1>8. ASSUME NEW q \in Queries, NEW k \in Params, ReadQuery(q, k) PROVE ReadInv'
  <2>1. phase' = "query read" /\ UNCHANGED <<body, fields>> /\ answer' \in QueryParam(q, k)
    BY <1>8 DEF ReadQuery
  <2>2. Len(answer') <= 1
    BY <2>1, AnswerIsOptional, Zenon
  <2>3. /\ phase' \in {"none", "not matched", "matched", "thrown", "called", "form read",
                       "body thrown", "query read"}
        /\ phase' \notin {"form read", "body thrown"}
    BY <2>1, Zenon
  <2> QED
    BY <1>6, <2>1, <2>2, <2>3, Zenon DEF ReadInv
<1> QED
  BY <1>5, <1>7, <1>8

LEMMA InputStep == InputInv /\ [Next]_vars => InputInv'
<1> SUFFICES ASSUME InputInv, [Next]_vars PROVE InputInv'
  OBVIOUS
<1>1. RouteInv /\ MatchInv /\ ArgumentsInv /\ ReadInv
  BY DEF InputInv
<1>2. RouteInv'
  BY <1>1, RouteInvStep
<1>3. ASSUME UNCHANGED inputVars, route = "built" => UNCHANGED routeVars
      PROVE  MatchInv' /\ ArgumentsInv' /\ ReadInv'
  <2>1. UNCHANGED <<phase, path, matches, arguments, body, fields, query, param, answer>>
    BY <1>3 DEF inputVars
  <2>2. ReadInv'
    BY <1>1, <2>1, Zenon DEF ReadInv
  <2>3. (Matched' <=> Matched) /\ (Called' <=> Called)
    BY <2>1 DEF Matched, Called
  <2>4. CASE route = "built"
    <3>1. UNCHANGED <<function, finalRoute, route>>
      BY <1>3, <2>4 DEF routeVars
    <3> QED
      BY <1>1, <2>1, <2>2, <2>3, <3>1, KeepsMatch, KeepsArguments
  <2>5. CASE route # "built"
    <3>1. phase = "none"
      BY <1>1, <2>5 DEF MatchInv
    <3>2. ~Matched /\ ~Called /\ phase # "thrown"
      BY <3>1, Zenon DEF Matched, Called
    <3>3. matches = <<>> /\ arguments = <<>>
      BY <1>1, <3>2, Zenon DEF MatchInv, ArgumentsInv
    <3>4. MatchInv'
      BY <2>1, <2>3, <3>1, <3>2, <3>3, Zenon DEF MatchInv
    <3>5. ArgumentsInv'
      BY <2>1, <2>3, <3>1, <3>2, <3>3, Zenon DEF ArgumentsInv
    <3> QED
      BY <2>2, <3>4, <3>5
  <2> QED
    BY <2>4, <2>5
<1>4. CASE MakeRoute /\ UNCHANGED inputVars
  BY <1>2, <1>3, <1>4, MakeRouteIsFirst DEF InputInv
<1>5. CASE UNCHANGED vars
  <2>1. UNCHANGED inputVars /\ UNCHANGED routeVars
    BY <1>5 DEF vars
  <2> QED
    BY <1>2, <1>3, <2>1 DEF InputInv
<1>6. CASE MatchPath
  <2>1. /\ UNCHANGED <<routeVars, arguments, body, fields, query, param, answer>>
        /\ phase = "none" /\ phase' \in {"not matched", "matched"}
    BY <1>6, Zenon DEF MatchPath
  <2>2. MatchInv'
    BY <1>1, <1>6, MatchPathKeeps
  <2>3. ~Called /\ ~Called' /\ phase' # "thrown"
    BY <2>1, Zenon DEF Called
  <2>4. arguments' = <<>>
    BY <1>1, <2>1, <2>3, Zenon DEF ArgumentsInv
  <2>5. ArgumentsInv'
    BY <2>3, <2>4, Zenon DEF ArgumentsInv
  <2>6. ReadInv'
    BY <1>1, <2>1, Zenon DEF ReadInv
  <2> QED
    BY <1>2, <2>2, <2>5, <2>6 DEF InputInv
<1>7. CASE CallHandler
  <2>1. /\ UNCHANGED <<body, fields, query, param, answer>>
        /\ phase = "matched" /\ phase' \in {"thrown", "called"}
    BY <1>7, Zenon DEF CallHandler
  <2>2. ReadInv'
    BY <1>1, <2>1, Zenon DEF ReadInv
  <2> QED
    BY <1>1, <1>2, <1>7, <2>2, CallHandlerKeeps DEF InputInv
<1>8. ASSUME Reads, (\E b \in Bodies : ReadForm(b)) \/ (\E q \in Queries, k \in Params : ReadQuery(q, k))
      PROVE  InputInv'
  BY <1>1, <1>2, <1>8, ReadKeeps DEF InputInv
<1> QED
  BY <1>4, <1>5, <1>6, <1>7, <1>8 DEF Next

LEMMA InputInvariant == Spec => []InputInv
BY InputInitial, InputStep, PTL DEF Spec

\* InputTypeOK.
THEOREM InputTypeCorrect == Spec => []InputTypeOK
<1>1. InputInv => InputTypeOK
  <2> SUFFICES ASSUME InputInv PROVE InputTypeOK
    OBVIOUS
  <2>1. RouteInv /\ MatchInv /\ ArgumentsInv /\ ReadInv /\ RouteTypeOK
    BY DEF InputInv, RouteInv
  <2>2. \A i \in DOMAIN matches :
          /\ matches[i].from \in 1..(Len(path) + 1)
          /\ matches[i].length \in Absent..Len(path)
    <3>1. CASE ~Matched
      BY <2>1, <3>1 DEF MatchInv
    <3>2. CASE Matched
      <4>1. path \in RequestPaths
        BY <2>1, <3>2 DEF MatchInv
      <4>2. PICK text : text = UnescapedPath(path) /\ matches \in Divisions(text)
        BY <2>1, <3>2 DEF MatchInv
      <4>3. Len(text) = Len(path) /\ Len(text) \in Nat /\ Len(finalRoute) \in Nat
        BY <2>1, <4>1, <4>2, PathHasType, FinalRouteHasLength
      <4>4. PICK ends : Divides(matches, ends, Len(finalRoute), text)
        BY <4>2, <4>3, DivisionsDivide
      <4>5. /\ DOMAIN matches = 1..Len(finalRoute)
            /\ \A i \in 0..Len(finalRoute) : ends[i] \in 1..(Len(text) + 1)
            /\ \A i \in 1..Len(finalRoute) :
                 /\ matches[i].from = ends[i - 1]
                 /\ [length |-> matches[i].length, next |-> ends[i]] \in
                      Takes(finalRoute[i].piece, text, ends[i - 1])
        BY <4>4 DEF Divides
      <4>6. ASSUME NEW i \in 1..Len(finalRoute)
            PROVE  matches[i].from \in 1..(Len(path) + 1) /\ matches[i].length \in Absent..Len(path)
        <5> DEFINE t == [length |-> matches[i].length, next |-> ends[i]]
        <5>1. ends[i - 1] \in 1..(Len(text) + 1)
          <6>1. i - 1 \in 0..Len(finalRoute)
            BY <4>3
          <6> QED
            BY <4>5, <6>1
        <5>2. t \in Takes(finalRoute[i].piece, text, ends[i - 1]) /\ t.length = matches[i].length
          BY <4>5
        <5> HIDE DEF t
        <5>3. t.length \in Absent..Len(text)
          BY <4>3, <5>1, <5>2, TakesInText
        <5> QED
          BY <4>3, <4>5, <5>1, <5>2, <5>3
      <4> QED
        BY <4>5, <4>6
    <3> QED
      BY <3>1, <3>2
  <2>3. DOMAIN arguments = IF phase \in {"none", "not matched", "matched", "thrown"}
                           THEN {} ELSE DOMAIN function
    <3>1. CASE Called
      BY <2>1, <3>1, Zenon DEF Called, ArgumentsInv, Results
    <3>2. CASE ~Called
      <4>1. arguments = <<>> /\ DOMAIN <<>> = {}
        BY <2>1, <3>2 DEF ArgumentsInv
      <4> QED
        BY <3>2, <4>1, Zenon DEF Called
    <3> QED
      BY <3>1, <3>2
  <2>4. \A k \in DOMAIN fields : fields[k] # <<>>
    <3>1. fields \in FieldMaps
      BY <2>1 DEF ReadInv
    <3> QED
      BY <3>1 DEF FieldMaps, ValueLists
  <2> QED
    BY <2>1, <2>2, <2>3, <2>4, Zenon DEF ReadInv, InputTypeOK
<1> QED
  BY <1>1, InputInvariant, PTL

-----------------------------------------------------------------------------
(* Arguments spell the path *)

\* The largest int64_t stands in no path.
NoMax(text) == \A i \in DOMAIN text : text[i].char # "max"

LEMMA PathHasNoMax ==
  ASSUME NEW p \in RequestPaths
  PROVE  NoMax(UnescapedPath(p))
<1>1. \A i \in DOMAIN p : p[i].char # "max"
  BY RequestInputAssumption
<1>2. CASE Unescapable(p)
  <2>1. UnescapedPath(p) = Unescape(p, "PATH")
    BY <1>2 DEF UnescapedPath, UnescapeOrRaw
  <2>2. Unescape(p, "PATH") = [i \in DOMAIN p |-> Plain(p[i].char)]
    BY Zenon DEF Unescape
  <2>3. \A i \in DOMAIN p : Plain(p[i].char).char = p[i].char
    BY DEF Plain
  <2> QED
    BY <1>1, <2>1, <2>2, <2>3 DEF NoMax
<1>3. CASE ~Unescapable(p)
  BY <1>1, <1>3 DEF UnescapedPath, UnescapeOrRaw, NoMax
<1> QED
  BY <1>2, <1>3

LEMMA PartHasNoMax ==
  ASSUME NEW text \in Texts, NoMax(text), NEW m \in Nat \ {0}, NEW n \in 0..Len(text)
  PROVE  SubSeq(text, m, n) # MaxInt
<1> DEFINE s == SubSeq(text, m, n)
<1>1. SUFFICES ASSUME s = MaxInt PROVE FALSE
  OBVIOUS
<1>2. Len(s) = 1 /\ s[1].char = "max"
  BY <1>1 DEF MaxInt, Plain
<1>3. Len(text) \in Nat /\ DOMAIN text = 1..Len(text) /\ text \in Seq(UnescapedSet)
  BY DEF Texts
<1>4. Len(s) = IF m <= n THEN n - m + 1 ELSE 0
  BY <1>3
<1>5. m \in 1..Len(text) /\ s[1] = text[m]
  BY <1>2, <1>3, <1>4
<1> QED
  BY <1>2, <1>3, <1>5 DEF NoMax

\* The pieces of a pattern that need a value consume nothing after it.
LEMMA RequiredConsumesNothing ==
  ASSUME NEW piece \in PieceSet, ~piece.optional
  PROVE  Consumed(piece) = <<>>
<1>1. piece.consumed = ""
  <2>1. ASSUME piece \in Parameters PROVE piece.consumed = ""
    BY <2>1 DEF Parameters
  <2>2. ASSUME piece = Literal PROVE piece.consumed = ""
    BY <2>2 DEF Literal
  <2> QED
    BY <2>1, <2>2 DEF PieceSet
<1> QED
  BY <1>1, Zenon DEF Consumed

LEMMA ConsumedIsText ==
  ASSUME NEW piece
  PROVE  /\ Consumed(piece) = <<>> \/ Consumed(piece) = <<Plain("/")>>
         /\ Len(Consumed(piece)) \in Nat
<1>1. Consumed(piece) = <<>> \/ Consumed(piece) = <<Plain("/")>>
  BY Zenon DEF Consumed
<1>2. Len(<<>>) = 0 /\ \A c : Len(<<c>>) = 1
  OBVIOUS
<1> QED
  BY <1>1, <1>2

\* Nothing, or a value with what is consumed after it.
LEMMA PieceTakes ==
  ASSUME NEW piece, NEW text \in Texts, NEW from \in 1..(Len(text) + 1),
         NEW t \in Takes(piece, text, from)
  PROVE  \/ t.length = Absent /\ t.next = from /\ (piece.optional \/ piece.wrapped)
         \/ LET value == SubSeq(text, from, from + t.length - 1)
            IN  /\ t.length \in 0..(Len(text) + 1 - from)
                /\ Len(value) = t.length
                /\ InLanguage(ExpressionOf(piece), value)
                /\ SubSeq(text, from, t.next - 1) = value \o Consumed(piece)
<1> DEFINE c == Len(Consumed(piece))
<1>1. c \in Nat
  BY ConsumedIsText
<1>2. Len(text) \in Nat /\ text \in Seq(UnescapedSet)
  BY DEF Texts
<1> HIDE DEF c
<1>3. CASE t = [length |-> Absent, next |-> from] /\ (piece.optional \/ piece.wrapped)
  BY <1>3
<1>4. ASSUME NEW n \in 0..(Len(text) + 1 - from - c),
             t = [length |-> n, next |-> from + n + c],
             InLanguage(ExpressionOf(piece), SubSeq(text, from, from + n - 1)),
             SubSeq(text, from + n, from + n + c - 1) = Consumed(piece)
      PROVE  LET value == SubSeq(text, from, from + t.length - 1)
             IN  /\ t.length \in 0..(Len(text) + 1 - from)
                 /\ Len(value) = t.length
                 /\ InLanguage(ExpressionOf(piece), value)
                 /\ SubSeq(text, from, t.next - 1) = value \o Consumed(piece)
  <2> DEFINE k == from + n - 1
             l == from + n + c - 1
  <2>1. /\ k \in (from - 1)..Len(text) /\ l \in k..Len(text) /\ k + 1 = from + n
        /\ n \in 0..(Len(text) + 1 - from) /\ k - from + 1 = n /\ (from <= k <=> n # 0)
    BY <1>1, <1>2
  <2>2. t.length = n /\ t.next - 1 = l
    BY <1>1, <1>4
  <2>3. InLanguage(ExpressionOf(piece), SubSeq(text, from, k)) /\ SubSeq(text, k + 1, l) = Consumed(piece)
    BY <1>4, <2>1
  <2> HIDE DEF k, l
  <2>4. SubSeq(text, from, l) = SubSeq(text, from, k) \o SubSeq(text, k + 1, l)
    BY <1>2, <2>1, ConcatAdjacentSubSeq
  <2>5. Len(SubSeq(text, from, k)) = n
    <3>1. \A i \in from..k : text[i] \in UnescapedSet
      BY <1>2, <2>1
    <3>2. from \in Int /\ k \in Int
      BY <1>2, <2>1
    <3>3. Len(SubSeq(text, from, k)) = IF from <= k THEN k - from + 1 ELSE 0
      BY <3>1, <3>2, SubSeqProperties
    <3> QED
      BY <2>1, <3>3
  <2> QED
    BY <2>1, <2>2, <2>3, <2>4, <2>5 DEF k
<1> QED
  BY <1>3, <1>4 DEF Takes, c

LEMMA NothingIsSpelled ==
  ASSUME NEW piece \in Parameters, piece.optional \/ piece.wrapped, Len(path) \in Nat
  PROVE  <<>> \in Spelled(piece, HandlerArg(TypeOf(piece), None))
<1>1. piece \in PieceSet /\ piece.optional \in BOOLEAN
  BY DEF PieceSet, Parameters
<1>2. CASE piece.optional
  <2>1. HandlerArg(TypeOf(piece), None) = None
    BY <1>2 DEF HandlerArg, TypeOf
  <2> QED
    BY <1>2, <2>1 DEF Spelled
<1>3. CASE ~piece.optional
  <2> DEFINE arg == IF piece.kind = "int" THEN ToInt(<<>>) ELSE <<>>
  <2>1. HandlerArg(TypeOf(piece), None) = arg
    BY <1>3 DEF HandlerArg, TypeOf, Text
  <2>2. Consumed(piece) = <<>>
    BY <1>1, <1>3, RequiredConsumesNothing
  <2>3. ToInt(<<>>) = MaxInt
    BY DEF ToInt
  <2>4. MayBe(arg, piece, <<>>)
    BY <1>3, <2>3 DEF MayBe
  <2>5. Some(arg) # None /\ Some(arg)[1] = arg
    BY DEF Some, None
  <2>6. <<>> \in SeqOf(Digits, Len(path))
    <3>1. <<>> \in [1..0 -> Digits] /\ 0 \in 0..Len(path)
      OBVIOUS
    <3> QED
      BY <3>1 DEF SeqOf
  <2> HIDE DEF arg
  <2>7. <<>> \o Consumed(piece) \in Spelled(piece, arg)
    BY <1>3, <2>4, <2>5, <2>6 DEF Spelled
  <2>8. <<>> \o <<>> = <<>>
    OBVIOUS
  <2> QED
    BY <2>1, <2>2, <2>7, <2>8
<1> QED
  BY <1>1, <1>2, <1>3

LEMMA ValueIsSpelled ==
  ASSUME NEW piece \in Parameters, NEW value \in Texts, value # MaxInt, Len(value) <= Len(path),
         Len(path) \in Nat, InLanguage(ExpressionOf(piece), value)
  PROVE  value \o Consumed(piece) \in Spelled(piece, HandlerArg(TypeOf(piece), Some(value)))
<1> DEFINE arg == IF piece.kind = "int" THEN ToInt(value) ELSE value
           option == IF piece.optional THEN HandlerArg(TypeOf(piece), Some(value))
                     ELSE Some(HandlerArg(TypeOf(piece), Some(value)))
<1>1. Some(value) # None /\ Text(Some(value)) = value /\ Some(arg) # None /\ Some(arg)[1] = arg
  BY DEF Some, None, Text
<1> HIDE DEF arg
<1>2. option = Some(arg)
  <2>1. HandlerArg(TypeOf(piece), Some(value)) = IF piece.optional THEN Some(arg) ELSE arg
    BY <1>1 DEF HandlerArg, TypeOf, arg
  <2> QED
    BY <2>1
<1>3. value \in SeqOf(Digits, Len(path)) \cup {arg} /\ MayBe(arg, piece, value)
  <2>1. CASE piece.kind # "int"
    BY <2>1 DEF arg, MayBe
  <2>2. CASE piece.kind = "int"
    <3>1. IsNumber(value)
      BY <2>2 DEF ExpressionOf, InLanguage
    <3>2. value # <<>> /\ \A i \in DOMAIN value : value[i] \in Digits
      BY <3>1 DEF IsNumber
    <3>3. CASE Len(value) <= MaxDigits
      <4>1. arg = value
        BY <2>2, <3>2, <3>3 DEF arg, ToInt
      <4> QED
        BY <4>1 DEF MayBe
    <3>4. CASE ~(Len(value) <= MaxDigits)
      <4>1. arg = MaxInt
        BY <2>2, <3>4 DEF arg, ToInt
      <4>2. Len(value) > MaxDigits
        <5>1. Len(value) \in Nat /\ MaxDigits \in Nat
          BY RequestInputAssumption, LenProperties DEF Texts
        <5> QED
          BY <3>4, <5>1
      <4>3. value \in SeqOf(Digits, Len(path))
        <5>1. Len(value) \in Nat /\ value \in [1..Len(value) -> UnescapedSet]
          BY LenProperties DEF Texts
        <5>2. value \in [1..Len(value) -> Digits]
          BY <3>2, <5>1
        <5>3. Len(value) \in 0..Len(path)
          BY <5>1
        <5> QED
          BY <5>2, <5>3 DEF SeqOf
      <4> QED
        BY <3>1, <4>1, <4>2, <4>3 DEF MayBe
    <3> QED
      BY <3>3, <3>4
  <2> QED
    BY <2>1, <2>2
<1>4. Spelled(piece, HandlerArg(TypeOf(piece), Some(value))) =
        IF option = None THEN {<<>>}
        ELSE {s \o Consumed(piece) :
                s \in {n \in SeqOf(Digits, Len(path)) \cup {option[1]} : MayBe(option[1], piece, n)}}
  BY DEF Spelled
<1> HIDE DEF option
<1> QED
  BY <1>1, <1>2, <1>3, <1>4

\* A literal takes itself.
LEMMA LiteralIsSpelled ==
  ASSUME NEW text \in Texts, NEW from \in 1..(Len(text) + 1), NEW t \in Takes(Literal, text, from)
  PROVE  SubSeq(text, from, t.next - 1) = <<Plain("/")>>
<1> DEFINE value == SubSeq(text, from, from + t.length - 1)
           slash == <<Plain("/")>>
<1>1. ~Literal.optional /\ ~Literal.wrapped /\ Literal \in PieceSet
  BY DEF Literal, PieceSet
<1>2. /\ InLanguage(ExpressionOf(Literal), value)
      /\ SubSeq(text, from, t.next - 1) = value \o Consumed(Literal)
  BY <1>1, PieceTakes
<1>3. Consumed(Literal) = <<>>
  BY <1>1, RequiredConsumesNothing
<1>4. value = slash
  BY <1>2 DEF ExpressionOf, Literal, InLanguage
<1>5. slash \o <<>> = slash
  OBVIOUS
<1> QED
  BY <1>2, <1>3, <1>4, <1>5

\* On a route that exists, what stands in the group of a parameter's own number.
LEMMA BuiltRoute ==
  ASSUME RouteInv, route = "built"
  PROVE  /\ pattern \in Seq(PieceSet) /\ Len(pattern) \in Nat /\ DOMAIN pattern = 1..Len(pattern)
         /\ finalRoute = [i \in 1..Len(pattern) |->
                            [piece |-> pattern[i],
                             group |-> IF IsParameter(pattern[i])
                                       THEN ParametersBefore(pattern, i) ELSE NoGroup]]
         /\ Len(finalRoute) = Len(pattern)
         /\ \A i \in 1..Len(pattern) : ParametersBefore(pattern, i) \in Nat
<1>1. /\ pattern \in Seq(PieceSet) /\ Len(pattern) \in Nat /\ DOMAIN pattern = 1..Len(pattern)
      /\ \A i \in 1..Len(pattern) : ParametersBefore(pattern, i) \in Nat
  BY RouteFacts
<1>2. finalRoute = [i \in 1..Len(pattern) |->
                      [piece |-> pattern[i],
                       group |-> IF IsParameter(pattern[i])
                                 THEN ParametersBefore(pattern, i) ELSE NoGroup]]
  BY <1>1, GroupsArePlaced DEF GroupsInPlace
<1>3. Len(finalRoute) \in Nat /\ DOMAIN finalRoute = 1..Len(finalRoute)
  <2>1. finalRoute \in Seq([piece : Parameters \cup {Literal}, group : Nat \cup {NoGroup}])
    BY DEF RouteInv, RouteTypeOK
  <2> QED
    BY <2>1, LenProperties
<1>4. Len(finalRoute) = Len(pattern)
  <2>1. 1..Len(finalRoute) = 1..Len(pattern)
    BY <1>2, <1>3
  <2> DEFINE a == Len(finalRoute)
             b == Len(pattern)
  <2> HIDE DEF a, b
  <2>2. a \in Nat /\ b \in Nat /\ 1..a = 1..b
    BY <1>1, <1>3, <2>1 DEF a, b
  <2>3. a = b
    BY <2>2
  <2> QED
    BY <2>3 DEF a, b
<1> QED
  BY <1>1, <1>2, <1>4

LEMMA GroupOfParameter ==
  ASSUME RouteInv, route = "built", NEW i \in 1..Len(pattern), IsParameter(pattern[i])
  PROVE  Group(ParametersBefore(pattern, i)) =
           IF matches[i].length # Absent
           THEN Some(SubSeq(UnescapedPath(path), matches[i].from,
                            matches[i].from + matches[i].length - 1))
           ELSE None
<1> DEFINE n == ParametersBefore(pattern, i)
           groups == {j \in DOMAIN finalRoute : finalRoute[j].group = n}
<1>1. /\ DOMAIN finalRoute = 1..Len(pattern) /\ n \in Nat
      /\ \A j \in 1..Len(pattern) :
           finalRoute[j].group = IF IsParameter(pattern[j]) THEN ParametersBefore(pattern, j) ELSE NoGroup
  BY BuiltRoute
<1>2. ASSUME NEW j \in 1..Len(pattern), finalRoute[j].group = n PROVE j = i
  <2>1. IsParameter(pattern[j]) /\ ParametersBefore(pattern, j) = n
    BY <1>1, <1>2 DEF NoGroup
  <2>2. i \in Nat \ {0} /\ j \in Nat \ {0}
    OBVIOUS
  <2>3. i < j => n < ParametersBefore(pattern, j)
    BY <2>2, ParametersInOrder
  <2>4. j < i => ParametersBefore(pattern, j) < n
    BY <2>1, <2>2, ParametersInOrder
  <2> HIDE DEF n
  <2> QED
    BY <1>1, <2>1, <2>2, <2>3, <2>4
<1>3. groups = {i}
  BY <1>1, <1>2
<1>4. Group(n) = IF \E j \in groups : matches[j].length # Absent
                 THEN LET j == CHOOSE j \in groups : matches[j].length # Absent
                      IN  Some(SubSeq(UnescapedPath(path), matches[j].from,
                                      matches[j].from + matches[j].length - 1))
                 ELSE None
  BY DEF Group
<1> HIDE DEF groups
<1>5. matches[i].length # Absent => (CHOOSE j \in groups : matches[j].length # Absent) = i
  BY <1>3
<1> QED
  BY <1>3, <1>4, <1>5

LEMMA ParameterFits ==
  ASSUME RouteInv, route = "built", NEW i \in 1..Len(pattern), IsParameter(pattern[i])
  PROVE  /\ pattern[i] \in Parameters
         /\ ParametersBefore(pattern, i) + 1 \in DOMAIN function
         /\ function[ParametersBefore(pattern, i) + 1] = TypeOf(pattern[i])
<1> DEFINE params == {j \in DOMAIN pattern : IsParameter(pattern[j])}
<1>1. /\ pattern \in Seq(PieceSet) /\ Len(pattern) \in Nat /\ DOMAIN pattern = 1..Len(pattern)
      /\ ParametersBefore(pattern, i) \in Nat
  BY BuiltRoute
<1>2. /\ Len(function) = Cardinality(params)
      /\ \A j \in params : function[ParametersBefore(pattern, j) + 1] = TypeOf(pattern[j])
  BY PatternIsChecked DEF RouteIsChecked
<1>3. pattern[i] \in Parameters
  BY <1>1, ItemsHaveType, 0 \in Nat
<1>4. ParametersBefore(pattern, Len(pattern) + 1) = Cardinality(params)
  <2>1. (Len(pattern) + 1) - 1 = Len(pattern)
    BY <1>1
  <2> QED
    BY <1>1, <2>1 DEF ParametersBefore
<1>5. ParametersBefore(pattern, i) < ParametersBefore(pattern, Len(pattern) + 1)
  <2>1. i \in Nat \ {0} /\ Len(pattern) + 1 \in Nat /\ i < Len(pattern) + 1
    BY <1>1
  <2> QED
    BY <2>1, ParametersInOrder
<1>6. function \in Seq(Types)
  BY DEF RouteInv, RouteTypeOK
<1>7. Len(function) \in Nat /\ DOMAIN function = 1..Len(function)
  BY <1>6, LenProperties
<1>8. ParametersBefore(pattern, i) + 1 \in DOMAIN function
  BY <1>1, <1>2, <1>4, <1>5, <1>7
<1> QED
  BY <1>1, <1>2, <1>3, <1>8

\* What the i-th piece has taken of the path is what its argument spells.
LEMMA PieceIsSpelled ==
  ASSUME RouteInv, route = "built", arguments = Results, path \in RequestPaths,
         NEW ends, Divides(matches, ends, Len(finalRoute), UnescapedPath(path)),
         NEW i \in 1..Len(pattern)
  PROVE  SubSeq(UnescapedPath(path), ends[i - 1], ends[i] - 1) \in TextsOf(i)
<1> DEFINE text == UnescapedPath(path)
           from == ends[i - 1]
           t == [length |-> matches[i].length, next |-> ends[i]]
           n == ParametersBefore(pattern, i)
<1>1. /\ pattern \in Seq(PieceSet) /\ Len(pattern) \in Nat /\ Len(finalRoute) = Len(pattern)
      /\ finalRoute[i].piece = pattern[i] /\ n \in Nat
  BY BuiltRoute
<1>2. text \in Texts /\ Len(text) = Len(path) /\ Len(path) \in Nat /\ NoMax(text)
  BY PathHasType, PathHasNoMax
<1>3. /\ ends \in [0..Len(pattern) -> 1..(Len(text) + 1)]
      /\ matches[i].from = from /\ t \in Takes(pattern[i], text, from)
  BY <1>1 DEF Divides
<1>4. from \in 1..(Len(text) + 1)
  <2>1. i - 1 \in 0..Len(pattern)
    BY <1>1
  <2> HIDE DEF text
  <2> QED
    BY <1>3, <2>1
<1>5. t.length = matches[i].length /\ t.next = ends[i]
  OBVIOUS
<1> HIDE DEF text, from, t, n
<1>6. CASE ~IsParameter(pattern[i])
  <2>1. pattern[i] = Literal
    BY <1>1, <1>6, ItemsHaveType, 0 \in Nat DEF PieceSet
  <2>2. SubSeq(text, from, t.next - 1) = <<Plain("/")>>
    BY <1>2, <1>3, <1>4, <2>1, LiteralIsSpelled
  <2>3. TextsOf(i) = {<<Plain("/")>>}
    BY <1>6 DEF TextsOf
  <2> QED
    BY <1>5, <2>2, <2>3 DEF text, from
<1>7. CASE IsParameter(pattern[i])
  <2> DEFINE piece == pattern[i]
             group == Group(n)
  <2>1. /\ piece \in Parameters /\ n + 1 \in DOMAIN function
        /\ function[n + 1] = TypeOf(piece)
    BY <1>7, ParameterFits DEF n
  <2>2. arguments[n + 1] = HandlerArg(TypeOf(piece), group)
    <3>1. (n + 1) - 1 = n
      BY <1>1
    <3> QED
      BY <2>1, <3>1 DEF Results
  <2>3. group = IF matches[i].length # Absent
                THEN Some(SubSeq(text, matches[i].from, matches[i].from + matches[i].length - 1))
                ELSE None
    BY <1>7, GroupOfParameter DEF n, text
  <2>4. TextsOf(i) = Spelled(piece, HandlerArg(TypeOf(piece), group))
    BY <1>7, <2>2 DEF TextsOf, n
  <2> HIDE DEF piece, group
  <2>5. t \in Takes(piece, text, from)
    BY <1>3 DEF piece
  <2>6. CASE t.length = Absent /\ t.next = from /\ (piece.optional \/ piece.wrapped)
    <3>1. group = None
      BY <1>5, <2>3, <2>6
    <3>2. SubSeq(text, from, t.next - 1) = <<>>
      <4>1. from \in Int /\ from - 1 \in Int /\ from - 1 < from
        BY <1>2, <1>4
      <4> QED
        BY <2>6, <4>1, SubSeqEmpty
    <3>3. <<>> \in TextsOf(i)
      BY <1>2, <2>1, <2>4, <2>6, <3>1, NothingIsSpelled
    <3> QED
      BY <1>5, <3>2, <3>3 DEF text, from
  <2>7. ASSUME t.length \in 0..(Len(text) + 1 - from),
               Len(SubSeq(text, from, from + t.length - 1)) = t.length,
               InLanguage(ExpressionOf(piece), SubSeq(text, from, from + t.length - 1)),
               SubSeq(text, from, t.next - 1) =
                 SubSeq(text, from, from + t.length - 1) \o Consumed(piece)
        PROVE  SubSeq(text, from, t.next - 1) \in TextsOf(i)
    <3> DEFINE last == from + t.length - 1
               value == SubSeq(text, from, last)
    <3>1. t.length # Absent /\ last \in 0..Len(text) /\ from \in Nat \ {0} /\ t.length <= Len(text)
          /\ last \in Int /\ from \in Int
      <4> DEFINE w == t.length
                 l == Len(text)
      <4>1. l \in Nat /\ from \in 1..(l + 1) /\ w \in 0..(l + 1 - from)
        BY <1>2, <1>4, <2>7
      <4> HIDE DEF w, l
      <4>2. w # Absent /\ from + w - 1 \in 0..l /\ from \in Nat \ {0} /\ w <= l
        BY <4>1 DEF Absent
      <4>3. from + w - 1 \in Int /\ from \in Int
        BY <4>1
      <4> QED
        BY <4>2, <4>3 DEF w, l
    <3>2. group = Some(value)
      BY <1>3, <1>5, <2>3, <3>1
    <3> HIDE DEF last
    <3>3. value \in Texts
      <4>1. \A j \in from..last : text[j] \in UnescapedSet
        BY <1>2, <3>1 DEF Texts
      <4> QED
        BY <3>1, <4>1, SubSeqProperties DEF Texts
    <3>4. value # MaxInt
      BY <1>2, <3>1, PartHasNoMax
    <3>5. Len(value) <= Len(path) /\ InLanguage(ExpressionOf(piece), value)
          /\ SubSeq(text, from, t.next - 1) = value \o Consumed(piece)
      BY <1>2, <2>7, <3>1 DEF last
    <3> HIDE DEF value
    <3>6. value \o Consumed(piece) \in Spelled(piece, HandlerArg(TypeOf(piece), Some(value)))
      BY <1>2, <2>1, <3>3, <3>4, <3>5, ValueIsSpelled
    <3> QED
      BY <2>4, <3>2, <3>5, <3>6
  <2>8. SubSeq(text, from, t.next - 1) \in TextsOf(i) \/ t.length = Absent
    BY <1>2, <1>4, <2>5, <2>7, PieceTakes
  <2>9. t.length = Absent =>
          /\ t.next = from /\ (piece.optional \/ piece.wrapped)
          \/ SubSeq(text, from, t.next - 1) \in TextsOf(i)
    BY <1>2, <1>4, <2>5, <2>7, PieceTakes
  <2>10. SubSeq(text, from, t.next - 1) \in TextsOf(i)
    <3>1. CASE t.length = Absent /\ t.next = from /\ (piece.optional \/ piece.wrapped)
      BY <1>5, <2>6, <3>1 DEF text, from
    <3> QED
      BY <2>8, <2>9, <3>1
  <2> QED
    BY <1>5, <2>10 DEF text, from
<1> QED
  BY <1>6, <1>7

\* Where the first i pieces may end, if the first i - 1 end in one of S.
EndsAfter(S, i, text) ==
  {q \in 0..Len(text) : \E p \in S : p <= q /\ SubSeq(text, p + 1, q) \in TextsOf(i)}

MissingDouble ==
  \E i \in DOMAIN pattern : /\ pattern[i].kind = "double" /\ pattern[i].wrapped
                           /\ matches[i].length = Absent

LEMMA SpelledSteps ==
  ASSUME Len(pattern) \in Nat, NEW text, text = UnescapedPath(path), Len(text) \in Nat
  PROVE  \E spelled :
           /\ spelled[0] = {0}
           /\ \A i \in 1..Len(pattern) : spelled[i] = EndsAfter(spelled[i - 1], i, text)
           /\ ArgumentsSpellPath <=>
                /\ phase = "called" => Len(text) \in spelled[Len(pattern)]
                /\ phase = "thrown" => MissingDouble
<1> DEFINE n == Len(pattern)
           V == SUBSET (0..Len(text))
           first == {0}
           step == [i \in 1..n |-> [S \in V |-> EndsAfter(S, i, text)]]
           IsSpelled(f) == f = [i \in 0..n |-> IF i = 0 THEN first ELSE EndsAfter(f[i - 1], i, text)]
           spelled == CHOOSE f : IsSpelled(f)
<1>1. ArgumentsSpellPath <=>
        /\ phase = "called" => Len(text) \in spelled[n]
        /\ phase = "thrown" => MissingDouble
  BY DEF ArgumentsSpellPath, EndsAfter, MissingDouble
<1>2. step \in Steps(n, V)
  <2>1. \A S \in V, i \in 1..n : EndsAfter(S, i, text) \in V
    BY DEF EndsAfter
  <2> QED
    BY <2>1 DEF Steps
<1>3. first \in V
  OBVIOUS
<1>4. \A i \in 1..n, S \in V : step[i][S] = EndsAfter(S, i, text)
  OBVIOUS
<1>5. n \in Nat
  OBVIOUS
<1> HIDE DEF step, n, first, V
<1>6. \E f : IsSpelled(f)
  <2>1. PICK f : IsRun(f, n, V, first, step)
    BY <1>2, <1>3, <1>5, Recursion
  <2>2. f \in [0..n -> V] /\ f[0] = first /\ \A i \in 1..n : f[i] = step[i][f[i - 1]]
    BY <2>1 DEF IsRun
  <2>3. ASSUME NEW i \in 0..n, i # 0 PROVE f[i] = EndsAfter(f[i - 1], i, text)
    <3>1. i \in 1..n /\ i - 1 \in 0..n
      BY <1>5, <2>3
    <3> QED
      BY <1>4, <2>2, <3>1
  <2>4. IsSpelled(f)
    BY <2>2, <2>3
  <2> QED
    BY <2>4
<1>7. IsSpelled(spelled)
  <2> HIDE DEF IsSpelled
  <2> QED
    BY <1>6
<1> HIDE DEF spelled
<1>8. \A i \in 1..n : spelled[i] = EndsAfter(spelled[i - 1], i, text)
  <2>1. \A i \in 1..n : i \in 0..n /\ i # 0
    BY <1>5
  <2> QED
    BY <1>7, <2>1
<1>9. spelled[0] = first
  BY <1>5, <1>7
<1> QED
  BY <1>1, <1>8, <1>9 DEF n, first

\* The parts that the pieces have taken lead through the path.
LEMMA CalledSpells ==
  ASSUME RouteInv, route = "built", arguments = Results, path \in RequestPaths,
         matches \in Divisions(UnescapedPath(path)), NEW spelled, spelled[0] = {0},
         \A i \in 1..Len(pattern) :
           spelled[i] = EndsAfter(spelled[i - 1], i, UnescapedPath(path))
  PROVE  Len(UnescapedPath(path)) \in spelled[Len(pattern)]
<1> DEFINE text == UnescapedPath(path)
           n == Len(pattern)
<1>1. n \in Nat /\ Len(finalRoute) = n
  BY BuiltRoute
<1>2. Len(text) \in Nat
  BY PathHasType
<1>3. PICK ends : Divides(matches, ends, n, text) /\ ends[n] = Len(text) + 1
  BY <1>1, <1>2, DivisionsDivide
<1>4. /\ \A i \in 0..n : ends[i] \in 1..(Len(text) + 1)
      /\ ends[0] = 1
      /\ \A i \in 1..n : [length |-> matches[i].length, next |-> ends[i]] \in
                           Takes(finalRoute[i].piece, text, ends[i - 1])
  BY <1>3 DEF Divides
<1>5. ASSUME NEW i \in 1..n PROVE SubSeq(text, ends[i - 1], ends[i] - 1) \in TextsOf(i)
  BY <1>1, <1>3, PieceIsSpelled
<1>6. ASSUME NEW i \in 1..n PROVE ends[i - 1] <= ends[i]
  <2> DEFINE t == [length |-> matches[i].length, next |-> ends[i]]
  <2>1. i - 1 \in 0..n /\ i \in 0..n
    BY <1>1
  <2>2. ends[i - 1] \in 1..(Len(text) + 1) /\ ends[i] \in 1..(Len(text) + 1)
    BY <1>4, <2>1
  <2>3. t \in Takes(finalRoute[i].piece, text, ends[i - 1]) /\ t.next = ends[i]
    BY <1>4
  <2> HIDE DEF t
  <2>4. t.next \in ends[i - 1]..(Len(text) + 1)
    BY <1>2, <2>2, <2>3, TakesInText
  <2> QED
    BY <1>2, <2>2, <2>3, <2>4
<1> DEFINE T == {i \in 0..n : ends[i] - 1 \in spelled[i]}
<1> HIDE DEF text
<1>7. 0 \in T
  BY <1>1, <1>4
<1>8. ASSUME NEW i \in 0..(n - 1), i \in T PROVE i + 1 \in T
  <2>1. i + 1 \in 1..n /\ (i + 1) - 1 = i /\ i \in 0..n /\ i + 1 \in 0..n
    BY <1>1
  <2>2. ends[i] \in 1..(Len(text) + 1) /\ ends[i + 1] \in 1..(Len(text) + 1)
    BY <1>4, <2>1
  <2>3. ends[i] <= ends[i + 1] /\ SubSeq(text, ends[i], ends[i + 1] - 1) \in TextsOf(i + 1)
    BY <1>5, <1>6, <2>1
  <2>4. /\ ends[i + 1] - 1 \in 0..Len(text) /\ ends[i] - 1 <= ends[i + 1] - 1
        /\ (ends[i] - 1) + 1 = ends[i]
    BY <1>2, <2>2, <2>3
  <2>5. ends[i] - 1 \in spelled[i]
    BY <1>8
  <2>6. spelled[i + 1] = EndsAfter(spelled[i], i + 1, text)
    BY <2>1 DEF text
  <2>7. ends[i + 1] - 1 \in EndsAfter(spelled[i], i + 1, text)
    <3> DEFINE p == ends[i] - 1
               q == ends[i + 1] - 1
    <3>1. p \in spelled[i] /\ q \in 0..Len(text) /\ p <= q /\ SubSeq(text, p + 1, q) \in TextsOf(i + 1)
      BY <2>3, <2>4, <2>5
    <3> HIDE DEF p, q
    <3>2. q \in EndsAfter(spelled[i], i + 1, text)
      BY <3>1 DEF EndsAfter
    <3> QED
      BY <3>2 DEF q
  <2> QED
    BY <2>1, <2>6, <2>7
<1>9. n \in T
  <2> HIDE DEF T, n
  <2>1. 0..n \subseteq T
    BY <1>1, <1>7, <1>8, UpTo
  <2> QED
    BY <1>1, <2>1
<1>10. ends[n] - 1 = Len(text)
  BY <1>2, <1>3
<1> QED
  BY <1>9, <1>10 DEF text

\* What makes a call throw.
LEMMA ThrownMisses ==
  ASSUME RouteInv, route = "built", Fails, path \in RequestPaths,
         matches \in Divisions(UnescapedPath(path))
  PROVE  MissingDouble
<1> DEFINE text == UnescapedPath(path)
<1>1. /\ pattern \in Seq(PieceSet) /\ Len(pattern) \in Nat /\ DOMAIN pattern = 1..Len(pattern)
      /\ Len(finalRoute) = Len(pattern)
      /\ \A i \in 1..Len(pattern) : finalRoute[i].piece = pattern[i]
  BY BuiltRoute
<1>2. PICK n \in DOMAIN function : Throws(function[n], Group(n - 1))
  BY DEF Fails
<1>3. n \in Nat \ {0} /\ n - 1 \in Nat /\ n - 1 < ParametersBefore(pattern, Len(pattern) + 1)
  <2> DEFINE params == {j \in DOMAIN pattern : IsParameter(pattern[j])}
  <2>1. Len(function) = Cardinality(params)
    BY PatternIsChecked DEF RouteIsChecked
  <2>2. ParametersBefore(pattern, Len(pattern) + 1) = Cardinality(params)
    <3>1. (Len(pattern) + 1) - 1 = Len(pattern)
      BY <1>1
    <3> QED
      BY <1>1, <3>1 DEF ParametersBefore
  <2>3. Len(function) \in Nat /\ DOMAIN function = 1..Len(function)
    <3>1. function \in Seq(Types)
      BY DEF RouteInv, RouteTypeOK
    <3> QED
      BY <3>1, LenProperties
  <2> HIDE DEF params
  <2> QED
    BY <2>1, <2>2, <2>3
<1>4. PICK i \in 1..Len(pattern) : IsParameter(pattern[i]) /\ ParametersBefore(pattern, i) = n - 1
  BY <1>1, <1>3, NthParameter
<1>5. function[n] = TypeOf(pattern[i]) /\ pattern[i] \in Parameters
  <2>1. (n - 1) + 1 = n
    BY <1>3
  <2> QED
    BY <1>4, <2>1, ParameterFits
<1>6. pattern[i].kind = "double" /\ pattern[i].optional = FALSE /\ Group(n - 1) = None
  BY <1>2, <1>5 DEF Throws, TypeOf
<1>7. matches[i].length = Absent
  <2>1. Group(n - 1) = IF matches[i].length # Absent
                       THEN Some(SubSeq(text, matches[i].from,
                                        matches[i].from + matches[i].length - 1))
                       ELSE None
    BY <1>4, GroupOfParameter
  <2>2. \A x : Some(x) # None
    BY DEF Some, None
  <2> QED
    BY <1>6, <2>1, <2>2
<1>8. pattern[i].wrapped
  <2>1. text \in Texts /\ Len(text) \in Nat
    BY PathHasType
  <2>2. PICK ends : Divides(matches, ends, Len(pattern), text)
    BY <1>1, <2>1, DivisionsDivide
  <2> DEFINE t == [length |-> matches[i].length, next |-> ends[i]]
  <2>3. t \in Takes(pattern[i], text, ends[i - 1]) /\ ends[i - 1] \in 1..(Len(text) + 1)
    <3>1. i - 1 \in 0..Len(pattern)
      BY <1>1
    <3> QED
      BY <1>1, <2>2, <3>1 DEF Divides
  <2>4. t.length = Absent
    BY <1>7
  <2> HIDE DEF t, text
  <2>5. t.length \notin 0..(Len(text) + 1 - ends[i - 1])
    BY <2>4 DEF Absent
  <2>6. pattern[i].optional \/ pattern[i].wrapped
    BY <2>1, <2>3, <2>5, PieceTakes
  <2> QED
    BY <1>6, <2>6
<1> QED
  BY <1>1, <1>6, <1>7, <1>8 DEF MissingDouble

\* ArgumentsSpellPath: what the pieces have taken of the path, one after the
\* other, is what their arguments spell.
THEOREM ArgumentsSpell == Spec => []ArgumentsSpellPath
<1>1. InputInv => ArgumentsSpellPath
  <2> SUFFICES ASSUME InputInv PROVE ArgumentsSpellPath
    OBVIOUS
  <2>1. RouteInv /\ MatchInv /\ ArgumentsInv
    BY DEF InputInv
  <2>2. ASSUME phase = "called" \/ phase = "thrown"
        PROVE  /\ route = "built" /\ path \in RequestPaths
               /\ matches \in Divisions(UnescapedPath(path))
    BY <2>1, <2>2, Zenon DEF MatchInv, Matched
  <2>3. phase = "called" => arguments = Results
    BY <2>1, Zenon DEF ArgumentsInv, Called
  <2>4. phase = "thrown" => Fails
    BY <2>1, Zenon DEF ArgumentsInv
  <2>5. CASE phase = "called" \/ phase = "thrown"
    <3> DEFINE text == UnescapedPath(path)
    <3>1. Len(pattern) \in Nat /\ Len(text) \in Nat
      BY <2>1, <2>2, <2>5, PathHasType, RouteFacts
    <3>2. PICK spelled :
            /\ spelled[0] = {0}
            /\ \A i \in 1..Len(pattern) : spelled[i] = EndsAfter(spelled[i - 1], i, text)
            /\ ArgumentsSpellPath <=>
                 /\ phase = "called" => Len(text) \in spelled[Len(pattern)]
                 /\ phase = "thrown" => MissingDouble
      BY <3>1, SpelledSteps
    <3>3. phase = "called" => Len(text) \in spelled[Len(pattern)]
      BY <2>1, <2>2, <2>3, <2>5, <3>2, CalledSpells
    <3>4. phase = "thrown" => MissingDouble
      BY <2>1, <2>2, <2>4, <2>5, ThrownMisses
    <3> QED
      BY <3>2, <3>3, <3>4
  <2>6. CASE ~(phase = "called" \/ phase = "thrown")
    BY <2>6 DEF ArgumentsSpellPath
  <2> QED
    BY <2>5, <2>6
<1> QED
  BY <1>1, InputInvariant, PTL

-----------------------------------------------------------------------------
(* The pieces of a form *)

\* A piece is what stands between two places, and there is no "&" in it.
IsPiece(piece, text, a, b) ==
  /\ a < b
  /\ piece = SubSeq(text, a + 1, b - 1)
  /\ \A i \in (a + 1)..(b - 1) : text[i] # Amp

\* The first n characters are the pieces with a "&" between any two.
Separates(pieces, ends, text, n) ==
  /\ ends \in [0..Len(pieces) -> 0..(n + 1)]
  /\ ends[0] = 0 /\ ends[Len(pieces)] = n + 1
  /\ \A k \in 1..Len(pieces) : IsPiece(pieces[k], text, ends[k - 1], ends[k])
  /\ \A k \in 1..Len(pieces) : k < Len(pieces) => text[ends[k]] = Amp

LEMMA CutSeparates ==
  ASSUME NEW text \in Seq(Character), NEW n \in 0..(Len(text) - 1), NEW pieces \in PieceLists,
         NEW ends, Separates(pieces, ends, text, n)
  PROVE  \E e : Separates(Cut(pieces, text[n + 1]), e, text, n + 1)
<1> DEFINE m == Len(pieces)
           c == text[n + 1]
<1>1. /\ m \in Nat \ {0} /\ pieces \in Seq(Seq(Character))
      /\ \A k \in 1..m : pieces[k] \in Seq(Character)
  BY ElementOfSeq DEF PieceLists
<1>2. n \in Nat /\ Len(text) \in Nat /\ n + 1 \in 1..Len(text) /\ c \in Character
  OBVIOUS
<1>3. /\ ends \in [0..m -> 0..(n + 1)] /\ ends[0] = 0 /\ ends[m] = n + 1
      /\ \A k \in 1..m : IsPiece(pieces[k], text, ends[k - 1], ends[k])
      /\ \A k \in 1..m : k < m => text[ends[k]] = Amp
  BY DEF Separates
<1> HIDE DEF m, c
<1>4. CASE c = Amp
  <2> DEFINE new == Append(pieces, <<>>)
             e == [k \in 0..(m + 1) |-> IF k = m + 1 THEN n + 2 ELSE ends[k]]
  <2>1. Cut(pieces, c) = new
    BY <1>4 DEF Cut
  <2>2. /\ Len(new) = m + 1 /\ new[m + 1] = <<>> /\ \A k \in 1..m : new[k] = pieces[k]
    BY <1>1 DEF m
  <2>3. e \in [0..(m + 1) -> 0..(n + 2)] /\ e[0] = 0 /\ e[m + 1] = n + 2
        /\ \A k \in 0..m : e[k] = ends[k]
    BY <1>1, <1>2, <1>3
  <2> HIDE DEF new, e
  <2>4. IsPiece(<<>>, text, n + 1, n + 2)
    <3>1. SubSeq(text, n + 2, n + 1) = <<>>
      BY <1>2, SubSeqEmpty
    <3> QED
      BY <1>2, <3>1 DEF IsPiece
  <2>5. ASSUME NEW k \in 1..(m + 1) PROVE IsPiece(new[k], text, e[k - 1], e[k])
    <3>1. CASE k \in 1..m
      <4>1. k \in 0..m /\ k - 1 \in 0..m
        BY <1>1, <3>1
      <4> QED
        BY <1>3, <2>2, <2>3, <3>1, <4>1
    <3>2. CASE k = m + 1
      <4>1. k - 1 = m /\ m \in 0..m
        BY <1>1, <3>2
      <4> QED
        BY <1>3, <2>2, <2>3, <2>4, <3>2, <4>1
    <3> QED
      BY <1>1, <3>1, <3>2
  <2>6. ASSUME NEW k \in 1..(m + 1), k < m + 1 PROVE text[e[k]] = Amp
    <3>1. k \in 1..m /\ k \in 0..m /\ (k < m \/ k = m)
      BY <1>1, <2>6
    <3>2. CASE k < m
      BY <1>3, <2>3, <3>1, <3>2
    <3>3. CASE k = m
      BY <1>3, <1>4, <2>3, <3>1, <3>3 DEF c
    <3> QED
      BY <3>1, <3>2, <3>3
  <2>7. (n + 1) + 1 = n + 2
    BY <1>2
  <2>8. Separates(new, e, text, n + 1)
    BY <2>2, <2>3, <2>5, <2>6, <2>7 DEF Separates
  <2> QED
    BY <2>1, <2>8 DEF c
<1>5. CASE c # Amp
  <2> DEFINE new == [pieces EXCEPT ![m] = Append(@, c)]
             e == [k \in 0..m |-> IF k = m THEN n + 2 ELSE ends[k]]
  <2>1. Cut(pieces, c) = new
    BY <1>5 DEF Cut, m
  <2>2. Len(new) = m /\ new[m] = Append(pieces[m], c) /\ \A k \in 1..(m - 1) : new[k] = pieces[k]
    <3>1. m \in 1..Len(pieces) /\ Len(pieces) = m /\ DOMAIN pieces = 1..m
      BY <1>1 DEF m
    <3>2. Append(pieces[m], c) \in Seq(Character)
      BY <1>1, <1>2, <3>1
    <3>3. new \in Seq(Seq(Character)) /\ Len(new) = Len(pieces)
      BY <1>1, <3>1, <3>2, ExceptSeq
    <3> QED
      BY <1>1, <3>1, <3>3
  <2>3. e \in [0..m -> 0..(n + 2)] /\ e[0] = 0 /\ e[m] = n + 2
        /\ \A k \in 0..(m - 1) : e[k] = ends[k]
    BY <1>1, <1>2, <1>3
  <2> HIDE DEF new, e
  <2>4. IsPiece(Append(pieces[m], c), text, ends[m - 1], n + 2)
    <3> DEFINE a == ends[m - 1]
    <3>1. a \in 0..(n + 1) /\ IsPiece(pieces[m], text, a, n + 1)
      <4>1. m - 1 \in 0..m /\ m \in 1..m
        BY <1>1
      <4> QED
        BY <1>3, <4>1
    <3> HIDE DEF a
    <3>2. a < n + 1 /\ a \in Nat /\ pieces[m] = SubSeq(text, a + 1, n)
          /\ \A i \in (a + 1)..n : text[i] # Amp
      <4>1. (n + 1) - 1 = n
        BY <1>2
      <4> QED
        BY <1>2, <3>1, <4>1 DEF IsPiece
    <3>3. SubSeq(text, a + 1, n + 1) = SubSeq(text, a + 1, n) \o SubSeq(text, n + 1, n + 1)
      <4>1. a + 1 \in 1..(n + 1) /\ a + 1 \in 1..(Len(text) + 1) /\ n \in a..Len(text)
            /\ n + 1 \in n..Len(text) /\ (a + 1) - 1 = a
        BY <1>2, <3>2
      <4> QED
        BY <4>1, ConcatAdjacentSubSeq
    <3>4. SubSeq(text, n + 1, n + 1) = <<c>>
      <4> DEFINE p == n + 1
                 s == SubSeq(text, p, p)
      <4>1. p \in 1..Len(text) /\ p \in Int /\ p <= p /\ p - p + 1 = 1
        BY <1>2
      <4> HIDE DEF p
      <4>2. s \in Seq(Character) /\ Len(s) = 1 /\ s[1] = text[p]
        BY <1>2, <4>1
      <4> HIDE DEF s
      <4>3. s = <<s[1]>>
        BY <4>2
      <4> QED
        BY <4>2, <4>3 DEF c, s, p
    <3>5. pieces[m] \in Seq(Character)
      <4>1. m \in 1..m
        BY <1>1
      <4> QED
        BY <1>1, <4>1 DEF m
    <3>6. pieces[m] \o <<c>> = Append(pieces[m], c)
      BY <1>2, <3>5
    <3>7. (n + 2) - 1 = n + 1 /\ a < n + 2
      BY <1>2, <3>2
    <3>8. \A i \in (a + 1)..(n + 1) : i \in (a + 1)..n \/ i = n + 1
      BY <1>2, <3>2
    <3>9. \A i \in (a + 1)..(n + 1) : text[i] # Amp
      BY <1>5, <3>2, <3>8 DEF c
    <3> QED
      BY <3>2, <3>3, <3>4, <3>6, <3>7, <3>9 DEF IsPiece, a
  <2>5. ASSUME NEW k \in 1..m PROVE IsPiece(new[k], text, e[k - 1], e[k])
    <3>1. k - 1 \in 0..(m - 1) /\ (k = m \/ (k \in 1..(m - 1) /\ k \in 0..(m - 1)))
      <4>1. m \in Nat
        BY <1>1
      <4> QED
        BY <4>1
    <3>2. CASE k = m
      BY <2>2, <2>3, <2>4, <3>1, <3>2
    <3>3. CASE k \in 1..(m - 1) /\ k \in 0..(m - 1)
      BY <1>3, <2>2, <2>3, <3>1, <3>3
    <3> QED
      BY <3>1, <3>2, <3>3
  <2>6. ASSUME NEW k \in 1..m, k < m PROVE text[e[k]] = Amp
    <3>1. k \in 0..(m - 1)
      BY <1>1, <2>6
    <3> QED
      BY <1>3, <2>3, <2>6, <3>1
  <2>7. (n + 1) + 1 = n + 2
    BY <1>2
  <2>8. Separates(new, e, text, n + 1)
    BY <2>2, <2>3, <2>5, <2>6, <2>7 DEF Separates
  <2> QED
    BY <2>1, <2>8 DEF c
<1> QED
  BY <1>4, <1>5 DEF c

LEMMA SplitSeparates ==
  ASSUME NEW text \in Seq(Character)
  PROVE  /\ Split(text) \in PieceLists
         /\ \E ends : Separates(Split(text), ends, text, Len(text))
<1> DEFINE n == Len(text)
<1>1. PICK pieces \in [0..n -> PieceLists] :
        /\ pieces[0] = <<<<>>>>
        /\ \A i \in 1..n : pieces[i] = Cut(pieces[i - 1], text[i])
        /\ Split(text) = pieces[n]
  BY SplitSteps
<1>2. n \in Nat
  OBVIOUS
<1> DEFINE T == {k \in 0..n : \E ends : Separates(pieces[k], ends, text, k)}
<1>3. 0 \in T
  <2> DEFINE p == <<<<>>>>
             e == [k \in 0..1 |-> k]
  <2>1. Len(p) = 1 /\ p[1] = <<>>
    OBVIOUS
  <2>2. e \in [0..1 -> 0..1] /\ e[0] = 0 /\ e[1] = 1
    OBVIOUS
  <2> HIDE DEF p, e
  <2>3. SubSeq(text, 1, 0) = <<>>
    BY SubSeqEmpty
  <2>4. IsPiece(<<>>, text, 0, 1)
    BY <2>3 DEF IsPiece
  <2>5. Separates(p, e, text, 0)
    <3>1. \A k \in 1..1 : k = 1 /\ k - 1 = 0
      OBVIOUS
    <3> QED
      BY <2>1, <2>2, <2>4, <3>1 DEF Separates
  <2> QED
    BY <1>1, <1>2, <2>5 DEF p
<1>4. ASSUME NEW k \in 0..(n - 1), k \in T PROVE k + 1 \in T
  <2>1. k + 1 \in 1..n /\ k + 1 \in 0..n /\ (k + 1) - 1 = k /\ k \in 0..n
    BY <1>2
  <2>2. pieces[k + 1] = Cut(pieces[k], text[k + 1]) /\ pieces[k] \in PieceLists
    BY <1>1, <2>1
  <2>3. PICK ends : Separates(pieces[k], ends, text, k)
    BY <1>4
  <2>4. \E e : Separates(Cut(pieces[k], text[k + 1]), e, text, k + 1)
    BY <2>2, <2>3, CutSeparates
  <2> QED
    BY <2>1, <2>2, <2>4
<1>5. n \in T
  <2> HIDE DEF T, n
  <2>1. 0..n \subseteq T
    BY <1>2, <1>3, <1>4, UpTo
  <2> QED
    BY <1>2, <2>1
<1> QED
  BY <1>1, <1>2, <1>5

-----------------------------------------------------------------------------
(* Nothing is lost *)

\* The places in the lists of fields, and in the keys and values of them.
Places(ret) == UNION {{key} \X DOMAIN ret[key] : key \in DOMAIN ret}
CharsAt(ret, v) == 1..(Len(v[1]) + Len(ret[v[1]][v[2]]))
Chars(ret) == UNION {{v} \X CharsAt(ret, v) : v \in Places(ret)}

\* The list of a key, and what is true when a value is pushed at its end.
ListOf(ret, key) == IF key \in DOMAIN ret THEN ret[key] ELSE <<>>

Appended(ret, key, value, new) ==
  LET n == Len(ListOf(ret, key))
  IN  /\ DOMAIN new = DOMAIN ret \cup {key}
      /\ \A k \in DOMAIN ret : k # key => new[k] = ret[k]
      /\ n \in Nat /\ DOMAIN ListOf(ret, key) = 1..n
      /\ DOMAIN new[key] = 1..(n + 1) /\ Len(new[key]) = n + 1
      /\ \A i \in 1..n : new[key][i] = ListOf(ret, key)[i]
      /\ new[key][n + 1] = value

LEMMA PushBackAppends ==
  ASSUME NEW ret \in FieldMaps, NEW kvp, kvp[1] \in Texts, kvp[2] \in Texts
  PROVE  Appended(ret, kvp[1], kvp[2], PushBack(ret, kvp))
<1> DEFINE new == PushBack(ret, kvp)
           key == kvp[1]
           old == IF key \in DOMAIN ret THEN ret[key] ELSE <<>>
<1>1. \A k \in DOMAIN ret : ret[k] \in Seq(Texts)
  BY DEF FieldMaps, ValueLists
<1>2. old \in Seq(Texts)
  BY <1>1
<1>3. DOMAIN new = DOMAIN ret \cup {key}
  BY DEF PushBack
<1>4. new[key] = old \o <<kvp[2]>>
  BY DEF PushBack
<1>5. ASSUME NEW k \in DOMAIN ret, k # key PROVE new[k] = ret[k]
  <2>1. new[k] = ret[k] \o <<>>
    BY <1>5 DEF PushBack
  <2>2. ret[k] \in Seq(Texts)
    BY <1>1
  <2> HIDE DEF new
  <2> QED
    BY <2>1, <2>2
<1> HIDE DEF new, old
<1>6. /\ Len(old) \in Nat /\ DOMAIN old = 1..Len(old)
      /\ DOMAIN new[key] = 1..(Len(old) + 1) /\ Len(new[key]) = Len(old) + 1
      /\ \A i \in 1..Len(old) : new[key][i] = old[i]
      /\ new[key][Len(old) + 1] = kvp[2]
  BY <1>2, <1>4
<1> QED
  BY <1>3, <1>5, <1>6, Zenon DEF Appended, ListOf, new, old

\* One more place, and a character for each of key and value.
LEMMA PushBackCounts ==
  ASSUME NEW ret \in FieldMaps, NEW kvp, kvp[1] \in Texts, kvp[2] \in Texts,
         IsFiniteSet(Places(ret)), IsFiniteSet(Chars(ret))
  PROVE  LET new == PushBack(ret, kvp)
         IN  /\ IsFiniteSet(Places(new)) /\ IsFiniteSet(Chars(new))
             /\ Cardinality(Places(new)) = Cardinality(Places(ret)) + 1
             /\ Cardinality(Chars(new)) = Cardinality(Chars(ret)) + Len(kvp[1]) + Len(kvp[2])
<1> DEFINE new == PushBack(ret, kvp)
           key == kvp[1]
           old == IF key \in DOMAIN ret THEN ret[key] ELSE <<>>
           v == <<key, Len(old) + 1>>
           n == Len(kvp[1]) + Len(kvp[2])
<1>1. /\ DOMAIN new = DOMAIN ret \cup {key}
      /\ \A k \in DOMAIN ret : k # key => new[k] = ret[k]
      /\ Len(old) \in Nat /\ DOMAIN old = 1..Len(old)
      /\ DOMAIN new[key] = 1..(Len(old) + 1)
      /\ \A i \in 1..Len(old) : new[key][i] = old[i]
      /\ new[key][Len(old) + 1] = kvp[2]
  <2>1. Appended(ret, key, kvp[2], new)
    BY PushBackAppends, Zenon
  <2> QED
    BY <2>1, Zenon DEF Appended, ListOf
<1>2. \A p : p \in Places(ret) <=> \E k \in DOMAIN ret : \E i \in DOMAIN ret[k] : p = <<k, i>>
  BY DEF Places
<1>3. \A p : p \in Places(new) <=> \E k \in DOMAIN new : \E i \in DOMAIN new[k] : p = <<k, i>>
  BY DEF Places
<1>4. key \in DOMAIN ret => ret[key] = old
  OBVIOUS
<1>5. key \notin DOMAIN ret => Len(old) = 0
  OBVIOUS
<1>6. Len(kvp[1]) \in Nat /\ Len(kvp[2]) \in Nat
  <2>1. \A t \in Texts : Len(t) \in Nat
    BY DEF Texts
  <2> QED
    BY <2>1
<1>7. n \in Nat
  <2> DEFINE a == Len(kvp[1])
             b == Len(kvp[2])
  <2>1. a \in Nat /\ b \in Nat /\ n = a + b
    BY <1>6
  <2> HIDE DEF a, b, n
  <2> QED
    BY <2>1
<1> HIDE DEF new, old, n
<1>8. v \notin Places(ret)
  <2> SUFFICES ASSUME NEW k \in DOMAIN ret, NEW i \in DOMAIN ret[k], v = <<k, i>> PROVE FALSE
    BY <1>2
  <2>1. k = key /\ i = Len(old) + 1
    OBVIOUS
  <2>2. i \in 1..Len(old)
    BY <1>1, <1>4, <2>1
  <2> QED
    BY <1>1, <2>1, <2>2
<1>9. Places(new) = Places(ret) \cup {v}
  <2>1. ASSUME NEW k \in DOMAIN new, NEW i \in DOMAIN new[k]
        PROVE  <<k, i>> \in Places(ret) \cup {v}
    <3>1. CASE k # key
      <4>1. k \in DOMAIN ret /\ i \in DOMAIN ret[k]
        BY <1>1, <3>1
      <4> QED
        BY <1>2, <4>1
    <3>2. CASE k = key
      <4>1. i \in 1..Len(old) \/ i = Len(old) + 1
        BY <1>1, <3>2
      <4>2. CASE i \in 1..Len(old)
        <5>1. key \in DOMAIN ret
          BY <1>5, <4>2
        <5>2. i \in DOMAIN ret[key]
          BY <1>1, <1>4, <4>2, <5>1
        <5> QED
          BY <1>2, <3>2, <5>1, <5>2
      <4> QED
        BY <3>2, <4>1, <4>2
    <3> QED
      BY <3>1, <3>2
  <2>2. v \in Places(new)
    <3>1. key \in DOMAIN new /\ Len(old) + 1 \in DOMAIN new[key]
      BY <1>1
    <3> QED
      BY <1>3, <3>1
  <2>3. ASSUME NEW k \in DOMAIN ret, NEW i \in DOMAIN ret[k] PROVE <<k, i>> \in Places(new)
    <3>1. k \in DOMAIN new /\ i \in DOMAIN new[k]
      <4>1. CASE k # key
        BY <1>1, <4>1
      <4>2. CASE k = key
        BY <1>1, <1>4, <4>2
      <4> QED
        BY <4>1, <4>2
    <3> QED
      BY <1>3, <3>1
  <2> HIDE DEF v
  <2>4. Places(new) \subseteq Places(ret) \cup {v}
    BY <1>3, <2>1
  <2>5. Places(ret) \subseteq Places(new)
    BY <1>2, <2>3
  <2> QED
    BY <2>2, <2>4, <2>5
<1>10. CharsAt(new, v) = 1..n
  BY <1>1 DEF CharsAt, n
<1>11. ASSUME NEW p \in Places(ret) PROVE CharsAt(new, p) = CharsAt(ret, p)
  <2>0. PICK k \in DOMAIN ret : \E i \in DOMAIN ret[k] : p = <<k, i>>
    BY <1>2
  <2>1. PICK i \in DOMAIN ret[k] : p = <<k, i>>
    BY <2>0
  <2>2. new[k][i] = ret[k][i]
    <3>1. CASE k # key
      BY <1>1, <3>1
    <3>2. CASE k = key
      BY <1>1, <1>4, <3>2
    <3> QED
      BY <3>1, <3>2
  <2>3. p[1] = k /\ p[2] = i
    BY <2>1
  <2> QED
    BY <2>2, <2>3 DEF CharsAt
<1> HIDE DEF v
<1>12. Chars(new) = Chars(ret) \cup ({v} \X (1..n))
  BY <1>9, <1>10, <1>11 DEF Chars
<1>13. Chars(ret) \cap ({v} \X (1..n)) = {}
  <2>1. \A c \in Chars(ret) : c[1] \in Places(ret)
    BY DEF Chars
  <2>2. \A c \in {v} \X (1..n) : c[1] = v
    OBVIOUS
  <2> QED
    BY <1>8, <2>1, <2>2
<1>14. IsFiniteSet({v} \X (1..n)) /\ Cardinality({v} \X (1..n)) = n
  <2>1. IsFiniteSet({v}) /\ Cardinality({v}) = 1
    BY FS_Singleton
  <2>2. IsFiniteSet(1..n) /\ Cardinality(1..n) = n
    BY <1>7, FS_Interval
  <2> DEFINE S == {v}
             T == 1..n
  <2>3. IsFiniteSet(S) /\ Cardinality(S) = 1 /\ IsFiniteSet(T) /\ Cardinality(T) = n
    BY <2>1, <2>2
  <2> HIDE DEF S, T
  <2>4. IsFiniteSet(S \X T) /\ Cardinality(S \X T) = Cardinality(S) * Cardinality(T)
    BY <2>3, FS_Product
  <2>5. 1 * n = n
    BY <1>7
  <2> QED
    BY <2>3, <2>4, <2>5 DEF S, T
<1>15. IsFiniteSet(Places(new)) /\ Cardinality(Places(new)) = Cardinality(Places(ret)) + 1
  BY <1>8, <1>9, FS_AddElement
<1>16. IsFiniteSet(Chars(new)) /\ Cardinality(Chars(new)) = Cardinality(Chars(ret)) + n
  <2> DEFINE S == {v} \X (1..n)
             C == Chars(ret)
  <2>1. IsFiniteSet(S) /\ Cardinality(S) = n /\ C \cap S = {} /\ Chars(new) = C \cup S
        /\ IsFiniteSet(C)
    BY <1>12, <1>13, <1>14
  <2> HIDE DEF S, C
  <2>2. /\ IsFiniteSet(C \cup S)
        /\ Cardinality(C \cup S) = Cardinality(C) + Cardinality(S) - Cardinality(C \cap S)
    BY <2>1, FS_Union
  <2>3. Cardinality(C \cap S) = 0 /\ Cardinality(C) \in Nat /\ Cardinality(S) = n
    BY <2>1, FS_EmptySet, FS_CardinalityType
  <2>4. Cardinality(C \cup S) = Cardinality(C) + n
    <3> DEFINE i == Cardinality(C)
               j == Cardinality(S)
               k == Cardinality(C \cap S)
    <3>1. i \in Nat /\ j = n /\ k = 0 /\ Cardinality(C \cup S) = i + j - k
      BY <2>2, <2>3
    <3> HIDE DEF i, j, k
    <3> QED
      BY <1>7, <3>1 DEF i
  <2> QED
    BY <2>1, <2>2, <2>4 DEF C
<1>17. Cardinality(Chars(new)) = Cardinality(Chars(ret)) + Len(kvp[1]) + Len(kvp[2])
  <2> DEFINE a == Len(kvp[1])
             b == Len(kvp[2])
             c == Cardinality(Chars(ret))
  <2>1. a \in Nat /\ b \in Nat /\ c \in Nat /\ n = a + b
    BY <1>6, FS_CardinalityType DEF n
  <2> HIDE DEF a, b, c
  <2>2. c + n = c + a + b
    BY <2>1
  <2> QED
    BY <1>16, <2>2 DEF a, b, c
<1> QED
  BY <1>15, <1>16, <1>17 DEF new

\* No character of a piece but its first "=" is missing in its field.
LEMMA FieldHasLength ==
  ASSUME NEW piece \in Seq(Character)
  PROVE  Len(Field(piece)[1]) + Len(Field(piece)[2]) =
           IF At(piece, Eq) = {} THEN Len(piece) ELSE Len(piece) - 1
<1>1. /\ KeyValue(piece)[1] \in Seq(Character) /\ KeyValue(piece)[2] \in Seq(Character)
  BY FieldHasType
<1>2. /\ Len(Field(piece)[1]) = Len(KeyValue(piece)[1])
      /\ Len(Field(piece)[2]) = Len(KeyValue(piece)[2])
  BY <1>1, UnescapeOrRawHasType DEF Field
<1>3. CASE At(piece, Eq) = {} /\ KeyValue(piece) = <<piece, <<>>>>
  <2>1. KeyValue(piece)[1] = piece /\ KeyValue(piece)[2] = <<>> /\ Len(<<>>) = 0 /\ Len(piece) \in Nat
    BY <1>3
  <2> QED
    BY <1>2, <1>3, <2>1
<1>4. ASSUME NEW i \in At(piece, Eq),
             KeyValue(piece) = <<SubSeq(piece, 1, i - 1), SubSeq(piece, i + 1, Len(piece))>>
      PROVE  Len(Field(piece)[1]) + Len(Field(piece)[2]) = Len(piece) - 1
  <2>1. i \in 1..Len(piece) /\ Len(piece) \in Nat
    BY DEF At
  <2>2. Len(SubSeq(piece, 1, i - 1)) = i - 1 /\ Len(SubSeq(piece, i + 1, Len(piece))) = Len(piece) - i
    BY <2>1
  <2>3. /\ KeyValue(piece)[1] = SubSeq(piece, 1, i - 1)
        /\ KeyValue(piece)[2] = SubSeq(piece, i + 1, Len(piece))
    <3>1. \A w, x, y : w = <<x, y>> => w[1] = x /\ w[2] = y
      OBVIOUS
    <3> QED
      BY <1>4, <3>1, Zenon
  <2>4. (i - 1) + (Len(piece) - i) = Len(piece) - 1
    BY <2>1
  <2> QED
    BY <1>2, <2>2, <2>3, <2>4
<1>5. CASE At(piece, Eq) # {}
  BY <1>4, <1>5, KeyValueOfPiece
<1>6. CASE At(piece, Eq) = {}
  BY <1>3, <1>6, KeyValueOfPiece
<1> QED
  BY <1>5, <1>6

\* The first "=" after a "&".
IsSign(text, i) ==
  /\ text[i] = Eq
  /\ \A j \in 1..(i - 1) : text[j] = Eq => \E k \in j..i : text[k] = Amp

\* Among the characters before a place: those that begin a pair, and those that
\* belong to a key or a value.
Starts(text, b) == {i \in 1..(b - 1) : text[i] # Amp /\ (i = 1 \/ text[i - 1] = Amp)}
Kept(text, b) == {i \in 1..(b - 1) : text[i] # Amp /\ ~IsSign(text, i)}

\* What a piece adds to them.
LEMMA PieceStarts ==
  ASSUME NEW text \in Seq(Character), NEW a \in 0..Len(text), NEW b \in 0..(Len(text) + 1),
         a # 0 => text[a] = Amp, NEW piece, IsPiece(piece, text, a, b)
  PROVE  IF piece = <<>> THEN Starts(text, b) = Starts(text, a)
         ELSE Starts(text, b) = Starts(text, a) \cup {a + 1} /\ a + 1 \notin Starts(text, a)
<1>1. /\ Len(text) \in Nat /\ a \in Nat /\ b \in Nat /\ a < b /\ b <= Len(text) + 1
      /\ \A i \in (a + 1)..(b - 1) : text[i] # Amp
      /\ piece = SubSeq(text, a + 1, b - 1)
  BY DEF IsPiece
<1>2. piece = <<>> <=> b = a + 1
  <2>1. Len(piece) = b - 1 - a
    <3>1. a + 1 \in 1..(Len(text) + 1) /\ b - 1 \in a..Len(text)
      BY <1>1
    <3>2. \A i \in (a + 1)..(b - 1) : text[i] \in Character
      BY <1>1
    <3>3. Len(piece) = IF a + 1 <= b - 1 THEN (b - 1) - (a + 1) + 1 ELSE 0
      BY <1>1, <3>2, SubSeqProperties
    <3> QED
      BY <1>1, <3>3
  <2>2. Len(<<>>) = 0
    OBVIOUS
  <2>3. piece \in Seq(Character)
    BY <1>1
  <2>4. Len(piece) = 0 => piece = <<>>
    BY <2>3
  <2> DEFINE l == Len(piece)
  <2>5. l = b - 1 - a /\ (l = 0 <=> piece = <<>>)
    BY <2>1, <2>2, <2>4
  <2> HIDE DEF l
  <2>6. l = 0 <=> b = a + 1
    BY <1>1, <2>5
  <2> QED
    BY <2>5, <2>6, Zenon
<1>3. \A i \in 1..(b - 1) : i \in 1..(a - 1) \/ i = a \/ i \in (a + 1)..(b - 1)
  BY <1>1
<1>4. \A i \in 1..(a - 1) : i \in 1..(b - 1)
  BY <1>1
<1>5. a \notin Starts(text, b)
  BY <1>1 DEF Starts
<1>6. ASSUME NEW i \in (a + 1)..(b - 1) PROVE i \in Starts(text, b) <=> i = a + 1
  <2>1. i \in 1..(b - 1) /\ text[i] # Amp
    BY <1>1
  <2>2. CASE i = a + 1
    <3>1. i = 1 \/ text[i - 1] = Amp
      BY <1>1, <2>2
    <3> QED
      BY <2>1, <2>2, <3>1 DEF Starts
  <2>3. CASE i # a + 1
    <3>1. i # 1 /\ i - 1 \in (a + 1)..(b - 1)
      BY <1>1, <2>3
    <3> QED
      BY <1>1, <2>3, <3>1 DEF Starts
  <2> QED
    BY <2>2, <2>3
<1>7. \A i \in 1..(a - 1) : i \in Starts(text, b) <=> i \in Starts(text, a)
  BY <1>4 DEF Starts
<1>8. Starts(text, b) \subseteq 1..(b - 1) /\ Starts(text, a) \subseteq 1..(a - 1)
  BY DEF Starts
<1>9. CASE b = a + 1
  <2>1. \A i \in 1..(b - 1) : i \in 1..(a - 1) \/ i = a
    BY <1>1, <1>3, <1>9
  <2>2. Starts(text, b) = Starts(text, a)
    BY <1>4, <1>5, <1>7, <1>8, <2>1
  <2> QED
    BY <1>2, <1>9, <2>2
<1>10. CASE b # a + 1
  <2>1. a + 1 \in (a + 1)..(b - 1) /\ a + 1 \notin 1..(a - 1)
    BY <1>1, <1>10
  <2>2. Starts(text, b) = Starts(text, a) \cup {a + 1}
    BY <1>3, <1>4, <1>5, <1>6, <1>7, <1>8, <2>1
  <2> QED
    BY <1>2, <1>8, <1>10, <2>1, <2>2
<1> QED
  BY <1>9, <1>10

LEMMA PieceKept ==
  ASSUME NEW text \in Seq(Character), NEW a \in 0..Len(text), NEW b \in 0..(Len(text) + 1),
         a # 0 => text[a] = Amp, NEW piece, IsPiece(piece, text, a, b)
  PROVE  \E S : /\ Kept(text, b) = Kept(text, a) \cup S /\ Kept(text, a) \cap S = {}
                /\ IsFiniteSet(S)
                /\ Cardinality(S) = IF At(piece, Eq) = {} THEN Len(piece) ELSE Len(piece) - 1
<1> DEFINE S == {i \in (a + 1)..(b - 1) : ~IsSign(text, i)}
           n == b - 1 - a
<1>1. /\ Len(text) \in Nat /\ a \in Nat /\ b \in Nat /\ a < b /\ b <= Len(text) + 1
      /\ \A i \in (a + 1)..(b - 1) : text[i] # Amp
      /\ piece = SubSeq(text, a + 1, b - 1)
  BY DEF IsPiece
<1>2. n \in Nat /\ Len(piece) = n /\ DOMAIN piece = 1..n /\ \A i \in 1..n : piece[i] = text[a + i]
  <2>1. n \in Nat
    BY <1>1
  <2>2. \A i \in (a + 1)..(b - 1) : text[i] \in Character
    BY <1>1
  <2>3. /\ a + 1 \in Int /\ b - 1 \in Int
        /\ (IF a + 1 <= b - 1 THEN (b - 1) - (a + 1) + 1 ELSE 0) = n
        /\ \A i \in 1..n : a + 1 + i - 1 = a + i
    BY <1>1
  <2>4. Len(piece) = n /\ piece \in Seq(Character)
    BY <1>1, <2>2, <2>3, SubSeqProperties
  <2>5. DOMAIN piece = 1..n
    BY <2>4
  <2>6. \A i \in 1..n : piece[i] = text[a + 1 + i - 1]
    BY <1>1, <2>2, <2>3, <2>4, SubSeqProperties
  <2> QED
    BY <2>1, <2>3, <2>4, <2>5, <2>6
<1>3. Kept(text, b) = Kept(text, a) \cup S
  <2>1. \A i \in 1..(b - 1) : i \in 1..(a - 1) \/ i = a \/ i \in (a + 1)..(b - 1)
    BY <1>1
  <2>2. \A i : i \in 1..(a - 1) \/ i \in (a + 1)..(b - 1) => i \in 1..(b - 1)
    BY <1>1
  <2>3. a \notin Kept(text, b)
    BY <1>1 DEF Kept
  <2>4. \A i \in 1..(a - 1) : i \in Kept(text, b) <=> i \in Kept(text, a)
    BY <2>2 DEF Kept
  <2>5. \A i \in (a + 1)..(b - 1) : i \in Kept(text, b) <=> i \in S
    BY <1>1, <2>2 DEF Kept
  <2>6. Kept(text, b) \subseteq 1..(b - 1) /\ Kept(text, a) \subseteq 1..(a - 1)
        /\ S \subseteq (a + 1)..(b - 1)
    BY DEF Kept
  <2> HIDE DEF S
  <2> QED
    BY <2>1, <2>2, <2>3, <2>4, <2>5, <2>6
<1>4. Kept(text, a) \cap S = {}
  <2>1. \A i \in Kept(text, a) : i < a /\ i \in Nat
    BY <1>1 DEF Kept
  <2>2. \A i \in S : a < i /\ i \in Nat
    BY <1>1
  <2> HIDE DEF S
  <2> QED
    BY <1>1, <2>1, <2>2
<1>5. CASE At(piece, Eq) = {}
  <2>1. ASSUME NEW i \in (a + 1)..(b - 1) PROVE ~IsSign(text, i)
    <3>1. i - a \in 1..n /\ a + (i - a) = i
      BY <1>1
    <3>2. piece[i - a] # Eq
      BY <1>2, <1>5, <3>1 DEF At
    <3> HIDE DEF n
    <3> QED
      BY <1>2, <3>1, <3>2 DEF IsSign
  <2>2. S = (a + 1)..(b - 1)
    BY <2>1
  <2>3. IsFiniteSet(S) /\ Cardinality(S) = n
    <3>1. a + 1 \in Int /\ b - 1 \in Int
          /\ (IF a + 1 > b - 1 THEN 0 ELSE (b - 1) - (a + 1) + 1) = n
      BY <1>1
    <3> HIDE DEF S, n
    <3> QED
      BY <2>2, <3>1, FS_Interval
  <2> HIDE DEF S
  <2> QED
    BY <1>2, <1>3, <1>4, <1>5, <2>3
<1>6. CASE At(piece, Eq) # {}
  <2>1. PICK s \in At(piece, Eq) : \A j \in At(piece, Eq) : s <= j
    <3>1. At(piece, Eq) \in SUBSET Nat
      BY <1>2 DEF At
    <3> QED
      BY <1>6, <3>1, LeastNat
  <2>2. s \in 1..n /\ text[a + s] = Eq /\ \A j \in 1..n : text[a + j] = Eq => s <= j
    BY <1>2, <2>1 DEF At
  <2>3. a + s \in (a + 1)..(b - 1)
    BY <1>1, <2>2
  <2>4. ASSUME NEW i \in (a + 1)..(b - 1), IsSign(text, i) PROVE i = a + s
    <3>1. i - a \in 1..n /\ a + (i - a) = i
      BY <1>1
    <3>2. text[i] = Eq
      BY <2>4 DEF IsSign
    <3>3. s <= i - a
      BY <2>2, <3>1, <3>2
    <3>4. SUFFICES ASSUME s < i - a PROVE FALSE
      BY <1>1, <2>2, <3>3
    <3>5. a + s \in 1..(i - 1)
      BY <1>1, <2>2, <3>4
    <3>6. PICK k \in (a + s)..i : text[k] = Amp
      BY <2>2, <2>4, <3>5 DEF IsSign
    <3>7. k \in (a + 1)..(b - 1)
      BY <1>1, <2>2, <3>6
    <3> QED
      BY <1>1, <3>6, <3>7
  <2>5. IsSign(text, a + s)
    <3>1. ASSUME NEW j \in 1..(a + s - 1), text[j] = Eq PROVE \E k \in j..(a + s) : text[k] = Amp
      <4>1. j <= a
        <5>1. SUFFICES ASSUME j > a PROVE FALSE
          BY <1>1
        <5>2. j - a \in 1..n /\ a + (j - a) = j /\ j - a < s
          BY <1>1, <2>2, <5>1
        <5>3. s <= j - a
          BY <2>2, <3>1, <5>2
        <5> QED
          BY <1>1, <2>2, <5>2, <5>3
      <4>2. a # 0 /\ a \in j..(a + s)
        BY <1>1, <2>2, <4>1
      <4> QED
        BY <4>2
    <3> QED
      BY <2>2, <3>1 DEF IsSign
  <2>6. S = ((a + 1)..(b - 1)) \ {a + s}
    BY <2>3, <2>4, <2>5
  <2>7. IsFiniteSet(S) /\ Cardinality(S) = n - 1
    <3> DEFINE I == (a + 1)..(b - 1)
    <3>1. IsFiniteSet(I) /\ Cardinality(I) = n
      <4>1. a + 1 \in Int /\ b - 1 \in Int
            /\ (IF a + 1 > b - 1 THEN 0 ELSE (b - 1) - (a + 1) + 1) = n
        BY <1>1
      <4> HIDE DEF n
      <4> QED
        BY <4>1, FS_Interval
    <3>2. S = I \ {a + s} /\ a + s \in I
      BY <2>3, <2>6
    <3> HIDE DEF I, S, n
    <3> QED
      BY <3>1, <3>2, FS_RemoveElement
  <2> HIDE DEF S
  <2> QED
    BY <1>2, <1>3, <1>4, <1>6, <2>7
<1> QED
  BY <1>5, <1>6

\* Between which places a piece stands.
LEMMA PieceOf ==
  ASSUME NEW text \in Seq(Character), NEW pieces \in PieceLists, NEW ends,
         Separates(pieces, ends, text, Len(text)), NEW k \in 1..Len(pieces)
  PROVE  /\ ends[k - 1] \in 0..Len(text) /\ ends[k] \in 0..(Len(text) + 1)
         /\ ends[k - 1] # 0 => text[ends[k - 1]] = Amp
         /\ IsPiece(pieces[k], text, ends[k - 1], ends[k])
         /\ pieces[k] \in Seq(Character)
<1> DEFINE m == Len(pieces)
<1>1. m \in Nat /\ Len(text) \in Nat /\ pieces[k] \in Seq(Character)
  BY ElementOfSeq DEF PieceLists
<1>2. /\ ends \in [0..m -> 0..(Len(text) + 1)] /\ ends[0] = 0
      /\ IsPiece(pieces[k], text, ends[k - 1], ends[k])
      /\ \A j \in 1..m : j < m => text[ends[j]] = Amp
  BY DEF Separates
<1> HIDE DEF m
<1>3. k \in 1..m
  BY DEF m
<1>4. k \in 0..m /\ k - 1 \in 0..m /\ (k - 1 = 0 \/ (k - 1 \in 1..m /\ k - 1 < m))
  BY <1>1, <1>3
<1>5. ends[k - 1] \in 0..(Len(text) + 1) /\ ends[k] \in 0..(Len(text) + 1)
  BY <1>2, <1>4
<1>6. ends[k - 1] < ends[k]
  BY <1>2 DEF IsPiece
<1>7. ends[k - 1] \in 0..Len(text)
  BY <1>1, <1>5, <1>6
<1>8. ends[k - 1] # 0 => text[ends[k - 1]] = Amp
  BY <1>2, <1>4
<1> QED
  BY <1>1, <1>2, <1>5, <1>7, <1>8

\* The fields of a piece take the place of its characters.
Counted(ret, text, b) ==
  /\ IsFiniteSet(Starts(text, b)) /\ IsFiniteSet(Kept(text, b))
  /\ IsFiniteSet(Places(ret)) /\ Cardinality(Places(ret)) = Cardinality(Starts(text, b))
  /\ IsFiniteSet(Chars(ret)) /\ Cardinality(Chars(ret)) = Cardinality(Kept(text, b))

LEMMA AddPieceCounts ==
  ASSUME NEW text \in Seq(Character), NEW a \in 0..Len(text), NEW b \in 0..(Len(text) + 1),
         a # 0 => text[a] = Amp, NEW piece \in Seq(Character), IsPiece(piece, text, a, b),
         NEW ret \in FieldMaps, Counted(ret, text, a)
  PROVE  Counted(AddPiece(ret, piece), text, b)
<1>1. /\ IsFiniteSet(Starts(text, a)) /\ IsFiniteSet(Kept(text, a))
      /\ IsFiniteSet(Places(ret)) /\ Cardinality(Places(ret)) = Cardinality(Starts(text, a))
      /\ IsFiniteSet(Chars(ret)) /\ Cardinality(Chars(ret)) = Cardinality(Kept(text, a))
  BY DEF Counted
<1> DEFINE n == IF At(piece, Eq) = {} THEN Len(piece) ELSE Len(piece) - 1
<1>2. PICK S : /\ Kept(text, b) = Kept(text, a) \cup S /\ Kept(text, a) \cap S = {}
               /\ IsFiniteSet(S) /\ Cardinality(S) = n
  BY PieceKept
<1> HIDE DEF n
<1>3. IsFiniteSet(Kept(text, b)) /\ Cardinality(Kept(text, b)) = Cardinality(Kept(text, a)) + n
  <2>1. /\ IsFiniteSet(Kept(text, a) \cup S)
        /\ Cardinality(Kept(text, a) \cup S) =
             Cardinality(Kept(text, a)) + Cardinality(S) - Cardinality(Kept(text, a) \cap S)
    BY <1>1, <1>2, FS_Union
  <2> DEFINE i == Cardinality(Kept(text, a))
             j == Cardinality(S)
             k == Cardinality(Kept(text, a) \cap S)
  <2>2. i \in Nat /\ j \in Nat /\ j = n /\ k = 0
    BY <1>1, <1>2, FS_EmptySet, FS_CardinalityType
  <2>3. Cardinality(Kept(text, b)) = i + j - k
    BY <1>2, <2>1
  <2> HIDE DEF i, j, k
  <2>4. Cardinality(Kept(text, b)) = i + n
    BY <2>2, <2>3
  <2> QED
    BY <1>2, <2>1, <2>4 DEF i
<1>4. CASE piece = <<>>
  <2>1. AddPiece(ret, piece) = ret
    BY <1>4 DEF AddPiece
  <2>2. Starts(text, b) = Starts(text, a)
    BY <1>4, PieceStarts
  <2>3. n = 0
    <3>1. Len(piece) = 0 /\ DOMAIN piece = {}
      BY <1>4
    <3>2. At(piece, Eq) = {}
      BY <3>1 DEF At
    <3> QED
      BY <3>1, <3>2 DEF n
  <2>4. Cardinality(Kept(text, a)) \in Nat
    BY <1>1, FS_CardinalityType
  <2>5. Cardinality(Kept(text, b)) = Cardinality(Kept(text, a))
    BY <1>3, <2>3, <2>4
  <2> QED
    BY <1>1, <1>3, <2>1, <2>2, <2>5, Zenon DEF Counted
<1>5. CASE piece # <<>>
  <2> DEFINE new == AddPiece(ret, piece)
  <2>1. new = PushBack(ret, Field(piece))
    BY <1>5 DEF AddPiece
  <2>2. Field(piece)[1] \in Texts /\ Field(piece)[2] \in Texts
    BY FieldHasType
  <2>3. /\ IsFiniteSet(Places(new)) /\ IsFiniteSet(Chars(new))
        /\ Cardinality(Places(new)) = Cardinality(Places(ret)) + 1
        /\ Cardinality(Chars(new)) =
             Cardinality(Chars(ret)) + Len(Field(piece)[1]) + Len(Field(piece)[2])
    BY <1>1, <2>1, <2>2, PushBackCounts
  <2>4. Starts(text, b) = Starts(text, a) \cup {a + 1} /\ a + 1 \notin Starts(text, a)
    BY <1>5, PieceStarts
  <2>5. /\ IsFiniteSet(Starts(text, b))
        /\ Cardinality(Starts(text, b)) = Cardinality(Starts(text, a)) + 1
    <3> DEFINE old == Starts(text, a)
    <3>1. IsFiniteSet(old) /\ a + 1 \notin old
      BY <1>1, <2>4
    <3> HIDE DEF old
    <3>2. /\ IsFiniteSet(old \cup {a + 1})
          /\ Cardinality(old \cup {a + 1}) = Cardinality(old) + 1
      BY <3>1, FS_AddElement
    <3> QED
      BY <2>4, <3>2, Zenon DEF old
  <2>6. Cardinality(Chars(new)) = Cardinality(Chars(ret)) + n
    <3> DEFINE i == Len(Field(piece)[1])
               j == Len(Field(piece)[2])
               c == Cardinality(Chars(ret))
    <3>1. i \in Nat /\ j \in Nat /\ c \in Nat
      <4>1. \A t \in Texts : Len(t) \in Nat
        BY DEF Texts
      <4> QED
        BY <1>1, <2>2, <4>1, FS_CardinalityType
    <3>2. i + j = n
      BY FieldHasLength DEF n
    <3>3. Cardinality(Chars(new)) = c + i + j
      BY <2>3
    <3> HIDE DEF i, j, c, new
    <3>4. Cardinality(Chars(new)) = c + n
      BY <3>1, <3>2, <3>3
    <3> QED
      BY <3>4 DEF c
  <2> HIDE DEF new
  <2>7. Counted(new, text, b)
    <3>1. Cardinality(Places(new)) = Cardinality(Starts(text, b))
      BY <1>1, <2>3, <2>5
    <3>2. Cardinality(Chars(new)) = Cardinality(Kept(text, b))
      BY <1>1, <1>3, <2>6
    <3> QED
      BY <1>3, <2>3, <2>5, <3>1, <3>2, Zenon DEF Counted
  <2> QED
    BY <2>7 DEF new
<1> QED
  BY <1>4, <1>5

LEMMA ParseLosesNothing ==
  ASSUME NEW text \in Seq(Character)
  PROVE  Counted(ParseUrlEncoded(text), text, Len(text) + 1)
<1> DEFINE pieces == Split(text)
           m == Len(pieces)
<1>1. PICK ret \in [0..m -> FieldMaps] :
        /\ ret[0] = NoFields
        /\ \A i \in 1..m : ret[i] = AddPiece(ret[i - 1], pieces[i])
        /\ ParseUrlEncoded(text) = ret[m]
  BY ParseSteps
<1>2. pieces \in PieceLists /\ \E ends : Separates(pieces, ends, text, Len(text))
  BY SplitSeparates
<1> HIDE DEF pieces
<1>3. m \in Nat
  BY <1>2 DEF PieceLists
<1>4. PICK ends : Separates(pieces, ends, text, Len(text))
  BY <1>2
<1>5. ends[0] = 0 /\ ends[m] = Len(text) + 1
  BY <1>4 DEF Separates
<1> DEFINE T == {k \in 0..m : Counted(ret[k], text, ends[k])}
<1>6. 0 \in T
  <2>1. Starts(text, 0) = {} /\ Kept(text, 0) = {}
    BY DEF Starts, Kept
  <2>2. Places(NoFields) = {} /\ Chars(NoFields) = {}
    BY DEF NoFields, Places, Chars
  <2>3. Counted(NoFields, text, 0)
    BY <2>1, <2>2, FS_EmptySet DEF Counted
  <2> QED
    BY <1>1, <1>3, <1>5, <2>3
<1>7. ASSUME NEW k \in 0..(m - 1), k \in T PROVE k + 1 \in T
  <2>1. k + 1 \in 1..m /\ k + 1 \in 0..m /\ (k + 1) - 1 = k /\ k \in 0..m
    BY <1>3
  <2>2. /\ ends[k] \in 0..Len(text) /\ ends[k + 1] \in 0..(Len(text) + 1)
        /\ ends[k] # 0 => text[ends[k]] = Amp
        /\ IsPiece(pieces[k + 1], text, ends[k], ends[k + 1])
        /\ pieces[k + 1] \in Seq(Character)
    <3> DEFINE j == k + 1
    <3>1. j \in 1..Len(pieces) /\ j - 1 = k
      BY <2>1
    <3> HIDE DEF j
    <3>2. /\ ends[j - 1] \in 0..Len(text) /\ ends[j] \in 0..(Len(text) + 1)
          /\ ends[j - 1] # 0 => text[ends[j - 1]] = Amp
          /\ IsPiece(pieces[j], text, ends[j - 1], ends[j])
          /\ pieces[j] \in Seq(Character)
      BY <1>2, <1>4, <3>1, PieceOf
    <3> QED
      BY <3>1, <3>2 DEF j
  <2>3. ret[k + 1] = AddPiece(ret[k], pieces[k + 1]) /\ ret[k] \in FieldMaps
    BY <1>1, <2>1
  <2>4. Counted(ret[k], text, ends[k])
    BY <1>7
  <2>5. Counted(AddPiece(ret[k], pieces[k + 1]), text, ends[k + 1])
    BY <2>2, <2>3, <2>4, AddPieceCounts
  <2> QED
    BY <2>1, <2>3, <2>5
<1>8. m \in T
  <2> HIDE DEF T, m
  <2>1. 0..m \subseteq T
    BY <1>3, <1>6, <1>7, UpTo
  <2> QED
    BY <1>3, <2>1
<1> QED
  BY <1>1, <1>5, <1>8

\* What has been read of a body: a form only if it could be read as a whole.
FormInv ==
  phase = "form read" =>
    /\ body \in Bodies
    /\ ~(BufferToString(body.chain).thrown /\ Header(body.contentType) = Some("urlencoded"))
    /\ fields = ParseRequest(body.contentType, BufferToString(body.chain).text)

LEMMA FormInvariant == Spec => []FormInv
<1>1. Init => FormInv
  BY DEF Init, FormInv
<1>2. FormInv /\ [Next]_vars => FormInv'
  <2> SUFFICES ASSUME FormInv, [Next]_vars PROVE FormInv'
    OBVIOUS
  <2>1. ASSUME NEW b \in Bodies, ReadForm(b) PROVE FormInv'
    <3>1. body' = b
      BY <2>1 DEF ReadForm
    <3>2. phase' = "form read" =>
            /\ ~(BufferToString(b.chain).thrown /\ Header(b.contentType) = Some("urlencoded"))
            /\ fields' = ParseRequest(b.contentType, BufferToString(b.chain).text)
      BY <2>1, Zenon DEF ReadForm
    <3> QED
      BY <3>1, <3>2, Zenon DEF FormInv
  <2>2. CASE UNCHANGED <<phase, body, fields>>
    BY <2>2 DEF FormInv
  <2>3. CASE MatchPath \/ CallHandler
    <3>1. phase' # "form read"
      BY <2>3, Zenon DEF MatchPath, CallHandler
    <3> QED
      BY <3>1 DEF FormInv
  <2>4. ASSUME NEW q \in Queries, NEW k \in Params, ReadQuery(q, k) PROVE FormInv'
    <3>1. phase' = "query read"
      BY <2>4, Zenon DEF ReadQuery
    <3>2. phase' # "form read"
      BY <3>1, Zenon
    <3> QED
      BY <3>2 DEF FormInv
  <2>5. MakeRoute /\ UNCHANGED inputVars => UNCHANGED <<phase, body, fields>>
    BY DEF inputVars
  <2>6. UNCHANGED vars => UNCHANGED <<phase, body, fields>>
    BY DEF vars, inputVars
  <2> QED
    BY <2>1, <2>2, <2>3, <2>4, <2>5, <2>6, Zenon DEF Next
<1> QED
  BY <1>1, <1>2, PTL DEF Spec

LEMMA FormIsParsed ==
  ASSUME NEW contentType, NEW text, Header(contentType) = Some("urlencoded")
  PROVE  ParseRequest(contentType, text) = ParseUrlEncoded(text)
<1> DEFINE h == Header(contentType)
<1>1. h = Some("urlencoded") /\ Some("urlencoded") # Some("form-data")
  BY DEF Some
<1> HIDE DEF h
<1>2. (CASE h = Some("urlencoded") -> ParseUrlEncoded(text)
         [] h = Some("form-data") -> ParseFormData
         [] OTHER -> NoFields) = ParseUrlEncoded(text)
  BY <1>1
<1> QED
  BY <1>2, Zenon DEF ParseRequest, h

LEMMA EndOfText == \A n \in Nat : n \in 0..n /\ (n + 1) - 1 = n
OBVIOUS

\* The text of a form.
LEMMA FormText ==
  ASSUME FormInv, phase = "form read", Header(body.contentType) = Some("urlencoded")
  PROVE  /\ FlattenSeq(body.chain) \in Seq(Character)
         /\ fields = ParseUrlEncoded(FlattenSeq(body.chain))
<1>1. /\ body \in Bodies /\ BufferToString(body.chain).thrown # TRUE
      /\ fields = ParseUrlEncoded(BufferToString(body.chain).text)
  <2>1. /\ body \in Bodies
        /\ ~(BufferToString(body.chain).thrown /\ Header(body.contentType) = Some("urlencoded"))
        /\ fields = ParseRequest(body.contentType, BufferToString(body.chain).text)
    BY Zenon DEF FormInv
  <2>2. BufferToString(body.chain).thrown # TRUE
    BY <2>1, Zenon
  <2>3. fields = ParseUrlEncoded(BufferToString(body.chain).text)
    BY <2>1, FormIsParsed, Zenon
  <2> QED
    BY <2>1, <2>2, <2>3, Zenon
<1>2. /\ body.chain \in Seq(Seq(Character))
      /\ \A i \in DOMAIN body.chain : i < Len(body.chain) => Len(body.chain[i]) <= IntLimit
  BY <1>1, RequestInputAssumption
<1>3. BufferToString(body.chain).text = FlattenSeq(body.chain)
  BY <1>1, <1>2, BufferIsWholeOrTooLong
<1>4. BufferToString(body.chain) \in Buffers
  <2>1. PICK acc \in [0..Len(body.chain) -> Buffers] :
          BufferToString(body.chain) = acc[Len(body.chain)]
    BY <1>2, BufferSteps
  <2>2. Len(body.chain) \in 0..Len(body.chain)
    <3>1. Len(body.chain) \in Nat
      BY <1>2, LenProperties
    <3> QED
      BY <3>1, EndOfText, Zenon
  <2> QED
    BY <2>1, <2>2
<1> QED
  BY <1>1, <1>3, <1>4 DEF Buffers

\* NothingLost (PostParser.cpp:99-127).
THEOREM NothingIsLost == Spec => []NothingLost
<1>1. FormInv => NothingLost
  <2> SUFFICES ASSUME FormInv, phase = "form read", Header(body.contentType) = Some("urlencoded")
               PROVE  NothingLost
    BY DEF NothingLost
  <2> DEFINE text == FlattenSeq(body.chain)
             signs == {i \in At(text, Eq) :
                         \A j \in 1..(i - 1) : text[j] = Eq => \E k \in j..i : text[k] = Amp}
  <2>1. text \in Seq(Character) /\ fields = ParseUrlEncoded(text)
    BY FormText
  <2> HIDE DEF text
  <2>2. DOMAIN text = 1..((Len(text) + 1) - 1)
    <3>1. DOMAIN text = 1..Len(text) /\ Len(text) \in Nat
      BY <2>1, LenProperties
    <3>2. (Len(text) + 1) - 1 = Len(text)
      BY <3>1, EndOfText, Zenon
    <3> QED
      BY <3>1, <3>2, Zenon
  <2>3. Starts(text, Len(text) + 1) =
          {i \in DOMAIN text : text[i] # Amp /\ (i = 1 \/ text[i - 1] = Amp)}
    BY <2>2 DEF Starts
  <2>4. Kept(text, Len(text) + 1) = {i \in DOMAIN text : text[i] # Amp} \ signs
    BY <2>2 DEF Kept, IsSign, At
  <2>5. /\ Cardinality(Places(fields)) = Cardinality(Starts(text, Len(text) + 1))
        /\ Cardinality(Chars(fields)) = Cardinality(Kept(text, Len(text) + 1))
    BY <2>1, ParseLosesNothing DEF Counted
  <2> QED
    BY <2>3, <2>4, <2>5 DEF NothingLost, Places, Chars, CharsAt, text
<1> QED
  BY <1>1, FormInvariant, PTL

-----------------------------------------------------------------------------
(* The form that was sent *)

\* Two pieces that begin at one place: the second ends no later than the first,
\* where there is a "&" or the end.
LEMMA NextEnd ==
  ASSUME NEW text, NEW n \in Nat, NEW p, NEW q, NEW a \in Nat,
         NEW b \in 0..(n + 1), NEW c \in 0..(n + 1),
         IsPiece(p, text, a, b), IsPiece(q, text, a, c), b = n + 1 \/ text[b] = Amp
  PROVE  c <= b
<1> SUFFICES ASSUME b < c PROVE FALSE
  OBVIOUS
<1>1. a < b /\ \A i \in (a + 1)..(c - 1) : text[i] # Amp
  BY DEF IsPiece
<1>2. b \in (a + 1)..(c - 1) /\ b # n + 1
  BY <1>1
<1> QED
  BY <1>1, <1>2

\* A text is divided into pieces in one way only.
LEMMA SeparatesOnce ==
  ASSUME NEW text, NEW n \in Nat, NEW p, NEW e, NEW q, NEW f,
         Len(p) \in Nat, Len(q) \in Nat, Separates(p, e, text, n), Separates(q, f, text, n)
  PROVE  Len(p) = Len(q) /\ \A k \in 1..Len(p) : p[k] = q[k]
<1> DEFINE l == Len(p)
           m == Len(q)
<1>1. /\ e \in [0..l -> 0..(n + 1)] /\ e[0] = 0 /\ e[l] = n + 1
      /\ \A k \in 1..l : IsPiece(p[k], text, e[k - 1], e[k])
      /\ \A k \in 1..l : k < l => text[e[k]] = Amp
  BY DEF Separates
<1>2. /\ f \in [0..m -> 0..(n + 1)] /\ f[0] = 0 /\ f[m] = n + 1
      /\ \A k \in 1..m : IsPiece(q[k], text, f[k - 1], f[k])
      /\ \A k \in 1..m : k < m => text[f[k]] = Amp
  BY DEF Separates
<1>3. l \in Nat /\ m \in Nat
  OBVIOUS
<1> HIDE DEF l, m
<1> DEFINE T == {k \in 0..l : k <= m => e[k] = f[k]}
<1>4. 0 \in T
  BY <1>1, <1>2, <1>3
<1>5. ASSUME NEW k \in 0..(l - 1), k \in T PROVE k + 1 \in T
  <2> SUFFICES ASSUME k + 1 <= m PROVE e[k + 1] = f[k + 1]
    BY <1>3
  <2> DEFINE j == k + 1
  <2>1. /\ j \in 1..l /\ j \in 1..m /\ j - 1 = k /\ k \in 0..l /\ k \in 0..m /\ j \in 0..l /\ j \in 0..m
        /\ k <= m /\ (j = l \/ j < l) /\ (j = m \/ j < m)
    BY <1>3
  <2> HIDE DEF j
  <2>2. e[k] = f[k] /\ e[k] \in Nat
    <3>1. e[k] \in 0..(n + 1)
      BY <1>1, <2>1
    <3> QED
      BY <1>5, <2>1, <3>1
  <2>3. e[j] \in 0..(n + 1) /\ f[j] \in 0..(n + 1)
    BY <1>1, <1>2, <2>1
  <2>4. IsPiece(p[j], text, e[k], e[j]) /\ (e[j] = n + 1 \/ text[e[j]] = Amp)
    BY <1>1, <2>1
  <2>5. IsPiece(q[j], text, e[k], f[j]) /\ (f[j] = n + 1 \/ text[f[j]] = Amp)
    BY <1>2, <2>1, <2>2
  <2>6. f[j] <= e[j]
    BY <2>2, <2>3, <2>4, <2>5, NextEnd
  <2>7. e[j] <= f[j]
    BY <2>2, <2>3, <2>4, <2>5, NextEnd
  <2>8. e[j] = f[j]
    BY <2>3, <2>6, <2>7
  <2> QED
    BY <2>8 DEF j
<1>6. ASSUME NEW k \in 0..l, k <= m PROVE e[k] = f[k]
  <2> HIDE DEF T
  <2>1. 0..l \subseteq T
    BY <1>3, <1>4, <1>5, UpTo
  <2>2. k \in T
    BY <2>1
  <2> QED
    BY <1>6, <2>2 DEF T
<1>7. ~(l < m)
  <2> SUFFICES ASSUME l < m PROVE FALSE
    OBVIOUS
  <2> DEFINE j == l + 1
  <2>1. l \in 0..l /\ l <= m /\ j \in 1..m /\ j \in 0..m /\ j - 1 = l
    BY <1>3
  <2> HIDE DEF j
  <2>2. f[l] = n + 1
    BY <1>1, <1>6, <2>1
  <2>3. f[l] < f[j]
    BY <1>2, <2>1 DEF IsPiece
  <2>4. f[j] \in 0..(n + 1)
    BY <1>2, <2>1
  <2> QED
    BY <2>2, <2>3, <2>4
<1>8. ~(m < l)
  <2> SUFFICES ASSUME m < l PROVE FALSE
    OBVIOUS
  <2> DEFINE j == m + 1
  <2>1. m \in 0..l /\ m <= m /\ j \in 1..l /\ j \in 0..l /\ j - 1 = m
    BY <1>3
  <2> HIDE DEF j
  <2>2. e[m] = n + 1
    BY <1>2, <1>6, <2>1
  <2>3. e[m] < e[j]
    BY <1>1, <2>1 DEF IsPiece
  <2>4. e[j] \in 0..(n + 1)
    BY <1>1, <2>1
  <2> QED
    BY <2>2, <2>3, <2>4
<1>9. l = m
  BY <1>3, <1>7, <1>8
<1>10. ASSUME NEW k \in 1..l PROVE p[k] = q[k]
  <2>1. k \in 0..l /\ k - 1 \in 0..l /\ k <= m /\ k - 1 <= m
    BY <1>3, <1>9
  <2>2. e[k] = f[k] /\ e[k - 1] = f[k - 1]
    BY <1>6, <2>1
  <2> QED
    BY <1>1, <1>2, <1>9, <2>2 DEF IsPiece
<1> QED
  BY <1>9, <1>10 DEF l, m

\* A field is what its spelling is read as.
LEMMA FieldIsRead ==
  ASSUME NEW sent \in Seq(Character), NEW field, SpellsField(sent, field)
  PROVE  sent # <<>> /\ Field(sent)[1] = field[1] /\ Field(sent)[2] = field[2]
<1>1. \A text, key : SpellsText(text, key) => UnescapeOrRaw(text, "QUERY") = key
  BY DEF SpellsText, UnescapeOrRaw
<1>2. /\ Field(sent)[1] = UnescapeOrRaw(KeyValue(sent)[1], "QUERY")
      /\ Field(sent)[2] = UnescapeOrRaw(KeyValue(sent)[2], "QUERY")
  BY DEF Field
<1>3. \A w, x, y : w = <<x, y>> => w[1] = x /\ w[2] = y
  OBVIOUS
<1>4. ASSUME NEW sign \in DOMAIN sent, sent[sign] = Eq,
             \A i \in 1..(sign - 1) : sent[i] # Eq,
             SpellsText(SubSeq(sent, 1, sign - 1), field[1]),
             SpellsText(SubSeq(sent, sign + 1, Len(sent)), field[2])
      PROVE  Field(sent)[1] = field[1] /\ Field(sent)[2] = field[2]
  <2>1. sign \in At(sent, Eq)
    BY <1>4 DEF At
  <2>2. At(sent, Eq) # {}
    BY <2>1
  <2>3. PICK i \in At(sent, Eq) :
          /\ \A j \in At(sent, Eq) : i <= j
          /\ KeyValue(sent) = <<SubSeq(sent, 1, i - 1), SubSeq(sent, i + 1, Len(sent))>>
    BY <2>2, KeyValueOfPiece
  <2>4. i = sign
    <3>1. i \in 1..Len(sent) /\ sign \in 1..Len(sent) /\ sent[i] = Eq /\ i <= sign
      BY <2>1, <2>3 DEF At
    <3>2. i \notin 1..(sign - 1)
      BY <1>4, <3>1
    <3> QED
      BY <3>1, <3>2
  <2>5. /\ KeyValue(sent)[1] = SubSeq(sent, 1, sign - 1)
        /\ KeyValue(sent)[2] = SubSeq(sent, sign + 1, Len(sent))
    <3>1. KeyValue(sent) = <<SubSeq(sent, 1, sign - 1), SubSeq(sent, sign + 1, Len(sent))>>
      BY <2>3, <2>4
    <3> QED
      BY <1>3, <3>1, Zenon
  <2> QED
    BY <1>1, <1>2, <1>4, <2>5, Zenon
<1>5. ASSUME \A i \in DOMAIN sent : sent[i] # Eq, SpellsText(sent, field[1]), field[2] = <<>>
      PROVE  Field(sent)[1] = field[1] /\ Field(sent)[2] = field[2]
  <2>1. At(sent, Eq) = {}
    BY <1>5 DEF At
  <2>2. KeyValue(sent) = <<sent, <<>>>>
    BY <2>1, KeyValueOfPiece
  <2>3. KeyValue(sent)[1] = sent /\ KeyValue(sent)[2] = <<>>
    <3> DEFINE none == <<>>
    <3>1. KeyValue(sent) = <<sent, none>>
      BY <2>2
    <3> HIDE DEF none
    <3>2. KeyValue(sent)[1] = sent /\ KeyValue(sent)[2] = none
      BY <1>3, <3>1, Zenon
    <3> QED
      BY <3>2 DEF none
  <2>4. UnescapeOrRaw(<<>>, "QUERY") = <<>>
    <3>1. /\ UnescapeOrRaw(<<>>, "QUERY") \in Texts
          /\ Len(UnescapeOrRaw(<<>>, "QUERY")) = Len(<<>>)
      <4>1. <<>> \in Seq(Character)
        OBVIOUS
      <4> QED
        BY <4>1, UnescapeOrRawHasType
    <3> DEFINE s == UnescapeOrRaw(<<>>, "QUERY")
    <3> HIDE DEF s
    <3>2. s \in Texts /\ Len(s) = 0 => s = <<>>
      BY DEF Texts
    <3>3. Len(<<>>) = 0
      OBVIOUS
    <3> QED
      BY <3>1, <3>2, <3>3 DEF s
  <2> QED
    BY <1>1, <1>2, <1>5, <2>3, <2>4, Zenon
<1> QED
  BY <1>4, <1>5, Zenon DEF SpellsField

Forms == Seq(Seq(Character) \X Seq(Character))

\* The pieces of the text of a form are its fields.
LEMMA FormPieces ==
  ASSUME NEW text \in Seq(Character), NEW form \in Forms, SpellsForm(text, form),
         Len(form) # 0
  PROVE  /\ Len(Split(text)) = Len(form)
         /\ \A i \in 1..Len(form) : SpellsField(Split(text)[i], form[i])
<1> DEFINE n == Len(form)
           N == Len(text)
           First(ends, i) == IF i = 1 THEN 1 ELSE ends[i - 1] + 1
<1>1. n \in Nat \ {0} /\ N \in Nat
  BY LenProperties DEF Forms
<1>2. PICK ends \in [1..n -> 1..(N + 1)] :
        /\ ends[n] = N + 1
        /\ \A i \in 1..n : i < n => text[ends[i]] = Amp
        /\ \A i \in 1..n : SpellsField(SubSeq(text, First(ends, i), ends[i] - 1), form[i])
  BY DEF SpellsForm
<1> HIDE DEF n, N
<1> DEFINE f == [k \in 0..n |-> IF k = 0 THEN 0 ELSE ends[k]]
           q == [k \in 1..n |-> SubSeq(text, f[k - 1] + 1, f[k] - 1)]
<1>3. f \in [0..n -> 0..(N + 1)] /\ f[0] = 0 /\ f[n] = N + 1 /\ \A k \in 1..n : f[k] = ends[k]
  <2>1. \A k \in 0..n : k # 0 => k \in 1..n
    BY <1>1
  <2>2. \A k \in 1..n : k \in 0..n /\ k # 0 /\ ends[k] \in 1..(N + 1)
    BY <1>1, <1>2
  <2>3. 0 \in 0..(N + 1) /\ 1..(N + 1) \subseteq 0..(N + 1) /\ 0 \in 0..n /\ n \in 1..n
    BY <1>1
  <2> QED
    BY <1>2, <2>1, <2>2, <2>3
<1>4. ASSUME NEW k \in 1..n PROVE First(ends, k) = f[k - 1] + 1
  <2>1. CASE k = 1
    BY <1>3, <2>1
  <2>2. CASE k # 1
    <3>1. k - 1 \in 1..n
      BY <1>1, <2>2
    <3> QED
      BY <1>3, <2>2, <3>1
  <2> QED
    BY <2>1, <2>2
<1> HIDE DEF f
<1>5. q = [k \in 1..n |-> q[k]] /\ \A k \in 1..n : q[k] = SubSeq(text, f[k - 1] + 1, f[k] - 1)
  OBVIOUS
<1>6. ASSUME NEW k \in 1..n PROVE q[k] \in Seq(Character) /\ SpellsField(q[k], form[k])
  <2>1. SpellsField(q[k], form[k])
    BY <1>2, <1>3, <1>4, <1>5
  <2>2. k - 1 \in 0..n /\ k \in 0..n
    BY <1>1
  <2>3. f[k - 1] \in 0..(N + 1) /\ f[k] \in 0..(N + 1)
    BY <1>3, <2>2
  <2>4. SubSeq(text, f[k - 1] + 1, f[k] - 1) \in Seq(Character)
    <3> DEFINE x == f[k - 1]
               y == f[k]
               a == x + 1
               b == y - 1
    <3> HIDE DEF x, y
    <3>1. x \in 0..(N + 1) /\ y \in 0..(N + 1)
      BY <2>3 DEF x, y
    <3>2. a \in Nat \ {0} /\ b \in Int /\ b <= N
      BY <1>1, <3>1
    <3> HIDE DEF a, b
    <3>3. SubSeq(text, a, b) \in Seq(Character)
      BY <3>2 DEF N
    <3> QED
      BY <3>3 DEF a, b, x, y
  <2> QED
    BY <1>5, <2>1, <2>4
<1>7. Len(q) = n
  <2>1. q \in Seq(Seq(Character)) /\ DOMAIN q = 1..n
    BY <1>1, <1>5, <1>6
  <2> HIDE DEF q
  <2> QED
    BY <1>1, <2>1
<1> HIDE DEF q
<1>8. ASSUME NEW k \in 1..n PROVE IsPiece(q[k], text, f[k - 1], f[k])
  <2> DEFINE a == f[k - 1]
             b == f[k]
             s == SubSeq(text, a + 1, b - 1)
  <2>1. k - 1 \in 0..n /\ k \in 0..n
    BY <1>1
  <2>2. a \in 0..(N + 1) /\ b \in 0..(N + 1) /\ q[k] = s
    BY <1>3, <1>5, <2>1
  <2>3. s \in Seq(Character) /\ s # <<>> /\ \A i \in DOMAIN s : s[i] # Amp
    <3>1. s # <<>> /\ \A i \in DOMAIN s : s[i] # Amp
      BY <1>6, <2>2, Zenon DEF SpellsField
    <3>2. s \in Seq(Character)
      BY <1>6, <2>2
    <3> QED
      BY <3>1, <3>2
  <2> HIDE DEF a, b
  <2>4. a + 1 <= b - 1
    BY <1>1, <2>2, <2>3, SubSeqEmpty
  <2>5. Len(s) = b - 1 - a /\ \A i \in 1..(b - 1 - a) : s[i] = text[a + i]
    <3>1. a + 1 \in 1..Len(text) /\ b - 1 \in 1..Len(text) /\ a + 1 <= b - 1
      BY <1>1, <2>2, <2>4 DEF N
    <3>2. Len(s) = (b - 1) - (a + 1) + 1
          /\ \A i \in 1..((b - 1) - (a + 1) + 1) : s[i] = text[a + 1 + i - 1]
      BY <3>1, SubSeqProperties
    <3>3. (b - 1) - (a + 1) + 1 = b - 1 - a
      BY <2>2
    <3>4. \A i \in 1..(b - 1 - a) : a + 1 + i - 1 = a + i
      BY <2>2
    <3> QED
      BY <3>2, <3>3, <3>4
  <2>6. ASSUME NEW i \in (a + 1)..(b - 1) PROVE text[i] # Amp
    <3> DEFINE j == i - a
    <3>1. j \in 1..(b - 1 - a) /\ a + j = i
      BY <2>2
    <3> HIDE DEF j, s
    <3>2. s[j] = text[i] /\ j \in DOMAIN s
      BY <2>3, <2>5, <3>1
    <3> QED
      BY <2>3, <3>2
  <2>7. a < b
    BY <2>2, <2>4
  <2>8. IsPiece(q[k], text, a, b)
    BY <2>2, <2>6, <2>7 DEF IsPiece
  <2> QED
    BY <2>8 DEF a, b
<1>9. Separates(q, f, text, N)
  <2>1. \A k \in 1..n : k < n => text[f[k]] = Amp
    BY <1>2, <1>3
  <2> QED
    BY <1>3, <1>7, <1>8, <2>1 DEF Separates
<1>10. PICK e : Separates(Split(text), e, text, N)
  BY SplitSeparates DEF N
<1>11. Len(Split(text)) \in Nat
  BY SplitSeparates DEF PieceLists
<1>12. Len(Split(text)) = Len(q) /\ \A k \in 1..Len(Split(text)) : Split(text)[k] = q[k]
  <2> DEFINE p == Split(text)
  <2>1. Len(p) \in Nat /\ Len(q) \in Nat /\ Separates(p, e, text, N) /\ Separates(q, f, text, N)
    BY <1>1, <1>7, <1>9, <1>10, <1>11
  <2> HIDE DEF p
  <2>2. Len(p) = Len(q) /\ \A k \in 1..Len(p) : p[k] = q[k]
    BY <1>1, <2>1, SeparatesOnce
  <2> QED
    BY <2>2 DEF p
<1> QED
  BY <1>6, <1>7, <1>12 DEF n

\* How many of the first k fields have a key.
Count(form, key, k) == Cardinality({i \in 1..k : form[i][1] = key})

LEMMA CountOneMore ==
  ASSUME NEW form, NEW key, NEW k \in Nat
  PROVE  /\ Count(form, key, k) \in Nat /\ Count(form, key, 0) = 0
         /\ Count(form, key, k + 1) =
              IF form[k + 1][1] = key THEN Count(form, key, k) + 1 ELSE Count(form, key, k)
<1> DEFINE S == {i \in 1..k : form[i][1] = key}
           T == {i \in 1..(k + 1) : form[i][1] = key}
<1>1. IsFiniteSet(S)
  <2>1. IsFiniteSet(1..k) /\ S \subseteq 1..k
    BY FS_Interval
  <2> HIDE DEF S
  <2> QED
    BY <2>1, FS_Subset
<1>2. k + 1 \notin S /\ (\A i \in 1..(k + 1) : i \in 1..k \/ i = k + 1)
      /\ k + 1 \in 1..(k + 1) /\ \A i \in 1..k : i \in 1..(k + 1)
  OBVIOUS
<1>3. Count(form, key, k) \in Nat
  <2> HIDE DEF S
  <2>1. Cardinality(S) \in Nat
    BY <1>1, FS_CardinalityType
  <2> QED
    BY <2>1 DEF Count, S
<1>4. Count(form, key, 0) = 0
  <2>1. {i \in 1..0 : form[i][1] = key} = {}
    OBVIOUS
  <2> QED
    BY <2>1, FS_EmptySet DEF Count
<1>5. CASE form[k + 1][1] = key
  <2>1. T = S \cup {k + 1}
    BY <1>2, <1>5
  <2> HIDE DEF S, T
  <2>2. Cardinality(T) = Cardinality(S) + 1
    BY <1>1, <1>2, <2>1, FS_AddElement
  <2>3. Count(form, key, k + 1) = Count(form, key, k) + 1
    BY <2>2 DEF Count, S, T
  <2> QED
    BY <1>3, <1>4, <1>5, <2>3
<1>6. CASE form[k + 1][1] # key
  <2>1. T = S
    BY <1>2, <1>6
  <2> HIDE DEF S, T
  <2>2. Count(form, key, k + 1) = Count(form, key, k)
    BY <2>1 DEF Count, S, T
  <2> QED
    BY <1>3, <1>4, <1>6, <2>2
<1> QED
  BY <1>5, <1>6

\* What has been read when the first k fields of a form have.
HasRead(ret, form, k) ==
  /\ DOMAIN ret = {form[i][1] : i \in 1..k}
  /\ \A key \in DOMAIN ret : Len(ret[key]) = Count(form, key, k)
  /\ \A i \in 1..k : LET key == form[i][1]
                         place == Count(form, key, i)
                     IN  place \in 1..Count(form, key, k) /\ ret[key][place] = form[i][2]

LEMMA ReadsOneMore ==
  ASSUME NEW form, NEW k \in Nat, NEW ret \in FieldMaps, HasRead(ret, form, k),
         NEW kvp, kvp[1] \in Texts, kvp[2] \in Texts,
         kvp[1] = form[k + 1][1] /\ kvp[2] = form[k + 1][2]
  PROVE  HasRead(PushBack(ret, kvp), form, k + 1)
<1> DEFINE new == PushBack(ret, kvp)
           key == kvp[1]
           old == IF key \in DOMAIN ret THEN ret[key] ELSE <<>>
           c == Count(form, key, k)
<1>1. /\ DOMAIN ret = {form[i][1] : i \in 1..k}
      /\ \A x \in DOMAIN ret : Len(ret[x]) = Count(form, x, k)
      /\ \A i \in 1..k : /\ Count(form, form[i][1], i) \in 1..Count(form, form[i][1], k)
                         /\ ret[form[i][1]][Count(form, form[i][1], i)] = form[i][2]
  BY DEF HasRead
<1>2. /\ DOMAIN new = DOMAIN ret \cup {key}
      /\ \A x \in DOMAIN ret : x # key => new[x] = ret[x]
      /\ Len(new[key]) = Len(old) + 1
      /\ \A i \in 1..Len(old) : new[key][i] = old[i]
      /\ new[key][Len(old) + 1] = kvp[2]
  <2>1. Appended(ret, key, kvp[2], new)
    BY PushBackAppends, Zenon
  <2> QED
    BY <2>1, Zenon DEF Appended, ListOf
<1>3. c \in Nat /\ Count(form, key, k + 1) = c + 1
  BY CountOneMore
<1>4. ASSUME NEW x, x # key PROVE Count(form, x, k + 1) = Count(form, x, k)
  BY <1>4, CountOneMore
<1>5. Len(old) = c
  <2>1. CASE key \in DOMAIN ret
    BY <1>1, <2>1
  <2>2. CASE key \notin DOMAIN ret
    <3>1. {i \in 1..k : form[i][1] = key} = {}
      BY <1>1, <2>2
    <3>2. c = 0
      BY <3>1, FS_EmptySet DEF Count
    <3>3. Len(old) = 0
      BY <2>2
    <3> QED
      BY <3>2, <3>3
  <2> QED
    BY <2>1, <2>2
<1>6. key \in DOMAIN ret => ret[key] = old
  OBVIOUS
<1> HIDE DEF new, old, c
<1>7. k + 1 \in 1..(k + 1) /\ (\A i \in 1..(k + 1) : i \in 1..k \/ i = k + 1)
      /\ \A i \in 1..k : i \in 1..(k + 1)
  OBVIOUS
<1>8. DOMAIN new = {form[i][1] : i \in 1..(k + 1)}
  <2>1. DOMAIN new = {form[i][1] : i \in 1..k} \cup {form[k + 1][1]}
    BY <1>1, <1>2
  <2> QED
    BY <1>7, <2>1
<1>9. ASSUME NEW x \in DOMAIN new PROVE Len(new[x]) = Count(form, x, k + 1)
  <2>1. CASE x = key
    BY <1>2, <1>3, <1>5, <2>1
  <2>2. CASE x # key
    BY <1>1, <1>2, <1>4, <2>2
  <2> QED
    BY <2>1, <2>2
<1>10. ASSUME NEW i \in 1..(k + 1)
       PROVE  /\ Count(form, form[i][1], i) \in 1..Count(form, form[i][1], k + 1)
              /\ new[form[i][1]][Count(form, form[i][1], i)] = form[i][2]
  <2> DEFINE x == form[i][1]
             p == Count(form, x, i)
  <2>1. CASE i \in 1..k
    <3>1. x \in DOMAIN ret /\ p \in 1..Count(form, x, k) /\ ret[x][p] = form[i][2]
      BY <1>1, <2>1
    <3> HIDE DEF p, x
    <3>2. CASE x = key
      <4>1. p \in 1..c /\ ret[x] = old /\ Count(form, x, k + 1) = c + 1
        BY <1>3, <1>6, <3>1, <3>2 DEF c
      <4>2. p \in 1..(c + 1) /\ p \in 1..Len(old)
        BY <1>3, <1>5, <4>1
      <4>3. new[x][p] = old[p]
        BY <1>2, <3>2, <4>2
      <4> QED
        BY <3>1, <4>1, <4>2, <4>3 DEF p, x
    <3>3. CASE x # key
      <4>1. Count(form, x, k + 1) = Count(form, x, k) /\ new[x] = ret[x]
        BY <1>2, <1>4, <3>1, <3>3
      <4> QED
        BY <3>1, <4>1 DEF p, x
    <3> QED
      BY <3>2, <3>3
  <2>2. CASE i = k + 1
    <3>1. x = key /\ p = c + 1 /\ Count(form, x, k + 1) = c + 1 /\ form[i][2] = kvp[2]
      BY <1>3, <2>2
    <3>2. c + 1 \in 1..(c + 1)
      BY <1>3
    <3>3. new[key][c + 1] = kvp[2]
      BY <1>2, <1>5
    <3> QED
      BY <3>1, <3>2, <3>3
  <2> QED
    BY <1>7, <2>1, <2>2
<1> QED
  BY <1>8, <1>9, <1>10 DEF HasRead, new

LEMMA FormHasBeenRead ==
  ASSUME NEW text \in Seq(Character), NEW form \in Forms, SpellsForm(text, form)
  PROVE  ParseUrlEncoded(text) \in FieldMaps /\ HasRead(ParseUrlEncoded(text), form, Len(form))
<1> DEFINE pieces == Split(text)
           m == Len(pieces)
           n == Len(form)
<1>1. PICK ret \in [0..m -> FieldMaps] :
        /\ ret[0] = NoFields
        /\ \A i \in 1..m : ret[i] = AddPiece(ret[i - 1], pieces[i])
        /\ ParseUrlEncoded(text) = ret[m]
  BY ParseSteps
<1>2. n \in Nat
  BY LenProperties DEF Forms
<1>3. m \in Nat /\ \A i \in 1..m : pieces[i] \in Seq(Character)
  BY SplitSeparates, ElementOfSeq DEF PieceLists
<1>4. HasRead(NoFields, form, 0)
  <2>1. DOMAIN NoFields = {}
    BY DEF NoFields
  <2>2. {form[i][1] : i \in 1..0} = {} /\ 1..0 = {}
    OBVIOUS
  <2> QED
    BY <2>1, <2>2 DEF HasRead
<1>5. CASE n = 0
  <2>1. text = <<>>
    BY <1>5 DEF SpellsForm
  <2>2. pieces = <<<<>>>>
    BY <2>1, SplitSteps
  <2>3. m = 1 /\ pieces[1] = <<>>
    BY <2>2
  <2>4. ret[1] = AddPiece(ret[0], pieces[1])
    BY <1>1, <2>3
  <2>5. ret[m] = NoFields
    BY <1>1, <2>3, <2>4 DEF AddPiece
  <2>6. ret[m] \in FieldMaps
    BY <1>1, <2>3
  <2> QED
    BY <1>1, <1>4, <1>5, <2>5, <2>6
<1>6. CASE n # 0
  <2>1. m = n /\ \A i \in 1..n : SpellsField(pieces[i], form[i])
    BY <1>6, FormPieces
  <2> HIDE DEF pieces, m, n
  <2> DEFINE T == {k \in 0..n : HasRead(ret[k], form, k)}
  <2>2. 0 \in T
    BY <1>1, <1>2, <1>4
  <2>3. ASSUME NEW k \in 0..(n - 1), k \in T PROVE k + 1 \in T
    <3> DEFINE j == k + 1
    <3>1. j \in 1..n /\ j \in 0..n /\ j - 1 = k /\ k \in 0..n /\ k \in Nat /\ j \in 1..m /\ k \in 0..m
      BY <1>2, <2>1
    <3> HIDE DEF j
    <3>2. ret[j] = AddPiece(ret[k], pieces[j]) /\ ret[k] \in FieldMaps
      BY <1>1, <3>1
    <3>3. pieces[j] \in Seq(Character) /\ SpellsField(pieces[j], form[j])
      BY <1>3, <2>1, <3>1
    <3>4. /\ pieces[j] # <<>>
          /\ Field(pieces[j])[1] = form[j][1] /\ Field(pieces[j])[2] = form[j][2]
      BY <3>3, FieldIsRead
    <3>5. Field(pieces[j])[1] \in Texts /\ Field(pieces[j])[2] \in Texts
      BY <3>3, FieldHasType
    <3>6. ret[j] = PushBack(ret[k], Field(pieces[j]))
      BY <3>2, <3>4 DEF AddPiece
    <3> DEFINE kvp == Field(pieces[j])
               old == ret[k]
    <3>7. /\ old \in FieldMaps /\ HasRead(old, form, k) /\ kvp[1] \in Texts /\ kvp[2] \in Texts
          /\ kvp[1] = form[k + 1][1] /\ kvp[2] = form[k + 1][2]
      BY <2>3, <3>2, <3>4, <3>5 DEF j
    <3> HIDE DEF kvp, old
    <3>8. HasRead(PushBack(old, kvp), form, k + 1)
      BY <3>1, <3>7, ReadsOneMore
    <3>9. HasRead(ret[j], form, j)
      BY <3>6, <3>8 DEF kvp, old, j
    <3> QED
      BY <3>1, <3>9 DEF j
  <2>4. n \in T
    <3> HIDE DEF T
    <3>1. 0..n \subseteq T
      BY <1>2, <2>2, <2>3, UpTo
    <3> QED
      BY <1>2, <3>1
  <2>5. ret[n] \in FieldMaps /\ n \in 0..n
    BY <1>1, <1>2, <2>1
  <2> QED
    BY <1>1, <2>1, <2>4, <2>5 DEF n
<1> QED
  BY <1>5, <1>6

\* What FormIsRead says of the fields and of the form.
IsReadAs(ret, form) ==
  LET place(i) == Cardinality({j \in 1..i : form[j][1] = form[i][1]})
  IN  /\ DOMAIN ret = {form[i][1] : i \in DOMAIN form}
      /\ \A key \in DOMAIN ret :
           Len(ret[key]) = Cardinality({i \in DOMAIN form : form[i][1] = key})
      /\ \A i \in DOMAIN form :
           /\ GetStringList(ret, form[i][1])[1][place(i)] = form[i][2]
           /\ place(i) = 1 => GetString(ret, form[i][1]) = Some(form[i][2])

LEMMA FormIsAnswered ==
  ASSUME NEW text \in Seq(Character), NEW form \in Forms, SpellsForm(text, form)
  PROVE  IsReadAs(ParseUrlEncoded(text), form)
<1> DEFINE ret == ParseUrlEncoded(text)
           n == Len(form)
           place(i) == Cardinality({j \in 1..i : form[j][1] = form[i][1]})
<1>1. DOMAIN form = 1..n
  BY LenProperties DEF Forms
<1>2. /\ DOMAIN ret = {form[i][1] : i \in 1..n}
      /\ \A key \in DOMAIN ret : Len(ret[key]) = Count(form, key, n)
      /\ \A i \in 1..n : ret[form[i][1]][Count(form, form[i][1], i)] = form[i][2]
  BY FormHasBeenRead DEF HasRead
<1>3. \A i \in 1..n : ret[form[i][1]][place(i)] = form[i][2]
  BY <1>2 DEF Count
<1>4. \A key \in DOMAIN ret : Len(ret[key]) = Cardinality({i \in 1..n : form[i][1] = key})
  BY <1>2 DEF Count
<1> HIDE DEF n, ret
<1>5. ASSUME NEW i \in DOMAIN form
      PROVE  /\ GetStringList(ret, form[i][1])[1][place(i)] = form[i][2]
             /\ place(i) = 1 => GetString(ret, form[i][1]) = Some(form[i][2])
  <2> DEFINE p == place(i)
             key == form[i][1]
  <2>1. key \in DOMAIN ret /\ ret[key][p] = form[i][2]
    BY <1>1, <1>2, <1>3
  <2> HIDE DEF p, key
  <2>2. GetStringList(ret, key) = <<ret[key]>> /\ GetString(ret, key) = Some(Head(ret[key]))
    BY <2>1 DEF GetStringList, GetString, Some
  <2>3. GetStringList(ret, key)[1] = ret[key]
    <3>1. \A x : <<x>>[1] = x
      OBVIOUS
    <3> QED
      BY <2>2, <3>1, Zenon
  <2>4. Head(ret[key]) = ret[key][1]
    OBVIOUS
  <2> QED
    BY <2>1, <2>2, <2>3, <2>4, Zenon DEF p, key
<1> HIDE DEF place
<1>6. DOMAIN ret = {form[i][1] : i \in DOMAIN form}
  BY <1>1, <1>2
<1>7. \A key \in DOMAIN ret : Len(ret[key]) = Cardinality({i \in DOMAIN form : form[i][1] = key})
  BY <1>1, <1>4
<1> QED
  BY <1>5, <1>6, <1>7, Zenon DEF IsReadAs, place, ret

LEMMA HeaderOfForm == Header(<<"urlencoded">>) = Some("urlencoded")
<1>1. Len(<<"urlencoded">>) = 1
  OBVIOUS
<1>2. <<"urlencoded">>[1] = "urlencoded"
  OBVIOUS
<1> QED
  BY <1>1, <1>2, Zenon DEF Header

\* FormIsRead (PostParser.cpp:100-133).
THEOREM FormAnswered == Spec => []FormIsRead
<1>1. FormInv => FormIsRead
  <2> SUFFICES ASSUME FormInv, phase = "form read", body.form # None
               PROVE  FormIsRead
    BY Zenon DEF FormIsRead
  <2> DEFINE form == body.form[1]
  <2>1. body \in Bodies
    BY Zenon DEF FormInv
  <2>2. body.contentType = <<"urlencoded">> /\ form \in Forms /\ SpellsForm(FlattenSeq(body.chain), form)
    BY <2>1, RequestInputAssumption, Zenon DEF Forms
  <2>3. Header(body.contentType) = Some("urlencoded")
    BY <2>2, HeaderOfForm, Zenon
  <2>4. FlattenSeq(body.chain) \in Seq(Character) /\ fields = ParseUrlEncoded(FlattenSeq(body.chain))
    BY <2>3, FormText, Zenon
  <2>5. IsReadAs(fields, form)
    BY <2>2, <2>4, FormIsAnswered, Zenon
  <2> QED
    BY <2>5, Zenon DEF FormIsRead, IsReadAs
<1> QED
  BY <1>1, FormInvariant, PTL
=============================================================================
