----------------------------- MODULE Induction -----------------------------
(***************************************************************************)
(* Induction and recursion on natural numbers, stated with sets and        *)
(* functions in the place of operator parameters, for the proofs about     *)
(* what the code computes along a path, a pattern or a body.               *)
(***************************************************************************)
EXTENDS Integers, FiniteSets, FiniteSetTheorems, TLAPS

\* A set of natural numbers has a least element: among the initial segments
\* that end in the set, one contains no other.
LEMMA LeastNat ==
  ASSUME NEW T \in SUBSET Nat, T # {}
  PROVE  \E m \in T : \A k \in T : m <= k
<1> DEFINE Segments == {0..n : n \in T}
<1>1. \A n \in T : 0..n \in FiniteSubsetsOf(Nat)
  BY FS_Interval DEF FiniteSubsetsOf
<1>2. Segments \subseteq FiniteSubsetsOf(Nat) /\ Segments # {}
  BY <1>1
<1>3. \E x \in Segments : \A y \in Segments : <<y, x>> \notin StrictSubsetOrdering(Nat)
  <2>1. IsWellFoundedOn(StrictSubsetOrdering(Nat), FiniteSubsetsOf(Nat))
    BY FS_StrictSubsetOrderingWellFounded
  <2> HIDE DEF Segments
  <2> QED BY <1>2, <2>1, WFMin
<1>4. PICK m \in T : \A k \in T : <<0..k, 0..m>> \notin StrictSubsetOrdering(Nat)
  BY <1>3
<1>5. ASSUME NEW k \in T, k < m PROVE FALSE
  <2>1. 0..k \subseteq 0..m /\ 0..k # 0..m /\ 0..k \subseteq Nat /\ 0..m \subseteq Nat
    BY <1>5
  <2> QED BY <2>1, <1>4 DEF StrictSubsetOrdering
<1> QED BY <1>5

\* Induction: a set with 0, and with every successor up to n, has all up to n.
LEMMA UpTo ==
  ASSUME NEW n \in Nat, NEW T, 0 \in T, \A k \in 0..(n - 1) : k \in T => k + 1 \in T
  PROVE  0..n \subseteq T
<1> SUFFICES ASSUME (0..n) \ T # {} PROVE FALSE
  OBVIOUS
<1>1. PICK m \in (0..n) \ T : \A k \in (0..n) \ T : m <= k
  BY LeastNat, (0..n) \ T \in SUBSET Nat
<1>2. m - 1 \in 0..(n - 1) /\ m - 1 \notin T
  BY <1>1
<1> QED BY <1>1, <1>2

\* Induction on all natural numbers.
LEMMA AllNat ==
  ASSUME NEW T, 0 \in T, \A k \in Nat : k \in T => k + 1 \in T
  PROVE  Nat \subseteq T
<1>1. ASSUME NEW n \in Nat PROVE n \in T
  BY UpTo
<1> QED BY <1>1

\* A set of integers with an upper bound in it has a greatest element.
LEMMA Greatest ==
  ASSUME NEW b \in Int, NEW T \in SUBSET Int, T # {}, \A k \in T : k <= b
  PROVE  \E m \in T : \A k \in T : k <= m
<1> DEFINE U == {u \in Nat : b - u \in T}
<1>1. ASSUME NEW k \in T PROVE b - k \in U
  <2>1. b - k \in Nat /\ b - (b - k) = k
    OBVIOUS
  <2> QED BY <2>1
<1>2. PICK u \in U : \A v \in U : u <= v
  <2>1. U \in SUBSET Nat /\ U # {}
    BY <1>1
  <2> HIDE DEF U
  <2> QED BY <2>1, LeastNat
<1>3. b - u \in T
  OBVIOUS
<1>4. ASSUME NEW k \in T PROVE k <= b - u
  <2>1. u <= b - k /\ k \in Int /\ u \in Int
    BY <1>1, <1>2
  <2> QED BY <2>1
<1> QED BY <1>3, <1>4

\* f[k] is what k steps make of a first value.
Steps(n, V) == [1..n -> [V -> V]]
IsRun(f, n, V, first, step) ==
  f \in [0..n -> V] /\ f[0] = first /\ \A i \in 1..n : f[i] = step[i][f[i - 1]]

\* Recursion: there are such values, for any steps.
LEMMA Recursion ==
  ASSUME NEW n \in Nat, NEW V, NEW first \in V, NEW step \in Steps(n, V)
  PROVE  \E f : IsRun(f, n, V, first, step)
<1> USE DEF Steps
<1> DEFINE Partial(k) ==
      \E f \in [0..k -> V] : f[0] = first /\ \A i \in 1..k : f[i] = step[i][f[i - 1]]
           T == {k \in 0..n : Partial(k)}
<1>1. 0 \in T
  <2>1. [i \in 0..0 |-> first] \in [0..0 -> V]
    OBVIOUS
  <2>2. Partial(0)
    <3> DEFINE f == [i \in 0..0 |-> first]
    <3>1. f[0] = first /\ \A i \in 1..0 : f[i] = step[i][f[i - 1]]
      OBVIOUS
    <3> HIDE DEF f
    <3> QED BY <2>1, <3>1 DEF f
  <2> QED BY <2>2
<1>2. ASSUME NEW k \in 0..(n - 1), k \in T PROVE k + 1 \in T
  <2>1. PICK f \in [0..k -> V] : f[0] = first /\ \A i \in 1..k : f[i] = step[i][f[i - 1]]
    BY <1>2
  <2> DEFINE g == [i \in 0..(k + 1) |-> IF i = k + 1 THEN step[k + 1][f[k]] ELSE f[i]]
  <2>2. step[k + 1][f[k]] \in V
    BY <2>1
  <2>3. g \in [0..(k + 1) -> V]
    BY <2>1, <2>2
  <2>4. g[0] = first
    BY <2>1
  <2>5. ASSUME NEW i \in 1..(k + 1) PROVE g[i] = step[i][g[i - 1]]
    <3>1. CASE i = k + 1
      <4>1. g[i] = step[k + 1][f[k]] /\ i - 1 = k
        BY <3>1
      <4>2. g[k] = f[k]
        OBVIOUS
      <4> QED BY <3>1, <4>1, <4>2
    <3>2. CASE i \in 1..k
      BY <3>2, <2>1
    <3> QED BY <3>1, <3>2
  <2>6. Partial(k + 1)
    <3> HIDE DEF g
    <3> QED BY <2>3, <2>4, <2>5
  <2> QED BY <2>6
<1>3. 0..n \subseteq T
  <2> HIDE DEF T
  <2> QED BY <1>1, <1>2, UpTo
<1>4. \E f : IsRun(f, n, V, first, step)
  BY <1>3 DEF IsRun
<1> QED BY <1>4

\* A function that takes the steps wherever it has a value to take them from is
\* such a run.
LEMMA TakesSteps ==
  ASSUME NEW n \in Nat, NEW V, NEW first \in V, NEW step \in Steps(n, V), NEW f,
         f = [k \in 0..n |-> f[k]], f[0] = first,
         \A k \in 1..n : f[k - 1] \in V => f[k] = step[k][f[k - 1]]
  PROVE  IsRun(f, n, V, first, step)
<1> DEFINE T == {k \in 0..n : f[k] \in V}
<1>1. 0 \in T
  OBVIOUS
<1>2. ASSUME NEW k \in 0..(n - 1), k \in T PROVE k + 1 \in T
  <2>1. k + 1 \in 1..n /\ k + 1 \in 0..n /\ (k + 1) - 1 = k /\ f[k] \in V
    BY <1>2
  <2>2. f[k + 1] = step[k + 1][f[k]]
    BY <2>1
  <2>3. step[k + 1] \in [V -> V]
    BY <2>1 DEF Steps
  <2> QED
    BY <2>1, <2>2, <2>3
<1>3. 0..n \subseteq T
  <2> HIDE DEF T
  <2> QED
    BY <1>1, <1>2, UpTo
<1>4. f \in [0..n -> V]
  BY <1>3
<1>5. \A k \in 1..n : f[k] = step[k][f[k - 1]]
  <2>1. \A k \in 1..n : k - 1 \in 0..n
    OBVIOUS
  <2> QED
    BY <1>3, <2>1
<1> QED
  BY <1>4, <1>5 DEF IsRun

\* The values of an increasing sequence, and those of them up to x.
Increasing(p, n) == p \in [1..n -> Int] /\ \A a, b \in 1..n : a < b => p[a] < p[b]
Values(p, n) == {p[a] : a \in 1..n}
Below(S, x) == {y \in S : y <= x}

\* Counting along an increasing sequence.
LEMMA InOrder ==
  ASSUME NEW n \in Nat, NEW p, Increasing(p, n)
  PROVE  /\ IsFiniteSet(Values(p, n)) /\ Cardinality(Values(p, n)) = n
         /\ \A a \in 1..n : Cardinality(Below(Values(p, n), p[a])) = a
<1> USE DEF Increasing, Values, Below
<1> DEFINE T(m) == {p[a] : a \in 1..m}
<1>1. ASSUME NEW m \in 0..n PROVE IsFiniteSet(T(m)) /\ Cardinality(T(m)) = m
  <2> DEFINE f == [a \in 1..m |-> p[a]]
  <2>1. \A a, b \in 1..m : a # b => p[a] # p[b]
    <3>1. ASSUME NEW a \in 1..m, NEW b \in 1..m, a # b PROVE p[a] # p[b]
      <4>1. a \in 1..n /\ b \in 1..n /\ (a < b \/ b < a) /\ p[a] \in Int /\ p[b] \in Int
        BY <3>1
      <4> QED
        BY <4>1
    <3> QED
      BY <3>1
  <2>2. f \in Bijection(1..m, T(m))
    <3>1. f \in [1..m -> T(m)] /\ \A t \in T(m) : \E a \in 1..m : f[a] = t
      OBVIOUS
    <3>2. \A a, b \in 1..m : f[a] = f[b] => a = b
      BY <2>1
    <3> HIDE DEF f, T
    <3> QED
      BY <3>1, <3>2 DEF Bijection, Injection, Surjection, IsInjective
  <2>3. ExistsBijection(1..m, T(m))
    BY <2>2 DEF ExistsBijection
  <2>4. IsFiniteSet(1..m) /\ Cardinality(1..m) = m
    BY FS_Interval
  <2> HIDE DEF T
  <2> QED
    BY <2>3, <2>4, FS_Bijection
<1>2. Values(p, n) = T(n)
  OBVIOUS
<1>3. ASSUME NEW a \in 1..n PROVE Below(Values(p, n), p[a]) = T(a)
  <2>1. ASSUME NEW b \in 1..n PROVE p[b] <= p[a] <=> b \in 1..a
    <3>1. p[a] \in Int /\ p[b] \in Int /\ (b < a \/ b = a \/ a < b)
      OBVIOUS
    <3> QED
      BY <3>1
  <2> QED
    BY <2>1
<1>4. n \in 0..n /\ \A a \in 1..n : a \in 0..n
  OBVIOUS
<1> HIDE DEF T, Increasing, Values, Below
<1> QED
  BY <1>1, <1>2, <1>3, <1>4
=============================================================================
