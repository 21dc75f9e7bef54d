-------------------------- MODULE InductionLemmas --------------------------
(***************************************************************************)
(* What recursive definitions compute: induction and recursion over the     *)
(* naturals and over sequences, orders and sums of finite sets.             *)
(***************************************************************************)
EXTENDS Integers, Sequences, FiniteSets, Functions, FiniteSetTheorems, SequenceTheorems, WellFoundedInduction, TLAPS

(* Induction over the naturals, for a set of them in place of a predicate.   *)
LEMMA SetInduction ==
  ASSUME NEW P, 0 \in P, \A n \in Nat : n \in P => n + 1 \in P
  PROVE  Nat \subseteq P
<1> DEFINE T == Nat \ P
<1> SUFFICES ASSUME T # {} PROVE FALSE
  OBVIOUS
<1>1. IsWellFoundedOn(OpToRel(<, Nat), Nat)
  BY NatLessThanWellFounded
<1>2. PICK x \in T : \A y \in T : ~ (<<y, x>> \in OpToRel(<, Nat))
  <2> HIDE DEF T
  <2> T \subseteq Nat
    BY DEF T
  <2> QED BY <1>1, WFMin
<1>3. \A y \in T : ~ (y < x)
  BY <1>2 DEF OpToRel
<1>4. x # 0 /\ x \in Nat
  OBVIOUS
<1>5. x - 1 \in Nat /\ x - 1 < x /\ (x - 1) + 1 = x
  BY <1>4
<1>6. x - 1 \in P
  BY <1>3, <1>5
<1> QED BY <1>6, <1>5

(* The least element of a set of naturals.                                   *)
LEMMA LeastOf ==
  ASSUME NEW T \in SUBSET Nat, T # {}
  PROVE  \E x \in T : \A y \in T : x <= y
<1>1. IsWellFoundedOn(OpToRel(<, Nat), Nat)
  BY NatLessThanWellFounded
<1>2. PICK x \in T : \A y \in T : ~ (<<y, x>> \in OpToRel(<, Nat))
  BY <1>1, WFMin
<1>3. \A y \in T : ~ (y < x)
  BY <1>2 DEF OpToRel
<1> QED BY <1>3

(* The greatest element of a bounded set of naturals.                        *)
LEMMA GreatestOf ==
  ASSUME NEW T \in SUBSET Nat, T # {}, NEW b \in Nat, \A x \in T : x <= b
  PROVE  \E x \in T : \A y \in T : y <= x
<1> DEFINE U == {b - x : x \in T}
<1>1. U \in SUBSET Nat
  <2> SUFFICES ASSUME NEW x \in T PROVE b - x \in Nat
    OBVIOUS
  <2> x \in Nat /\ x <= b
    OBVIOUS
  <2> QED OBVIOUS
<1>5. U # {}
  OBVIOUS
<1>2. PICK u \in U : \A v \in U : u <= v
  <2> HIDE DEF U
  <2> QED BY <1>1, <1>5, LeastOf
<1>3. PICK x \in T : u = b - x
  OBVIOUS
<1>4. \A y \in T : b - y \in U
  OBVIOUS
<1>6. ASSUME NEW y \in T PROVE y <= x
  <2> y \in Nat /\ x \in Nat /\ y <= b /\ x <= b /\ u <= b - y
    BY <1>2, <1>4
  <2> QED BY <1>3
<1> QED BY <1>6

(* Induction over sequences, for a set of them in place of a predicate.      *)
LEMMA SeqSetInduction ==
  ASSUME NEW S, NEW P, <<>> \in P, \A s \in Seq(S), e \in S : s \in P => Append(s, e) \in P
  PROVE  Seq(S) \subseteq P
<1> DEFINE Q == {n \in Nat : \A s \in Seq(S) : Len(s) = n => s \in P}
<1>1. 0 \in Q
  OBVIOUS
<1>2. ASSUME NEW n \in Nat, n \in Q PROVE n + 1 \in Q
  <2> SUFFICES ASSUME NEW s \in Seq(S), Len(s) = n + 1 PROVE s \in P
    OBVIOUS
  <2>1. s # <<>>
    OBVIOUS
  <2>2. PICK t \in Seq(S), e \in S : s = Append(t, e)
    BY <2>1, SequenceEmptyOrAppend
  <2>3. Len(t) = n
    BY <2>2
  <2> QED BY <1>2, <2>2, <2>3
<1>3. Nat \subseteq Q
  <2> HIDE DEF Q
  <2> QED BY <1>1, <1>2, SetInduction
<1> QED BY <1>3

(* A function defined by recursion along 0 .. n, with the step as a function. *)
IsStep(F, n, S) == F \in [(1 .. n) \X S -> S]
IsRun(f, n, S, a, F) == f \in [0 .. n -> S] /\ f[0] = a /\ \A k \in 1 .. n : f[k] = F[<<k, f[k - 1]>>]
(* A recursion over 1 .. n whose step is a function has a solution.          *)
LEMMA RecursionExists ==
  ASSUME NEW n \in Nat, NEW S, NEW a \in S, NEW F, IsStep(F, n, S)
  PROVE  \E f : IsRun(f, n, S, a, F)
<1> DEFINE Good(m) == m > n \/ \E f \in [0 .. m -> S] : f[0] = a /\ \A k \in 1 .. m : f[k] = F[<<k, f[k - 1]>>]
           P == {m \in Nat : Good(m)}
<1>1. 0 \in P
  <2> DEFINE f == [i \in 0 .. 0 |-> a]
  <2> f \in [0 .. 0 -> S] /\ f[0] = a /\ 1 .. 0 = {}
    OBVIOUS
  <2> HIDE DEF f
  <2> Good(0)
    OBVIOUS
  <2> QED OBVIOUS
<1>2. ASSUME NEW m \in Nat, m \in P PROVE m + 1 \in P
  <2>1. CASE m + 1 > n
    BY <2>1
  <2>2. CASE m + 1 <= n
    <3>1. PICK f \in [0 .. m -> S] : f[0] = a /\ \A k \in 1 .. m : f[k] = F[<<k, f[k - 1]>>]
      BY <1>2, <2>2
    <3> DEFINE x == F[<<m + 1, f[m]>>]
               g == [i \in 0 .. m + 1 |-> IF i = m + 1 THEN x ELSE f[i]]
    <3>2. x \in S
      BY <2>2 DEF IsStep
    <3>3. g \in [0 .. m + 1 -> S] /\ g[0] = a
      BY <3>1, <3>2
    <3>4. ASSUME NEW k \in 1 .. m + 1 PROVE g[k] = F[<<k, g[k - 1]>>]
      <4>1. CASE k = m + 1
        <5> g[k] = x /\ g[k - 1] = f[m]
          BY <4>1
        <5> QED BY <4>1
      <4>2. CASE k # m + 1
        <5> k \in 1 .. m /\ g[k] = f[k] /\ g[k - 1] = f[k - 1]
          BY <4>2
        <5> QED BY <3>1
      <4> QED BY <4>1, <4>2
    <3> HIDE DEF g
    <3> QED BY <3>3, <3>4
  <2> QED BY <2>1, <2>2
<1>3. n \in P
  <2> HIDE DEF P
  <2> QED BY <1>1, <1>2, SetInduction
<1> QED BY <1>3 DEF IsRun

-----------------------------------------------------------------------------
(* Ranks in a finite set under a strict total order, given as a set of pairs. *)

StrictOrder(S, R) ==
  /\ \A x \in S : <<x, x>> \notin R
  /\ \A x, y, z \in S : <<x, y>> \in R /\ <<y, z>> \in R => <<x, z>> \in R
  /\ \A x, y \in S : x # y => <<x, y>> \in R \/ <<y, x>> \in R
Before(S, R, x) == {y \in S : <<y, x>> \in R}
Rank(S, R, x) == Cardinality(Before(S, R, x))

(* The rank grows with the order, and every rank below the size is taken.    *)
LEMMA RanksGrow ==
  ASSUME NEW S, IsFiniteSet(S), NEW R, StrictOrder(S, R), NEW x \in S, NEW y \in S, <<x, y>> \in R
  PROVE  Rank(S, R, x) < Rank(S, R, y)
<1> DEFINE A == Before(S, R, x)
           B == Before(S, R, y)
<1>1. A \in SUBSET B /\ x \in B /\ x \notin A /\ B \in SUBSET S
  BY DEF Before, StrictOrder
<1>2. IsFiniteSet(B)
  BY <1>1, FS_Subset
<1>3. IsFiniteSet(A) /\ Cardinality(A) <= Cardinality(B) /\ (Cardinality(B) = Cardinality(A) => B = A)
  BY <1>1, <1>2, FS_Subset
<1>4. Cardinality(A) \in Nat /\ Cardinality(B) \in Nat
  BY <1>2, <1>3, FS_CardinalityType
<1>5. Cardinality(A) < Cardinality(B)
  <2> HIDE DEF A, B
  <2> QED BY <1>1, <1>3, <1>4
<1> QED BY <1>5 DEF Rank

(* Ranks are below the size of the set.                                      *)
LEMMA RankType ==
  ASSUME NEW S, IsFiniteSet(S), NEW R, StrictOrder(S, R), NEW x \in S
  PROVE  Rank(S, R, x) \in 0 .. Cardinality(S) - 1
<1> DEFINE A == Before(S, R, x)
           B == S \ {x}
<1>1. A \in SUBSET B
  BY DEF Before, StrictOrder
<1>2. IsFiniteSet(B) /\ Cardinality(B) = Cardinality(S) - 1
  BY FS_RemoveElement
<1>3. IsFiniteSet(A) /\ Cardinality(A) <= Cardinality(B)
  BY <1>1, <1>2, FS_Subset
<1>4. Cardinality(A) \in Nat /\ Cardinality(B) \in Nat /\ Cardinality(S) \in Nat
  BY <1>2, <1>3, FS_CardinalityType
<1>5. Cardinality(A) \in 0 .. Cardinality(S) - 1
  <2> HIDE DEF A, B
  <2> QED BY <1>2, <1>3, <1>4
<1> QED BY <1>5 DEF Rank

(* Every number below the size is a rank.                                    *)
LEMMA RankTaken ==
  ASSUME NEW S, IsFiniteSet(S), NEW R, StrictOrder(S, R), NEW k \in 1 .. Cardinality(S)
  PROVE  \E x \in S : Rank(S, R, x) = k - 1
<1> DEFINE n == Cardinality(S)
           f == [x \in S |-> Rank(S, R, x)]
           T == 0 .. n - 1
<1>1. n \in Nat
  BY FS_CardinalityType
<1>2. f \in [S -> T]
  BY RankType
<1>3. \A x, y \in S : x # y => f[x] # f[y]
  <2> SUFFICES ASSUME NEW x \in S, NEW y \in S, x # y PROVE Rank(S, R, x) # Rank(S, R, y)
    OBVIOUS
  <2>1. Rank(S, R, x) \in Int /\ Rank(S, R, y) \in Int
    BY RankType
  <2>2. CASE <<x, y>> \in R
    BY <2>1, <2>2, RanksGrow
  <2>3. CASE <<y, x>> \in R
    BY <2>1, <2>3, RanksGrow
  <2> QED BY <2>2, <2>3 DEF StrictOrder
<1>4. IsFiniteSet(T) /\ Cardinality(T) = n
  <2>1. IsFiniteSet(0 .. n - 1) /\ Cardinality(0 .. n - 1) = IF 0 > n - 1 THEN 0 ELSE (n - 1) - 0 + 1
    <3> HIDE DEF n
    <3> n - 1 \in Int /\ 0 \in Int
      BY <1>1
    <3> QED BY FS_Interval
  <2> HIDE DEF n
  <2> QED BY <2>1, <1>1
<1>5. f \in Injection(S, T)
  <2> HIDE DEF f, T
  <2> f \in [S -> T] /\ DOMAIN f = S
    BY <1>2
  <2> QED BY <1>3 DEF Injection, IsInjective
<1>6. f \in Surjection(S, T)
  <2> HIDE DEF f, T
  <2> QED BY <1>4, <1>5, FS_Injection
<1>7. \A t \in T : \E x \in S : f[x] = t
  <2> HIDE DEF f, T
  <2> QED BY <1>6 DEF Surjection
<1>8. k - 1 \in T
  <2> HIDE DEF n
  <2> QED BY <1>1 DEF n
<1> QED BY <1>7, <1>8

(* So there is a least element.                                              *)
LEMMA LeastInOrder ==
  ASSUME NEW S, IsFiniteSet(S), S # {}, NEW R, StrictOrder(S, R)
  PROVE  \E x \in S : \A y \in S : y = x \/ <<x, y>> \in R
<1>1. Cardinality(S) \in Nat /\ Cardinality(S) # 0
  BY FS_CardinalityType, FS_EmptySet
<1>2. 1 \in 1 .. Cardinality(S)
  BY <1>1
<1>3. PICK x \in S : Rank(S, R, x) = 1 - 1
  BY <1>2, RankTaken
<1>4. ASSUME NEW y \in S, <<y, x>> \in R PROVE FALSE
  <2> Rank(S, R, y) < Rank(S, R, x) /\ Rank(S, R, y) \in Nat
    BY <1>4, RanksGrow, RankType
  <2> QED BY <1>3
<1> QED BY <1>4 DEF StrictOrder

-----------------------------------------------------------------------------
(* Sums over a finite set, as module Functions defines them: elements are    *)
(* taken away one by one in an order that nobody knows.                      *)

Picked(s) == CHOOSE x \in s : TRUE
IsSum(g, f, S) == g = [s \in SUBSET S |-> IF s = {} THEN 0 ELSE f[Picked(s)] + g[s \ {Picked(s)}]]
NatOn(f, S) == \A x \in S : f[x] \in Nat

(* The sum is the value of the recursion that IsSum states.                  *)
LEMMA SumIsRecursive ==
  ASSUME NEW f, NEW S
  PROVE  SumFunctionOnSet(f, S) = (CHOOSE g : IsSum(g, f, S))[S]
BY DEF SumFunctionOnSet, FoldFunctionOnSet, MapThenFoldSet, IsSum, Picked

(* The picked element is in the set.                                         *)
LEMMA PickedIn ==
  ASSUME NEW s, s # {}
  PROVE  Picked(s) \in s
BY DEF Picked

(* A non-empty finite set is its picked element and a smaller set.           *)
LEMMA PickedSmaller ==
  ASSUME NEW s, IsFiniteSet(s), s # {}
  PROVE  /\ IsFiniteSet(s \ {Picked(s)})
         /\ Cardinality(s) \in Nat
         /\ Cardinality(s \ {Picked(s)}) = Cardinality(s) - 1
         /\ Cardinality(s \ {Picked(s)}) \in Nat
<1>1. Picked(s) \in s
  BY PickedIn
<1> QED BY <1>1, FS_RemoveElement, FS_CardinalityType

(* The recursion has a solution.                                             *)
LEMMA SumExists ==
  ASSUME NEW S, IsFiniteSet(S), NEW f, NatOn(f, S)
  PROVE  \E g \in [SUBSET S -> Nat] : IsSum(g, f, S)
<1> DEFINE Up(n) == {s \in SUBSET S : Cardinality(s) <= n}
           Good(n) == \E g \in [Up(n) -> Nat] :
                        \A s \in Up(n) : g[s] = IF s = {} THEN 0 ELSE f[Picked(s)] + g[s \ {Picked(s)}]
           P == {n \in Nat : Good(n)}
<1>0. \A s \in SUBSET S : IsFiniteSet(s) /\ Cardinality(s) \in Nat /\ Cardinality(s) <= Cardinality(S)
  BY FS_Subset, FS_CardinalityType
<1>1. 0 \in P
  <2>1. \A s \in Up(0) : s = {}
    BY <1>0, FS_EmptySet
  <2> DEFINE g == [s \in Up(0) |-> 0]
  <2>2. g \in [Up(0) -> Nat] /\ \A s \in Up(0) : g[s] = 0
    OBVIOUS
  <2> HIDE DEF Up, g
  <2>3. Good(0)
    BY <2>1, <2>2
  <2> QED BY <2>3
<1>2. ASSUME NEW n \in Nat, n \in P PROVE n + 1 \in P
  <2>1. PICK g \in [Up(n) -> Nat] : \A s \in Up(n) : g[s] = IF s = {} THEN 0 ELSE f[Picked(s)] + g[s \ {Picked(s)}]
    BY <1>2
  <2> DEFINE h == [s \in Up(n + 1) |-> IF s \in Up(n) THEN g[s] ELSE f[Picked(s)] + g[s \ {Picked(s)}]]
  <2>2. ASSUME NEW s \in Up(n + 1), s # {}
        PROVE  Picked(s) \in S /\ s \ {Picked(s)} \in Up(n) /\ s \ {Picked(s)} \in Up(n + 1)
    <3>1. IsFiniteSet(s) /\ Cardinality(s) <= n + 1 /\ s \in SUBSET S
      BY <1>0
    <3>2. Cardinality(s) \in Nat /\ Cardinality(s \ {Picked(s)}) = Cardinality(s) - 1
      BY <2>2, <3>1, PickedSmaller
    <3>3. Cardinality(s \ {Picked(s)}) <= n /\ Cardinality(s \ {Picked(s)}) <= n + 1
      BY <3>1, <3>2
    <3>4. Picked(s) \in s
      BY <2>2, PickedIn
    <3> QED BY <3>1, <3>3, <3>4
  <2>3. Up(n) \subseteq Up(n + 1)
    BY <1>0
  <2>4. {} \in Up(n)
    BY FS_EmptySet
  <2> HIDE DEF Up
  <2>5. h \in [Up(n + 1) -> Nat]
    <3> SUFFICES ASSUME NEW s \in Up(n + 1), s \notin Up(n) PROVE f[Picked(s)] + g[s \ {Picked(s)}] \in Nat
      BY <2>1
    <3>1. s # {}
      BY <2>4
    <3>2. f[Picked(s)] \in Nat /\ g[s \ {Picked(s)}] \in Nat
      BY <2>1, <2>2, <3>1 DEF NatOn
    <3> QED BY <3>2
  <2>6. ASSUME NEW s \in Up(n + 1) PROVE h[s] = IF s = {} THEN 0 ELSE f[Picked(s)] + h[s \ {Picked(s)}]
    <3>1. CASE s = {}
      BY <2>1, <2>3, <2>4, <3>1
    <3>2. CASE s # {}
      <4>1. h[s \ {Picked(s)}] = g[s \ {Picked(s)}]
        BY <2>2, <3>2
      <4>2. h[s] = f[Picked(s)] + g[s \ {Picked(s)}]
        BY <2>1, <3>2
      <4> QED BY <4>1, <4>2, <3>2
    <3> QED BY <3>1, <3>2
  <2> HIDE DEF h
  <2>7. Good(n + 1)
    BY <2>5, <2>6
  <2> QED BY <2>7
<1>3. Cardinality(S) \in P
  <2> HIDE DEF P
  <2> QED BY <1>0, <1>1, <1>2, SetInduction
<1>4. Up(Cardinality(S)) = SUBSET S
  BY <1>0
<1>5. PICK g \in [SUBSET S -> Nat] : \A s \in SUBSET S : g[s] = IF s = {} THEN 0 ELSE f[Picked(s)] + g[s \ {Picked(s)}]
  BY <1>3, <1>4
<1> QED BY <1>5 DEF IsSum

(* What the recursive definition gives a subset does not depend on the set.  *)
LEMMA SumUnique ==
  ASSUME NEW S, NEW T, NEW f, NEW g, NEW h, IsSum(g, f, S), IsSum(h, f, T),
         NEW u \in SUBSET (S \cap T), IsFiniteSet(u)
  PROVE  g[u] = h[u]
<1> DEFINE P == {n \in Nat : \A s \in SUBSET u : Cardinality(s) = n => g[s] = h[s]}
<1>0. \A s \in SUBSET u : IsFiniteSet(s) /\ Cardinality(s) \in Nat
  BY FS_Subset, FS_CardinalityType
<1>1. 0 \in P
  <2> SUFFICES ASSUME NEW s \in SUBSET u, Cardinality(s) = 0 PROVE g[s] = h[s]
    OBVIOUS
  <2>1. s = {}
    BY <1>0, FS_EmptySet
  <2>2. g[{}] = 0 /\ h[{}] = 0
    BY DEF IsSum
  <2> QED BY <2>1, <2>2
<1>2. ASSUME NEW n \in Nat, n \in P PROVE n + 1 \in P
  <2> SUFFICES ASSUME NEW s \in SUBSET u, Cardinality(s) = n + 1 PROVE g[s] = h[s]
    OBVIOUS
  <2>1. s # {}
    BY FS_EmptySet
  <2>2. Cardinality(s \ {Picked(s)}) = n
    BY <1>0, <2>1, PickedSmaller
  <2>3. g[s \ {Picked(s)}] = h[s \ {Picked(s)}]
    BY <1>2, <2>2
  <2>4. g[s] = f[Picked(s)] + g[s \ {Picked(s)}]
    BY <2>1 DEF IsSum
  <2>5. h[s] = f[Picked(s)] + h[s \ {Picked(s)}]
    BY <2>1 DEF IsSum
  <2> QED BY <2>3, <2>4, <2>5
<1>3. Cardinality(u) \in P
  <2> HIDE DEF P
  <2> QED BY <1>0, <1>1, <1>2, SetInduction
<1> QED BY <1>3

(* The defining equations of the sum.                                        *)
LEMMA SumDefined ==
  ASSUME NEW S, IsFiniteSet(S), NEW f, NatOn(f, S)
  PROVE  /\ SumFunctionOnSet(f, S) \in Nat
         /\ S = {} => SumFunctionOnSet(f, S) = 0
         /\ S # {} => SumFunctionOnSet(f, S) = f[Picked(S)] + SumFunctionOnSet(f, S \ {Picked(S)})
<1> DEFINE g == CHOOSE g : IsSum(g, f, S)
           T == S \ {Picked(S)}
           h == CHOOSE h : IsSum(h, f, T)
<1>1. PICK e \in [SUBSET S -> Nat] : IsSum(e, f, S)
  BY SumExists
<1>2. IsSum(g, f, S)
  BY <1>1
<1>3. SumFunctionOnSet(f, S) = g[S]
  BY SumIsRecursive
<1>4. g[S] = e[S]
  <2> HIDE DEF g
  <2> QED BY <1>1, <1>2, SumUnique
<1>5. S = {} => g[S] = 0
  <2> HIDE DEF g
  <2> QED BY <1>2 DEF IsSum
<1>6. ASSUME S # {} PROVE g[S] = f[Picked(S)] + SumFunctionOnSet(f, T)
  <2>1. IsFiniteSet(T)
    BY <1>6, PickedSmaller
  <2>2. PICK d \in [SUBSET T -> Nat] : IsSum(d, f, T)
    <3> NatOn(f, T)
      BY DEF NatOn
    <3> HIDE DEF T
    <3> QED BY <2>1, SumExists
  <2>3. IsSum(h, f, T)
    BY <2>2
  <2>4. SumFunctionOnSet(f, T) = h[T]
    BY SumIsRecursive
  <2>5. T \in SUBSET (S \cap T)
    OBVIOUS
  <2>6. g[T] = h[T]
    <3> HIDE DEF g, h, T
    <3> QED BY <1>2, <2>1, <2>3, <2>5, SumUnique
  <2>7. g[S] = f[Picked(S)] + g[T]
    <3> HIDE DEF g
    <3> QED BY <1>2, <1>6 DEF IsSum
  <2> QED BY <2>4, <2>6, <2>7
<1> QED BY <1>1, <1>3, <1>4, <1>5, <1>6

(* Any element may be taken away first.                                      *)
LEMMA SumRemove ==
  ASSUME NEW S, IsFiniteSet(S), NEW f, NatOn(f, S), NEW x \in S
  PROVE  SumFunctionOnSet(f, S) = f[x] + SumFunctionOnSet(f, S \ {x})
<1> DEFINE Sum(s) == SumFunctionOnSet(f, s)
           P == {n \in Nat : \A s \in SUBSET S : Cardinality(s) = n => \A y \in s : Sum(s) = f[y] + Sum(s \ {y})}
<1>0. \A s \in SUBSET S : /\ IsFiniteSet(s) /\ Cardinality(s) \in Nat /\ Sum(s) \in Nat
                          /\ s # {} => Sum(s) = f[Picked(s)] + Sum(s \ {Picked(s)})
  <2> SUFFICES ASSUME NEW s \in SUBSET S
               PROVE  /\ IsFiniteSet(s) /\ Cardinality(s) \in Nat /\ Sum(s) \in Nat
                      /\ s # {} => Sum(s) = f[Picked(s)] + Sum(s \ {Picked(s)})
    OBVIOUS
  <2> IsFiniteSet(s) /\ NatOn(f, s)
    BY FS_Subset DEF NatOn
  <2> QED BY FS_CardinalityType, SumDefined
<1> HIDE DEF Sum
<1>1. 0 \in P
  BY <1>0, FS_EmptySet
<1>2. ASSUME NEW n \in Nat, n \in P PROVE n + 1 \in P
  <2> SUFFICES ASSUME NEW s \in SUBSET S, Cardinality(s) = n + 1, NEW y \in s PROVE Sum(s) = f[y] + Sum(s \ {y})
    OBVIOUS
  <2> DEFINE p == Picked(s)
  <2>1. p \in s /\ Sum(s) = f[p] + Sum(s \ {p})
    BY <1>0, PickedIn
  <2>2. CASE y = p
    BY <2>1, <2>2
  <2>3. CASE y # p
    <3> HIDE DEF p
    <3>1. Cardinality(s \ {p}) = n /\ Cardinality(s \ {y}) = n
      <4>1. IsFiniteSet(s)
        BY <1>0
      <4>2. Cardinality(s \ {p}) = Cardinality(s) - 1
        BY <2>1, <4>1, FS_RemoveElement
      <4>3. Cardinality(s \ {y}) = Cardinality(s) - 1
        BY <4>1, FS_RemoveElement
      <4> QED BY <4>2, <4>3
    <3>2. Sum(s \ {p}) = f[y] + Sum((s \ {p}) \ {y})
      BY <1>2, <2>3, <3>1
    <3>3. Sum(s \ {y}) = f[p] + Sum((s \ {y}) \ {p})
      BY <1>2, <2>1, <2>3, <3>1
    <3>4. (s \ {p}) \ {y} = (s \ {y}) \ {p}
      OBVIOUS
    <3>5. f[p] \in Nat /\ f[y] \in Nat /\ Sum((s \ {p}) \ {y}) \in Nat
      BY <1>0, <2>1 DEF NatOn
    <3>6. Sum((s \ {p}) \ {y}) = Sum((s \ {y}) \ {p})
      BY <3>4
    <3> QED BY <2>1, <3>2, <3>3, <3>5, <3>6
  <2> QED BY <2>2, <2>3
<1>3. Cardinality(S) \in P
  <2> HIDE DEF P
  <2> QED BY <1>0, <1>1, <1>2, SetInduction
<1>4. Sum(S) = f[x] + Sum(S \ {x})
  BY <1>3
<1> QED BY <1>4 DEF Sum

(* The sum over a set that is split in two.                                  *)
LEMMA SumSplit ==
  ASSUME NEW S, IsFiniteSet(S), NEW f, NatOn(f, S), NEW T \in SUBSET S
  PROVE  SumFunctionOnSet(f, S) = SumFunctionOnSet(f, T) + SumFunctionOnSet(f, S \ T)
<1> DEFINE Sum(s) == SumFunctionOnSet(f, s)
           P == {n \in Nat : \A s \in SUBSET T : Cardinality(s) = n => Sum(S) = Sum(s) + Sum(S \ s)}
<1>0. \A s \in SUBSET S : /\ IsFiniteSet(s) /\ Cardinality(s) \in Nat /\ Sum(s) \in Nat
                          /\ \A x \in s : Sum(s) = f[x] + Sum(s \ {x})
  <2> SUFFICES ASSUME NEW s \in SUBSET S
               PROVE  /\ IsFiniteSet(s) /\ Cardinality(s) \in Nat /\ Sum(s) \in Nat
                      /\ \A x \in s : Sum(s) = f[x] + Sum(s \ {x})
    OBVIOUS
  <2> IsFiniteSet(s) /\ NatOn(f, s)
    BY FS_Subset DEF NatOn
  <2> QED BY FS_CardinalityType, SumDefined, SumRemove
<1>1. 0 \in P
  <2> SUFFICES ASSUME NEW s \in SUBSET T, Cardinality(s) = 0 PROVE Sum(S) = Sum(s) + Sum(S \ s)
    OBVIOUS
  <2>1. s = {} /\ S \ s = S
    BY <1>0, FS_EmptySet
  <2>2. Sum({}) = 0
    BY FS_EmptySet, SumDefined DEF NatOn
  <2> HIDE DEF Sum
  <2> QED BY <1>0, <2>1, <2>2
<1> HIDE DEF Sum
<1>2. ASSUME NEW n \in Nat, n \in P PROVE n + 1 \in P
  <2> SUFFICES ASSUME NEW s \in SUBSET T, Cardinality(s) = n + 1 PROVE Sum(S) = Sum(s) + Sum(S \ s)
    OBVIOUS
  <2>1. s # {} /\ IsFiniteSet(s)
    BY <1>0, FS_EmptySet
  <2>2. PICK y \in s : TRUE
    BY <2>1
  <2> DEFINE r == s \ {y}
  <2>3. Cardinality(r) = n /\ r \in SUBSET T
    <3>1. Cardinality(s \ {y}) = Cardinality(s) - 1
      BY <2>1, <2>2, FS_RemoveElement
    <3> QED BY <3>1
  <2>4. Sum(S) = Sum(r) + Sum(S \ r)
    BY <1>2, <2>3
  <2>5. Sum(s) = f[y] + Sum(r)
    BY <1>0, <2>2
  <2>6. y \in S \ r /\ (S \ r) \ {y} = S \ s
    BY <2>2
  <2>7. Sum(S \ r) = f[y] + Sum(S \ s)
    <3>1. Sum(S \ r) = f[y] + Sum((S \ r) \ {y})
      BY <1>0, <2>6
    <3>2. Sum((S \ r) \ {y}) = Sum(S \ s)
      BY <2>6
    <3> QED BY <3>1, <3>2
  <2>8. f[y] \in Nat /\ Sum(r) \in Nat /\ Sum(S \ s) \in Nat
    BY <1>0 DEF NatOn
  <2> HIDE DEF r
  <2> QED BY <2>4, <2>5, <2>7, <2>8
<1>3. Cardinality(T) \in P
  <2> HIDE DEF P
  <2> QED BY <1>0, <1>1, <1>2, SetInduction
<1>4. Sum(S) = Sum(T) + Sum(S \ T)
  BY <1>3
<1> QED BY <1>4 DEF Sum

(* A part has no larger sum.                                                 *)
LEMMA SumOfSubset ==
  ASSUME NEW S, IsFiniteSet(S), NEW f, NatOn(f, S), NEW T \in SUBSET S
  PROVE  SumFunctionOnSet(f, T) <= SumFunctionOnSet(f, S)
<1>1. IsFiniteSet(T) /\ IsFiniteSet(S \ T) /\ NatOn(f, T) /\ NatOn(f, S \ T)
  BY FS_Subset DEF NatOn
<1>2. SumFunctionOnSet(f, T) \in Nat /\ SumFunctionOnSet(f, S \ T) \in Nat
  BY <1>1, SumDefined
<1> QED BY <1>2, SumSplit

(* Of positive numbers only the whole set has the whole sum.                 *)
LEMMA SumOfAll ==
  ASSUME NEW S, IsFiniteSet(S), NEW f, \A x \in S : f[x] \in Nat \ {0}, NEW T \in SUBSET S,
         SumFunctionOnSet(f, T) = SumFunctionOnSet(f, S)
  PROVE  T = S
<1> SUFFICES ASSUME NEW x \in S \ T PROVE FALSE
  OBVIOUS
<1>1. NatOn(f, S) /\ NatOn(f, S \ {x}) /\ IsFiniteSet(S \ {x}) /\ T \in SUBSET (S \ {x})
  BY FS_Subset DEF NatOn
<1>2. SumFunctionOnSet(f, S) = f[x] + SumFunctionOnSet(f, S \ {x})
  BY <1>1, SumRemove
<1>3. SumFunctionOnSet(f, T) <= SumFunctionOnSet(f, S \ {x})
  BY <1>1, SumOfSubset
<1>4. SumFunctionOnSet(f, S \ {x}) \in Nat /\ f[x] \in Nat \ {0}
  BY <1>1, SumDefined
<1> QED BY <1>2, <1>3, <1>4

(* Functions that agree on the set have the same sum.                        *)
LEMMA SumOfEqual ==
  ASSUME NEW S, IsFiniteSet(S), NEW f, NatOn(f, S), NEW g, \A x \in S : g[x] = f[x]
  PROVE  SumFunctionOnSet(g, S) = SumFunctionOnSet(f, S)
<1> DEFINE P == {n \in Nat : \A s \in SUBSET S : Cardinality(s) = n => SumFunctionOnSet(g, s) = SumFunctionOnSet(f, s)}
<1>0. ASSUME NEW s \in SUBSET S
      PROVE  IsFiniteSet(s) /\ Cardinality(s) \in Nat /\ NatOn(f, s) /\ NatOn(g, s)
  BY FS_Subset, FS_CardinalityType DEF NatOn
<1>1. 0 \in P
  <2> SUFFICES ASSUME NEW s \in SUBSET S, Cardinality(s) = 0 PROVE SumFunctionOnSet(g, s) = SumFunctionOnSet(f, s)
    OBVIOUS
  <2> s = {}
    BY <1>0, FS_EmptySet
  <2> QED BY <1>0, SumDefined
<1>2. ASSUME NEW n \in Nat, n \in P PROVE n + 1 \in P
  <2> SUFFICES ASSUME NEW s \in SUBSET S, Cardinality(s) = n + 1 PROVE SumFunctionOnSet(g, s) = SumFunctionOnSet(f, s)
    OBVIOUS
  <2>1. s # {}
    BY FS_EmptySet
  <2>2. Cardinality(s \ {Picked(s)}) = n /\ Picked(s) \in s
    BY <1>0, <2>1, PickedSmaller, PickedIn
  <2>3. SumFunctionOnSet(g, s \ {Picked(s)}) = SumFunctionOnSet(f, s \ {Picked(s)})
    BY <1>2, <2>2
  <2>4. SumFunctionOnSet(g, s) = g[Picked(s)] + SumFunctionOnSet(g, s \ {Picked(s)})
    BY <1>0, <2>1, SumDefined
  <2>5. SumFunctionOnSet(f, s) = f[Picked(s)] + SumFunctionOnSet(f, s \ {Picked(s)})
    BY <1>0, <2>1, SumDefined
  <2> QED BY <2>2, <2>3, <2>4, <2>5
<1>3. Cardinality(S) \in P
  <2> Cardinality(S) \in Nat
    BY <1>0
  <2> HIDE DEF P
  <2> QED BY <1>1, <1>2, SetInduction
<1> QED BY <1>3

(* The vector with the element of rank k - 1 at place k: it is in order and   *)
(* has all elements.                                                         *)
RankedBy(s, S, R) ==
  s \in [1 .. Cardinality(S) -> S] /\ \A k \in 1 .. Cardinality(S) : Rank(S, R, s[k]) = k - 1
OrderedBy(s, S, R) ==
  /\ \A x \in S : \E k \in 1 .. Cardinality(S) : s[k] = x
  /\ \A i, j \in 1 .. Cardinality(S) : i < j => <<s[i], s[j]>> \in R
(* A vector of the elements by their ranks has them all, in order.           *)
LEMMA SortedByRank ==
  ASSUME NEW S, IsFiniteSet(S), NEW R, StrictOrder(S, R), NEW s, RankedBy(s, S, R)
  PROVE  OrderedBy(s, S, R)
<1> DEFINE n == Cardinality(S)
<1>1. n \in Nat
  BY FS_CardinalityType
<1>2. \A k \in 1 .. n : s[k] \in S /\ Rank(S, R, s[k]) = k - 1
  BY DEF RankedBy
<1>4. ASSUME NEW x \in S, NEW y \in S, Rank(S, R, x) <= Rank(S, R, y), x # y PROVE <<x, y>> \in R
  <2>1. Rank(S, R, x) \in Int /\ Rank(S, R, y) \in Int
    BY RankType
  <2>2. <<y, x>> \notin R
    BY <1>4, <2>1, RanksGrow
  <2> QED BY <1>4, <2>2 DEF StrictOrder
<1>5. ASSUME NEW x \in S PROVE \E k \in 1 .. n : s[k] = x
  <2> DEFINE k == Rank(S, R, x) + 1
  <2>1. Rank(S, R, x) \in 0 .. n - 1
    BY RankType
  <2>2. k \in 1 .. n /\ k - 1 = Rank(S, R, x)
    BY <1>1, <2>1
  <2>3. s[k] \in S /\ Rank(S, R, s[k]) = Rank(S, R, x)
    BY <1>2, <2>2
  <2>4. s[k] = x
    <3> SUFFICES ASSUME s[k] # x PROVE FALSE
      OBVIOUS
    <3>1. <<x, s[k]>> \in R /\ <<s[k], x>> \in R
      <4> HIDE DEF k
      <4> QED BY <1>4, <2>1, <2>3
    <3> HIDE DEF k
    <3> QED BY <2>3, <3>1 DEF StrictOrder
  <2> QED BY <2>2, <2>4
<1>6. ASSUME NEW i \in 1 .. n, NEW j \in 1 .. n, i < j PROVE <<s[i], s[j]>> \in R
  <2>1. Rank(S, R, s[i]) = i - 1 /\ Rank(S, R, s[j]) = j - 1 /\ s[i] \in S /\ s[j] \in S
    BY <1>2
  <2>2. s[i] # s[j]
    BY <1>1, <1>6, <2>1
  <2> QED BY <1>1, <1>4, <1>6, <2>1, <2>2
<1> QED BY <1>5, <1>6 DEF OrderedBy

(* A sum of zeros.                                                           *)
LEMMA SumOfZeros ==
  ASSUME NEW S, IsFiniteSet(S), NEW f, \A x \in S : f[x] = 0
  PROVE  SumFunctionOnSet(f, S) = 0
<1> DEFINE P == {n \in Nat : \A s \in SUBSET S : Cardinality(s) = n => SumFunctionOnSet(f, s) = 0}
<1>1. ASSUME NEW s \in SUBSET S
      PROVE  IsFiniteSet(s) /\ Cardinality(s) \in Nat /\ NatOn(f, s)
  BY FS_Subset, FS_CardinalityType DEF NatOn
<1>2. 0 \in P
  <2> SUFFICES ASSUME NEW s \in SUBSET S, Cardinality(s) = 0 PROVE SumFunctionOnSet(f, s) = 0
    OBVIOUS
  <2> s = {}
    BY <1>1, FS_EmptySet
  <2> QED BY <1>1, SumDefined
<1>3. ASSUME NEW n \in Nat, n \in P PROVE n + 1 \in P
  <2> SUFFICES ASSUME NEW s \in SUBSET S, Cardinality(s) = n + 1 PROVE SumFunctionOnSet(f, s) = 0
    OBVIOUS
  <2> DEFINE r == s \ {Picked(s)}
  <2>1. s # {}
    BY <1>1, FS_EmptySet
  <2>2. Cardinality(r) = n /\ r \in SUBSET S
    BY <1>1, <2>1, PickedSmaller
  <2>3. SumFunctionOnSet(f, s) = f[Picked(s)] + SumFunctionOnSet(f, r)
    BY <1>1, <2>1, SumDefined
  <2>4. Picked(s) \in S /\ f[Picked(s)] = 0
    BY <2>1, PickedIn
  <2>5. SumFunctionOnSet(f, r) = 0
    BY <1>3, <2>2
  <2> QED BY <2>3, <2>4, <2>5
<1> HIDE DEF P
<1>4. Nat \subseteq P
  BY <1>2, <1>3, SetInduction
<1>5. Cardinality(S) \in P
  BY <1>1, <1>4
<1> QED BY <1>5 DEF P

(* One value changes.                                                        *)
LEMMA SumChanged ==
  ASSUME NEW S, IsFiniteSet(S), NEW f, NatOn(f, S), NEW g, NatOn(g, S), NEW x \in S,
         \A y \in S : y # x => g[y] = f[y]
  PROVE  SumFunctionOnSet(g, S) = (SumFunctionOnSet(f, S) - f[x]) + g[x]
<1> DEFINE T == S \ {x}
<1>1. IsFiniteSet(T) /\ NatOn(f, T) /\ \A y \in T : g[y] = f[y]
  BY FS_Subset DEF NatOn
<1>2. SumFunctionOnSet(g, T) = SumFunctionOnSet(f, T)
  BY <1>1, SumOfEqual
<1>3. SumFunctionOnSet(f, T) \in Nat
  BY <1>1, SumDefined
<1>4. SumFunctionOnSet(f, S) = f[x] + SumFunctionOnSet(f, T) /\ SumFunctionOnSet(g, S) = g[x] + SumFunctionOnSet(g, T)
  BY SumRemove
<1>5. f[x] \in Nat /\ g[x] \in Nat
  BY DEF NatOn
<1> HIDE DEF T
<1> QED BY <1>2, <1>3, <1>4, <1>5
=============================================================================
