------------------------- MODULE HypothesizerProofs -------------------------
(***************************************************************************)
(* Theorems about Hypothesizer, for every input, strategy and threshold.    *)
(***************************************************************************)
EXTENDS Hypothesizer, InductionLemmas, SequenceTheorems

-----------------------------------------------------------------------------
(* Sorting *)

Increasing(s) == \A i, j \in 1 .. Len(s) : i < j => s[i] < s[j]
Nondecreasing(s) == \A i, j \in 1 .. Len(s) : i < j => s[i] <= s[j]

(* The elements of a sequence.                                               *)
LEMMA ToSetOfSeq ==
  ASSUME NEW S, NEW s \in Seq(S)
  PROVE  /\ ToSet(s) \subseteq S
         /\ \A x : x \in ToSet(s) <=> \E i \in 1 .. Len(s) : s[i] = x
<1>1. DOMAIN s = 1 .. Len(s) /\ \A i \in 1 .. Len(s) : s[i] \in S
  OBVIOUS
<1> QED BY <1>1 DEF ToSet

(* A set of lock ids as a sorted vector.                                     *)
Ids(L) == InOrder(L, <)
(* It has the locks, each once and in increasing order.                      *)
LEMMA SortedIds ==
  ASSUME NEW L \in SUBSET Nat, IsFiniteSet(L)
  PROVE  /\ Ids(L) \in Seq(Nat)
         /\ Len(Ids(L)) = Cardinality(L)
         /\ Increasing(Ids(L))
         /\ ToSet(Ids(L)) = L
<1> DEFINE R == {p \in L \X L : p[1] < p[2]}
           s == [k \in 1 .. Cardinality(L) |-> CHOOSE x \in L : Cardinality({y \in L : y < x}) = k - 1]
<1>1. Ids(L) = s
  BY DEF Ids, InOrder
<1>2. StrictOrder(L, R)
  <2> \A x, y \in L : <<x, y>> \in R <=> x < y
    OBVIOUS
  <2> HIDE DEF R
  <2> QED BY DEF StrictOrder
<1>3. \A x \in L : {y \in L : y < x} = Before(L, R, x)
  BY DEF Before
<1>4. \A x \in L : Cardinality({y \in L : y < x}) = Rank(L, R, x)
  BY <1>3 DEF Rank
<1>5. ASSUME NEW k \in 1 .. Cardinality(L) PROVE s[k] \in L /\ Rank(L, R, s[k]) = k - 1
  <2>1. PICK x \in L : Rank(L, R, x) = k - 1
    <3> HIDE DEF R
    <3> QED BY <1>2, RankTaken
  <2>2. s[k] = CHOOSE z \in L : Cardinality({y \in L : y < z}) = k - 1
    OBVIOUS
  <2>3. s[k] \in L /\ Cardinality({y \in L : y < s[k]}) = k - 1
    <3> HIDE DEF s
    <3> QED BY <1>4, <2>1, <2>2
  <2> HIDE DEF s
  <2> QED BY <1>4, <2>3
<1>6. /\ s \in [1 .. Cardinality(L) -> L]
      /\ \A x \in L : \E k \in 1 .. Cardinality(L) : s[k] = x
      /\ \A i, j \in 1 .. Cardinality(L) : i < j => <<s[i], s[j]>> \in R
  <2>1. s \in [1 .. Cardinality(L) -> L]
    BY <1>5
  <2>2. \A k \in 1 .. Cardinality(L) : Rank(L, R, s[k]) = k - 1
    BY <1>5
  <2> HIDE DEF s, R
  <2>3. RankedBy(s, L, R)
    BY <2>1, <2>2 DEF RankedBy
  <2>4. OrderedBy(s, L, R)
    BY <1>2, <2>3, SortedByRank
  <2> QED BY <2>1, <2>4 DEF OrderedBy
<1>7. Cardinality(L) \in Nat
  BY FS_CardinalityType
<1>8. s \in Seq(L) /\ Len(s) = Cardinality(L)
  <2> HIDE DEF s
  <2> QED BY <1>6, <1>7
<1>9. \A i, j \in 1 .. Cardinality(L) : i < j => s[i] < s[j]
  <2> HIDE DEF s
  <2> QED BY <1>6
<1>10. ToSet(s) = L
  <2> HIDE DEF s
  <2> \A x : x \in ToSet(s) <=> \E i \in 1 .. Len(s) : s[i] = x
    BY <1>8, ToSetOfSeq
  <2> QED BY <1>6, <1>8
<1> HIDE DEF s
<1>11. s \in Seq(Nat)
  BY <1>8, SeqMonotonic
<1> QED BY <1>1, <1>8, <1>9, <1>10, <1>11 DEF Increasing

(* The sorted copy of a lock combination.                                    *)
LEMMA SortedCopy ==
  ASSUME NEW held \in Seq(Nat)
  PROVE  /\ update_sorted_locks(held) \in Seq(Nat)
         /\ Nondecreasing(update_sorted_locks(held))
         /\ ToSet(update_sorted_locks(held)) = ToSet(held)
<1> DEFINE D == 1 .. Len(held)
           Less(i, j) == held[i] < held[j] \/ (held[i] = held[j] /\ i < j)
           R == {p \in D \X D : Less(p[1], p[2])}
           at == [k \in 1 .. Cardinality(D) |-> CHOOSE i \in D : Cardinality({j \in D : Less(j, i)}) = k - 1]
           s == [k \in D |-> held[at[k]]]
<1>0. Len(held) \in Nat /\ DOMAIN held = D /\ \A i \in D : held[i] \in Nat
  OBVIOUS
<1>1. update_sorted_locks(held) = s
  <2> InOrder(DOMAIN held, LAMBDA i, j : held[i] < held[j] \/ (held[i] = held[j] /\ i < j)) = at
    BY <1>0 DEF InOrder
  <2> QED BY <1>0 DEF update_sorted_locks
<1>2. IsFiniteSet(D) /\ Cardinality(D) = Len(held)
  <2>1. IsFiniteSet(1 .. Len(held)) /\ Cardinality(1 .. Len(held)) = IF 1 > Len(held) THEN 0 ELSE Len(held) - 1 + 1
    BY <1>0, FS_Interval
  <2> QED BY <1>0, <2>1
<1>3. StrictOrder(D, R)
  <2>1. \A x, y \in D : <<x, y>> \in R <=> Less(x, y)
    OBVIOUS
  <2>2. \A x \in D : ~Less(x, x)
    BY <1>0
  <2>3. \A x, y, z \in D : Less(x, y) /\ Less(y, z) => Less(x, z)
    BY <1>0
  <2>4. \A x, y \in D : x # y => Less(x, y) \/ Less(y, x)
    BY <1>0
  <2> HIDE DEF R, Less, D
  <2> QED BY <2>1, <2>2, <2>3, <2>4 DEF StrictOrder
<1>4. \A i \in D : {j \in D : Less(j, i)} = Before(D, R, i)
  BY DEF Before
<1>5. \A i \in D : Cardinality({j \in D : Less(j, i)}) = Rank(D, R, i)
  BY <1>4 DEF Rank
<1>6. ASSUME NEW k \in 1 .. Cardinality(D) PROVE at[k] \in D /\ Rank(D, R, at[k]) = k - 1
  <2>1. PICK x \in D : Rank(D, R, x) = k - 1
    <3> HIDE DEF R, D
    <3> QED BY <1>2, <1>3, RankTaken
  <2>2. at[k] = CHOOSE i \in D : Cardinality({j \in D : Less(j, i)}) = k - 1
    OBVIOUS
  <2>3. at[k] \in D /\ Cardinality({j \in D : Less(j, at[k])}) = k - 1
    <3> HIDE DEF at, D, R, Less
    <3> QED BY <1>5, <2>1, <2>2
  <2> HIDE DEF at, D, R, Less
  <2> QED BY <1>5, <2>3
<1>7. /\ at \in [D -> D]
      /\ \A i \in D : \E k \in D : at[k] = i
      /\ \A i, j \in D : i < j => <<at[i], at[j]>> \in R
  <2>1. /\ at \in [1 .. Cardinality(D) -> D]
        /\ \A i \in D : \E k \in 1 .. Cardinality(D) : at[k] = i
        /\ \A i, j \in 1 .. Cardinality(D) : i < j => <<at[i], at[j]>> \in R
    <3>1. at \in [1 .. Cardinality(D) -> D]
      BY <1>6
    <3>2. \A k \in 1 .. Cardinality(D) : Rank(D, R, at[k]) = k - 1
      BY <1>6
    <3> HIDE DEF at, R, D
    <3>3. RankedBy(at, D, R)
      BY <3>1, <3>2 DEF RankedBy
    <3>4. OrderedBy(at, D, R)
      BY <1>2, <1>3, <3>3, SortedByRank
    <3> QED BY <3>1, <3>4 DEF OrderedBy
  <2>2. 1 .. Cardinality(D) = D
    BY <1>2
  <2> HIDE DEF at, R, D
  <2> QED BY <2>1, <2>2
<1>8. s \in Seq(Nat) /\ Len(s) = Len(held)
  <2> HIDE DEF at
  <2> s \in [1 .. Len(held) -> Nat]
    BY <1>0, <1>7
  <2> HIDE DEF s
  <2> QED BY <1>0
<1>9. Nondecreasing(s)
  <2> SUFFICES ASSUME NEW i \in D, NEW j \in D, i < j PROVE s[i] <= s[j]
    BY <1>8 DEF Nondecreasing
  <2>1. Less(at[i], at[j]) /\ at[i] \in D /\ at[j] \in D
    <3> HIDE DEF at
    <3> QED BY <1>7
  <2>2. s[i] = held[at[i]] /\ s[j] = held[at[j]]
    <3> HIDE DEF at
    <3> QED OBVIOUS
  <2> HIDE DEF at, s
  <2> QED BY <1>0, <2>1, <2>2
<1>10. ToSet(s) = ToSet(held)
  <2>1. \A i \in D : s[i] = held[at[i]]
    <3> HIDE DEF at
    <3> QED OBVIOUS
  <2>2. \A x : x \in ToSet(s) <=> \E i \in D : s[i] = x
    <3> HIDE DEF s
    <3> QED BY <1>8, ToSetOfSeq
  <2>3. \A x : x \in ToSet(held) <=> \E i \in D : held[i] = x
    BY ToSetOfSeq
  <2> HIDE DEF s, at, D
  <2>4. \A x : x \in ToSet(s) <=> x \in ToSet(held)
    BY <1>7, <2>1, <2>2, <2>3
  <2> QED BY <2>4
<1> HIDE DEF s
<1> QED BY <1>1, <1>8, <1>9, <1>10

-----------------------------------------------------------------------------
(* contains_locks *)

(* The walk, and where it stands after each lock.                            *)
IsWalk(at, mine, l) ==
  /\ at \in [0 .. Len(mine) -> Nat] /\ at[0] = 1
  /\ \A i \in 1 .. Len(mine) :
       at[i] = IF at[i - 1] <= Len(l) /\ mine[i] = l[at[i - 1]] THEN at[i - 1] + 1 ELSE at[i - 1]

(* The walk that contains_locks defines by recursion exists.                 *)
LEMMA WalkUnfolds ==
  ASSUME NEW held, locks_held_sorted[held] \in Seq(Nat), NEW l \in Seq(Nat)
  PROVE  \E at : /\ IsWalk(at, locks_held_sorted[held], l)
                 /\ contains_locks(held, l) <=> at[Len(locks_held_sorted[held])] > Len(l)
<1> DEFINE mine == locks_held_sorted[held]
           n == Len(mine)
           F == [p \in (1 .. n) \X Nat |-> IF p[2] <= Len(l) /\ mine[p[1]] = l[p[2]] THEN p[2] + 1 ELSE p[2]]
           Step(at) == [i \in 0 .. n |-> IF i = 0 THEN 1
                                         ELSE IF at[i - 1] <= Len(l) /\ mine[i] = l[at[i - 1]] THEN at[i - 1] + 1
                                         ELSE at[i - 1]]
           their == CHOOSE at : at = Step(at)
<1>0. n \in Nat /\ Len(l) \in Nat
  OBVIOUS
<1>1. IsStep(F, n, Nat)
  <2> \A p \in (1 .. n) \X Nat : p[2] \in Nat
    OBVIOUS
  <2> QED BY DEF IsStep
<1>2. \A k \in 1 .. n, x \in Nat : F[<<k, x>>] = IF x <= Len(l) /\ mine[k] = l[x] THEN x + 1 ELSE x
  <2> HIDE DEF n, mine
  <2> SUFFICES ASSUME NEW k \in 1 .. n, NEW x \in Nat PROVE F[<<k, x>>] = IF x <= Len(l) /\ mine[k] = l[x] THEN x + 1 ELSE x
    OBVIOUS
  <2> <<k, x>> \in (1 .. n) \X Nat /\ <<k, x>>[1] = k /\ <<k, x>>[2] = x
    OBVIOUS
  <2> QED OBVIOUS
<1>3. PICK at : IsRun(at, n, Nat, 1, F)
  <2> HIDE DEF F, n
  <2> QED BY <1>0, <1>1, RecursionExists
<1>4. at = Step(at)
  <2>1. ASSUME NEW i \in 0 .. n PROVE at[i] = Step(at)[i]
    <3>1. CASE i = 0
      BY <1>3, <3>1 DEF IsRun
    <3>2. CASE i # 0
      <4>1. i \in 1 .. n /\ i - 1 \in 0 .. n /\ at[i - 1] \in Nat
        <5> HIDE DEF F, n
        <5> QED BY <1>0, <1>3, <3>2 DEF IsRun
      <4>2. at[i] = F[<<i, at[i - 1]>>]
        <5> HIDE DEF F, n
        <5> QED BY <1>3, <4>1 DEF IsRun
      <4> HIDE DEF F, mine, n
      <4> QED BY <1>2, <3>2, <4>1, <4>2
    <3> QED BY <3>1, <3>2
  <2> HIDE DEF n
  <2> DEFINE t == Step(at)
  <2> t = [i \in 0 .. n |-> t[i]]
    OBVIOUS
  <2> HIDE DEF t
  <2> at = [i \in 0 .. n |-> at[i]]
    BY <1>3 DEF IsRun
  <2> at = t
    BY <2>1 DEF t
  <2> QED BY DEF t
<1>5. their = Step(their)
  <2> HIDE DEF Step
  <2> QED BY <1>4
<1>6. contains_locks(held, l) <=> their[n] > Len(l)
  BY DEF contains_locks
<1> HIDE DEF their
<1>7. IsWalk(their, mine, l)
  <2>1. \A i \in 0 .. n : their[i] = IF i = 0 THEN 1
                                         ELSE IF their[i - 1] <= Len(l) /\ mine[i] = l[their[i - 1]] THEN their[i - 1] + 1
                                         ELSE their[i - 1]
    BY <1>5
  <2>2. DOMAIN their = 0 .. n /\ their = [i \in 0 .. n |-> their[i]]
    BY <1>5
  <2> HIDE DEF Step
  <2>3. their[0] = 1
    BY <1>0, <2>1
  <2> HIDE DEF mine, n
  <2>4. \A i \in 1 .. n : /\ their[i] = IF their[i - 1] <= Len(l) /\ mine[i] = l[their[i - 1]] THEN their[i - 1] + 1 ELSE their[i - 1]
    BY <1>0, <2>1
  <2>5. \A i \in 0 .. n : their[i] \in Nat
    <3> DEFINE P == {i \in Nat : i <= n => their[i] \in Nat}
    <3>1. 0 \in P
      BY <2>3
    <3>2. ASSUME NEW i \in Nat, i \in P PROVE i + 1 \in P
      <4> SUFFICES ASSUME i + 1 <= n PROVE their[i + 1] \in Nat
        OBVIOUS
      <4>1. i + 1 \in 1 .. n /\ (i + 1) - 1 = i /\ their[i] \in Nat
        BY <1>0, <3>2
      <4> QED BY <2>4, <4>1
    <3> HIDE DEF P
    <3>3. Nat \subseteq P
      BY <3>1, <3>2, SetInduction
    <3> QED BY <1>0, <3>3 DEF P
  <2>6. their \in [0 .. n -> Nat]
    BY <2>2, <2>5
  <2> QED BY <2>3, <2>4, <2>6 DEF IsWalk, n
<1> QED BY <1>6, <1>7

(* The walk over the sorted combination is set inclusion.                    *)
LEMMA WalkIsInclusion ==
  ASSUME NEW mine \in Seq(Nat), Nondecreasing(mine), NEW l \in Seq(Nat), Increasing(l), NEW at, IsWalk(at, mine, l)
  PROVE  at[Len(mine)] > Len(l) <=> ToSet(l) \subseteq ToSet(mine)
<1> DEFINE n == Len(mine)
           Passed(i) == /\ at[i] >= 1 /\ at[i] <= Len(l) + 1
                        /\ \A k \in 1 .. at[i] - 1 : l[k] \in ToSet(mine)
                        /\ at[i] <= Len(l) => \A j \in 1 .. i : mine[j] # l[at[i]]
           P == {i \in Nat : i <= n => Passed(i)}
<1>0. n \in Nat /\ Len(l) \in Nat /\ (\A i \in 1 .. n : mine[i] \in Nat) /\ (\A i \in 1 .. Len(l) : l[i] \in Nat)
  OBVIOUS
<1>1. \A i \in 0 .. n : at[i] \in Nat
  BY DEF IsWalk
<1>2. 0 \in P
  BY <1>0 DEF IsWalk
<1>3. ASSUME NEW i \in Nat, i \in P PROVE i + 1 \in P
  <2> SUFFICES ASSUME i + 1 <= n PROVE Passed(i + 1)
    OBVIOUS
  <2>1. i \in 0 .. n /\ i + 1 \in 1 .. n /\ (i + 1) - 1 = i /\ Passed(i)
    BY <1>0, <1>3
  <2>2. at[i + 1] = IF at[i] <= Len(l) /\ mine[i + 1] = l[at[i]] THEN at[i] + 1 ELSE at[i]
    BY <2>1 DEF IsWalk
  <2>3. at[i] \in Nat
    BY <1>1, <2>1
  <2>4. mine[i + 1] \in ToSet(mine)
    BY <2>1, ToSetOfSeq
  <2>5. CASE at[i] <= Len(l) /\ mine[i + 1] = l[at[i]]
    <3>1. at[i + 1] = at[i] + 1
      BY <2>2, <2>5
    <3>2. \A k \in 1 .. at[i + 1] - 1 : l[k] \in ToSet(mine)
      <4> SUFFICES ASSUME NEW k \in 1 .. at[i] PROVE l[k] \in ToSet(mine)
        BY <2>3, <3>1
      <4>1. CASE k = at[i]
        BY <2>4, <2>5, <4>1
      <4>2. CASE k # at[i]
        BY <2>1, <2>3, <4>2
      <4> QED BY <4>1, <4>2
    <3>3. ASSUME at[i + 1] <= Len(l), NEW j \in 1 .. i + 1 PROVE mine[j] # l[at[i + 1]]
      <4>1. at[i] \in 1 .. Len(l) /\ at[i] + 1 \in 1 .. Len(l)
        BY <1>0, <2>1, <2>3, <3>1, <3>3
      <4>2. l[at[i]] < l[at[i] + 1]
        BY <4>1, <2>3 DEF Increasing
      <4>3. j \in 1 .. n /\ mine[j] <= mine[i + 1]
        <5>1. j \in 1 .. n
          BY <1>0, <2>1
        <5>2. CASE j = i + 1
          BY <1>0, <2>1, <5>2
        <5>3. CASE j # i + 1
          BY <2>1, <5>1, <5>3 DEF Nondecreasing
        <5> QED BY <5>1, <5>2, <5>3
      <4>4. l[at[i]] \in Nat /\ l[at[i] + 1] \in Nat /\ mine[j] \in Nat /\ mine[i + 1] = l[at[i]]
        BY <1>0, <2>5, <4>1, <4>3
      <4>5. mine[j] # l[at[i] + 1]
        <5> HIDE DEF Passed
        <5> QED BY <4>2, <4>3, <4>4
      <4> QED BY <3>1, <4>5
    <3> QED BY <1>0, <2>1, <2>3, <2>5, <3>1, <3>2, <3>3
  <2>6. CASE ~(at[i] <= Len(l) /\ mine[i + 1] = l[at[i]])
    <3>1. at[i + 1] = at[i]
      BY <2>2, <2>6
    <3>2. ASSUME at[i] <= Len(l), NEW j \in 1 .. i + 1 PROVE mine[j] # l[at[i]]
      <4>1. CASE j = i + 1
        BY <2>6, <3>2, <4>1
      <4>2. CASE j # i + 1
        <5> j \in 1 .. i
          BY <4>2
        <5> QED BY <2>1, <3>2
      <4> QED BY <4>1, <4>2
    <3> QED BY <2>1, <3>1, <3>2
  <2> QED BY <2>5, <2>6
<1>4. Passed(n)
  <2>1. Nat \subseteq P
    <3> HIDE DEF P
    <3> QED BY <1>2, <1>3, SetInduction
  <2> QED BY <1>0, <2>1
<1>5. at[n] \in Nat
  BY <1>0, <1>1
<1>6. ASSUME at[n] > Len(l) PROVE ToSet(l) \subseteq ToSet(mine)
  <2> SUFFICES ASSUME NEW x \in ToSet(l) PROVE x \in ToSet(mine)
    OBVIOUS
  <2>1. PICK k \in 1 .. Len(l) : l[k] = x
    BY ToSetOfSeq
  <2>2. k \in 1 .. at[n] - 1
    BY <1>0, <1>5, <1>6
  <2> QED BY <1>4, <2>1, <2>2
<1>7. ASSUME ToSet(l) \subseteq ToSet(mine), ~(at[n] > Len(l)) PROVE FALSE
  <2>1. at[n] \in 1 .. Len(l)
    BY <1>0, <1>4, <1>5, <1>7
  <2>2. l[at[n]] \in ToSet(mine)
    <3> l[at[n]] \in ToSet(l)
      BY <2>1, ToSetOfSeq
    <3> QED BY <1>7
  <2>3. PICK j \in 1 .. n : mine[j] = l[at[n]]
    BY <2>2, ToSetOfSeq
  <2> QED BY <1>0, <1>4, <2>1, <2>3
<1> QED BY <1>6, <1>7

(* contains_locks is set inclusion on every combination of the input.        *)
LEMMA ContainsLocks ==
  ASSUME NEW held \in Seq(Nat), locks_held_sorted[held] = update_sorted_locks(held),
         NEW l \in Seq(Nat), Increasing(l)
  PROVE  contains_locks(held, l) <=> ToSet(l) \subseteq ToSet(held)
<1> DEFINE mine == locks_held_sorted[held]
<1>1. mine \in Seq(Nat) /\ Nondecreasing(mine) /\ ToSet(mine) = ToSet(held)
  BY SortedCopy
<1>2. PICK at : IsWalk(at, mine, l) /\ (contains_locks(held, l) <=> at[Len(mine)] > Len(l))
  BY <1>1, WalkUnfolds
<1> HIDE DEF mine
<1>3. at[Len(mine)] > Len(l) <=> ToSet(l) \subseteq ToSet(mine)
  BY <1>1, <1>2, WalkIsInclusion
<1> QED BY <1>1, <1>2, <1>3

-----------------------------------------------------------------------------
(* lock_order *)

Next_lock(l, o, x) == IF x \in ToSet(l) \ ToSet(o) THEN Append(o, x) ELSE o
IsOrder(ret, held, l) ==
  /\ ret \in [0 .. Len(held) -> Seq(Nat)] /\ ret[0] = <<>>
  /\ \A i \in 1 .. Len(held) : ret[i] = Next_lock(l, ret[i - 1], held[i])

(* The order that lock_order defines by recursion exists.                    *)
LEMMA OrderUnfolds ==
  ASSUME NEW held \in Seq(Nat), NEW l \in Seq(Nat)
  PROVE  \E ret : IsOrder(ret, held, l) /\ lock_order(held, l) = ret[Len(held)]
<1> DEFINE n == Len(held)
           F == [p \in (1 .. n) \X Seq(Nat) |-> Next_lock(l, p[2], held[p[1]])]
           Step(r) == [i \in 0 .. n |-> IF i = 0 THEN <<>>
                                        ELSE IF held[i] \in ToSet(l) \ ToSet(r[i - 1]) THEN Append(r[i - 1], held[i]) ELSE r[i - 1]]
           ret == CHOOSE r : r = Step(r)
<1>0. n \in Nat /\ \A i \in 1 .. n : held[i] \in Nat
  OBVIOUS
<1>t. ASSUME NEW k \in 1 .. n, NEW x \in Seq(Nat) PROVE Next_lock(l, x, held[k]) \in Seq(Nat)
  BY <1>0 DEF Next_lock
<1>1. IsStep(F, n, Seq(Nat))
  <2>1. \A p \in (1 .. n) \X Seq(Nat) : p[1] \in 1 .. n /\ p[2] \in Seq(Nat)
    OBVIOUS
  <2>2. \A p \in (1 .. n) \X Seq(Nat) : Next_lock(l, p[2], held[p[1]]) \in Seq(Nat)
    <3> HIDE DEF n
    <3> QED BY <1>t, <2>1
  <2> HIDE DEF n
  <2> QED BY <2>2 DEF IsStep
<1>2. \A k \in 1 .. n, x \in Seq(Nat) : F[<<k, x>>] = Next_lock(l, x, held[k])
  <2> HIDE DEF n
  <2> SUFFICES ASSUME NEW k \in 1 .. n, NEW x \in Seq(Nat) PROVE F[<<k, x>>] = Next_lock(l, x, held[k])
    OBVIOUS
  <2> <<k, x>> \in (1 .. n) \X Seq(Nat) /\ <<k, x>>[1] = k /\ <<k, x>>[2] = x
    OBVIOUS
  <2> QED OBVIOUS
<1>3. PICK r : IsRun(r, n, Seq(Nat), <<>>, F)
  <2> <<>> \in Seq(Nat)
    OBVIOUS
  <2> HIDE DEF F, n
  <2> QED BY <1>0, <1>1, RecursionExists
<1>s. \A i \in 0 .. n : Step(r)[i] = IF i = 0 THEN <<>> ELSE Next_lock(l, r[i - 1], held[i])
  BY DEF Next_lock
<1>4. r = Step(r)
  <2>1. ASSUME NEW i \in 0 .. n PROVE r[i] = Step(r)[i]
    <3> HIDE DEF F, n, Step
    <3>1. CASE i = 0
      BY <1>3, <1>s, <3>1 DEF IsRun
    <3>2. CASE i # 0
      <4>1. i \in 1 .. n /\ i - 1 \in 0 .. n /\ r[i - 1] \in Seq(Nat)
        BY <1>0, <1>3, <3>2 DEF IsRun
      <4>2. r[i] = F[<<i, r[i - 1]>>]
        BY <1>3, <4>1 DEF IsRun
      <4> QED BY <1>2, <1>s, <3>2, <4>1, <4>2
    <3> QED BY <3>1, <3>2
  <2> HIDE DEF n
  <2> DEFINE t == Step(r)
  <2> t = [i \in 0 .. n |-> t[i]]
    OBVIOUS
  <2> HIDE DEF t
  <2> r = [i \in 0 .. n |-> r[i]]
    BY <1>3 DEF IsRun
  <2> r = t
    BY <2>1 DEF t
  <2> QED BY DEF t
<1>5. ret = Step(ret)
  <2> HIDE DEF Step
  <2> QED BY <1>4
<1>6. lock_order(held, l) = ret[n]
  BY DEF lock_order
<1> HIDE DEF ret
<1>7. IsOrder(ret, held, l)
  <2>1. \A i \in 0 .. n : ret[i] = IF i = 0 THEN <<>> ELSE Next_lock(l, ret[i - 1], held[i])
    BY <1>5 DEF Next_lock
  <2>2. DOMAIN ret = 0 .. n /\ ret = [i \in 0 .. n |-> ret[i]]
    BY <1>5
  <2> HIDE DEF Step, n
  <2>3. ret[0] = <<>>
    BY <1>0, <2>1
  <2>4. \A i \in 1 .. n : ret[i] = Next_lock(l, ret[i - 1], held[i])
    BY <1>0, <2>1
  <2>5. \A i \in 0 .. n : ret[i] \in Seq(Nat)
    <3> DEFINE P == {i \in Nat : i <= n => ret[i] \in Seq(Nat)}
    <3>1. 0 \in P
      <4> <<>> \in Seq(Nat)
        OBVIOUS
      <4> QED BY <2>3
    <3>2. ASSUME NEW i \in Nat, i \in P PROVE i + 1 \in P
      <4> SUFFICES ASSUME i + 1 <= n PROVE ret[i + 1] \in Seq(Nat)
        OBVIOUS
      <4>1. i + 1 \in 1 .. n /\ (i + 1) - 1 = i /\ ret[i] \in Seq(Nat)
        BY <1>0, <3>2
      <4> QED BY <1>t, <2>4, <4>1
    <3> HIDE DEF P
    <3>3. Nat \subseteq P
      BY <3>1, <3>2, SetInduction
    <3> QED BY <1>0, <3>3 DEF P
  <2>6. ret \in [0 .. n -> Seq(Nat)]
    BY <2>2, <2>5
  <2> QED BY <2>3, <2>4, <2>6 DEF IsOrder, n
<1> QED BY <1>6, <1>7

(* Two runs over combinations with a common beginning agree there.           *)
Agree(s, t, n) == n \in 0 .. Len(s) /\ n <= Len(t) /\ \A i \in 1 .. n : s[i] = t[i]
(* What is appended depends on the part of the combination already seen.     *)
LEMMA OrderUnique ==
  ASSUME NEW s \in Seq(Nat), NEW t \in Seq(Nat), NEW l, NEW a, IsOrder(a, s, l), NEW b, IsOrder(b, t, l),
         NEW n, Agree(s, t, n)
  PROVE  a[n] = b[n]
<1>0. n \in 0 .. Len(s) /\ n <= Len(t) /\ (\A i \in 1 .. n : s[i] = t[i]) /\ Len(s) \in Nat /\ Len(t) \in Nat
  BY DEF Agree
<1> DEFINE P == {i \in Nat : i <= n => a[i] = b[i]}
<1>1. 0 \in P
  <2> a[0] = b[0]
    <3>1. a[0] = <<>>
      BY DEF IsOrder
    <3>2. b[0] = <<>>
      BY DEF IsOrder
    <3> QED BY <3>1, <3>2
  <2> QED OBVIOUS
<1>2. ASSUME NEW i \in Nat, i \in P PROVE i + 1 \in P
  <2> SUFFICES ASSUME i + 1 <= n PROVE a[i + 1] = b[i + 1]
    OBVIOUS
  <2>1. a[i] = b[i] /\ i + 1 \in 1 .. n /\ i + 1 \in 1 .. Len(s) /\ i + 1 \in 1 .. Len(t) /\ (i + 1) - 1 = i
    BY <1>0, <1>2
  <2>2. a[i + 1] = Next_lock(l, a[i], s[i + 1])
    BY <2>1 DEF IsOrder
  <2>3. b[i + 1] = Next_lock(l, b[i], t[i + 1])
    BY <2>1 DEF IsOrder
  <2> QED BY <1>0, <2>1, <2>2, <2>3
<1>3. Nat \subseteq P
  <2> HIDE DEF P
  <2> QED BY <1>1, <1>2, SetInduction
<1> QED BY <1>0, <1>3

(* lock_order by recursion on the combination.                               *)
LEMMA OrderOfNone ==
  ASSUME NEW l \in Seq(Nat)
  PROVE  lock_order(<<>>, l) = <<>>
<1>1. <<>> \in Seq(Nat) /\ Len(<<>>) = 0
  OBVIOUS
<1>2. PICK ret : IsOrder(ret, <<>>, l) /\ lock_order(<<>>, l) = ret[Len(<<>>)]
  BY <1>1, OrderUnfolds
<1> QED BY <1>1, <1>2 DEF IsOrder

(* One lock more in the combination: it is appended if asked for and new.    *)
LEMMA OrderOfAppend ==
  ASSUME NEW s \in Seq(Nat), NEW x \in Nat, NEW l \in Seq(Nat)
  PROVE  lock_order(s, l) \in Seq(Nat) /\ lock_order(Append(s, x), l) = Next_lock(l, lock_order(s, l), x)
<1> DEFINE t == Append(s, x)
<1>1. t \in Seq(Nat) /\ Len(t) = Len(s) + 1 /\ t[Len(s) + 1] = x /\ \A i \in 1 .. Len(s) : s[i] = t[i]
  OBVIOUS
<1>2. PICK a : IsOrder(a, s, l) /\ lock_order(s, l) = a[Len(s)]
  BY OrderUnfolds
<1> HIDE DEF t
<1>3. PICK b : IsOrder(b, t, l) /\ lock_order(t, l) = b[Len(t)]
  BY <1>1, OrderUnfolds
<1>4. Len(s) \in 0 .. Len(s) /\ Len(s) \in Nat /\ Len(s) <= Len(t) /\ Len(s) + 1 \in 1 .. Len(t) /\ (Len(s) + 1) - 1 = Len(s)
  BY <1>1
<1>5. a[Len(s)] = b[Len(s)]
  <2> Agree(s, t, Len(s))
    BY <1>1, <1>4 DEF Agree
  <2> QED BY <1>1, <1>2, <1>3, OrderUnique
<1>6. b[Len(s) + 1] = Next_lock(l, b[Len(s)], t[Len(s) + 1])
  BY <1>3, <1>4 DEF IsOrder
<1>7. a[Len(s)] \in Seq(Nat)
  BY <1>2, <1>4 DEF IsOrder
<1>8. lock_order(t, l) = Next_lock(l, lock_order(s, l), x)
  BY <1>1, <1>2, <1>3, <1>5, <1>6
<1> QED BY <1>2, <1>7, <1>8 DEF t

AddsOne(s, x) == ToSet(Append(s, x)) = ToSet(s) \cup {x}
(* An appended element is added to the set.                                  *)
LEMMA ToSetOfAppend ==
  ASSUME NEW S, NEW s \in Seq(S), NEW x \in S
  PROVE  AddsOne(s, x)
<1>1. Append(s, x) \in Seq(S) /\ Len(Append(s, x)) = Len(s) + 1 /\ Append(s, x)[Len(s) + 1] = x
      /\ \A i \in 1 .. Len(s) : Append(s, x)[i] = s[i]
  OBVIOUS
<1>2. \A y : y \in ToSet(Append(s, x)) <=> \E i \in 1 .. Len(s) + 1 : Append(s, x)[i] = y
  <2> DEFINE t == Append(s, x)
  <2>1. t \in Seq(S) /\ Len(t) = Len(s) + 1
    BY <1>1
  <2> HIDE DEF t
  <2>2. \A y : y \in ToSet(t) <=> \E i \in 1 .. Len(t) : t[i] = y
    BY <2>1, ToSetOfSeq
  <2> QED BY <2>1, <2>2 DEF t
<1>3. \A y : y \in ToSet(s) <=> \E i \in 1 .. Len(s) : s[i] = y
  BY ToSetOfSeq
<1>4. Len(s) \in Nat
  OBVIOUS
<1>5. ASSUME NEW y PROVE y \in ToSet(Append(s, x)) <=> y \in ToSet(s) \cup {x}
  <2>1. ASSUME y \in ToSet(Append(s, x)) PROVE y \in ToSet(s) \cup {x}
    <3>1. PICK i \in 1 .. Len(s) + 1 : Append(s, x)[i] = y
      BY <1>2, <2>1
    <3>2. i = Len(s) + 1 \/ i \in 1 .. Len(s)
      BY <1>4
    <3> QED BY <1>1, <1>3, <3>1, <3>2
  <2>2. ASSUME y \in ToSet(s) \cup {x} PROVE y \in ToSet(Append(s, x))
    <3>1. CASE y = x
      <4> Len(s) + 1 \in 1 .. Len(s) + 1
        BY <1>4
      <4> QED BY <1>1, <1>2, <3>1
    <3>2. CASE y \in ToSet(s)
      <4>1. PICK i \in 1 .. Len(s) : s[i] = y
        BY <1>3, <3>2
      <4>2. i \in 1 .. Len(s) + 1
        BY <1>4
      <4> QED BY <1>1, <1>2, <4>1, <4>2
    <3> QED BY <2>2, <3>1, <3>2
  <2> QED BY <2>1, <2>2
<1> QED BY <1>5 DEF AddsOne

(* The order has the locks of l that are held, each once.                    *)
OrderFacts(s, l) ==
  LET o == lock_order(s, l)
  IN  o \in Seq(Nat) /\ ToSet(o) = ToSet(l) \cap ToSet(s) /\ IsFiniteSet(ToSet(o)) /\ Cardinality(ToSet(o)) = Len(o)
(* They hold of every combination.                                           *)
LEMMA OrderHasLocks ==
  ASSUME NEW s \in Seq(Nat), NEW l \in Seq(Nat)
  PROVE  OrderFacts(s, l)
<1> DEFINE P == {t \in Seq(Nat) : OrderFacts(t, l)}
<1>1. <<>> \in P
  <2>1. ToSet(<<>>) = {}
    BY DEF ToSet
  <2>2. lock_order(<<>>, l) = <<>> /\ <<>> \in Seq(Nat) /\ Len(<<>>) = 0
    BY OrderOfNone
  <2>3. IsFiniteSet({}) /\ Cardinality({}) = 0
    BY FS_EmptySet
  <2> QED BY <2>1, <2>2, <2>3 DEF OrderFacts
<1>2. ASSUME NEW t \in Seq(Nat), NEW x \in Nat, t \in P PROVE Append(t, x) \in P
  <2> DEFINE o == lock_order(t, l)
             u == Append(t, x)
  <2>1. o \in Seq(Nat) /\ ToSet(o) = ToSet(l) \cap ToSet(t) /\ IsFiniteSet(ToSet(o)) /\ Cardinality(ToSet(o)) = Len(o)
    BY <1>2 DEF OrderFacts
  <2>2. lock_order(u, l) = Next_lock(l, o, x) /\ ToSet(u) = ToSet(t) \cup {x} /\ u \in Seq(Nat)
    <3>1. lock_order(u, l) = Next_lock(l, o, x)
      BY OrderOfAppend
    <3>2. ToSet(u) = ToSet(t) \cup {x}
      <4> AddsOne(t, x)
        BY ToSetOfAppend
      <4> QED BY DEF AddsOne
    <3> QED BY <3>1, <3>2
  <2> HIDE DEF o, u
  <2>3. CASE x \in ToSet(l) \ ToSet(o)
    <3>1. lock_order(u, l) = Append(o, x)
      BY <2>2, <2>3 DEF Next_lock
    <3>2. ToSet(Append(o, x)) = ToSet(o) \cup {x} /\ Append(o, x) \in Seq(Nat) /\ Len(Append(o, x)) = Len(o) + 1
      <4>1. ToSet(Append(o, x)) = ToSet(o) \cup {x}
        <5> AddsOne(o, x)
          BY <2>1, ToSetOfAppend
        <5> QED BY DEF AddsOne
      <4> QED BY <2>1, <4>1
    <3>3. IsFiniteSet(ToSet(o) \cup {x}) /\ Cardinality(ToSet(o) \cup {x}) = Cardinality(ToSet(o)) + 1
      BY <2>1, <2>3, FS_AddElement
    <3>4. OrderFacts(u, l)
      BY <2>1, <2>2, <2>3, <3>1, <3>2, <3>3 DEF OrderFacts
    <3> QED BY <2>2, <3>4 DEF u
  <2>4. CASE x \notin ToSet(l) \ ToSet(o)
    <3>1. lock_order(u, l) = o
      BY <2>2, <2>4 DEF Next_lock
    <3>2. OrderFacts(u, l)
      BY <2>1, <2>2, <2>4, <3>1 DEF OrderFacts
    <3> QED BY <2>2, <3>2 DEF u
  <2> QED BY <2>3, <2>4
<1>3. Seq(Nat) \subseteq P
  <2> HIDE DEF P
  <2> QED BY <1>1, <1>2, SeqSetInduction
<1> QED BY <1>3

(* The order of fewer locks is found in the order of more.                   *)
LEMMA OrderOfOrder ==
  ASSUME NEW s \in Seq(Nat), NEW h \in Seq(Nat), NEW p \in Seq(Nat), ToSet(p) \subseteq ToSet(h)
  PROVE  lock_order(lock_order(s, h), p) = lock_order(s, p)
<1> DEFINE P == {t \in Seq(Nat) : lock_order(lock_order(t, h), p) = lock_order(t, p)}
<1>1. <<>> \in P
  BY OrderOfNone
<1>2. ASSUME NEW t \in Seq(Nat), NEW x \in Nat, t \in P PROVE Append(t, x) \in P
  <2> DEFINE o == lock_order(t, h)
             q == lock_order(t, p)
             u == Append(t, x)
  <2>1. o \in Seq(Nat) /\ ToSet(o) = ToSet(h) \cap ToSet(t) /\ q \in Seq(Nat) /\ ToSet(q) = ToSet(p) \cap ToSet(t)
    BY OrderHasLocks DEF OrderFacts
  <2>2. lock_order(o, p) = q
    BY <1>2
  <2>3. lock_order(u, h) = Next_lock(h, o, x) /\ lock_order(u, p) = Next_lock(p, q, x) /\ u \in Seq(Nat)
    BY OrderOfAppend
  <2> HIDE DEF o, q, u
  <2>4. CASE x \in ToSet(h) \ ToSet(o)
    <3>1. lock_order(u, h) = Append(o, x)
      BY <2>3, <2>4 DEF Next_lock
    <3>2. lock_order(Append(o, x), p) = Next_lock(p, lock_order(o, p), x)
      BY <2>1, OrderOfAppend
    <3>3. lock_order(lock_order(u, h), p) = lock_order(u, p)
      BY <2>2, <2>3, <3>1, <3>2
    <3> QED BY <2>3, <3>3 DEF u
  <2>5. CASE x \notin ToSet(h) \ ToSet(o)
    <3>1. lock_order(u, h) = o
      BY <2>3, <2>5 DEF Next_lock
    <3>2. x \notin ToSet(p) \ ToSet(q)
      BY <2>1, <2>5
    <3>3. lock_order(u, p) = q
      BY <2>3, <3>2 DEF Next_lock
    <3> QED BY <2>2, <2>3, <3>1, <3>3 DEF u
  <2> QED BY <2>4, <2>5
<1>3. Seq(Nat) \subseteq P
  <2> HIDE DEF P
  <2> QED BY <1>1, <1>2, SeqSetInduction
<1> QED BY <1>3

-----------------------------------------------------------------------------
(* The order of std::vector *)

FirstDifference(a, b, k) ==
  /\ k \in 1 .. Len(b) /\ k - 1 <= Len(a) /\ \A i \in 1 .. k - 1 : a[i] = b[i]
  /\ k = Len(a) + 1 \/ (k <= Len(a) /\ a[k] < b[k])

(* LexLess: the first difference decides, a shorter beginning comes first.   *)
LEMMA LexLessAt ==
  ASSUME NEW a, NEW b
  PROVE  LexLess(a, b) <=> \E k : FirstDifference(a, b, k)
BY DEF LexLess, FirstDifference

(* No vector is smaller than itself.                                         *)
LEMMA LexIrreflexive ==
  ASSUME NEW a \in Seq(Nat)
  PROVE  ~LexLess(a, a)
<1> SUFFICES ASSUME NEW k, FirstDifference(a, a, k) PROVE FALSE
  BY LexLessAt
<1>1. k \in 1 .. Len(a) /\ Len(a) \in Nat
  BY DEF FirstDifference
<1>2. k <= Len(a) /\ a[k] < a[k]
  BY <1>1 DEF FirstDifference
<1>3. a[k] \in Nat
  BY <1>1
<1> QED BY <1>2, <1>3

(* operator< of std::vector is transitive.                                   *)
LEMMA LexTransitive ==
  ASSUME NEW a \in Seq(Nat), NEW b \in Seq(Nat), NEW c \in Seq(Nat), LexLess(a, b), LexLess(b, c)
  PROVE  LexLess(a, c)
<1>0. Len(a) \in Nat /\ Len(b) \in Nat /\ Len(c) \in Nat
  OBVIOUS
<1>1. PICK k : FirstDifference(a, b, k)
  BY LexLessAt
<1>2. PICK m : FirstDifference(b, c, m)
  BY LexLessAt
<1>3. k \in Nat /\ m \in Nat /\ k >= 1 /\ m >= 1 /\ k <= Len(b) /\ m <= Len(c) /\ m <= Len(b) + 1 /\ k <= Len(a) + 1
  BY <1>0, <1>1, <1>2 DEF FirstDifference
<1>4. CASE k < m
  <2>1. FirstDifference(a, c, k)
    <3>1. k \in 1 .. Len(c) /\ k - 1 <= Len(a)
      BY <1>0, <1>3, <1>4
    <3>2. \A i \in 1 .. k - 1 : a[i] = c[i]
      <4> SUFFICES ASSUME NEW i \in 1 .. k - 1 PROVE a[i] = c[i]
        OBVIOUS
      <4> i \in 1 .. m - 1
        BY <1>3, <1>4
      <4> QED BY <1>1, <1>2 DEF FirstDifference
    <3>3. k \in 1 .. m - 1
      BY <1>3, <1>4
    <3>4. b[k] = c[k]
      BY <1>2, <3>3 DEF FirstDifference
    <3>5. k = Len(a) + 1 \/ (k <= Len(a) /\ a[k] < c[k])
      BY <1>1, <3>4 DEF FirstDifference
    <3> QED BY <3>1, <3>2, <3>5 DEF FirstDifference
  <2> QED BY <2>1, LexLessAt
<1>5. CASE k >= m
  <2>1. m <= Len(b) /\ b[m] < c[m]
    BY <1>0, <1>2, <1>3, <1>5 DEF FirstDifference
  <2>2. FirstDifference(a, c, m)
    <3>1. m \in 1 .. Len(c) /\ m - 1 <= Len(a)
      BY <1>0, <1>3, <1>5
    <3>2. \A i \in 1 .. m - 1 : a[i] = c[i]
      <4> SUFFICES ASSUME NEW i \in 1 .. m - 1 PROVE a[i] = c[i]
        OBVIOUS
      <4> i \in 1 .. k - 1
        BY <1>3, <1>5
      <4> QED BY <1>1, <1>2 DEF FirstDifference
    <3>3. CASE m < k
      <4>1. a[m] = b[m]
        <5> m \in 1 .. k - 1
          BY <1>3, <3>3
        <5> QED BY <1>1 DEF FirstDifference
      <4>2. m <= Len(a)
        BY <1>0, <1>3, <3>3
      <4> QED BY <2>1, <3>1, <3>2, <4>1, <4>2 DEF FirstDifference
    <3>4. CASE m = k
      <4>1. CASE k = Len(a) + 1
        BY <3>1, <3>2, <3>4, <4>1 DEF FirstDifference
      <4>2. CASE k <= Len(a) /\ a[k] < b[k]
        <5>1. a[k] \in Nat /\ b[k] \in Nat /\ c[k] \in Nat
          <6> k \in 1 .. Len(a) /\ k \in 1 .. Len(b) /\ k \in 1 .. Len(c)
            BY <1>0, <1>3, <3>1, <3>4, <4>2
          <6> QED OBVIOUS
        <5>2. a[m] < c[m]
          BY <2>1, <3>4, <4>2, <5>1
        <5> QED BY <3>1, <3>2, <3>4, <4>2, <5>2 DEF FirstDifference
      <4> QED BY <1>1, <4>1, <4>2 DEF FirstDifference
    <3> QED BY <1>3, <1>5, <3>3, <3>4
  <2> QED BY <2>2, LexLessAt
<1> QED BY <1>3, <1>4, <1>5

(* Of two different vectors one is smaller.                                  *)
LEMMA LexTotal ==
  ASSUME NEW a \in Seq(Nat), NEW b \in Seq(Nat), a # b
  PROVE  LexLess(a, b) \/ LexLess(b, a)
<1> DEFINE D == {k \in Nat : k >= 1 /\ k <= Len(a) /\ k <= Len(b) /\ a[k] # b[k]}
<1>0. Len(a) \in Nat /\ Len(b) \in Nat
  OBVIOUS
<1>1. CASE D = {}
  <2>0. \A k \in Nat : k >= 1 /\ k <= Len(a) /\ k <= Len(b) => a[k] = b[k]
    BY <1>1
  <2>1. CASE Len(a) = Len(b)
    <3> \A k \in 1 .. Len(a) : a[k] = b[k]
      BY <1>0, <2>0, <2>1
    <3> a = b
      BY <2>1, SeqEqual
    <3> QED OBVIOUS
  <2>2. CASE Len(a) < Len(b)
    <3> FirstDifference(a, b, Len(a) + 1)
      <4> HIDE DEF D
      <4> QED BY <1>0, <2>0, <2>2 DEF FirstDifference
    <3> QED BY LexLessAt
  <2>3. CASE Len(b) < Len(a)
    <3> FirstDifference(b, a, Len(b) + 1)
      <4> HIDE DEF D
      <4> QED BY <1>0, <2>0, <2>3 DEF FirstDifference
    <3> QED BY LexLessAt
  <2> QED BY <1>0, <2>1, <2>2, <2>3
<1>2. CASE D # {}
  <2>1. D \in SUBSET Nat
    OBVIOUS
  <2>2. PICK k \in D : \A j \in D : k <= j
    <3> HIDE DEF D
    <3> QED BY <1>2, <2>1, LeastOf
  <2>3. k \in Nat /\ k >= 1 /\ k <= Len(a) /\ k <= Len(b) /\ a[k] # b[k]
    OBVIOUS
  <2>4. ASSUME NEW i \in 1 .. k - 1 PROVE a[i] = b[i]
    <3>1. i \in Nat /\ i >= 1 /\ i < k /\ i <= Len(a) /\ i <= Len(b)
      BY <1>0, <2>3
    <3>2. i \notin D
      <4> HIDE DEF D
      <4> QED BY <2>2, <2>3, <3>1
    <3> QED BY <3>1, <3>2
  <2>5. a[k] \in Nat /\ b[k] \in Nat
    BY <1>0, <2>3
  <2> HIDE DEF D
  <2>6. CASE a[k] < b[k]
    <3> FirstDifference(a, b, k)
      BY <1>0, <2>3, <2>4, <2>6 DEF FirstDifference
    <3> QED BY LexLessAt
  <2>7. CASE b[k] < a[k]
    <3> FirstDifference(b, a, k)
      BY <1>0, <2>3, <2>4, <2>7 DEF FirstDifference
    <3> QED BY LexLessAt
  <2> QED BY <2>3, <2>5, <2>6, <2>7
<1> QED BY <1>1, <1>2

LexPairs(S) == {p \in S \X S : LexLess(p[1], p[2])}
(* operator< of std::vector is a strict total order on any set of vectors.   *)
LEMMA LexOrder ==
  ASSUME NEW S \in SUBSET Seq(Nat)
  PROVE  StrictOrder(S, LexPairs(S)) /\ \A x, y \in S : <<x, y>> \in LexPairs(S) <=> LexLess(x, y)
<1>1. \A x, y \in S : <<x, y>> \in LexPairs(S) <=> LexLess(x, y)
  BY DEF LexPairs
<1>2. \A x \in S : x \in Seq(Nat)
  OBVIOUS
<1>3. \A x \in S : <<x, x>> \notin LexPairs(S)
  BY <1>1, <1>2, LexIrreflexive
<1>4. \A x, y, z \in S : <<x, y>> \in LexPairs(S) /\ <<y, z>> \in LexPairs(S) => <<x, z>> \in LexPairs(S)
  BY <1>1, <1>2, LexTransitive
<1>5. \A x, y \in S : x # y => <<x, y>> \in LexPairs(S) \/ <<y, x>> \in LexPairs(S)
  BY <1>1, <1>2, LexTotal
<1> QED BY <1>1, <1>3, <1>4, <1>5 DEF StrictOrder

(* A finite set of hypotheses as a vector in this order.                     *)
Listed(S) == InOrder(S, LexLess)
(* A std::set of vectors is iterated over completely and in order.           *)
LEMMA ListedAll ==
  ASSUME NEW S \in SUBSET Seq(Nat), IsFiniteSet(S)
  PROVE  Listed(S) \in Seq(S) /\ \A x : x \in S <=> \E k \in 1 .. Len(Listed(S)) : Listed(S)[k] = x
<1> DEFINE R == LexPairs(S)
           s == [k \in 1 .. Cardinality(S) |-> CHOOSE x \in S : Cardinality({y \in S : LexLess(y, x)}) = k - 1]
<1>1. Listed(S) = s
  BY DEF Listed, InOrder
<1>2. StrictOrder(S, R) /\ \A x, y \in S : <<x, y>> \in R <=> LexLess(x, y)
  BY LexOrder
<1> HIDE DEF R
<1>3. \A x \in S : {y \in S : LexLess(y, x)} = Before(S, R, x)
  BY <1>2 DEF Before
<1>4. \A x \in S : Cardinality({y \in S : LexLess(y, x)}) = Rank(S, R, x)
  BY <1>3 DEF Rank
<1>5. ASSUME NEW k \in 1 .. Cardinality(S) PROVE s[k] \in S /\ Rank(S, R, s[k]) = k - 1
  <2>1. PICK x \in S : Rank(S, R, x) = k - 1
    BY <1>2, RankTaken
  <2>2. s[k] = CHOOSE z \in S : Cardinality({y \in S : LexLess(y, z)}) = k - 1
    OBVIOUS
  <2>3. s[k] \in S /\ Cardinality({y \in S : LexLess(y, s[k])}) = k - 1
    <3> HIDE DEF s
    <3> QED BY <1>4, <2>1, <2>2
  <2> HIDE DEF s
  <2> QED BY <1>4, <2>3
<1>6. s \in [1 .. Cardinality(S) -> S]
  BY <1>5
<1> HIDE DEF s
<1>7. OrderedBy(s, S, R)
  <2> RankedBy(s, S, R)
    BY <1>5, <1>6 DEF RankedBy
  <2> QED BY <1>2, SortedByRank
<1>8. Cardinality(S) \in Nat
  BY FS_CardinalityType
<1>9. s \in Seq(S) /\ Len(s) = Cardinality(S)
  BY <1>6, <1>8
<1> QED BY <1>1, <1>7, <1>9 DEF OrderedBy

-----------------------------------------------------------------------------
(* Hypotheses: sorted vectors of locks that are held together *)

(* A sorted vector is given by its locks.                                    *)
LEMMA SortedAgree ==
  ASSUME NEW s \in Seq(Nat), NEW t \in Seq(Nat), Increasing(s), Increasing(t), ToSet(s) \subseteq ToSet(t),
         NEW k \in Nat, k >= 1, k <= Len(s), k <= Len(t), \A i \in 1 .. k - 1 : s[i] = t[i]
  PROVE  s[k] >= t[k]
<1>0. Len(s) \in Nat /\ Len(t) \in Nat /\ k \in 1 .. Len(s) /\ k \in 1 .. Len(t) /\ s[k] \in Nat /\ t[k] \in Nat
  OBVIOUS
<1>1. s[k] \in ToSet(s)
  BY <1>0, ToSetOfSeq
<1>2. PICK j \in 1 .. Len(t) : t[j] = s[k]
  BY <1>1, ToSetOfSeq
<1>3. CASE j < k
  <2>1. j \in 1 .. k - 1 /\ j \in 1 .. Len(s)
    BY <1>0, <1>3
  <2>2. s[j] = t[j] /\ s[j] < s[k]
    BY <1>0, <1>3, <2>1 DEF Increasing
  <2> QED BY <1>0, <1>2, <2>2
<1>4. CASE j = k
  BY <1>0, <1>2, <1>4
<1>5. CASE k < j
  <2> t[k] < t[j]
    BY <1>0, <1>5 DEF Increasing
  <2> QED BY <1>0, <1>2
<1> QED BY <1>3, <1>4, <1>5

(* A sorted vector without further locks does not go on where another ends.  *)
LEMMA SortedShorter ==
  ASSUME NEW s \in Seq(Nat), NEW t \in Seq(Nat), Increasing(t), ToSet(t) \subseteq ToSet(s), Len(s) < Len(t),
         \A i \in 1 .. Len(s) : s[i] = t[i]
  PROVE  FALSE
<1> DEFINE k == Len(s) + 1
<1>0. Len(s) \in Nat /\ Len(t) \in Nat /\ k \in 1 .. Len(t)
  OBVIOUS
<1>1. t[k] \in ToSet(t)
  BY <1>0, ToSetOfSeq
<1> k = Len(s) + 1
  OBVIOUS
<1> HIDE DEF k
<1>2. PICK j \in 1 .. Len(s) : s[j] = t[k]
  <2> t[k] \in ToSet(s)
    BY <1>1
  <2> QED BY ToSetOfSeq
<1>3. j \in 1 .. Len(t) /\ j < k
  BY <1>0
<1>4. t[j] < t[k]
  BY <1>0, <1>3 DEF Increasing
<1>5. t[j] \in Nat /\ t[k] \in Nat
  BY <1>0, <1>3
<1> QED BY <1>2, <1>4, <1>5

(* Sorted vectors with the same locks are equal.                             *)
LEMMA SortedUnique ==
  ASSUME NEW s \in Seq(Nat), NEW t \in Seq(Nat), Increasing(s), Increasing(t), ToSet(s) = ToSet(t)
  PROVE  s = t
<1> DEFINE P == {k \in Nat : \A i \in 1 .. k : i <= Len(s) /\ i <= Len(t) => s[i] = t[i]}
<1>0. Len(s) \in Nat /\ Len(t) \in Nat
  OBVIOUS
<1>1. 0 \in P
  OBVIOUS
<1>2. ASSUME NEW k \in Nat, k \in P PROVE k + 1 \in P
  <2> SUFFICES ASSUME k + 1 <= Len(s), k + 1 <= Len(t) PROVE s[k + 1] = t[k + 1]
    <3> ASSUME NEW i \in 1 .. k + 1 PROVE i \in 1 .. k \/ i = k + 1
      OBVIOUS
    <3> QED BY <1>2
  <2> DEFINE m == k + 1
  <2>1. m \in Nat /\ m >= 1 /\ m <= Len(s) /\ m <= Len(t) /\ s[m] \in Nat /\ t[m] \in Nat
    BY <1>0
  <2>2. \A i \in 1 .. m - 1 : s[i] = t[i]
    BY <1>0, <1>2
  <2> HIDE DEF m, P
  <2>3. \A i \in 1 .. m - 1 : t[i] = s[i]
    BY <2>2
  <2>4. s[m] >= t[m]
    BY <2>1, <2>2, SortedAgree
  <2>5. t[m] >= s[m]
    BY <2>1, <2>3, SortedAgree
  <2> QED BY <2>1, <2>4, <2>5 DEF m
<1>3. Nat \subseteq P
  <2> HIDE DEF P
  <2> QED BY <1>1, <1>2, SetInduction
<1>4. \A k \in Nat : k >= 1 /\ k <= Len(s) /\ k <= Len(t) => s[k] = t[k]
  <2> SUFFICES ASSUME NEW k \in Nat, k >= 1, k <= Len(s), k <= Len(t) PROVE s[k] = t[k]
    OBVIOUS
  <2>1. k \in P
    <3> HIDE DEF P
    <3> QED BY <1>3
  <2>2. k \in 1 .. k
    OBVIOUS
  <2> QED BY <2>1, <2>2
<1> HIDE DEF P
<1>5. CASE Len(s) = Len(t)
  <2> \A i \in 1 .. Len(s) : s[i] = t[i]
    BY <1>0, <1>4, <1>5
  <2> QED BY <1>5, SeqEqual
<1>6. CASE Len(s) < Len(t)
  <2> \A i \in 1 .. Len(s) : s[i] = t[i]
    BY <1>0, <1>4, <1>6
  <2> QED BY <1>6, SortedShorter
<1>7. CASE Len(t) < Len(s)
  <2> \A i \in 1 .. Len(t) : t[i] = s[i]
    BY <1>0, <1>4, <1>7
  <2> QED BY <1>7, SortedShorter
<1> QED BY <1>0, <1>5, <1>6, <1>7

(* A vector has finitely many locks.                                         *)
LEMMA ToSetFinite ==
  ASSUME NEW S, NEW s \in Seq(S)
  PROVE  IsFiniteSet(ToSet(s))
<1> DEFINE f == [i \in 1 .. Len(s) |-> s[i]]
<1>1. IsFiniteSet(1 .. Len(s))
  <2> Len(s) \in Int /\ 1 \in Int
    OBVIOUS
  <2> QED BY FS_Interval
<1>2. \A x : x \in ToSet(s) <=> \E i \in 1 .. Len(s) : s[i] = x
  BY ToSetOfSeq
<1>3. f \in Surjection(1 .. Len(s), ToSet(s))
  BY <1>2 DEF Surjection
<1> HIDE DEF f
<1> QED BY <1>1, <1>3, FS_Surjection

(* A sorted vector has as many entries as locks.                             *)
LEMMA SortedSize ==
  ASSUME NEW s \in Seq(Nat), Increasing(s)
  PROVE  Ids(ToSet(s)) = s /\ Cardinality(ToSet(s)) = Len(s)
<1> DEFINE t == Ids(ToSet(s))
<1>1. ToSet(s) \in SUBSET Nat /\ IsFiniteSet(ToSet(s))
  BY ToSetOfSeq, ToSetFinite
<1>2. t \in Seq(Nat) /\ Len(t) = Cardinality(ToSet(s)) /\ Increasing(t) /\ ToSet(t) = ToSet(s)
  BY <1>1, SortedIds
<1> HIDE DEF t
<1>3. t = s
  BY <1>2, SortedUnique
<1> QED BY <1>2, <1>3 DEF t

(* What the input loop leaves behind and no step changes.                    *)
Observed ==
  /\ IsFiniteSet(DOMAIN combinations) /\ DOMAIN combinations # {}
  /\ \A held \in DOMAIN combinations :
       held \in Seq(Nat) /\ combinations[held] \in Nat \ {0} /\ locks_held_sorted[held] = update_sorted_locks(held)

Sorted(h) == h \in Seq(Nat) /\ Increasing(h)
Hypothesis(h) == Sorted(h) /\ \E held \in DOMAIN combinations : ToSet(h) \subseteq ToSet(held)

(* evaluate_hypothesis counts the combinations that include the locks.       *)
LEMMA MatchingIs ==
  ASSUME Observed, NEW h, Sorted(h)
  PROVE  Matching(h) = {held \in DOMAIN combinations : ToSet(h) \subseteq ToSet(held)}
<1>1. \A held \in DOMAIN combinations : contains_locks(held, h) <=> ToSet(h) \subseteq ToSet(held)
  BY ContainsLocks DEF Observed, Sorted
<1> QED BY <1>1 DEF Matching

(* find_hypotheses_rek at depth d finds exactly the hypotheses of d locks.   *)
LEMMA FoundIs ==
  ASSUME Observed, NEW d \in Nat
  PROVE  /\ \A h : h \in FoundAt(d) <=> Hypothesis(h) /\ Len(h) = d
         /\ IsFiniteSet(FoundAt(d))
<1>1. \A h : h \in FoundAt(d) <=>
        \E held \in DOMAIN combinations : \E L \in SUBSET ToSet(held) : Cardinality(L) = d /\ h = Ids(L)
  <2>1. FoundAt(d) =
          UNION {{Ids(L) : L \in {M \in SUBSET ToSet(held) : Cardinality(M) = d}} : held \in DOMAIN combinations}
    BY DEF FoundAt, Ids, InOrder
  <2> QED BY <2>1
<1>2. \A held \in DOMAIN combinations : ToSet(held) \in SUBSET Nat /\ IsFiniteSet(ToSet(held))
  BY ToSetOfSeq, ToSetFinite DEF Observed
<1>3. ASSUME NEW h, h \in FoundAt(d) PROVE Hypothesis(h) /\ Len(h) = d
  <2>1. PICK held \in DOMAIN combinations : \E L \in SUBSET ToSet(held) : Cardinality(L) = d /\ h = Ids(L)
    BY <1>1, <1>3
  <2>2. PICK L \in SUBSET ToSet(held) : Cardinality(L) = d /\ h = Ids(L)
    BY <2>1
  <2>3. L \in SUBSET Nat /\ IsFiniteSet(L)
    BY <1>2, FS_Subset
  <2>4. /\ Ids(L) \in Seq(Nat) /\ Len(Ids(L)) = Cardinality(L)
        /\ Increasing(Ids(L)) /\ ToSet(Ids(L)) = L
    BY <2>3, SortedIds
  <2> QED BY <2>2, <2>4 DEF Hypothesis, Sorted
<1>4. ASSUME NEW h, Hypothesis(h), Len(h) = d PROVE h \in FoundAt(d)
  <2>1. PICK held \in DOMAIN combinations : ToSet(h) \subseteq ToSet(held)
    BY <1>4 DEF Hypothesis
  <2>2. Ids(ToSet(h)) = h /\ Cardinality(ToSet(h)) = Len(h)
    BY <1>4, SortedSize DEF Hypothesis, Sorted
  <2>3. ToSet(h) \in SUBSET ToSet(held) /\ Cardinality(ToSet(h)) = d /\ h = Ids(ToSet(h))
    BY <1>4, <2>1, <2>2
  <2> QED BY <1>1, <2>3
<1>5. IsFiniteSet(FoundAt(d))
  <2> DEFINE F == [held \in DOMAIN combinations |-> ToSet(held)]
             T == {ToSet(held) : held \in DOMAIN combinations}
             U == UNION T
             V == {Ids(L) : L \in SUBSET U}
             G == [L \in SUBSET U |-> Ids(L)]
  <2>1. IsFiniteSet(T)
    <3>1. F \in Surjection(DOMAIN combinations, T)
      BY DEF Surjection
    <3> HIDE DEF F, T
    <3> QED BY <3>1, FS_Surjection DEF Observed
  <2>2. \A t \in T : IsFiniteSet(t)
    BY <1>2
  <2>3. IsFiniteSet(U)
    <3> HIDE DEF T
    <3> QED BY <2>1, <2>2, FS_UNION
  <2>4. FoundAt(d) \in SUBSET V
    <3> SUFFICES ASSUME NEW h \in FoundAt(d) PROVE h \in V
      OBVIOUS
    <3>1. PICK held \in DOMAIN combinations : \E L \in SUBSET ToSet(held) : Cardinality(L) = d /\ h = Ids(L)
      BY <1>1
    <3>2. PICK L \in SUBSET ToSet(held) : h = Ids(L)
      BY <3>1
    <3>3. ToSet(held) \subseteq U
      OBVIOUS
    <3> HIDE DEF U
    <3>4. L \in SUBSET U
      BY <3>3
    <3> QED BY <3>2, <3>4
  <2>5. IsFiniteSet(V)
    <3> HIDE DEF U
    <3>1. IsFiniteSet(SUBSET U)
      BY <2>3, FS_SUBSET
    <3>2. G \in Surjection(SUBSET U, V)
      BY DEF Surjection
    <3> HIDE DEF G, V
    <3> QED BY <3>1, <3>2, FS_Surjection
  <2> HIDE DEF V
  <2> QED BY <2>4, <2>5, FS_Subset
<1> QED BY <1>3, <1>4, <1>5

(* The orders in which the locks of h are taken, and where each is observed. *)
Orders(h) == {lock_order(held, h) : held \in Matching(h)}
With(h, o) == {held \in Matching(h) : lock_order(held, h) = o}

(* Matches by its parts.                                                     *)
LEMMA MatchesIs ==
  ASSUME NEW h
  PROVE  DOMAIN Matches(h) = Orders(h) /\ \A o \in Orders(h) : Matches(h)[o] = CountOf(With(h, o))
BY DEF Matches, Orders, With

(* Counting observations of a set of combinations.                           *)
LEMMA CountFacts ==
  ASSUME Observed, NEW T \in SUBSET DOMAIN combinations
  PROVE  /\ CountOf(T) \in Nat /\ CountOf(T) <= Occurrences /\ Occurrences \in Nat
         /\ \A S \in SUBSET T : CountOf(S) \in Nat /\ CountOf(S) <= CountOf(T)
         /\ T # {} => CountOf(T) >= 1
         /\ Occurrences >= 1
<1>1. IsFiniteSet(T) /\ NatOn(combinations, T) /\ NatOn(combinations, DOMAIN combinations)
  BY FS_Subset DEF Observed, NatOn
<1>2. CountOf(T) \in Nat /\ Occurrences \in Nat
  BY <1>1, SumDefined DEF Observed, CountOf, Occurrences
<1>3. CountOf(T) <= Occurrences
  BY <1>1, SumOfSubset DEF Observed, CountOf, Occurrences
<1>4. ASSUME NEW S \in SUBSET T PROVE CountOf(S) \in Nat /\ CountOf(S) <= CountOf(T)
  <2>1. IsFiniteSet(S) /\ NatOn(combinations, S)
    BY <1>1, FS_Subset DEF NatOn
  <2>2. CountOf(S) \in Nat
    BY <2>1, SumDefined DEF CountOf
  <2>3. CountOf(S) <= CountOf(T)
    BY <1>1, SumOfSubset DEF CountOf
  <2> QED BY <2>2, <2>3
<1>5. ASSUME NEW S \in SUBSET DOMAIN combinations, S # {} PROVE CountOf(S) >= 1
  <2>0. PICK x : x \in S
    BY <1>5
  <2>1. IsFiniteSet(S) /\ NatOn(combinations, S) /\ combinations[x] \in Nat \ {0}
    BY <2>0, FS_Subset DEF Observed, NatOn
  <2>2. SumFunctionOnSet(combinations, S) = combinations[x] + SumFunctionOnSet(combinations, S \ {x})
    BY <2>0, <2>1, SumRemove
  <2>3. IsFiniteSet(S \ {x}) /\ NatOn(combinations, S \ {x})
    BY <2>1, FS_Subset DEF NatOn
  <2>4. SumFunctionOnSet(combinations, S \ {x}) \in Nat
    BY <2>3, SumDefined
  <2> QED BY <2>1, <2>2, <2>4 DEF CountOf
<1>6. Occurrences >= 1
  BY <1>5 DEF Observed, Occurrences
<1> QED BY <1>2, <1>3, <1>4, <1>5, <1>6

(* The orders of a hypothesis are finitely many and count its observations.  *)
LEMMA OrdersFacts ==
  ASSUME Observed, NEW h, Hypothesis(h)
  PROVE  /\ Matching(h) \in SUBSET DOMAIN combinations /\ Matching(h) # {}
         /\ IsFiniteSet(Orders(h)) /\ Orders(h) # {} /\ Orders(h) \in SUBSET Seq(Nat)
         /\ \A o \in Orders(h) : /\ With(h, o) \in SUBSET Matching(h) /\ With(h, o) # {}
                                 /\ ToSet(o) = ToSet(h) /\ Len(o) = Len(h)
<1>1. Matching(h) = {held \in DOMAIN combinations : ToSet(h) \subseteq ToSet(held)}
  BY MatchingIs DEF Hypothesis
<1>2. Matching(h) \in SUBSET DOMAIN combinations /\ Matching(h) # {}
  BY <1>1 DEF Hypothesis
<1>3. IsFiniteSet(Matching(h))
  BY <1>2, FS_Subset DEF Observed
<1>4. IsFiniteSet(Orders(h)) /\ Orders(h) # {}
  <2> DEFINE F == [held \in Matching(h) |-> lock_order(held, h)]
  <2>1. F \in Surjection(Matching(h), Orders(h))
    BY DEF Surjection, Orders
  <2>2. Orders(h) # {}
    BY <1>2 DEF Orders
  <2> HIDE DEF F
  <2> QED BY <1>3, <2>1, <2>2, FS_Surjection
<1>5. ASSUME NEW o \in Orders(h)
      PROVE  o \in Seq(Nat) /\ With(h, o) \in SUBSET Matching(h) /\ With(h, o) # {} /\ ToSet(o) = ToSet(h) /\ Len(o) = Len(h)
  <2>1. PICK held \in Matching(h) : o = lock_order(held, h)
    BY DEF Orders
  <2>2. held \in Seq(Nat) /\ ToSet(h) \subseteq ToSet(held) /\ h \in Seq(Nat) /\ Increasing(h)
    BY <1>1 DEF Observed, Hypothesis, Sorted
  <2>3. OrderFacts(held, h)
    BY <2>2, OrderHasLocks
  <2>4. o \in Seq(Nat) /\ ToSet(o) = ToSet(h) \cap ToSet(held) /\ Cardinality(ToSet(o)) = Len(o)
    BY <2>1, <2>3 DEF OrderFacts
  <2>5. ToSet(o) = ToSet(h)
    BY <2>2, <2>4
  <2>6. Len(o) = Len(h)
    BY <2>2, <2>4, <2>5, SortedSize
  <2>7. With(h, o) \in SUBSET Matching(h) /\ With(h, o) # {}
    BY <2>1 DEF With
  <2> QED BY <2>4, <2>5, <2>6, <2>7
<1> QED BY <1>2, <1>4, <1>5

(* The chosen order is one of the observed ones and none is more frequent.   *)
LEMMA SupportFacts ==
  ASSUME Observed, NEW h, Hypothesis(h)
  PROVE  /\ Representative(h) \in Orders(h)
         /\ Support(h) = CountOf(With(h, Representative(h)))
         /\ Support(h) \in Nat /\ Support(h) >= 1
         /\ \A o \in Orders(h) : CountOf(With(h, o)) <= Support(h)
         /\ Support(h) <= Occurrences
         /\ Support(h) <= CountOf(Matching(h))
         /\ Representative(h) \in Seq(Nat)
         /\ ToSet(Representative(h)) = ToSet(h)
         /\ Len(Representative(h)) = Len(h)
<1> DEFINE m == Matches(h)
           Or == Orders(h)
           best == {o \in Or : \A q \in Or : m[q] <= m[o]}
           counts == {m[o] : o \in Or}
<1>0. /\ Matching(h) \in SUBSET DOMAIN combinations /\ Matching(h) # {}
      /\ IsFiniteSet(Orders(h)) /\ Orders(h) # {} /\ Orders(h) \in SUBSET Seq(Nat)
      /\ \A o \in Orders(h) : /\ With(h, o) \in SUBSET Matching(h) /\ With(h, o) # {}
                              /\ ToSet(o) = ToSet(h) /\ Len(o) = Len(h)
  BY OrdersFacts
<1>1. DOMAIN m = Orders(h) /\ \A o \in Orders(h) : m[o] = CountOf(With(h, o))
  BY MatchesIs
<1>2. \A o \in Orders(h) : m[o] \in Nat /\ m[o] >= 1 /\ m[o] <= Occurrences /\ m[o] <= CountOf(Matching(h))
  <2> SUFFICES ASSUME NEW o \in Orders(h)
               PROVE  m[o] \in Nat /\ m[o] >= 1 /\ m[o] <= Occurrences /\ m[o] <= CountOf(Matching(h))
    OBVIOUS
  <2>1. With(h, o) \in SUBSET Matching(h) /\ With(h, o) # {} /\ m[o] = CountOf(With(h, o))
    BY <1>0, <1>1
  <2>2. With(h, o) \in SUBSET DOMAIN combinations
    BY <1>0, <2>1
  <2> HIDE DEF m
  <2>3. m[o] \in Nat /\ m[o] <= Occurrences /\ m[o] >= 1
    BY <2>1, <2>2, CountFacts
  <2>4. m[o] <= CountOf(Matching(h))
    BY <1>0, <2>1, CountFacts
  <2> QED BY <2>3, <2>4
<1>r. Representative(h) = CHOOSE o \in best : \A q \in best : q = o \/ LexLess(o, q)
  BY <1>1 DEF Representative
<1> HIDE DEF m
<1>3. best # {}
  <2>1. counts \in SUBSET Nat /\ counts # {} /\ Occurrences \in Nat /\ \A x \in counts : x <= Occurrences
    BY <1>0, <1>2, CountFacts
  <2>2. PICK x \in counts : \A y \in counts : y <= x
    <3> HIDE DEF counts
    <3> QED BY <2>1, GreatestOf
  <2>3. PICK o \in Or : x = m[o]
    OBVIOUS
  <2>4. \A q \in Or : m[q] \in counts
    OBVIOUS
  <2>5. \A q \in Or : m[q] <= m[o]
    BY <2>2, <2>3, <2>4
  <2> QED BY <2>5
<1>4. best \in SUBSET Seq(Nat) /\ IsFiniteSet(best)
  BY <1>0, FS_Subset
<1>5. \E o \in best : \A q \in best : q = o \/ LexLess(o, q)
  <2> HIDE DEF best
  <2>1. StrictOrder(best, LexPairs(best)) /\ \A x, y \in best : <<x, y>> \in LexPairs(best) <=> LexLess(x, y)
    BY <1>4, LexOrder
  <2>2. \E x \in best : \A y \in best : y = x \/ <<x, y>> \in LexPairs(best)
    BY <1>3, <1>4, <2>1, LeastInOrder
  <2> QED BY <2>1, <2>2
<1>6. Representative(h) \in best
  <2> HIDE DEF best
  <2> QED BY <1>r, <1>5
<1>7. Representative(h) \in Orders(h) /\ \A q \in Orders(h) : m[q] <= m[Representative(h)]
  BY <1>6
<1>8. Support(h) = m[Representative(h)]
  BY DEF Support, m
<1> HIDE DEF best, counts
<1>9. Support(h) = CountOf(With(h, Representative(h))) /\ \A o \in Orders(h) : CountOf(With(h, o)) <= Support(h)
  BY <1>1, <1>7, <1>8
<1>10. Support(h) \in Nat /\ Support(h) >= 1 /\ Support(h) <= Occurrences /\ Support(h) <= CountOf(Matching(h))
  BY <1>2, <1>7, <1>8
<1> QED BY <1>0, <1>7, <1>9, <1>10

(* A hypothesis with fewer locks has at least the support.                   *)
LEMMA SupportMonotone ==
  ASSUME Observed, NEW h, Hypothesis(h), NEW p, Sorted(p), ToSet(p) \subseteq ToSet(h)
  PROVE  Hypothesis(p) /\ Support(h) <= Support(p)
<1> DEFINE o == Representative(h)
           q == lock_order(o, p)
<1>1. Hypothesis(p)
  BY DEF Hypothesis
<1>2. o \in Orders(h) /\ Support(h) = CountOf(With(h, o)) /\ o \in Seq(Nat)
  BY SupportFacts
<1>3. Matching(h) = {held \in DOMAIN combinations : ToSet(h) \subseteq ToSet(held)}
  BY MatchingIs DEF Hypothesis
<1>4. Matching(p) = {held \in DOMAIN combinations : ToSet(p) \subseteq ToSet(held)}
  BY MatchingIs
<1> HIDE DEF o
<1>5. ASSUME NEW held \in With(h, o) PROVE held \in Matching(p) /\ lock_order(held, p) = q
  <2>1. held \in Matching(h) /\ lock_order(held, h) = o
    BY DEF With
  <2>2. held \in Matching(p)
    BY <1>3, <1>4, <2>1
  <2>3. held \in Seq(Nat) /\ h \in Seq(Nat) /\ p \in Seq(Nat)
    BY <1>3, <2>1 DEF Observed, Hypothesis, Sorted
  <2>4. lock_order(lock_order(held, h), p) = lock_order(held, p)
    BY <2>3, OrderOfOrder
  <2> QED BY <2>1, <2>2, <2>4
<1> HIDE DEF q
<1>6. With(h, o) \in SUBSET With(p, q)
  BY <1>5 DEF With
<1>7. With(h, o) # {}
  BY <1>2, OrdersFacts
<1>8. q \in Orders(p)
  BY <1>5, <1>7 DEF Orders
<1>9. With(p, q) \in SUBSET DOMAIN combinations
  BY <1>4 DEF With
<1>10. CountOf(With(h, o)) <= CountOf(With(p, q)) /\ CountOf(With(h, o)) \in Nat /\ CountOf(With(p, q)) \in Nat
  BY <1>6, <1>9, CountFacts
<1>11. CountOf(With(p, q)) <= Support(p) /\ Support(p) \in Nat
  BY <1>1, <1>8, SupportFacts
<1> QED BY <1>1, <1>2, <1>10, <1>11

(* No lock: held, in its only order, at every access.                        *)
LEMMA SupportOfRoot ==
  ASSUME Observed
  PROVE  /\ Hypothesis(root_node) /\ Len(root_node) = 0
         /\ Representative(root_node) = root_node
         /\ Support(root_node) = Occurrences
         /\ \A h : Hypothesis(h) /\ Len(h) = 0 => h = root_node
<1>0. \A h \in Seq(Nat) : Len(h) = 0 => h = root_node
  BY DEF root_node
<1>1. root_node \in Seq(Nat) /\ Len(root_node) = 0 /\ Increasing(root_node)
  BY DEF root_node, Increasing
<1>2. ToSet(root_node) = {}
  BY <1>1 DEF root_node, ToSet
<1>3. Hypothesis(root_node)
  BY <1>1, <1>2 DEF Hypothesis, Sorted, Observed
<1>4. Representative(root_node) \in Seq(Nat) /\ Len(Representative(root_node)) = 0
  BY <1>1, <1>3, SupportFacts
<1>5. Representative(root_node) = root_node
  BY <1>0, <1>4
<1>6. \A o \in Orders(root_node) : o = root_node
  <2> SUFFICES ASSUME NEW o \in Orders(root_node) PROVE o = root_node
    OBVIOUS
  <2> o \in Seq(Nat) /\ Len(o) = Len(root_node)
    BY <1>3, OrdersFacts
  <2> QED BY <1>0, <1>1
<1>7. Matching(root_node) = DOMAIN combinations
  BY <1>2, <1>3, MatchingIs DEF Hypothesis
<1>8. With(root_node, root_node) = DOMAIN combinations
  BY <1>6, <1>7 DEF With, Orders
<1>9. Support(root_node) = Occurrences
  BY <1>3, <1>5, <1>8, SupportFacts DEF Occurrences
<1>10. \A h : Hypothesis(h) /\ Len(h) = 0 => h = root_node
  BY <1>0 DEF Hypothesis, Sorted
<1> QED BY <1>1, <1>3, <1>5, <1>9, <1>10

(* Two hypotheses are not represented by one order.                          *)
LEMMA RepresentativeInjective ==
  ASSUME Observed, NEW h, Hypothesis(h), NEW g, Hypothesis(g), Representative(h) = Representative(g)
  PROVE  h = g
<1>1. ToSet(h) = ToSet(g)
  BY SupportFacts
<1> QED BY <1>1, SortedUnique DEF Hypothesis, Sorted

-----------------------------------------------------------------------------
(* The graph *)

(* The first k locks of a hypothesis are a hypothesis.                       *)
Beginning(h, k) == SubSeq(h, 1, k)
(* A beginning is sorted, shorter, and has some of the locks.                *)
LEMMA BeginningFacts ==
  ASSUME NEW h, Hypothesis(h), NEW k \in 0 .. Len(h)
  PROVE  /\ Hypothesis(Beginning(h, k)) /\ Len(Beginning(h, k)) = k /\ ToSet(Beginning(h, k)) \subseteq ToSet(h)
         /\ \A i \in 1 .. k : Beginning(h, k)[i] = h[i]
         /\ k = Len(h) => Beginning(h, k) = h
         /\ \A j \in 0 .. k : Beginning(Beginning(h, k), j) = Beginning(h, j)
<1> DEFINE p == Beginning(h, k)
<1>0. h \in Seq(Nat) /\ Increasing(h) /\ Len(h) \in Nat
  BY DEF Hypothesis, Sorted
<1>f. ASSUME NEW s \in Seq(Nat), NEW n \in 0 .. Len(s)
      PROVE  Beginning(s, n) \in Seq(Nat) /\ Len(Beginning(s, n)) = n /\ \A i \in 1 .. n : Beginning(s, n)[i] = s[i]
  BY DEF Beginning
<1>1. p \in Seq(Nat) /\ Len(p) = k /\ \A i \in 1 .. k : p[i] = h[i]
  BY <1>0, <1>f
<1> HIDE DEF p
<1>2. Increasing(p)
  <2> SUFFICES ASSUME NEW i \in 1 .. k, NEW j \in 1 .. k, i < j PROVE p[i] < p[j]
    BY <1>1 DEF Increasing
  <2>1. i \in 1 .. Len(h) /\ j \in 1 .. Len(h)
    BY <1>0
  <2>2. h[i] < h[j]
    BY <1>0, <2>1 DEF Increasing
  <2> QED BY <1>1, <2>2
<1>3. ToSet(p) \subseteq ToSet(h)
  <2> SUFFICES ASSUME NEW x \in ToSet(p) PROVE x \in ToSet(h)
    OBVIOUS
  <2>1. PICK i \in 1 .. Len(p) : p[i] = x
    BY <1>1, ToSetOfSeq
  <2>2. i \in 1 .. Len(h) /\ h[i] = x
    BY <1>0, <1>1, <2>1
  <2> QED BY <1>0, <2>2, ToSetOfSeq
<1>4. Hypothesis(p)
  BY <1>1, <1>2, <1>3 DEF Hypothesis, Sorted
<1>5. k = Len(h) => p = h
  <2> SUFFICES ASSUME k = Len(h) PROVE p = h
    OBVIOUS
  <2> QED BY <1>0, <1>1, SeqEqual
<1>6. ASSUME NEW j \in 0 .. k PROVE Beginning(p, j) = Beginning(h, j)
  <2>1. j \in 0 .. Len(p) /\ j \in 0 .. Len(h)
    BY <1>0, <1>1
  <2>2. Beginning(p, j) \in Seq(Nat) /\ Len(Beginning(p, j)) = j /\ \A i \in 1 .. j : Beginning(p, j)[i] = p[i]
    BY <1>1, <1>f, <2>1
  <2>3. Beginning(h, j) \in Seq(Nat) /\ Len(Beginning(h, j)) = j /\ \A i \in 1 .. j : Beginning(h, j)[i] = h[i]
    BY <1>0, <1>f, <2>1
  <2>4. \A i \in 1 .. j : Beginning(p, j)[i] = Beginning(h, j)[i]
    BY <1>0, <1>1, <2>2, <2>3
  <2> QED BY <2>2, <2>3, <2>4, SeqEqual
<1> QED BY <1>1, <1>3, <1>4, <1>5, <1>6 DEF p

Next_level(X, h) == {n \in UNION {graph[p] : p \in X} : Extends(n, h)}
IsLevels(r, h) == r[0] = {root_node} /\ \A k \in 1 .. Len(h) - 1 : r[k] = Next_level(r[k - 1], h)
Closed == root_node \in DOMAIN graph /\ \A p \in DOMAIN graph : graph[p] \subseteq DOMAIN graph

(* The levels add_hypothesis_to_graph descends through exist.                *)
LEMMA ParentsUnfold ==
  ASSUME Closed, NEW h, Len(h) \in Nat \ {0}
  PROVE  \E r : IsLevels(r, h) /\ ParentsOf(h) = r[Len(h) - 1]
<1> DEFINE n == Len(h) - 1
           V == SUBSET DOMAIN graph
           F == [p \in (1 .. n) \X V |-> Next_level(p[2], h)]
           Step(r) == [k \in 0 .. n |-> IF k = 0 THEN {root_node}
                                        ELSE {m \in UNION {graph[p] : p \in r[k - 1]} : Extends(m, h)}]
           ret == CHOOSE r : r = Step(r)
<1>0. n \in Nat
  OBVIOUS
<1>t. \A x \in V : Next_level(x, h) \in V
  BY DEF Next_level, Closed
<1> HIDE DEF V
<1>1. IsStep(F, n, V)
  <2>1. \A p \in (1 .. n) \X V : p[1] \in 1 .. n /\ p[2] \in V
    OBVIOUS
  <2>2. \A p \in (1 .. n) \X V : Next_level(p[2], h) \in V
    <3> HIDE DEF n
    <3> QED BY <1>t, <2>1
  <2> HIDE DEF n
  <2> QED BY <2>2 DEF IsStep
<1>2. \A k \in 1 .. n, x \in V : F[<<k, x>>] = Next_level(x, h)
  <2> HIDE DEF n
  <2> SUFFICES ASSUME NEW k \in 1 .. n, NEW x \in V PROVE F[<<k, x>>] = Next_level(x, h)
    OBVIOUS
  <2> <<k, x>> \in (1 .. n) \X V /\ <<k, x>>[1] = k /\ <<k, x>>[2] = x
    OBVIOUS
  <2> QED OBVIOUS
<1>3. PICK r : IsRun(r, n, V, {root_node}, F)
  <2> {root_node} \in V
    BY DEF V, Closed
  <2> HIDE DEF F, n
  <2> QED BY <1>0, <1>1, RecursionExists
<1>s. \A i \in 0 .. n : Step(r)[i] = IF i = 0 THEN {root_node} ELSE Next_level(r[i - 1], h)
  BY DEF Next_level
<1>4. r = Step(r)
  <2>1. ASSUME NEW i \in 0 .. n PROVE r[i] = Step(r)[i]
    <3> HIDE DEF F, n, Step
    <3>1. CASE i = 0
      BY <1>3, <1>s, <3>1 DEF IsRun
    <3>2. CASE i # 0
      <4>1. i \in 1 .. n /\ i - 1 \in 0 .. n /\ r[i - 1] \in V
        BY <1>0, <1>3, <3>2 DEF IsRun
      <4>2. r[i] = F[<<i, r[i - 1]>>]
        BY <1>3, <4>1 DEF IsRun
      <4> QED BY <1>2, <1>s, <3>2, <4>1, <4>2
    <3> QED BY <3>1, <3>2
  <2> HIDE DEF n
  <2> DEFINE t == Step(r)
  <2> t = [i \in 0 .. n |-> t[i]]
    OBVIOUS
  <2> HIDE DEF t
  <2> r = [i \in 0 .. n |-> r[i]]
    BY <1>3 DEF IsRun
  <2> r = t
    BY <2>1 DEF t
  <2> QED BY DEF t
<1>5. ret = Step(ret)
  <2> HIDE DEF Step
  <2> QED BY <1>4
<1>6. ParentsOf(h) = ret[n]
  BY DEF ParentsOf
<1> HIDE DEF ret
<1>7. IsLevels(ret, h)
  <2>1. \A i \in 0 .. n : ret[i] = IF i = 0 THEN {root_node} ELSE Next_level(ret[i - 1], h)
    BY <1>5 DEF Next_level
  <2> HIDE DEF Step
  <2>2. ret[0] = {root_node}
    <3> 0 \in 0 .. n
      BY <1>0
    <3> HIDE DEF n
    <3> QED BY <2>1
  <2>3. \A i \in 1 .. n : ret[i] = Next_level(ret[i - 1], h)
    BY <1>0, <2>1
  <2> QED BY <2>2, <2>3 DEF IsLevels
<1> QED BY <1>6, <1>7

(* Every hypothesis is a node, and a child of the one without its last lock.  *)
Graph_is ==
  /\ depth \in Nat
  /\ IsFiniteSet(hypotheses)
  /\ \A h : h \in hypotheses <=> Hypothesis(h) /\ Len(h) < depth
  /\ DOMAIN graph = hypotheses \cup {root_node}
  /\ \A n \in DOMAIN graph : \A g \in graph[n] : g \in hypotheses /\ Len(g) = Len(n) + 1
  /\ \A h \in hypotheses : Len(h) # 0 => h \in graph[Beginning(h, Len(h) - 1)]

(* The parents found for h include the hypothesis without its last lock.     *)
LEMMA ParentsAre ==
  ASSUME Observed, Graph_is, NEW h, Hypothesis(h), Len(h) = depth, Len(h) # 0
  PROVE  Beginning(h, Len(h) - 1) \in ParentsOf(h) /\ \A n \in ParentsOf(h) : n \in DOMAIN graph /\ Len(n) = Len(h) - 1
<1> DEFINE m == Len(h) - 1
<1>0. Len(h) \in Nat \ {0} /\ m \in Nat /\ m \in 0 .. Len(h) /\ h \in Seq(Nat)
  BY DEF Hypothesis, Sorted
<1>1. Closed
  BY DEF Closed, Graph_is
<1>2. PICK r : IsLevels(r, h) /\ ParentsOf(h) = r[m]
  BY <1>0, <1>1, ParentsUnfold
<1> DEFINE P == {k \in Nat : k <= m => /\ Beginning(h, k) \in r[k]
                                       /\ \A n \in r[k] : n \in DOMAIN graph /\ Len(n) = k}
<1>3. 0 \in P
  <2>1. Beginning(h, 0) \in Seq(Nat) /\ Len(Beginning(h, 0)) = 0
    BY <1>0, BeginningFacts DEF Hypothesis, Sorted
  <2>2. Beginning(h, 0) = root_node
    BY <2>1 DEF root_node
  <2>3. Len(root_node) = 0
    BY DEF root_node
  <2>4. r[0] = {root_node}
    BY <1>2 DEF IsLevels
  <2> QED BY <1>1, <2>2, <2>3, <2>4 DEF Closed
<1>4. ASSUME NEW k \in Nat, k \in P PROVE k + 1 \in P
  <2> SUFFICES ASSUME k + 1 <= m
               PROVE  /\ Beginning(h, k + 1) \in r[k + 1]
                      /\ \A n \in r[k + 1] : n \in DOMAIN graph /\ Len(n) = k + 1
    OBVIOUS
  <2>1. Beginning(h, k) \in r[k] /\ \A n \in r[k] : n \in DOMAIN graph /\ Len(n) = k
    BY <1>0, <1>4
  <2>2. k + 1 \in 1 .. m /\ (k + 1) - 1 = k /\ k + 1 \in 0 .. Len(h) /\ k \in 0 .. k + 1 /\ k + 1 < Len(h)
    BY <1>0
  <2>3. r[k + 1] = Next_level(r[k], h)
    BY <1>2, <2>2 DEF IsLevels
  <2>4. ASSUME NEW n \in r[k + 1] PROVE n \in DOMAIN graph /\ Len(n) = k + 1
    <3>1. PICK p \in r[k] : n \in graph[p]
      BY <2>3 DEF Next_level
    <3>2. p \in DOMAIN graph /\ Len(p) = k
      BY <2>1
    <3> QED BY <3>1, <3>2 DEF Graph_is
  <2>5. Beginning(h, k + 1) \in r[k + 1]
    <3> DEFINE f == Beginning(h, k + 1)
    <3>1. /\ Hypothesis(f) /\ Len(f) = k + 1
          /\ \A i \in 1 .. k + 1 : f[i] = h[i]
          /\ Beginning(f, k) = Beginning(h, k)
      BY <2>2, BeginningFacts
    <3> HIDE DEF f
    <3>2. f \in hypotheses
      BY <2>2, <3>1 DEF Graph_is
    <3>3. f \in graph[Beginning(f, Len(f) - 1)]
      BY <3>1, <3>2 DEF Graph_is
    <3>4. f \in graph[Beginning(h, k)]
      BY <2>2, <3>1, <3>3
    <3>5. Extends(f, h)
      <4>1. 0 \in 0 .. Len(h) - Len(f) /\ Len(h) > Len(f)
        BY <1>0, <2>2, <3>1
      <4>2. \A i \in 1 .. Len(f) : f[i] = h[i + 0]
        BY <3>1
      <4> QED BY <4>1, <4>2 DEF Extends
    <3> QED BY <2>1, <2>3, <3>4, <3>5 DEF Next_level, f
  <2> QED BY <2>4, <2>5
<1>5. m \in P
  <2> HIDE DEF P, m
  <2> Nat \subseteq P
    BY <1>3, <1>4, SetInduction
  <2> QED BY <1>0
<1>6. Beginning(h, m) \in r[m] /\ \A n \in r[m] : n \in DOMAIN graph /\ Len(n) = m
  <2> HIDE DEF m
  <2> QED BY <1>0, <1>5
<1> QED BY <1>2, <1>6

-----------------------------------------------------------------------------
(* The inductive invariant *)

(* A search: c the conflict list, q the queue, w the support of the winner,  *)
(* f whether one is found.                                                   *)
Size(c) == Len(c[1][1])
Listed_in(c, h) == \E i \in 1 .. Len(c) : c[i][1] = h
Queued_in(q, h) == \E i \in 1 .. Len(q) : q[i] = h

(* The list has representatives of different hypotheses of one size.         *)
List_is(c) ==
  /\ c \in Seq(hypotheses \X Seq(Nat)) /\ Len(c) >= 1
  /\ \A i \in 1 .. Len(c) : \A h : h = c[i][1] => Len(h) = Size(c) /\ c[i][2] = Representative(h)
  /\ \A i, j \in 1 .. Len(c) : c[i][2] = c[j][2] => i = j

(* Breadth first: no node of the queue has fewer locks than one before it or *)
(* than the winner, or two more than the first one or the winner.            *)
Queue_is(c, q) ==
  /\ q \in Seq(hypotheses)
  /\ \A i, j \in 1 .. Len(q) : i <= j => Len(q[i]) <= Len(q[j]) /\ Len(q[j]) <= Len(q[i]) + 1
  /\ \A i \in 1 .. Len(q) : Size(c) <= Len(q[i]) /\ Len(q[i]) <= Size(c) + 1

(* A hypothesis will be seen: the search is still above it.                  *)
Ahead(q, h) == \E k \in 0 .. Len(h) : Queued_in(q, Beginning(h, k))

Supported(c, w) == \A i \in 1 .. Len(c) : \A h : h = c[i][1] => Support(h) = w

Bottomup_is(c, q, w) ==
  /\ Supported(c, w) /\ Accepted(w)
  /\ \A h : Listed_in(c, h) => \A g \in graph[h] : Queued_in(q, g) \/ ~(Support(g) = w \/ (Accepted(Support(g)) /\ Support(g) < w))

(* Each lock of a winner costs at most the reduction factor.                 *)
Sharpen_is(c, w) ==
  /\ Supported(c, w)
  /\ Power(100 - reduction_factor, Size(c)) * Occurrences <= Power(100, Size(c)) * w

Lockset_is(c, q) ==
  /\ Supported(c, Occurrences)
  /\ \A h \in hypotheses : Support(h) = Occurrences => Listed_in(c, h) \/ Len(h) < Size(c) \/ Ahead(q, h)

Topdown_is(c, q, w, f) ==
  \/ NolockWins /\ c = << <<root_node, root_node>> >> /\ ((q = <<root_node>> /\ ~f) \/ (q = <<>> /\ f))
  \/ /\ ~NolockWins
     /\ \/ c = << <<root_node, root_node>> >> /\ w = 0 /\ ~f
        \/ Size(c) > 0 /\ Supported(c, w) /\ Accepted(w) /\ f
     /\ \A h \in hypotheses :
          Len(h) > 0 /\ Accepted(Support(h)) =>
            \/ Support(h) < w
            \/ Support(h) = w /\ (Listed_in(c, h) \/ Len(h) < Size(c))
            \/ Ahead(q, h)

Search_is(c, q, w, f) ==
  /\ List_is(c) /\ Queue_is(c, q) /\ w \in Nat /\ f \in BOOLEAN
  /\ strategy # "topdown" => f /\ \A i \in 1 .. Len(q) : Len(q[i]) > 0
  /\ strategy = "bottomup" => Bottomup_is(c, q, w)
  /\ strategy = "sharpen" => Sharpen_is(c, w)
  /\ strategy = "lockset" => Lockset_is(c, q)
  /\ strategy = "topdown" => Topdown_is(c, q, w, f)

(* What the steps after reading do not change.                               *)
LEMMA SameObserved ==
  ASSUME UNCHANGED observed
  PROVE  /\ Observed' <=> Observed
         /\ \A h : Hypothesis(h)' <=> Hypothesis(h)
         /\ \A h : Support(h)' = Support(h) /\ Representative(h)' = Representative(h)
         /\ Occurrences' = Occurrences /\ (NolockWins' <=> NolockWins)
         /\ \A s : Accepted(s)' <=> Accepted(s)
<1>0. combinations' = combinations /\ locks_held_sorted' = locks_held_sorted
  BY DEF observed
<1>1. Observed' <=> Observed
  BY <1>0 DEF Observed
<1>2. ASSUME NEW h PROVE Hypothesis(h)' <=> Hypothesis(h)
  BY <1>0 DEF Hypothesis
<1>3. ASSUME NEW h PROVE Support(h)' = Support(h)
  BY <1>0 DEF Support, Matches, Matching, CountOf, contains_locks, Representative
<1>4. ASSUME NEW h PROVE Representative(h)' = Representative(h)
  BY <1>0 DEF Matches, Matching, CountOf, contains_locks, Representative
<1>5. Occurrences' = Occurrences /\ OccurrencesWithLocks' = OccurrencesWithLocks
  BY <1>0 DEF Occurrences, OccurrencesWithLocks, CountOf
<1>6. NolockWins' <=> NolockWins
  BY <1>5 DEF NolockWins
<1>7. ASSUME NEW s PROVE Accepted(s)' <=> Accepted(s)
  BY <1>5 DEF Accepted
<1> QED BY <1>1, <1>2, <1>3, <1>4, <1>5, <1>6, <1>7

(* A call of find_hypotheses_rek keeps the graph complete.                   *)
LEMMA FindStep ==
  ASSUME Observed, Graph_is, FindHypotheses
  PROVE  Graph_is'
<1> DEFINE new == FoundAt(depth) \ hypotheses
<1>0. depth \in Nat /\ depth' = depth + 1 /\ UNCHANGED observed
  BY DEF FindHypotheses, Graph_is
<1>1. /\ \A h : h \in FoundAt(depth) <=> Hypothesis(h) /\ Len(h) = depth
      /\ IsFiniteSet(FoundAt(depth))
  BY <1>0, FoundIs
<1>2. /\ hypotheses' = hypotheses \cup new
      /\ graph' = [n \in DOMAIN graph \cup new |->
           (IF n \in DOMAIN graph THEN graph[n] ELSE {})
             \cup {h \in new : h # root_node /\ n \in ParentsOf(h)}]
  BY DEF FindHypotheses
<1>3. \A h : Hypothesis(h)' <=> Hypothesis(h)
  BY <1>0, SameObserved
<1>4. \A h : h \in new <=> Hypothesis(h) /\ Len(h) = depth
  BY <1>0, <1>1 DEF Graph_is
<1>5. IsFiniteSet(new)
  BY <1>1, FS_Subset
<1> HIDE DEF new
<1>h. \A h : Hypothesis(h) => Len(h) \in Nat /\ (Len(h) = 0 <=> h = root_node)
  <2> SUFFICES ASSUME NEW h, Hypothesis(h) PROVE Len(h) \in Nat /\ (Len(h) = 0 <=> h = root_node)
    OBVIOUS
  <2> h \in Seq(Nat)
    BY DEF Hypothesis, Sorted
  <2> QED BY DEF root_node
<1>6. depth' \in Nat /\ IsFiniteSet(hypotheses')
  <2>1. depth' \in Nat
    BY <1>0
  <2>2. IsFiniteSet(hypotheses \cup new)
    BY <1>5, FS_Union DEF Graph_is
  <2> QED BY <1>2, <2>1, <2>2
<1>7. \A h : h \in hypotheses' <=> Hypothesis(h)' /\ Len(h) < depth'
  <2> SUFFICES ASSUME NEW h PROVE h \in hypotheses' <=> Hypothesis(h)' /\ Len(h) < depth'
    OBVIOUS
  <2>1. h \in hypotheses <=> Hypothesis(h) /\ Len(h) < depth
    BY DEF Graph_is
  <2> QED BY <1>0, <1>2, <1>3, <1>4, <1>h, <2>1
<1>8. DOMAIN graph' = hypotheses' \cup {root_node}
  BY <1>2 DEF Graph_is
<1>p. ASSUME NEW h \in new, h # root_node
      PROVE  Beginning(h, Len(h) - 1) \in ParentsOf(h) /\ \A n \in ParentsOf(h) : n \in DOMAIN graph /\ Len(n) = Len(h) - 1
  <2> Hypothesis(h) /\ Len(h) = depth /\ Len(h) # 0
    BY <1>4, <1>h, <1>p
  <2> QED BY ParentsAre
<1>9. ASSUME NEW n \in DOMAIN graph', NEW g \in graph'[n] PROVE g \in hypotheses' /\ Len(g) = Len(n) + 1
  <2>1. graph'[n] = (IF n \in DOMAIN graph THEN graph[n] ELSE {}) \cup {h \in new : h # root_node /\ n \in ParentsOf(h)}
    BY <1>2
  <2>2. CASE n \in DOMAIN graph /\ g \in graph[n]
    BY <1>2, <2>2 DEF Graph_is
  <2>3. CASE g \in new /\ g # root_node /\ n \in ParentsOf(g)
    <3> Len(n) = Len(g) - 1 /\ Len(g) \in Nat
      BY <1>4, <1>h, <1>p, <2>3
    <3> QED BY <1>2, <2>3
  <2> QED BY <1>9, <2>1, <2>2, <2>3
<1>10. ASSUME NEW h \in hypotheses', Len(h) # 0 PROVE h \in graph'[Beginning(h, Len(h) - 1)]
  <2> DEFINE p == Beginning(h, Len(h) - 1)
  <2>0. Hypothesis(h) /\ Len(h) \in Nat /\ Len(h) - 1 \in 0 .. Len(h)
    BY <1>3, <1>7, <1>10, <1>h
  <2>1. Hypothesis(p) /\ Len(p) = Len(h) - 1
    BY <2>0, BeginningFacts
  <2> HIDE DEF p
  <2>2. p \in DOMAIN graph
    <3> Len(p) < depth
      BY <1>0, <1>7, <2>0, <2>1
    <3> QED BY <2>1 DEF Graph_is
  <2>3. graph'[p] = graph[p] \cup {x \in new : x # root_node /\ p \in ParentsOf(x)}
    BY <1>2, <2>2
  <2>4. CASE h \in hypotheses
    BY <1>10, <2>3, <2>4 DEF Graph_is, p
  <2>5. CASE h \in new
    <3>1. h # root_node
      BY <1>10, <1>h, <2>0
    <3>2. p \in ParentsOf(h)
      BY <1>p, <2>5, <3>1 DEF p
    <3> QED BY <2>3, <2>5, <3>1, <3>2 DEF p
  <2> QED BY <1>2, <1>10, <2>4, <2>5
<1> QED BY <1>6, <1>7, <1>8, <1>9, <1>10 DEF Graph_is

-----------------------------------------------------------------------------
(* The queue *)

(* Every node of the graph is a hypothesis.                                  *)
LEMMA NodeFacts ==
  ASSUME Graph_is, NEW h \in hypotheses
  PROVE  Hypothesis(h) /\ h \in Seq(Nat) /\ Len(h) \in Nat /\ h \in DOMAIN graph
BY DEF Graph_is, Hypothesis, Sorted

(* The children of a node in the order of std::set: one lock more each.      *)
LEMMA ChildrenFacts ==
  ASSUME Graph_is, NEW n \in DOMAIN graph
  PROVE  /\ Children(n) \in Seq(hypotheses)
         /\ \A x : x \in graph[n] <=> Queued_in(Children(n), x)
         /\ \A k \in 1 .. Len(Children(n)) : Len(Children(n)[k]) = Len(n) + 1
<1>1. graph[n] \in SUBSET hypotheses /\ \A g \in graph[n] : Len(g) = Len(n) + 1
  BY DEF Graph_is
<1>2. hypotheses \in SUBSET Seq(Nat)
  BY NodeFacts
<1>3. graph[n] \in SUBSET Seq(Nat) /\ IsFiniteSet(graph[n])
  BY <1>1, <1>2, FS_Subset DEF Graph_is
<1>4. Listed(graph[n]) \in Seq(graph[n]) /\ \A x : x \in graph[n] <=> \E k \in 1 .. Len(Listed(graph[n])) : Listed(graph[n])[k] = x
  BY <1>3, ListedAll
<1>5. Children(n) = Listed(graph[n])
  BY DEF Children, Listed
<1>6. Children(n) \in Seq(graph[n]) /\ \A x : x \in graph[n] <=> \E k \in 1 .. Len(Children(n)) : Children(n)[k] = x
  BY <1>4, <1>5
<1>7. Children(n) \in Seq(hypotheses)
  BY <1>1, <1>6, SeqMonotonic
<1>8. \A k \in 1 .. Len(Children(n)) : Children(n)[k] \in graph[n]
  BY <1>6
<1> QED BY <1>1, <1>6, <1>7, <1>8 DEF Queued_in

(* Taking the first node off and putting its children at the end.            *)
Next_queue(q, t) == Tail(q) \o t

(* What is queued after a node is taken off.                                 *)
LEMMA NextQueueFacts ==
  ASSUME NEW S, NEW q \in Seq(S), q # <<>>, NEW t \in Seq(S)
  PROVE  /\ Next_queue(q, t) \in Seq(S) /\ Len(Next_queue(q, t)) = Len(q) - 1 + Len(t)
         /\ Len(q) \in Nat \ {0} /\ Len(t) \in Nat /\ Head(q) = q[1]
         /\ \A i \in 1 .. Len(q) - 1 + Len(t) :
              Next_queue(q, t)[i] = IF i <= Len(q) - 1 THEN q[i + 1] ELSE t[i - (Len(q) - 1)]
         /\ \A x : Queued_in(q, x) => x = Head(q) \/ Queued_in(Next_queue(q, t), x)
         /\ \A x : Queued_in(t, x) => Queued_in(Next_queue(q, t), x)
<1> DEFINE r == Next_queue(q, t)
<1>1. /\ Tail(q) \in Seq(S) /\ Len(Tail(q)) = Len(q) - 1 /\ Len(q) \in Nat \ {0} /\ Len(t) \in Nat /\ Head(q) = q[1]
      /\ \A i \in 1 .. Len(q) - 1 : Tail(q)[i] = q[i + 1]
  BY HeadTailProperties
<1>2. /\ r \in Seq(S) /\ Len(r) = Len(q) - 1 + Len(t)
      /\ \A i \in 1 .. Len(q) - 1 + Len(t) : r[i] = IF i <= Len(q) - 1 THEN Tail(q)[i] ELSE t[i - (Len(q) - 1)]
  BY <1>1, ConcatProperties DEF Next_queue
<1> HIDE DEF r
<1>3. \A i \in 1 .. Len(q) - 1 + Len(t) : r[i] = IF i <= Len(q) - 1 THEN q[i + 1] ELSE t[i - (Len(q) - 1)]
  BY <1>1, <1>2
<1>4. ASSUME NEW i \in 1 .. Len(q), i # 1 PROVE Queued_in(r, q[i])
  <2>1. i - 1 \in 1 .. Len(r) /\ i - 1 <= Len(q) - 1 /\ (i - 1) + 1 = i
    BY <1>1, <1>2, <1>4
  <2>2. r[i - 1] = q[i]
    BY <1>2, <1>3, <2>1
  <2> QED BY <2>1, <2>2 DEF Queued_in
<1>5. ASSUME NEW i \in 1 .. Len(t) PROVE Queued_in(r, t[i])
  <2> DEFINE j == i + (Len(q) - 1)
  <2>1. j \in 1 .. Len(r) /\ ~(j <= Len(q) - 1) /\ j - (Len(q) - 1) = i
    BY <1>1, <1>2
  <2> HIDE DEF j
  <2>2. r[j] = t[i]
    BY <1>2, <1>3, <2>1
  <2> QED BY <2>1, <2>2 DEF Queued_in
<1>6. \A x : Queued_in(q, x) => x = Head(q) \/ Queued_in(r, x)
  BY <1>1, <1>4 DEF Queued_in
<1>7. \A x : Queued_in(t, x) => Queued_in(r, x)
  BY <1>5 DEF Queued_in
<1> QED BY <1>1, <1>2, <1>3, <1>6, <1>7 DEF r

(* The queue stays in the order of breadth-first search.                     *)
LEMMA QueueStep ==
  ASSUME Graph_is, NEW c, Size(c) \in Nat, NEW q, Queue_is(c, q), q # <<>>,
         NEW t \in Seq(hypotheses), \A k \in 1 .. Len(t) : Len(t[k]) = Len(Head(q)) + 1,
         NEW c2, (c2 = c /\ t = <<>>) \/ Size(c2) = Len(Head(q))
  PROVE  Queue_is(c2, Next_queue(q, t))
<1> DEFINE r == Next_queue(q, t)
           n == Len(q)
           m == Len(t)
<1>0. q \in Seq(hypotheses)
  BY DEF Queue_is
<1>1. /\ r \in Seq(hypotheses) /\ Len(r) = n - 1 + m
      /\ n \in Nat \ {0} /\ m \in Nat /\ Head(q) = q[1]
      /\ \A i \in 1 .. n - 1 + m : r[i] = IF i <= n - 1 THEN q[i + 1] ELSE t[i - (n - 1)]
  BY <1>0, NextQueueFacts
<1>2. \A i \in 1 .. n : q[i] \in hypotheses /\ Len(q[i]) \in Nat
  BY <1>0, NodeFacts
<1>3. \A i, j \in 1 .. n : i <= j => Len(q[i]) <= Len(q[j]) /\ Len(q[j]) <= Len(q[i]) + 1
  BY DEF Queue_is
<1>4. \A i \in 1 .. n : Size(c) <= Len(q[i]) /\ Len(q[i]) <= Size(c) + 1
  BY DEF Queue_is
<1>5. \A k \in 1 .. m : Len(t[k]) = Len(q[1]) + 1
  BY <1>1
<1>6. 1 \in 1 .. n /\ Len(q[1]) \in Nat
  BY <1>1, <1>2
<1> HIDE DEF r, n, m
<1>7. ASSUME NEW i \in 1 .. Len(r)
      PROVE  /\ Len(r[i]) \in Nat /\ Len(q[1]) <= Len(r[i]) /\ Len(r[i]) <= Len(q[1]) + 1
             /\ i > n - 1 => Len(r[i]) = Len(q[1]) + 1
             /\ i <= n - 1 => i + 1 \in 1 .. n /\ r[i] = q[i + 1]
  <2>1. CASE i <= n - 1
    <3>1. i + 1 \in 1 .. n /\ r[i] = q[i + 1] /\ 1 <= i + 1
      BY <1>1, <2>1
    <3>2. Len(q[1]) <= Len(q[i + 1]) /\ Len(q[i + 1]) <= Len(q[1]) + 1
      BY <1>3, <1>6, <3>1
    <3> QED BY <1>1, <1>2, <2>1, <3>1, <3>2
  <2>2. CASE ~(i <= n - 1)
    <3>1. i - (n - 1) \in 1 .. m /\ r[i] = t[i - (n - 1)]
      BY <1>1, <2>2
    <3>2. Len(r[i]) = Len(q[1]) + 1
      BY <1>5, <3>1
    <3> QED BY <1>1, <1>6, <2>2, <3>2
  <2> QED BY <2>1, <2>2
<1>8. ASSUME NEW i \in 1 .. Len(r), NEW j \in 1 .. Len(r), i <= j
      PROVE  Len(r[i]) <= Len(r[j]) /\ Len(r[j]) <= Len(r[i]) + 1
  <2>0. Len(r[i]) \in Nat /\ Len(r[j]) \in Nat /\ i \in Nat /\ j \in Nat /\ Len(r) \in Nat
    BY <1>1, <1>7
  <2>1. CASE j <= n - 1
    <3>1. i <= n - 1
      BY <1>1, <1>8, <2>0, <2>1
    <3>2. i + 1 \in 1 .. n /\ j + 1 \in 1 .. n /\ r[i] = q[i + 1] /\ r[j] = q[j + 1] /\ i + 1 <= j + 1
      BY <1>7, <1>8, <2>0, <2>1, <3>1
    <3> QED BY <1>3, <3>2
  <2>2. CASE j > n - 1
    <3>1. Len(r[j]) = Len(q[1]) + 1 /\ Len(q[1]) <= Len(r[i]) /\ Len(r[i]) <= Len(q[1]) + 1
      BY <1>7, <2>2
    <3> QED BY <1>6, <2>0, <3>1
  <2> QED BY <1>1, <2>0, <2>1, <2>2
<1>9. ASSUME NEW i \in 1 .. Len(r) PROVE Size(c2) <= Len(r[i]) /\ Len(r[i]) <= Size(c2) + 1
  <2>1. CASE Size(c2) = Len(Head(q))
    BY <1>1, <1>7, <2>1
  <2>2. CASE c2 = c /\ t = <<>>
    <3>1. i + 1 \in 1 .. n /\ r[i] = q[i + 1]
      <4> m = 0
        BY <2>2 DEF m
      <4> QED BY <1>1, <1>7
    <3> QED BY <1>4, <2>2, <3>1
  <2> QED BY <2>1, <2>2
<1> QED BY <1>1, <1>8, <1>9 DEF Queue_is, r

-----------------------------------------------------------------------------
(* The conflict list *)

(* Entries of the conflict list are hypotheses of one size.                  *)
LEMMA ListFacts ==
  ASSUME Graph_is, NEW c, List_is(c)
  PROVE  /\ Len(c) \in Nat /\ Size(c) \in Nat
         /\ \A i \in 1 .. Len(c) : c[i][1] \in hypotheses /\ c[i][2] \in Seq(Nat)
         /\ \A h : Listed_in(c, h) => h \in hypotheses /\ Len(h) = Size(c)
<1>1. c \in Seq(hypotheses \X Seq(Nat)) /\ Len(c) >= 1
  BY DEF List_is
<1>2. Len(c) \in Nat /\ \A i \in 1 .. Len(c) : c[i] \in hypotheses \X Seq(Nat)
  BY <1>1
<1>3. \A i \in 1 .. Len(c) : c[i][1] \in hypotheses /\ c[i][2] \in Seq(Nat)
  BY <1>2
<1>4. Size(c) \in Nat
  <2> 1 \in 1 .. Len(c)
    BY <1>1, <1>2
  <2> QED BY <1>3, NodeFacts DEF Size
<1>5. \A h : Listed_in(c, h) => h \in hypotheses /\ Len(h) = Size(c)
  BY <1>3 DEF Listed_in, List_is
<1> QED BY <1>2, <1>3, <1>4, <1>5

Only(h) == << <<h, Representative(h)>> >>
(* A list that starts anew is in order.                                      *)
LEMMA ListOfOne ==
  ASSUME Observed, Graph_is, NEW h \in hypotheses
  PROVE  /\ List_is(Only(h)) /\ Size(Only(h)) = Len(h) /\ \A x : Listed_in(Only(h), x) <=> x = h
         /\ Supported(Only(h), Support(h))
<1> DEFINE c == Only(h)
           o == Representative(h)
<1>0. o \in Seq(Nat)
  BY NodeFacts, SupportFacts
<1>1. Len(c) = 1 /\ c[1] = <<h, o>> /\ c \in Seq(hypotheses \X Seq(Nat))
  <2> HIDE DEF o
  <2> <<h, o>> \in hypotheses \X Seq(Nat)
    BY <1>0
  <2> QED BY DEF Only, o
<1>2. c[1][1] = h /\ c[1][2] = o
  BY <1>1
<1> HIDE DEF c
<1>3. 1 .. Len(c) = {1}
  BY <1>1
<1>4. Size(c) = Len(h)
  BY <1>2 DEF Size
<1>5. List_is(c)
  BY <1>1, <1>2, <1>3, <1>4 DEF List_is
<1>6. \A x : Listed_in(c, x) <=> x = h
  BY <1>2, <1>3 DEF Listed_in
<1>7. Supported(c, Support(h))
  BY <1>2, <1>3 DEF Supported
<1> QED BY <1>4, <1>5, <1>6, <1>7 DEF c

Saved_in(c, h) == IF \E i \in 1 .. Len(c) : c[i][2] = Representative(h) THEN c ELSE Append(c, <<h, Representative(h)>>)
(* A list to which an equal hypothesis is added is in order.                 *)
LEMMA ListSaved ==
  ASSUME Observed, Graph_is, NEW c, List_is(c), NEW h \in hypotheses, Len(h) = Size(c)
  PROVE  /\ List_is(Saved_in(c, h)) /\ Size(Saved_in(c, h)) = Size(c)
         /\ \A x : Listed_in(Saved_in(c, h), x) <=> Listed_in(c, x) \/ x = h
         /\ \A w : Supported(c, w) /\ Support(h) = w => Supported(Saved_in(c, h), w)
<1> DEFINE c2 == Saved_in(c, h)
           o == Representative(h)
           e == <<h, o>>
           n == Len(c)
<1>0. o \in Seq(Nat) /\ Hypothesis(h)
  BY NodeFacts, SupportFacts
<1>1. n \in Nat /\ n >= 1 /\ c \in Seq(hypotheses \X Seq(Nat)) /\ \A i \in 1 .. n : c[i][1] \in hypotheses
  BY ListFacts DEF List_is
<1>2. CASE \E i \in 1 .. n : c[i][2] = o
  <2>1. c2 = c
    BY <1>2 DEF Saved_in
  <2>2. PICK i \in 1 .. n : c[i][2] = o
    BY <1>2
  <2>3. Representative(c[i][1]) = Representative(h) /\ Hypothesis(c[i][1])
    BY <1>1, <2>2, NodeFacts DEF List_is
  <2>4. c[i][1] = h
    BY <1>0, <2>3, RepresentativeInjective
  <2>5. Listed_in(c, h)
    BY <2>4 DEF Listed_in
  <2> QED BY <2>1, <2>5
<1>3. CASE ~\E i \in 1 .. n : c[i][2] = o
  <2>1. c2 = Append(c, e)
    BY <1>3 DEF Saved_in
  <2>2. e \in hypotheses \X Seq(Nat) /\ e[1] = h /\ e[2] = o
    <3> HIDE DEF o
    <3> QED BY <1>0
  <2> HIDE DEF e, c2, o
  <2>3. /\ c2 \in Seq(hypotheses \X Seq(Nat)) /\ Len(c2) = n + 1
        /\ \A i \in 1 .. n : c2[i] = c[i]
        /\ c2[n + 1] = e
    BY <1>1, <2>1, <2>2, AppendProperties
  <2>4. \A i \in 1 .. Len(c2) : i \in 1 .. n \/ i = n + 1
    BY <1>1, <2>3
  <2>5. 1 \in 1 .. n /\ n + 1 \in 1 .. Len(c2) /\ \A i \in 1 .. n : i \in 1 .. Len(c2)
    BY <1>1, <2>3
  <2>6. Size(c2) = Size(c)
    BY <2>3, <2>5 DEF Size
  <2> HIDE DEF n
  <2>7. \A i \in 1 .. Len(c2) : \A g : g = c2[i][1] => Len(g) = Size(c2) /\ c2[i][2] = Representative(g)
    <3> SUFFICES ASSUME NEW i \in 1 .. Len(c2), NEW g, g = c2[i][1] PROVE Len(g) = Size(c2) /\ c2[i][2] = Representative(g)
      OBVIOUS
    <3>1. CASE i \in 1 .. n
      <4> \A k \in 1 .. n : \A x : x = c[k][1] => Len(x) = Size(c) /\ c[k][2] = Representative(x)
        BY DEF List_is, n
      <4> QED BY <2>3, <2>6, <3>1
    <3>2. CASE i = n + 1
      BY <2>2, <2>3, <2>6, <3>2 DEF o
    <3> QED BY <2>4, <3>1, <3>2
  <2>8. \A i, j \in 1 .. Len(c2) : c2[i][2] = c2[j][2] => i = j
    BY <1>3, <2>2, <2>3, <2>4 DEF List_is, n
  <2>9. List_is(c2)
    BY <1>1, <2>3, <2>7, <2>8 DEF List_is
  <2>10. \A x : Listed_in(c2, x) <=> Listed_in(c, x) \/ x = h
    BY <2>2, <2>3, <2>4, <2>5 DEF Listed_in, n
  <2>11. \A w : Supported(c, w) /\ Support(h) = w => Supported(c2, w)
    BY <2>2, <2>3, <2>4 DEF Supported, n
  <2> QED BY <2>6, <2>9, <2>10, <2>11 DEF c2
<1> QED BY <1>2, <1>3 DEF n, o

-----------------------------------------------------------------------------
(* The searches, one step at a time *)

(* A beginning of a hypothesis has at least its support.                     *)
LEMMA BeginningSupport ==
  ASSUME Observed, Graph_is, NEW h \in hypotheses, NEW k \in 0 .. Len(h)
  PROVE  /\ Beginning(h, k) \in hypotheses /\ Len(Beginning(h, k)) = k /\ Support(h) <= Support(Beginning(h, k))
         /\ k < Len(h) => Beginning(h, k + 1) \in graph[Beginning(h, k)]
<1> DEFINE b == Beginning(h, k)
<1>0. Hypothesis(h) /\ Len(h) \in Nat /\ depth \in Nat /\ Len(h) < depth
  BY NodeFacts DEF Graph_is
<1>1. Hypothesis(b) /\ Len(b) = k /\ ToSet(b) \subseteq ToSet(h)
  BY <1>0, BeginningFacts
<1>2. b \in hypotheses
  BY <1>0, <1>1 DEF Graph_is
<1>3. Support(h) <= Support(b)
  BY <1>0, <1>1, SupportMonotone DEF Hypothesis
<1>4. ASSUME k < Len(h) PROVE Beginning(h, k + 1) \in graph[b]
  <2> DEFINE x == Beginning(h, k + 1)
  <2>1. k + 1 \in 0 .. Len(h) /\ k \in 0 .. k + 1
    BY <1>0, <1>4
  <2>2. Hypothesis(x) /\ Len(x) = k + 1 /\ Beginning(x, k) = b
    BY <1>0, <2>1, BeginningFacts
  <2> HIDE DEF x, b
  <2>3. x \in hypotheses
    BY <1>0, <2>1, <2>2 DEF Graph_is
  <2>4. Len(x) # 0 /\ Len(x) - 1 = k
    BY <2>1, <2>2
  <2> QED BY <2>2, <2>3, <2>4 DEF Graph_is, x
<1> QED BY <1>1, <1>2, <1>3, <1>4

(* Once the search is above h, it is until it takes h or drops what is above. *)
LEMMA AheadStep ==
  ASSUME Observed, Graph_is, NEW q \in Seq(hypotheses), q # <<>>, NEW h \in hypotheses, Ahead(q, h)
  PROVE  /\ Ahead(Next_queue(q, Children(Head(q))), h) \/ h = Head(q)
         /\ Ahead(Next_queue(q, <<>>), h) \/ \E k \in 0 .. Len(h) : Head(q) = Beginning(h, k)
<1> DEFINE n == Head(q)
<1>0. n \in hypotheses /\ n \in DOMAIN graph /\ <<>> \in Seq(hypotheses)
  BY NodeFacts, HeadTailProperties, EmptySeq
<1>1. Children(n) \in Seq(hypotheses) /\ \A x : x \in graph[n] <=> Queued_in(Children(n), x)
  BY <1>0, ChildrenFacts
<1>h. Hypothesis(h) /\ Len(h) \in Nat
  BY NodeFacts
<1>2. PICK k \in 0 .. Len(h) : Queued_in(q, Beginning(h, k))
  BY DEF Ahead
<1>3. \A t \in Seq(hypotheses) : Queued_in(Next_queue(q, t), Beginning(h, k)) \/ Beginning(h, k) = n
  BY <1>2, NextQueueFacts
<1>4. Ahead(Next_queue(q, <<>>), h) \/ \E j \in 0 .. Len(h) : n = Beginning(h, j)
  BY <1>0, <1>3 DEF Ahead
<1>5. Ahead(Next_queue(q, Children(n)), h) \/ h = n
  <2>1. CASE Beginning(h, k) # n
    BY <1>1, <1>3, <2>1 DEF Ahead
  <2>2. CASE Beginning(h, k) = n /\ k = Len(h)
    BY <1>h, <2>2, BeginningFacts
  <2>3. CASE Beginning(h, k) = n /\ k < Len(h)
    <3>1. Beginning(h, k + 1) \in graph[n] /\ k + 1 \in 0 .. Len(h)
      BY <1>h, <2>3, BeginningSupport
    <3>2. Queued_in(Children(n), Beginning(h, k + 1))
      BY <1>1, <3>1
    <3>3. Queued_in(Next_queue(q, Children(n)), Beginning(h, k + 1))
      BY <1>1, <3>2, NextQueueFacts
    <3> QED BY <3>1, <3>3 DEF Ahead
  <2> QED BY <1>h, <2>1, <2>2, <2>3
<1> QED BY <1>4, <1>5

(* A step of the bottomup search keeps what it promises.                     *)
LEMMA BottomupStep ==
  ASSUME Observed, Graph_is, NEW c, List_is(c), NEW q, Queue_is(c, q), q # <<>>, NEW w \in Nat, Bottomup_is(c, q, w),
         NEW n, n = Head(q)
  PROVE  /\ Len(n) = Size(c) /\ Support(n) = w => Bottomup_is(Saved_in(c, n), Next_queue(q, Children(n)), w)
         /\ Accepted(Support(n)) => Bottomup_is(Only(n), Next_queue(q, Children(n)), Support(n))
         /\ ~(Accepted(Support(n)) /\ Support(n) < w) /\ ~(Len(n) > Size(c) /\ Support(n) = w)
              => Bottomup_is(c, Next_queue(q, <<>>), w)
<1> DEFINE Bad(g) == Support(g) = w \/ (Accepted(Support(g)) /\ Support(g) < w)
<1>0. q \in Seq(hypotheses) /\ n \in hypotheses /\ n \in DOMAIN graph /\ <<>> \in Seq(hypotheses)
  BY NodeFacts, HeadTailProperties, EmptySeq DEF Queue_is
<1>1. Children(n) \in Seq(hypotheses) /\ \A x : x \in graph[n] <=> Queued_in(Children(n), x)
  BY <1>0, ChildrenFacts
<1>2. \A x : x \in graph[n] => Queued_in(Next_queue(q, Children(n)), x)
  BY <1>0, <1>1, NextQueueFacts
<1>3. \A t \in Seq(hypotheses) : \A x : Queued_in(q, x) => x = n \/ Queued_in(Next_queue(q, t), x)
  BY <1>0, NextQueueFacts
<1>4. \A h : Listed_in(c, h) => h \in hypotheses /\ Len(h) = Size(c) /\ Len(h) \in Nat /\ h \in DOMAIN graph
  BY ListFacts, NodeFacts
<1>5. \A h : Listed_in(c, h) => \A g \in graph[h] : Len(g) = Size(c) + 1 /\ (Queued_in(q, g) \/ ~Bad(g))
  BY <1>4 DEF Bottomup_is, Graph_is
<1>6. Size(c) \in Nat
  BY ListFacts
<1>7. ASSUME Len(n) = Size(c), Support(n) = w PROVE Bottomup_is(Saved_in(c, n), Next_queue(q, Children(n)), w)
  <2>1. /\ \A x : Listed_in(Saved_in(c, n), x) <=> Listed_in(c, x) \/ x = n
        /\ Supported(Saved_in(c, n), w)
    BY <1>0, <1>7, ListSaved DEF Bottomup_is
  <2>2. ASSUME NEW h, Listed_in(Saved_in(c, n), h), NEW g \in graph[h]
        PROVE  Queued_in(Next_queue(q, Children(n)), g) \/ ~Bad(g)
    <3>1. CASE h = n
      BY <1>2, <2>2, <3>1
    <3>2. CASE Listed_in(c, h)
      <4>1. Len(g) = Size(c) + 1 /\ (Queued_in(q, g) \/ ~Bad(g))
        BY <1>5, <2>2, <3>2
      <4>2. g # n
        BY <1>6, <1>7, <4>1
      <4> HIDE DEF Bad
      <4> QED BY <1>1, <1>3, <4>1, <4>2
    <3> HIDE DEF Bad
    <3> QED BY <2>1, <2>2, <3>1, <3>2
  <2> QED BY <2>1, <2>2 DEF Bottomup_is
<1>8. ASSUME Accepted(Support(n)) PROVE Bottomup_is(Only(n), Next_queue(q, Children(n)), Support(n))
  <2>1. (\A x : Listed_in(Only(n), x) <=> x = n) /\ Supported(Only(n), Support(n))
    BY <1>0, ListOfOne
  <2> QED BY <1>2, <1>8, <2>1 DEF Bottomup_is
<1>9. ASSUME ~(Accepted(Support(n)) /\ Support(n) < w), ~(Len(n) > Size(c) /\ Support(n) = w)
      PROVE  Bottomup_is(c, Next_queue(q, <<>>), w)
  <2>1. ASSUME NEW h, Listed_in(c, h), NEW g \in graph[h] PROVE Queued_in(Next_queue(q, <<>>), g) \/ ~Bad(g)
    <3>1. Len(g) = Size(c) + 1 /\ (Queued_in(q, g) \/ ~Bad(g))
      BY <1>5, <2>1
    <3>2. CASE g = n
      BY <1>6, <1>9, <3>1, <3>2
    <3>3. CASE g # n
      <4> HIDE DEF Bad
      <4> QED BY <1>0, <1>3, <3>1, <3>3
    <3> HIDE DEF Bad
    <3> QED BY <3>2, <3>3
  <2> QED BY <2>1 DEF Bottomup_is
<1> QED BY <1>7, <1>8, <1>9

(* A step of the lockset search keeps what it promises.                      *)
LEMMA LocksetStep ==
  ASSUME Observed, Graph_is, NEW c, List_is(c), NEW q, Queue_is(c, q), q # <<>>, Lockset_is(c, q), NEW n, n = Head(q)
  PROVE  /\ Len(n) = Size(c) /\ Support(n) = Occurrences => Lockset_is(Saved_in(c, n), Next_queue(q, Children(n)))
         /\ Len(n) > Size(c) /\ Support(n) = Occurrences => Lockset_is(Only(n), Next_queue(q, Children(n)))
         /\ Support(n) # Occurrences => Lockset_is(c, Next_queue(q, <<>>))
<1>0. q \in Seq(hypotheses) /\ n \in hypotheses /\ Len(n) \in Nat
  BY NodeFacts, HeadTailProperties DEF Queue_is
<1>1. Size(c) \in Nat /\ \A h : Listed_in(c, h) => Len(h) = Size(c)
  BY ListFacts
<1>2. \A h \in hypotheses : Support(h) = Occurrences => Listed_in(c, h) \/ Len(h) < Size(c) \/ Ahead(q, h)
  BY DEF Lockset_is
<1>3. \A h \in hypotheses : Ahead(q, h) => Ahead(Next_queue(q, Children(n)), h) \/ h = n
  BY <1>0, AheadStep
<1>4. \A h \in hypotheses : Ahead(q, h) => Ahead(Next_queue(q, <<>>), h) \/ \E k \in 0 .. Len(h) : n = Beginning(h, k)
  BY <1>0, AheadStep
<1>5. \A h \in hypotheses : Len(h) \in Nat /\ Support(h) \in Nat /\ Support(h) <= Occurrences
  BY NodeFacts, SupportFacts
<1>6. ASSUME Len(n) = Size(c), Support(n) = Occurrences PROVE Lockset_is(Saved_in(c, n), Next_queue(q, Children(n)))
  <2>1. /\ \A x : Listed_in(Saved_in(c, n), x) <=> Listed_in(c, x) \/ x = n
        /\ Supported(Saved_in(c, n), Occurrences) /\ Size(Saved_in(c, n)) = Size(c)
    BY <1>0, <1>6, ListSaved DEF Lockset_is
  <2> QED BY <1>2, <1>3, <2>1 DEF Lockset_is
<1>7. ASSUME Len(n) > Size(c), Support(n) = Occurrences PROVE Lockset_is(Only(n), Next_queue(q, Children(n)))
  <2>1. /\ \A x : Listed_in(Only(n), x) <=> x = n
        /\ Supported(Only(n), Occurrences) /\ Size(Only(n)) = Len(n)
    BY <1>0, <1>7, ListOfOne
  <2>2. \A h \in hypotheses : Listed_in(c, h) \/ Len(h) < Size(c) => Len(h) < Len(n)
    BY <1>0, <1>1, <1>5, <1>7
  <2> QED BY <1>2, <1>3, <2>1, <2>2 DEF Lockset_is
<1>8. ASSUME Support(n) # Occurrences PROVE Lockset_is(c, Next_queue(q, <<>>))
  <2>1. ASSUME NEW h \in hypotheses, Support(h) = Occurrences, NEW k \in 0 .. Len(h), n = Beginning(h, k) PROVE FALSE
    <3>1. Support(h) <= Support(n)
      BY <2>1, BeginningSupport
    <3>2. Support(n) \in Nat /\ Support(n) <= Occurrences /\ Support(h) \in Nat
      BY <1>0, <1>5
    <3> QED BY <1>8, <2>1, <3>1, <3>2
  <2> QED BY <1>2, <1>4, <2>1 DEF Lockset_is
<1> QED BY <1>6, <1>7, <1>8

(* More support than an accepted one is accepted.                            *)
LEMMA AcceptedMonotone ==
  ASSUME Observed, NEW s \in Nat, NEW t \in Nat, s <= t, Accepted(s)
  PROVE  Accepted(t)
<1> DEFINE p == accept_threshold * Occurrences
<1>1. p \in Nat
  <2> accept_threshold \in Nat
    BY ThresholdAssumption DEF Percent
  <2> Occurrences \in Nat
    BY CountFacts
  <2> QED OBVIOUS
<1>2. p <= 100 * s
  BY DEF Accepted
<1> HIDE DEF p
<1>3. p <= 100 * t
  BY <1>1, <1>2
<1> QED BY <1>3 DEF Accepted, p

(* No lock is the only hypothesis of no locks.                               *)
LEMMA RootList ==
  ASSUME Observed, Graph_is, depth >= 1
  PROVE  /\ << <<root_node, root_node>> >> = Only(root_node) /\ root_node \in hypotheses
         /\ Size(<< <<root_node, root_node>> >>) = 0
         /\ \A x : Listed_in(<< <<root_node, root_node>> >>, x) <=> x = root_node
         /\ \A h \in hypotheses : Len(h) = 0 <=> h = root_node
<1>0. /\ Hypothesis(root_node) /\ Len(root_node) = 0 /\ Representative(root_node) = root_node
      /\ \A h : Hypothesis(h) /\ Len(h) = 0 => h = root_node
  BY SupportOfRoot
<1>1. << <<root_node, root_node>> >> = Only(root_node)
  BY <1>0 DEF Only
<1>2. root_node \in hypotheses
  BY <1>0 DEF Graph_is
<1>3. Size(Only(root_node)) = 0 /\ \A x : Listed_in(Only(root_node), x) <=> x = root_node
  BY <1>0, <1>2, ListOfOne
<1>4. \A h \in hypotheses : Len(h) = 0 <=> h = root_node
  BY <1>0, NodeFacts
<1> QED BY <1>1, <1>2, <1>3, <1>4

(* A step of the topdown search keeps what it promises.                      *)
LEMMA TopdownStep ==
  ASSUME Observed, Graph_is, depth >= 1, NEW c, List_is(c), NEW q, Queue_is(c, q), q # <<>>, NEW w \in Nat, NEW f \in BOOLEAN,
         Topdown_is(c, q, w, f), ~NolockWins, NEW n, n = Head(q)
  PROVE  /\ n = root_node => Topdown_is(c, Next_queue(q, Children(n)), w, f)
         /\ n # root_node =>
              /\ Len(n) = Size(c) /\ Support(n) = w => Topdown_is(Saved_in(c, n), Next_queue(q, Children(n)), w, f)
              /\ ~(Len(n) = Size(c) /\ Support(n) = w) /\ Accepted(Support(n)) /\ Support(n) >= w /\ Len(n) >= Size(c)
                   => Topdown_is(Only(n), Next_queue(q, Children(n)), Support(n), TRUE)
              /\ ~(Accepted(Support(n)) /\ Support(n) >= w /\ Len(n) >= Size(c)) => Topdown_is(c, Next_queue(q, <<>>), w, f)
<1> DEFINE R == << <<root_node, root_node>> >>
           Start(x, v, g) == x = R /\ v = 0 /\ ~g
           Won(x, v, g) == Size(x) > 0 /\ Supported(x, v) /\ Accepted(v) /\ g
           Done(x, v, h) == Support(h) < v \/ (Support(h) = v /\ (Listed_in(x, h) \/ Len(h) < Size(x)))
           All(x, r, v) == \A h \in hypotheses : Len(h) > 0 /\ Accepted(Support(h)) => Done(x, v, h) \/ Ahead(r, h)
<1>d. \A x, r, v, g : Topdown_is(x, r, v, g) <=> (Start(x, v, g) \/ Won(x, v, g)) /\ All(x, r, v)
  BY DEF Topdown_is
<1>0. q \in Seq(hypotheses) /\ n \in hypotheses /\ Len(n) \in Nat /\ Support(n) \in Nat
  BY NodeFacts, HeadTailProperties, SupportFacts DEF Queue_is
<1>1. Size(c) \in Nat /\ \A h : Listed_in(c, h) => Len(h) = Size(c)
  BY ListFacts
<1>2. Size(c) <= Len(n)
  <2> 1 \in 1 .. Len(q) /\ n = q[1]
    BY <1>0
  <2> QED BY DEF Queue_is
<1>3. \A h \in hypotheses : Ahead(q, h) => Ahead(Next_queue(q, Children(n)), h) \/ h = n
  BY <1>0, AheadStep
<1>4. \A h \in hypotheses : Ahead(q, h) => Ahead(Next_queue(q, <<>>), h) \/ \E k \in 0 .. Len(h) : n = Beginning(h, k)
  BY <1>0, AheadStep
<1>5. \A h \in hypotheses : Len(h) \in Nat /\ Support(h) \in Nat
  BY NodeFacts, SupportFacts
<1>6. Size(R) = 0 /\ \A h \in hypotheses : Len(h) = 0 <=> h = root_node
  BY RootList
<1>7. (Start(c, w, f) \/ Won(c, w, f)) /\ All(c, q, w)
  BY <1>d
<1> HIDE DEF R
<1>8. ASSUME n = root_node PROVE Topdown_is(c, Next_queue(q, Children(n)), w, f)
  <2>1. \A h \in hypotheses : Len(h) > 0 => h # n
    BY <1>0, <1>6, <1>8
  <2>2. All(c, Next_queue(q, Children(n)), w)
    <3> HIDE DEF Done
    <3> QED BY <1>3, <1>7, <2>1
  <2> HIDE DEF All, Start, Won
  <2> QED BY <1>d, <1>7, <2>2
<1>9. ASSUME n # root_node PROVE Len(n) > 0
  BY <1>0, <1>6, <1>9
<1>10. ASSUME n # root_node, Len(n) = Size(c), Support(n) = w
       PROVE  Topdown_is(Saved_in(c, n), Next_queue(q, Children(n)), w, f)
  <2>1. Won(c, w, f)
    BY <1>6, <1>7, <1>9, <1>10
  <2>2. /\ \A x : Listed_in(Saved_in(c, n), x) <=> Listed_in(c, x) \/ x = n
        /\ Supported(Saved_in(c, n), w) /\ Size(Saved_in(c, n)) = Size(c)
    BY <1>0, <1>10, <2>1, ListSaved
  <2>3. Won(Saved_in(c, n), w, f)
    BY <2>1, <2>2
  <2>4. All(Saved_in(c, n), Next_queue(q, Children(n)), w)
    BY <1>3, <1>7, <1>10, <2>2
  <2> HIDE DEF All, Start, Won
  <2> QED BY <1>d, <2>3, <2>4
<1>11. ASSUME n # root_node, ~(Len(n) = Size(c) /\ Support(n) = w), Accepted(Support(n)), Support(n) >= w
       PROVE  Topdown_is(Only(n), Next_queue(q, Children(n)), Support(n), TRUE)
  <2> DEFINE v == Support(n)
  <2>1. /\ \A x : Listed_in(Only(n), x) <=> x = n
        /\ Supported(Only(n), v) /\ Size(Only(n)) = Len(n)
    BY <1>0, ListOfOne
  <2>2. Won(Only(n), v, TRUE)
    BY <1>9, <1>11, <2>1
  <2>3. ASSUME NEW h \in hypotheses, Len(h) > 0, Accepted(Support(h))
        PROVE  Done(Only(n), v, h) \/ Ahead(Next_queue(q, Children(n)), h)
    <3>0. Len(h) \in Nat /\ Support(h) \in Nat /\ v \in Nat
      BY <1>0, <1>5
    <3>1. CASE h = n
      BY <2>1, <3>1
    <3>2. CASE Ahead(q, h) /\ h # n
      BY <1>3, <3>2
    <3>3. CASE Done(c, w, h)
      <4> HIDE DEF v
      <4>1. v >= w /\ ~(Len(n) = Size(c) /\ v = w)
        BY <1>11 DEF v
      <4>2. Listed_in(c, h) => Len(h) = Size(c)
        BY <1>1
      <4>3. Support(h) < v \/ (Support(h) = v /\ Len(h) < Len(n))
        BY <1>0, <1>1, <1>2, <3>0, <3>3, <4>1, <4>2
      <4> QED BY <2>1, <4>3
    <3> HIDE DEF Done
    <3> QED BY <1>7, <2>3, <3>1, <3>2, <3>3
  <2>4. All(Only(n), Next_queue(q, Children(n)), v)
    BY <2>3
  <2> HIDE DEF All, Start, Won
  <2> QED BY <1>d, <2>2, <2>4
<1>12. ASSUME ~(Accepted(Support(n)) /\ Support(n) >= w /\ Len(n) >= Size(c))
       PROVE  Topdown_is(c, Next_queue(q, <<>>), w, f)
  <2>1. ASSUME NEW h \in hypotheses, Accepted(Support(h)), NEW k \in 0 .. Len(h), n = Beginning(h, k)
        PROVE  Support(h) < w
    <3>1. Support(h) <= Support(n) /\ Support(h) \in Nat
      BY <1>5, <2>1, BeginningSupport
    <3>2. Accepted(Support(n))
      BY <1>0, <2>1, <3>1, AcceptedMonotone
    <3> QED BY <1>0, <1>1, <1>2, <1>12, <3>1, <3>2
  <2>2. ASSUME NEW h \in hypotheses, Len(h) > 0, Accepted(Support(h))
        PROVE  Done(c, w, h) \/ Ahead(Next_queue(q, <<>>), h)
    <3>1. Done(c, w, h) \/ Ahead(q, h)
      BY <1>7, <2>2
    <3>2. Ahead(q, h) => Ahead(Next_queue(q, <<>>), h) \/ Support(h) < w
      BY <1>4, <2>1, <2>2
    <3> QED BY <3>1, <3>2
  <2>3. All(c, Next_queue(q, <<>>), w)
    BY <2>2
  <2> HIDE DEF All, Start, Won
  <2> QED BY <1>d, <1>7, <2>3
<1> QED BY <1>8, <1>10, <1>11, <1>12

-----------------------------------------------------------------------------
(* Powers *)

IsPower(p, b, n) == p \in [0 .. n -> Nat] /\ p[0] = 1 /\ \A i \in 1 .. n : p[i] = b * p[i - 1]

(* The recursion in Power has a solution.                                    *)
LEMMA PowerUnfolds ==
  ASSUME NEW b \in Nat, NEW n \in Nat
  PROVE  \E p : IsPower(p, b, n) /\ Power(b, n) = p[n]
<1> DEFINE F == [p \in (1 .. n) \X Nat |-> b * p[2]]
           Step(r) == [i \in 0 .. n |-> IF i = 0 THEN 1 ELSE b * r[i - 1]]
           ret == CHOOSE r : r = Step(r)
<1>t. \A x \in Nat : b * x \in Nat
  OBVIOUS
<1>1. IsStep(F, n, Nat)
  <2>1. \A p \in (1 .. n) \X Nat : p[2] \in Nat
    OBVIOUS
  <2> QED BY <1>t, <2>1 DEF IsStep
<1>2. \A k \in 1 .. n, x \in Nat : F[<<k, x>>] = b * x
  OBVIOUS
<1>3. PICK r : IsRun(r, n, Nat, 1, F)
  <2> HIDE DEF F
  <2> QED BY <1>1, RecursionExists
<1>4. r = Step(r)
  <2>1. ASSUME NEW i \in 0 .. n PROVE r[i] = Step(r)[i]
    <3> HIDE DEF F
    <3>1. CASE i = 0
      BY <1>3, <3>1 DEF IsRun
    <3>2. CASE i # 0
      <4>1. i \in 1 .. n /\ i - 1 \in 0 .. n /\ r[i - 1] \in Nat
        BY <1>3, <3>2 DEF IsRun
      <4>2. r[i] = F[<<i, r[i - 1]>>]
        BY <1>3, <4>1 DEF IsRun
      <4>3. F[<<i, r[i - 1]>>] = b * r[i - 1]
        BY <1>2, <4>1
      <4> QED BY <3>2, <4>2, <4>3
    <3> QED BY <3>1, <3>2
  <2> DEFINE t == Step(r)
  <2> t = [i \in 0 .. n |-> t[i]]
    OBVIOUS
  <2> HIDE DEF t
  <2> r = [i \in 0 .. n |-> r[i]]
    BY <1>3 DEF IsRun
  <2> r = t
    BY <2>1 DEF t
  <2> QED BY DEF t
<1>5. ret = Step(ret)
  <2> HIDE DEF Step
  <2> QED BY <1>4
<1>6. Power(b, n) = ret[n]
  BY DEF Power
<1> HIDE DEF ret
<1>7. IsPower(ret, b, n)
  <2>1. \A i \in 0 .. n : ret[i] = IF i = 0 THEN 1 ELSE b * ret[i - 1]
    BY <1>5
  <2>2. DOMAIN ret = 0 .. n /\ ret = [i \in 0 .. n |-> ret[i]]
    BY <1>5
  <2> HIDE DEF Step
  <2>3. ret[0] = 1
    BY <2>1
  <2>4. \A i \in 1 .. n : ret[i] = b * ret[i - 1]
    BY <2>1
  <2>5. \A i \in 0 .. n : ret[i] \in Nat
    <3> DEFINE P == {i \in Nat : i <= n => ret[i] \in Nat}
    <3>1. 0 \in P
      BY <2>3
    <3>2. ASSUME NEW i \in Nat, i \in P PROVE i + 1 \in P
      <4> SUFFICES ASSUME i + 1 <= n PROVE ret[i + 1] \in Nat
        OBVIOUS
      <4>1. i + 1 \in 1 .. n /\ (i + 1) - 1 = i /\ ret[i] \in Nat
        BY <3>2
      <4>2. ret[i + 1] = b * ret[i]
        BY <2>4, <4>1
      <4> QED BY <1>t, <4>1, <4>2
    <3> HIDE DEF P
    <3>3. Nat \subseteq P
      BY <3>1, <3>2, SetInduction
    <3> QED BY <3>3 DEF P
  <2>6. ret \in [0 .. n -> Nat]
    BY <2>2, <2>5
  <2> QED BY <2>3, <2>4, <2>6 DEF IsPower
<1> QED BY <1>6, <1>7

(* Powers are naturals, with the usual recursion.                            *)
LEMMA PowerFacts ==
  ASSUME NEW b \in Nat, NEW n \in Nat
  PROVE  Power(b, n) \in Nat /\ Power(b, 0) = 1 /\ Power(b, n + 1) = b * Power(b, n)
<1>1. PICK p : IsPower(p, b, n) /\ Power(b, n) = p[n]
  BY PowerUnfolds
<1>2. PICK r : IsPower(r, b, n + 1) /\ Power(b, n + 1) = r[n + 1]
  BY PowerUnfolds
<1>3. Power(b, n) \in Nat
  BY <1>1 DEF IsPower
<1>4. Power(b, 0) = 1
  BY PowerUnfolds DEF IsPower
<1> DEFINE P == {i \in Nat : i <= n => p[i] = r[i]}
<1>5. 0 \in P
  BY <1>1, <1>2 DEF IsPower
<1>6. ASSUME NEW i \in Nat, i \in P PROVE i + 1 \in P
  <2> SUFFICES ASSUME i + 1 <= n PROVE p[i + 1] = r[i + 1]
    OBVIOUS
  <2>1. i + 1 \in 1 .. n /\ i + 1 \in 1 .. n + 1 /\ (i + 1) - 1 = i /\ p[i] = r[i]
    BY <1>6
  <2>2. p[i + 1] = b * p[i] /\ r[i + 1] = b * r[i]
    BY <1>1, <1>2, <2>1 DEF IsPower
  <2> QED BY <2>1, <2>2
<1>7. p[n] = r[n]
  <2> Nat \subseteq P
    <3> HIDE DEF P
    <3> QED BY <1>5, <1>6, SetInduction
  <2> n \in P
    OBVIOUS
  <2> QED OBVIOUS
<1>8. r[n + 1] = b * r[n]
  <2> n + 1 \in 1 .. n + 1 /\ (n + 1) - 1 = n
    OBVIOUS
  <2> QED BY <1>2 DEF IsPower
<1> QED BY <1>1, <1>2, <1>3, <1>4, <1>7, <1>8

(* Multiplication is monotone.                                               *)
LEMMA ProductMonotone ==
  ASSUME NEW a \in Nat, NEW x \in Nat, NEW y \in Nat, x <= y
  PROVE  a * x <= a * y /\ x * a <= y * a /\ a * x \in Nat /\ a * y \in Nat
OBVIOUS

(* A step of the sharpen search keeps what it promises.                      *)
LEMMA SharpenStep ==
  ASSUME Observed, Graph_is, NEW c, List_is(c), NEW w \in Nat, Sharpen_is(c, w), NEW n \in hypotheses,
         Size(c) <= Len(n), Len(n) <= Size(c) + 1
  PROVE  /\ Len(n) = Size(c) /\ Support(n) = w => Sharpen_is(Saved_in(c, n), w)
         /\ Len(n) = Size(c) /\ Support(n) > w => Sharpen_is(Only(n), Support(n))
         /\ Len(n) > Size(c) /\ (Support(n) = w \/ (100 - reduction_factor) * w <= 100 * Support(n))
              => Sharpen_is(Only(n), Support(n))
<1> DEFINE r == 100 - reduction_factor
           k == Size(c)
           A == Power(100, k)
           B == Power(r, k)
           s == Support(n)
           O == Occurrences
<1>0. r \in Nat /\ r <= 100 /\ k \in Nat /\ s \in Nat /\ O \in Nat /\ Len(n) \in Nat
  <2>1. r \in Nat /\ r <= 100
    <3> reduction_factor \in Percent
      BY ThresholdAssumption
    <3> QED BY DEF Percent
  <2>2. k \in Nat
    BY ListFacts
  <2>3. s \in Nat /\ Len(n) \in Nat
    BY NodeFacts, SupportFacts
  <2>4. O \in Nat
    BY CountFacts
  <2> QED BY <2>1, <2>2, <2>3, <2>4
<1>1. Supported(c, w) /\ B * O <= A * w
  BY DEF Sharpen_is
<1> HIDE DEF r, k, s, O
<1>2. A \in Nat /\ B \in Nat /\ Power(100, k + 1) = 100 * A /\ Power(r, k + 1) = r * B
  BY <1>0, PowerFacts
<1>3. ASSUME Len(n) = k, s = w PROVE Sharpen_is(Saved_in(c, n), w)
  <2>1. Supported(Saved_in(c, n), w) /\ Size(Saved_in(c, n)) = k
    BY <1>1, <1>3, ListSaved DEF k, s
  <2> QED BY <1>1, <2>1 DEF Sharpen_is, k, r, O
<1>4. Supported(Only(n), s) /\ Size(Only(n)) = Len(n)
  BY ListOfOne DEF s
<1> HIDE DEF A, B
<1>5. ASSUME Len(n) = k, s > w PROVE Sharpen_is(Only(n), s)
  <2>1. A * w <= A * s /\ A * w \in Nat /\ A * s \in Nat /\ B * O \in Nat
    BY <1>0, <1>2, <1>5, ProductMonotone
  <2>2. B * O <= A * s
    BY <1>1, <2>1
  <2> QED BY <1>4, <1>5, <2>2 DEF Sharpen_is, A, B, r, O
<1>6. ASSUME Len(n) > k, s = w \/ r * w <= 100 * s PROVE Sharpen_is(Only(n), s)
  <2>1. Len(n) = k + 1
    BY <1>0, <1>6 DEF k
  <2>2. r * w <= 100 * s /\ r * w \in Nat /\ 100 * s \in Nat
    BY <1>0, <1>6, ProductMonotone
  <2>3. r * (B * O) <= r * (A * w)
    BY <1>0, <1>1, <1>2, ProductMonotone
  <2>4. A * (r * w) <= A * (100 * s)
    BY <1>2, <2>2, ProductMonotone
  <2>5. r * (B * O) = (r * B) * O /\ r * (A * w) = A * (r * w) /\ A * (100 * s) = (100 * A) * s
    BY <1>0, <1>2
  <2>6. (r * B) * O \in Nat /\ A * (r * w) \in Nat /\ (100 * A) * s \in Nat
    BY <1>0, <1>2
  <2>7. (r * B) * O <= (100 * A) * s
    BY <2>3, <2>4, <2>5, <2>6
  <2>8. Power(r, Len(n)) * O <= Power(100, Len(n)) * s
    BY <1>2, <2>1, <2>7
  <2> QED BY <1>4, <2>8 DEF Sharpen_is, r, O
<1> QED BY <1>3, <1>5, <1>6 DEF s, k, r

-----------------------------------------------------------------------------
(* One step of the search, whatever the strategy *)

Equal_to(c, w, n) == Len(n) = Size(c) /\ IF strategy = "lockset" THEN Support(n) = Occurrences ELSE Support(n) = w

Better_than(c, w, n) ==
  \/ strategy = "bottomup" /\ \/ Accepted(Support(n)) /\ Support(n) < w
                              \/ Len(n) > Size(c) /\ Support(n) = w
  \/ strategy = "sharpen" /\ \/ Len(n) = Size(c) /\ Support(n) > w
                             \/ Len(n) > Size(c) /\ (Support(n) = w \/ (100 - reduction_factor) * w <= 100 * Support(n))
  \/ strategy = "topdown" /\ Accepted(Support(n)) /\ Support(n) >= w /\ Len(n) >= Size(c)
  \/ strategy = "lockset" /\ Support(n) = Occurrences /\ Len(n) > Size(c)

(* What a step changes of the queue and the list, whatever the strategy.     *)
LEMMA PartsStep ==
  ASSUME Observed, Graph_is, depth >= 1, NEW c, List_is(c), NEW q, Queue_is(c, q), q # <<>>,
         NEW n, n = Head(q), NEW t \in Seq(hypotheses), \A k \in 1 .. Len(t) : Len(t[k]) = Len(n) + 1,
         NEW c2, (c2 = c /\ t = <<>>) \/ Size(c2) = Len(n)
  PROVE  /\ Queue_is(c2, Next_queue(q, t))
         /\ (\A i \in 1 .. Len(q) : Len(q[i]) > 0) =>
              \A i \in 1 .. Len(Next_queue(q, t)) : Len(Next_queue(q, t)[i]) > 0
<1>1. Size(c) \in Nat
  BY ListFacts
<1>2. Queue_is(c2, Next_queue(q, t))
  BY <1>1, QueueStep
<1>3. ASSUME \A i \in 1 .. Len(q) : Len(q[i]) > 0, NEW i \in 1 .. Len(Next_queue(q, t))
      PROVE  Len(Next_queue(q, t)[i]) > 0
  <2> DEFINE r == Next_queue(q, t)
             m == Len(q)
  <2>0. q \in Seq(hypotheses)
    BY DEF Queue_is
  <2>1. /\ Len(r) = m - 1 + Len(t) /\ m \in Nat \ {0} /\ Len(t) \in Nat /\ Head(q) = q[1]
        /\ \A j \in 1 .. m - 1 + Len(t) : r[j] = IF j <= m - 1 THEN q[j + 1] ELSE t[j - (m - 1)]
    BY <2>0, NextQueueFacts
  <2>2. n \in hypotheses /\ Len(n) \in Nat
    BY <2>0, NodeFacts, HeadTailProperties
  <2> HIDE DEF r, m
  <2>i. i \in 1 .. m - 1 + Len(t)
    BY <2>1 DEF r
  <2>3. CASE i <= m - 1
    <3>1. i + 1 \in 1 .. m /\ r[i] = q[i + 1]
      BY <2>1, <2>i, <2>3
    <3> QED BY <1>3, <3>1 DEF m, r
  <2>4. CASE ~(i <= m - 1)
    <3>1. i - (m - 1) \in 1 .. Len(t) /\ r[i] = t[i - (m - 1)]
      BY <2>1, <2>i, <2>4
    <3>2. Len(r[i]) = Len(n) + 1
      BY <3>1
    <3> QED BY <2>2, <3>2 DEF r
  <2> QED BY <2>3, <2>4
<1> QED BY <1>2, <1>3

(* A node equal to the winner is saved.                                      *)
LEMMA EqualStep ==
  ASSUME Observed, Graph_is, depth >= 1, strategy \in {"topdown", "bottomup", "sharpen", "lockset"},
         NEW c, NEW q, NEW w, NEW f, Search_is(c, q, w, f), q # <<>>, NEW n, n = Head(q),
         strategy = "topdown" => ~NolockWins /\ n # root_node,
         Equal_to(c, w, n)
  PROVE  Search_is(Saved_in(c, n), Next_queue(q, Children(n)), w, f)
<1> DEFINE c2 == Saved_in(c, n)
           q2 == Next_queue(q, Children(n))
<1>0. /\ List_is(c) /\ Queue_is(c, q) /\ w \in Nat /\ f \in BOOLEAN
      /\ strategy # "topdown" => f /\ \A i \in 1 .. Len(q) : Len(q[i]) > 0
      /\ strategy = "bottomup" => Bottomup_is(c, q, w)
      /\ strategy = "sharpen" => Sharpen_is(c, w)
      /\ strategy = "lockset" => Lockset_is(c, q)
      /\ strategy = "topdown" => Topdown_is(c, q, w, f)
  BY DEF Search_is
<1>1. n \in hypotheses /\ n \in DOMAIN graph /\ Len(n) \in Nat
  BY <1>0, NodeFacts, HeadTailProperties DEF Queue_is
<1>2. Children(n) \in Seq(hypotheses) /\ \A k \in 1 .. Len(Children(n)) : Len(Children(n)[k]) = Len(n) + 1
  BY <1>1, ChildrenFacts
<1>3. Len(n) = Size(c) /\ (strategy # "lockset" => Support(n) = w) /\ (strategy = "lockset" => Support(n) = Occurrences)
  BY DEF Equal_to
<1>4. List_is(c2) /\ Size(c2) = Len(n)
  BY <1>0, <1>1, <1>3, ListSaved
<1>5. Queue_is(c2, q2) /\ ((\A i \in 1 .. Len(q) : Len(q[i]) > 0) => \A i \in 1 .. Len(q2) : Len(q2[i]) > 0)
  BY <1>0, <1>2, <1>4, PartsStep
<1>6. strategy = "bottomup" => Bottomup_is(c2, q2, w)
  BY <1>0, <1>3, BottomupStep
<1>7. strategy = "sharpen" => Sharpen_is(c2, w)
  <2> Size(c) <= Len(n) /\ Len(n) <= Size(c) + 1
    BY <1>1, <1>3
  <2> QED BY <1>0, <1>1, <1>3, SharpenStep
<1>8. strategy = "lockset" => Lockset_is(c2, q2)
  BY <1>0, <1>3, LocksetStep
<1>9. strategy = "topdown" => Topdown_is(c2, q2, w, f)
  BY <1>0, <1>3, TopdownStep
<1> HIDE DEF c2, q2
<1>10. Search_is(c2, q2, w, f)
  BY <1>0, <1>4, <1>5, <1>6, <1>7, <1>8, <1>9 DEF Search_is
<1> QED BY <1>10 DEF c2, q2

(* A better node replaces the list.                                          *)
LEMMA BetterStep ==
  ASSUME Observed, Graph_is, depth >= 1, strategy \in {"topdown", "bottomup", "sharpen", "lockset"},
         NEW c, NEW q, NEW w, NEW f, Search_is(c, q, w, f), q # <<>>, NEW n, n = Head(q),
         strategy = "topdown" => ~NolockWins /\ n # root_node,
         ~Equal_to(c, w, n), Better_than(c, w, n)
  PROVE  Search_is(Only(n), Next_queue(q, Children(n)), IF strategy = "lockset" THEN w ELSE Support(n), TRUE)
<1> DEFINE c2 == Only(n)
           q2 == Next_queue(q, Children(n))
           w2 == IF strategy = "lockset" THEN w ELSE Support(n)
<1>0. /\ List_is(c) /\ Queue_is(c, q) /\ w \in Nat /\ f \in BOOLEAN
      /\ strategy # "topdown" => f /\ \A i \in 1 .. Len(q) : Len(q[i]) > 0
      /\ strategy = "bottomup" => Bottomup_is(c, q, w)
      /\ strategy = "sharpen" => Sharpen_is(c, w)
      /\ strategy = "lockset" => Lockset_is(c, q)
      /\ strategy = "topdown" => Topdown_is(c, q, w, f)
  BY DEF Search_is
<1>1. n \in hypotheses /\ n \in DOMAIN graph /\ Len(n) \in Nat /\ Support(n) \in Nat
  BY <1>0, NodeFacts, HeadTailProperties, SupportFacts DEF Queue_is
<1>2. Children(n) \in Seq(hypotheses) /\ \A k \in 1 .. Len(Children(n)) : Len(Children(n)[k]) = Len(n) + 1
  BY <1>1, ChildrenFacts
<1>3. Size(c) <= Len(n) /\ Len(n) <= Size(c) + 1
  <2> q \in Seq(hypotheses) /\ 1 \in 1 .. Len(q) /\ n = q[1]
    BY <1>0 DEF Queue_is
  <2> QED BY <1>0 DEF Queue_is
<1>4. List_is(c2) /\ Size(c2) = Len(n)
  BY <1>0, <1>1, ListOfOne
<1>5. Queue_is(c2, q2) /\ ((\A i \in 1 .. Len(q) : Len(q[i]) > 0) => \A i \in 1 .. Len(q2) : Len(q2[i]) > 0)
  BY <1>0, <1>2, <1>4, PartsStep
<1>6. strategy = "bottomup" => Bottomup_is(c2, q2, Support(n))
  <2> SUFFICES ASSUME strategy = "bottomup" PROVE Bottomup_is(c2, q2, Support(n))
    OBVIOUS
  <2>1. Bottomup_is(c, q, w)
    BY <1>0
  <2>2. Accepted(w)
    BY <2>1 DEF Bottomup_is
  <2>3. Accepted(Support(n))
    BY <2>2 DEF Better_than
  <2> QED BY <1>0, <2>1, <2>3, BottomupStep
<1>7. strategy = "sharpen" => Sharpen_is(c2, Support(n))
  <2> SUFFICES ASSUME strategy = "sharpen" PROVE Sharpen_is(c2, Support(n))
    OBVIOUS
  <2>1. \/ Len(n) = Size(c) /\ Support(n) > w
        \/ Len(n) > Size(c) /\ (Support(n) = w \/ (100 - reduction_factor) * w <= 100 * Support(n))
    BY DEF Better_than
  <2> QED BY <1>0, <1>1, <1>3, <2>1, SharpenStep
<1>8. strategy = "lockset" => Lockset_is(c2, q2)
  <2> SUFFICES ASSUME strategy = "lockset" PROVE Lockset_is(c2, q2)
    OBVIOUS
  <2>1. Len(n) > Size(c) /\ Support(n) = Occurrences
    BY DEF Better_than
  <2> QED BY <1>0, <2>1, LocksetStep
<1>9. strategy = "topdown" => Topdown_is(c2, q2, Support(n), TRUE)
  <2> SUFFICES ASSUME strategy = "topdown" PROVE Topdown_is(c2, q2, Support(n), TRUE)
    OBVIOUS
  <2>1. Accepted(Support(n)) /\ Support(n) >= w /\ Len(n) >= Size(c) /\ ~(Len(n) = Size(c) /\ Support(n) = w)
    BY DEF Better_than, Equal_to
  <2> QED BY <1>0, <2>1, TopdownStep
<1>w. w2 \in Nat /\ (strategy # "lockset" => w2 = Support(n))
  BY <1>0, <1>1
<1> HIDE DEF c2, q2, w2
<1>10. Search_is(c2, q2, w2, TRUE)
  <2>1. List_is(c2) /\ Queue_is(c2, q2) /\ w2 \in Nat
    BY <1>4, <1>5, <1>w
  <2>2. strategy # "topdown" => \A i \in 1 .. Len(q2) : Len(q2[i]) > 0
    BY <1>0, <1>5
  <2>3. strategy = "bottomup" => Bottomup_is(c2, q2, w2)
    BY <1>6, <1>w
  <2>4. strategy = "sharpen" => Sharpen_is(c2, w2)
    BY <1>7, <1>w
  <2>5. strategy = "topdown" => Topdown_is(c2, q2, w2, TRUE)
    BY <1>9, <1>w
  <2> QED BY <1>8, <2>1, <2>2, <2>3, <2>4, <2>5 DEF Search_is
<1> QED BY <1>10 DEF c2, q2, w2

(* A node that is neither leaves the list alone.                             *)
LEMMA SkipStep ==
  ASSUME Observed, Graph_is, depth >= 1, strategy \in {"topdown", "bottomup", "sharpen", "lockset"},
         NEW c, NEW q, NEW w, NEW f, Search_is(c, q, w, f), q # <<>>, NEW n, n = Head(q),
         strategy = "topdown" => ~NolockWins /\ n # root_node,
         ~Equal_to(c, w, n), ~Better_than(c, w, n)
  PROVE  Search_is(c, Next_queue(q, <<>>), w, f)
<1> DEFINE q2 == Next_queue(q, <<>>)
<1>0. /\ List_is(c) /\ Queue_is(c, q) /\ w \in Nat /\ f \in BOOLEAN
      /\ strategy # "topdown" => f /\ \A i \in 1 .. Len(q) : Len(q[i]) > 0
      /\ strategy = "bottomup" => Bottomup_is(c, q, w)
      /\ strategy = "sharpen" => Sharpen_is(c, w)
      /\ strategy = "lockset" => Lockset_is(c, q)
      /\ strategy = "topdown" => Topdown_is(c, q, w, f)
  BY DEF Search_is
<1>1. Size(c) <= Len(n) /\ Size(c) \in Nat /\ Len(n) \in Nat
  <2> q \in Seq(hypotheses) /\ 1 \in 1 .. Len(q) /\ n = q[1] /\ n \in hypotheses
    BY <1>0 DEF Queue_is
  <2> QED BY <1>0, ListFacts, NodeFacts DEF Queue_is
<1>2. <<>> \in Seq(hypotheses) /\ \A k \in 1 .. Len(<<>>) : Len(<<>>[k]) = Len(n) + 1
  BY EmptySeq
<1>3. Queue_is(c, q2) /\ ((\A i \in 1 .. Len(q) : Len(q[i]) > 0) => \A i \in 1 .. Len(q2) : Len(q2[i]) > 0)
  BY <1>0, <1>2, PartsStep
<1>4. strategy = "bottomup" => Bottomup_is(c, q2, w)
  <2> SUFFICES ASSUME strategy = "bottomup" PROVE Bottomup_is(c, q2, w)
    OBVIOUS
  <2>1. ~(Accepted(Support(n)) /\ Support(n) < w) /\ ~(Len(n) > Size(c) /\ Support(n) = w)
    BY DEF Better_than
  <2> QED BY <1>0, <2>1, BottomupStep
<1>5. strategy = "lockset" => Lockset_is(c, q2)
  <2> SUFFICES ASSUME strategy = "lockset" PROVE Lockset_is(c, q2)
    OBVIOUS
  <2>1. Support(n) # Occurrences
    BY <1>1 DEF Better_than, Equal_to
  <2> QED BY <1>0, <2>1, LocksetStep
<1>6. strategy = "topdown" => Topdown_is(c, q2, w, f)
  <2> SUFFICES ASSUME strategy = "topdown" PROVE Topdown_is(c, q2, w, f)
    OBVIOUS
  <2>1. ~(Accepted(Support(n)) /\ Support(n) >= w /\ Len(n) >= Size(c))
    BY DEF Better_than
  <2> QED BY <1>0, <2>1, TopdownStep
<1> HIDE DEF q2
<1>7. Search_is(c, q2, w, f)
  BY <1>0, <1>3, <1>4, <1>5, <1>6 DEF Search_is
<1> QED BY <1>7 DEF q2

-----------------------------------------------------------------------------
(* The specification *)

Strategies_all == {"topdown", "bottomup", "sharpen", "lockset"}
Phase_is ==
  /\ strategy \in Strategies_all /\ phase \in {"find", "search", "report", "done"}
  /\ phase = "find" => conflict_list = <<>>
  /\ phase # "find" => depth >= 1
  /\ conflict_list = <<>> => phase \in {"find", "search"} /\ nodes = <<>>
  /\ phase \in {"report", "done"} => nodes = <<>>
Searched ==
  conflict_list # <<>> =>
    \A c, q, w, f : c = conflict_list /\ q = nodes /\ w = rel_support_winner /\ f = winner_found => Search_is(c, q, w, f)

(* The inductive invariant.                                                  *)
HypothesizerInv == Observed /\ Graph_is /\ Phase_is /\ Searched

(* The graph is the same after a step that leaves it alone.                  *)
LEMMA SameGraph ==
  ASSUME UNCHANGED <<observed, depth, hypotheses, graph>>, Graph_is
  PROVE  Graph_is'
<1>1. \A h : Hypothesis(h)' <=> Hypothesis(h)
  BY SameObserved
<1>2. depth' = depth /\ hypotheses' = hypotheses /\ graph' = graph
  OBVIOUS
<1> QED BY <1>1, <1>2 DEF Graph_is

(* The facts on a search are the same after a step that leaves it alone.     *)
LEMMA SameSearch ==
  ASSUME UNCHANGED <<observed, strategy, hypotheses, graph>>, NEW c, NEW q, NEW w, NEW f, Search_is(c, q, w, f)
  PROVE  Search_is(c, q, w, f)'
<1>1. /\ \A h : Support(h)' = Support(h) /\ Representative(h)' = Representative(h)
      /\ Occurrences' = Occurrences /\ (NolockWins' <=> NolockWins)
      /\ \A s : Accepted(s)' <=> Accepted(s)
  BY SameObserved
<1>2. strategy' = strategy /\ hypotheses' = hypotheses /\ graph' = graph
  OBVIOUS
<1>3. List_is(c) => List_is(c)'
  BY <1>1, <1>2 DEF List_is
<1>4. Queue_is(c, q) => Queue_is(c, q)'
  BY <1>2 DEF Queue_is
<1>5. ASSUME NEW v PROVE Supported(c, v)' <=> Supported(c, v)
  BY <1>1 DEF Supported
<1>6. Bottomup_is(c, q, w) => Bottomup_is(c, q, w)'
  BY <1>1, <1>2, <1>5 DEF Bottomup_is
<1>7. Sharpen_is(c, w) => Sharpen_is(c, w)'
  BY <1>1, <1>5 DEF Sharpen_is
<1>8. Lockset_is(c, q) => Lockset_is(c, q)'
  BY <1>1, <1>2 DEF Lockset_is, Supported
<1>9. Topdown_is(c, q, w, f) => Topdown_is(c, q, w, f)'
  BY <1>1, <1>2, <1>5 DEF Topdown_is
<1> QED BY <1>2, <1>3, <1>4, <1>6, <1>7, <1>8, <1>9 DEF Search_is

(* The input loop establishes the invariant.                                 *)
LEMMA InitInv ==
  Init => HypothesizerInv
<1> SUFFICES ASSUME Init PROVE HypothesizerInv
  OBVIOUS
<1>0. depth = 0 /\ hypotheses = {} /\ graph = [n \in {root_node} |-> {}] /\ nodes = <<>> /\ conflict_list = <<>> /\ phase = "find"
  BY DEF Init, Fresh
<1>1. Observed
  <2>1. /\ combinations \in Inputs
        /\ locks_held_sorted = [held \in DOMAIN combinations |-> update_sorted_locks(held)]
    BY DEF Init
  <2>2. \A held \in DOMAIN combinations : locks_held_sorted[held] = update_sorted_locks(held)
    BY <2>1
  <2> QED BY <2>1, <2>2, InputsAssumption DEF Observed
<1>2. Graph_is
  <2>1. \A h : Hypothesis(h) => Len(h) \in Nat
    BY DEF Hypothesis, Sorted
  <2>2. \A h : h \in hypotheses <=> Hypothesis(h) /\ Len(h) < depth
    BY <1>0, <2>1
  <2>3. IsFiniteSet(hypotheses)
    BY <1>0, FS_EmptySet
  <2> QED BY <1>0, <2>2, <2>3 DEF Graph_is
<1>3. Phase_is
  BY <1>0, StrategyAssumption DEF Init, Phase_is, Strategies_all
<1>4. Searched
  BY <1>0 DEF Searched
<1> QED BY <1>1, <1>2, <1>3, <1>4 DEF HypothesizerInv

(* The search begins at the root.                                            *)
LEMMA BeginningAtRoot ==
  ASSUME Observed, Graph_is, depth >= 1, NEW h \in hypotheses
  PROVE  /\ Beginning(h, 0) = root_node /\ 0 \in 0 .. Len(h)
         /\ h = root_node \/ (1 \in 0 .. Len(h) /\ Beginning(h, 1) \in graph[root_node])
<1>0. Len(h) \in Nat /\ 0 \in 0 .. Len(h)
  BY NodeFacts
<1>1. Beginning(h, 0) \in hypotheses /\ Len(Beginning(h, 0)) = 0
  BY <1>0, BeginningSupport
<1>2. Beginning(h, 0) = root_node
  BY <1>1, RootList
<1>3. CASE h # root_node
  <2>1. 0 < Len(h)
    BY <1>0, <1>3, RootList
  <2>2. Beginning(h, 0 + 1) \in graph[Beginning(h, 0)]
    BY <1>0, <2>1, BeginningSupport
  <2>3. 0 + 1 = 1 /\ 1 \in 0 .. Len(h)
    BY <1>0, <2>1
  <2> QED BY <1>0, <1>2, <2>2, <2>3
<1> QED BY <1>0, <1>2, <1>3

(* The topdown search begins with its invariant.                             *)
LEMMA StartTopdown ==
  ASSUME Observed, Graph_is, depth >= 1, strategy = "topdown"
  PROVE  Search_is(<< <<root_node, root_node>> >>, <<root_node>>, 0, FALSE)
<1> DEFINE R == << <<root_node, root_node>> >>
           q == <<root_node>>
<1>0. R = Only(root_node) /\ root_node \in hypotheses /\ Size(R) = 0 /\ Len(root_node) = 0
  BY RootList
<1>1. List_is(R)
  BY <1>0, ListOfOne
<1>2. q \in Seq(hypotheses) /\ Len(q) = 1 /\ q[1] = root_node
  BY <1>0
<1> HIDE DEF q
<1>3. 1 .. Len(q) = {1}
  BY <1>2
<1> HIDE DEF R
<1>4. Queue_is(R, q)
  BY <1>0, <1>2, <1>3 DEF Queue_is
<1>5. Queued_in(q, root_node)
  BY <1>2, <1>3 DEF Queued_in
<1>6. \A h \in hypotheses : Ahead(q, h)
  BY <1>5, BeginningAtRoot DEF Ahead
<1>7. Topdown_is(R, q, 0, FALSE)
  BY <1>6 DEF Topdown_is, R, q
<1>8. Search_is(R, q, 0, FALSE)
  BY <1>1, <1>4, <1>7 DEF Search_is
<1> QED BY <1>8 DEF R, q

(* The other searches begin with theirs.                                     *)
LEMMA StartOther ==
  ASSUME Observed, Graph_is, depth >= 1, strategy # "topdown"
  PROVE  Search_is(<< <<root_node, root_node>> >>, Children(root_node), Occurrences, TRUE)
<1> DEFINE R == << <<root_node, root_node>> >>
           q == Children(root_node)
<1>0. /\ R = Only(root_node) /\ root_node \in hypotheses /\ Size(R) = 0 /\ Len(root_node) = 0
      /\ \A x : Listed_in(R, x) <=> x = root_node
  BY RootList
<1>1. List_is(R) /\ Supported(R, Occurrences)
  BY <1>0, ListOfOne, SupportOfRoot
<1>2. /\ q \in Seq(hypotheses) /\ \A x : x \in graph[root_node] <=> Queued_in(q, x)
      /\ \A k \in 1 .. Len(q) : Len(q[k]) = 1
  <2>1. /\ q \in Seq(hypotheses) /\ \A x : x \in graph[root_node] <=> Queued_in(q, x)
        /\ \A k \in 1 .. Len(q) : Len(q[k]) = Len(root_node) + 1
    BY <1>0, NodeFacts, ChildrenFacts
  <2>2. Len(root_node) + 1 = 1
    BY <1>0
  <2> HIDE DEF q
  <2> QED BY <2>1, <2>2
<1>3. Occurrences \in Nat
  BY CountFacts
<1> HIDE DEF R, q
<1>4. Queue_is(R, q) /\ \A i \in 1 .. Len(q) : Len(q[i]) > 0
  <2>2. ASSUME NEW i \in 1 .. Len(q), NEW j \in 1 .. Len(q)
        PROVE  Len(q[i]) <= Len(q[j]) /\ Len(q[j]) <= Len(q[i]) + 1 /\ 0 <= Len(q[i]) /\ Len(q[i]) <= 0 + 1 /\ Len(q[i]) > 0
    <3> DEFINE a == Len(q[i])
               b == Len(q[j])
    <3>1. a = 1 /\ b = 1
      BY <1>2
    <3> HIDE DEF a, b
    <3>2. a <= b /\ b <= a + 1 /\ 0 <= a /\ a <= 0 + 1 /\ a > 0
      BY <3>1
    <3> QED BY <3>2 DEF a, b
  <2> QED BY <1>0, <1>2, <2>2 DEF Queue_is
<1>5. Accepted(Occurrences)
  <2> accept_threshold \in Percent
    BY ThresholdAssumption
  <2> accept_threshold \in Nat /\ accept_threshold <= 100
    BY DEF Percent
  <2> accept_threshold * Occurrences <= 100 * Occurrences
    BY <1>3, ProductMonotone
  <2> QED BY DEF Accepted
<1>6. Bottomup_is(R, q, Occurrences)
  BY <1>0, <1>1, <1>2, <1>5 DEF Bottomup_is
<1>7. Sharpen_is(R, Occurrences)
  <2>1. 100 - reduction_factor \in Nat
    <3> reduction_factor \in Percent
      BY ThresholdAssumption
    <3> QED BY DEF Percent
  <2>2. Power(100 - reduction_factor, 0) = 1 /\ Power(100, 0) = 1
    <3> HIDE DEF R
    <3> \A b \in Nat : Power(b, 0) = 1
      BY PowerFacts
    <3> QED BY <2>1
  <2>3. 1 * Occurrences <= 1 * Occurrences
    BY <1>3
  <2> QED BY <1>0, <1>1, <2>2, <2>3 DEF Sharpen_is
<1>8. \A h \in hypotheses : h = root_node \/ Ahead(q, h)
  BY <1>2, BeginningAtRoot DEF Ahead
<1>9. Lockset_is(R, q)
  BY <1>0, <1>1, <1>8 DEF Lockset_is
<1>10. Search_is(R, q, Occurrences, TRUE)
  BY <1>1, <1>3, <1>4, <1>6, <1>7, <1>9 DEF Search_is
<1> QED BY <1>10 DEF R, q

(* A node whose children are not followed.                                   *)
LEMMA NothingAdded ==
  ASSUME NEW S, NEW q \in Seq(S), q # <<>>
  PROVE  Next_queue(q, <<>>) = Tail(q)
BY HeadTailProperties, ConcatEmptySeq DEF Next_queue

(* Examining a node keeps the invariant.                                     *)
LEMMA ExamineInv ==
  ASSUME HypothesizerInv, Examine
  PROVE  HypothesizerInv'
<1> DEFINE n == Head(nodes)
           c == conflict_list
           q == nodes
           w == rel_support_winner
           f == winner_found
<1>0. /\ Observed /\ Graph_is /\ Phase_is /\ Searched
  BY DEF HypothesizerInv
<1>1. /\ UNCHANGED <<observed, strategy, phase, depth, hypotheses, graph, report>>
      /\ phase = "search" /\ q # <<>> /\ ~TopdownRoot
  BY DEF Examine, Searching
<1>2. strategy = "topdown" => ~NolockWins /\ n # root_node
  BY <1>1 DEF TopdownRoot, Searching
<1>3. c # <<>> /\ depth >= 1 /\ strategy \in {"topdown", "bottomup", "sharpen", "lockset"}
  BY <1>0, <1>1 DEF Phase_is, Strategies_all
<1>4. Search_is(c, q, w, f)
  BY <1>0, <1>3 DEF Searched
<1>5. \/ EqualTo(n, Support(n)) /\ c' = Saved(n, Representative(n)) /\ q' = Popped(q) \o Examined(n) /\ w' = w /\ f' = f
      \/ /\ ~EqualTo(n, Support(n)) /\ Better(n, Support(n))
         /\ c' = Only(n) /\ q' = Popped(q) \o Examined(n)
         /\ w' = (IF strategy = "lockset" THEN w ELSE Support(n)) /\ f' = TRUE
      \/ ~EqualTo(n, Support(n)) /\ ~Better(n, Support(n)) /\ c' = c /\ q' = Popped(q) /\ w' = w /\ f' = f
  BY DEF Examine, Only
<1>6. EqualTo(n, Support(n)) <=> Equal_to(c, w, n)
  BY DEF EqualTo, Equal_to, SizeOfBest, Size
<1>7. Better(n, Support(n)) <=> Better_than(c, w, n)
  BY <1>3 DEF Better, Better_than, SizeOfBest, Size, SmallLoss
<1>8. Saved(n, Representative(n)) = Saved_in(c, n)
  BY DEF Saved, Saved_in, in_conflict_list
<1>9. Popped(q) \o Examined(n) = Next_queue(q, Children(n))
  BY DEF Popped, Examined, Next_queue
<1>10. Popped(q) = Next_queue(q, <<>>)
  <2>1. q \in Seq(hypotheses)
    BY <1>4 DEF Search_is, Queue_is
  <2> QED BY <1>1, <2>1, NothingAdded DEF Popped
<1>11. \/ Equal_to(c, w, n) /\ c' = Saved_in(c, n) /\ q' = Next_queue(q, Children(n)) /\ w' = w /\ f' = f
       \/ /\ ~Equal_to(c, w, n) /\ Better_than(c, w, n)
          /\ c' = Only(n) /\ q' = Next_queue(q, Children(n))
          /\ w' = (IF strategy = "lockset" THEN w ELSE Support(n)) /\ f' = TRUE
       \/ ~Equal_to(c, w, n) /\ ~Better_than(c, w, n) /\ c' = c /\ q' = Next_queue(q, <<>>) /\ w' = w /\ f' = f
  BY <1>5, <1>6, <1>7, <1>8, <1>9, <1>10
<1>12. ASSUME NEW c2, NEW q2, NEW w2, NEW f2, c2 = c', q2 = q', w2 = w', f2 = f'
       PROVE  Search_is(c2, q2, w2, f2)
  <2>1. CASE Equal_to(c, w, n) /\ c' = Saved_in(c, n) /\ q' = Next_queue(q, Children(n)) /\ w' = w /\ f' = f
    <3> Search_is(Saved_in(c, n), Next_queue(q, Children(n)), w, f)
      BY <1>0, <1>1, <1>2, <1>3, <1>4, <2>1, EqualStep
    <3> QED BY <1>12, <2>1
  <2>2. CASE /\ ~Equal_to(c, w, n) /\ Better_than(c, w, n)
             /\ c' = Only(n) /\ q' = Next_queue(q, Children(n))
             /\ w' = (IF strategy = "lockset" THEN w ELSE Support(n)) /\ f' = TRUE
    <3> Search_is(Only(n), Next_queue(q, Children(n)), IF strategy = "lockset" THEN w ELSE Support(n), TRUE)
      BY <1>0, <1>1, <1>2, <1>3, <1>4, <2>2, BetterStep
    <3> QED BY <1>12, <2>2
  <2>3. CASE ~Equal_to(c, w, n) /\ ~Better_than(c, w, n) /\ c' = c /\ q' = Next_queue(q, <<>>) /\ w' = w /\ f' = f
    <3> Search_is(c, Next_queue(q, <<>>), w, f)
      BY <1>0, <1>1, <1>2, <1>3, <1>4, <2>3, SkipStep
    <3> QED BY <1>12, <2>3
  <2> QED BY <1>11, <2>1, <2>2, <2>3
<1>13. Searched'
  <2> SUFFICES ASSUME NEW c2, NEW q2, NEW w2, NEW f2, c2 = c', q2 = q', w2 = w', f2 = f'
               PROVE  Search_is(c2, q2, w2, f2)'
    BY DEF Searched
  <2>1. Search_is(c2, q2, w2, f2)
    BY <1>12
  <2> QED BY <1>1, <2>1, SameSearch
<1>14. conflict_list' # <<>>
  <2> PICK c2, q2, w2, f2 : c2 = c' /\ q2 = q' /\ w2 = w' /\ f2 = f'
    OBVIOUS
  <2>1. List_is(c2)
    BY <1>12 DEF Search_is
  <2>2. Len(c2) >= 1
    BY <2>1 DEF List_is
  <2> QED BY <2>2
<1>15. Observed' /\ Graph_is'
  BY <1>0, <1>1, SameObserved, SameGraph
<1>16. Phase_is'
  BY <1>0, <1>1, <1>14 DEF Phase_is
<1> QED BY <1>13, <1>15, <1>16 DEF HypothesizerInv

(* So does the first node of the topdown search.                             *)
LEMMA TopdownRootInv ==
  ASSUME HypothesizerInv, ExamineTopdownRoot
  PROVE  HypothesizerInv'
<1> DEFINE n == Head(nodes)
           c == conflict_list
           q == nodes
           w == rel_support_winner
           f == winner_found
<1>0. Observed /\ Graph_is /\ Phase_is /\ Searched
  BY DEF HypothesizerInv
<1>1. /\ UNCHANGED <<observed, strategy, phase, depth, hypotheses, graph, report>>
      /\ phase = "search" /\ q # <<>> /\ strategy = "topdown" /\ (NolockWins \/ n = root_node)
      /\ f' = (f \/ NolockWins) /\ c' = c /\ w' = w
      /\ q' = IF NolockWins THEN Popped(q) ELSE Popped(q) \o Children(root_node)
  BY DEF ExamineTopdownRoot, TopdownRoot, Searching
<1>3. c # <<>> /\ depth >= 1
  BY <1>0, <1>1 DEF Phase_is
<1>4. Search_is(c, q, w, f)
  BY <1>0, <1>3 DEF Searched
<1>5. List_is(c) /\ Queue_is(c, q) /\ w \in Nat /\ f \in BOOLEAN /\ Topdown_is(c, q, w, f)
  BY <1>1, <1>4 DEF Search_is
<1>6. ASSUME NEW c2, NEW q2, NEW w2, NEW f2, c2 = c', q2 = q', w2 = w', f2 = f'
      PROVE  Search_is(c2, q2, w2, f2)
  <2>1. CASE NolockWins
    <3>1. c = << <<root_node, root_node>> >> /\ q = <<root_node>>
      BY <1>1, <1>5, <2>1 DEF Topdown_is
    <3>2. q2 = <<>> /\ f2 = TRUE
      <4>1. q2 = Tail(q)
        BY <1>1, <1>6, <2>1 DEF Popped
      <4>2. Tail(<<root_node>>) = <<>>
        OBVIOUS
      <4>3. f2 = (f \/ NolockWins)
        BY <1>1, <1>6
      <4>4. (f \/ NolockWins) = TRUE
        BY <2>1
      <4> QED BY <3>1, <4>1, <4>2, <4>3, <4>4
    <3>3. Queue_is(c, <<>>)
      BY EmptySeq DEF Queue_is
    <3>4. Topdown_is(c, <<>>, w, TRUE)
      BY <2>1, <3>1 DEF Topdown_is
    <3>5. Search_is(c, <<>>, w, TRUE)
      BY <1>1, <1>5, <3>3, <3>4 DEF Search_is
    <3> QED BY <1>1, <1>6, <3>2, <3>5
  <2>2. CASE ~NolockWins
    <3>1. n = root_node /\ q' = Next_queue(q, Children(n))
      BY <1>1, <2>2 DEF Popped, Next_queue
    <3>2. f' = f
      BY <1>1, <1>5, <2>2
    <3>3. Topdown_is(c, Next_queue(q, Children(n)), w, f)
      BY <1>0, <1>1, <1>3, <1>5, <2>2, <3>1, TopdownStep
    <3>4. n \in hypotheses /\ n \in DOMAIN graph /\ Len(n) = 0
      BY <1>0, <1>3, <3>1, RootList, NodeFacts
    <3>5. Size(c) = Len(n)
      <4>1. q \in Seq(hypotheses) /\ 1 \in 1 .. Len(q) /\ n = q[1] /\ Size(c) \in Nat
        BY <1>0, <1>1, <1>5, ListFacts DEF Queue_is
      <4>2. Size(c) <= Len(n)
        BY <1>5, <4>1 DEF Queue_is
      <4> QED BY <3>4, <4>1, <4>2
    <3>6. Children(n) \in Seq(hypotheses) /\ \A k \in 1 .. Len(Children(n)) : Len(Children(n)[k]) = Len(n) + 1
      BY <1>0, <3>4, ChildrenFacts
    <3>7. Queue_is(c, Next_queue(q, Children(n)))
      BY <1>0, <1>1, <1>3, <1>5, <3>5, <3>6, PartsStep
    <3>8. Search_is(c, Next_queue(q, Children(n)), w, f)
      BY <1>1, <1>5, <3>3, <3>7 DEF Search_is
    <3> QED BY <1>1, <1>6, <3>1, <3>2, <3>8
  <2> QED BY <2>1, <2>2
<1>7. Searched'
  <2> SUFFICES ASSUME NEW c2, NEW q2, NEW w2, NEW f2, c2 = c', q2 = q', w2 = w', f2 = f'
               PROVE  Search_is(c2, q2, w2, f2)'
    BY DEF Searched
  <2>1. Search_is(c2, q2, w2, f2)
    BY <1>6
  <2> QED BY <1>1, <2>1, SameSearch
<1>8. Observed' /\ Graph_is'
  BY <1>0, <1>1, SameObserved, SameGraph
<1>9. Phase_is'
  BY <1>0, <1>1, <1>3 DEF Phase_is
<1> QED BY <1>7, <1>8, <1>9 DEF HypothesizerInv

(* So does the start of a search.                                            *)
LEMMA StartSearchInv ==
  ASSUME HypothesizerInv, StartSearch
  PROVE  HypothesizerInv'
<1> DEFINE R == << <<root_node, root_node>> >>
<1>0. Observed /\ Graph_is /\ Phase_is
  BY DEF HypothesizerInv
<1>1. /\ UNCHANGED <<observed, strategy, phase, depth, hypotheses, graph, report>>
      /\ phase = "search" /\ conflict_list' = R
      /\ \/ strategy = "topdown" /\ nodes' = <<root_node>> /\ rel_support_winner' = 0 /\ winner_found' = FALSE
         \/ strategy # "topdown" /\ nodes' = Children(root_node) /\ rel_support_winner' = Occurrences /\ winner_found' = TRUE
  BY DEF StartSearch, TopdownSupport
<1>2. depth >= 1
  BY <1>0, <1>1 DEF Phase_is
<1>3. ASSUME NEW c2, NEW q2, NEW w2, NEW f2,
             c2 = conflict_list', q2 = nodes', w2 = rel_support_winner', f2 = winner_found'
      PROVE  Search_is(c2, q2, w2, f2)
  <2> HIDE DEF R
  <2>1. CASE strategy = "topdown"
    <3>1. Search_is(R, <<root_node>>, 0, FALSE)
      BY <1>0, <1>2, <2>1, StartTopdown DEF R
    <3> QED BY <1>1, <1>3, <2>1, <3>1
  <2>2. CASE strategy # "topdown"
    <3>1. Search_is(R, Children(root_node), Occurrences, TRUE)
      BY <1>0, <1>2, <2>2, StartOther DEF R
    <3> QED BY <1>1, <1>3, <2>2, <3>1
  <2> QED BY <2>1, <2>2
<1>4. Searched'
  <2> SUFFICES ASSUME NEW c2, NEW q2, NEW w2, NEW f2,
                      c2 = conflict_list', q2 = nodes', w2 = rel_support_winner', f2 = winner_found'
               PROVE  Search_is(c2, q2, w2, f2)'
    BY DEF Searched
  <2>1. Search_is(c2, q2, w2, f2)
    BY <1>3
  <2> QED BY <1>1, <2>1, SameSearch
<1>5. Observed' /\ Graph_is'
  BY <1>0, <1>1, SameObserved, SameGraph
<1>6. conflict_list' # <<>>
  BY <1>1
<1>7. Phase_is'
  BY <1>0, <1>1, <1>6 DEF Phase_is
<1> QED BY <1>4, <1>5, <1>7 DEF HypothesizerInv

(* Steps that leave the search alone keep what was searched.                 *)
LEMMA SearchedStays ==
  ASSUME HypothesizerInv, UNCHANGED <<observed, strategy, depth, hypotheses, graph, search>>
  PROVE  Observed' /\ Graph_is' /\ Searched'
<1>0. /\ conflict_list' = conflict_list /\ nodes' = nodes
      /\ rel_support_winner' = rel_support_winner /\ winner_found' = winner_found
  BY DEF search
<1>1. Observed' /\ Graph_is'
  BY SameObserved, SameGraph DEF HypothesizerInv
<1>2. Searched'
  <2> SUFFICES ASSUME conflict_list' # <<>>, NEW c2, NEW q2, NEW w2, NEW f2,
                      c2 = conflict_list', q2 = nodes', w2 = rel_support_winner', f2 = winner_found'
               PROVE  Search_is(c2, q2, w2, f2)'
    BY DEF Searched
  <2>1. Search_is(c2, q2, w2, f2)
    BY <1>0 DEF HypothesizerInv, Searched
  <2> QED BY <2>1, SameSearch
<1> QED BY <1>1, <1>2

(* Every step keeps the invariant.                                           *)
LEMMA NextInv ==
  HypothesizerInv /\ [Next]_vars => HypothesizerInv'
<1> SUFFICES ASSUME HypothesizerInv, [Next]_vars PROVE HypothesizerInv'
  OBVIOUS
<1>0. Observed /\ Graph_is /\ Phase_is
  BY DEF HypothesizerInv
<1>1. CASE FindHypotheses
  <2>1. /\ UNCHANGED observed /\ strategy' = strategy /\ conflict_list' = conflict_list /\ nodes' = nodes
        /\ phase = "find" /\ phase' \in {"find", "search"} /\ depth' = depth + 1
    BY <1>1 DEF FindHypotheses, search
  <2>2. Graph_is'
    BY <1>0, <1>1, FindStep
  <2>3. Observed'
    BY <1>0, <2>1, SameObserved
  <2>4. conflict_list = <<>> /\ nodes = <<>> /\ depth \in Nat
    BY <1>0, <2>1 DEF Phase_is, Graph_is
  <2>5. Phase_is'
    BY <1>0, <2>1, <2>4 DEF Phase_is
  <2>6. Searched'
    BY <2>1, <2>4 DEF Searched
  <2> QED BY <2>2, <2>3, <2>5, <2>6 DEF HypothesizerInv
<1>2. CASE StartSearch
  BY <1>2, StartSearchInv
<1>3. CASE ExamineTopdownRoot
  BY <1>3, TopdownRootInv
<1>4. CASE Examine
  BY <1>4, ExamineInv
<1>5. CASE EndSearch
  <2>1. UNCHANGED <<observed, strategy, depth, hypotheses, graph, search>>
    BY <1>5 DEF EndSearch
  <2>2. Observed' /\ Graph_is' /\ Searched'
    BY <2>1, SearchedStays
  <2>3. Phase_is'
    BY <1>0, <1>5, <2>1 DEF Phase_is, EndSearch, search
  <2> QED BY <2>2, <2>3 DEF HypothesizerInv
<1>6. CASE Report
  <2>1. UNCHANGED <<observed, strategy, depth, hypotheses, graph, search>> /\ phase = "report" /\ phase' = "done"
    BY <1>6 DEF Report
  <2>2. Observed' /\ Graph_is' /\ Searched'
    BY <2>1, SearchedStays
  <2>3. Phase_is'
    BY <1>0, <2>1 DEF Phase_is, search
  <2> QED BY <2>2, <2>3 DEF HypothesizerInv
<1>7. CASE UNCHANGED vars
  <2>1. UNCHANGED <<observed, strategy, depth, hypotheses, graph, search>> /\ phase' = phase
    BY <1>7 DEF vars, search
  <2>2. Observed' /\ Graph_is' /\ Searched'
    BY <2>1, SearchedStays
  <2>3. Phase_is'
    BY <1>0, <2>1 DEF Phase_is, search
  <2> QED BY <2>2, <2>3 DEF HypothesizerInv
<1> QED BY <1>1, <1>2, <1>3, <1>4, <1>5, <1>6, <1>7 DEF Next

(* The inductive invariant holds for every input, strategy and threshold.    *)
THEOREM HypothesizerInvariant == Spec => []HypothesizerInv
BY InitInv, NextInv, PTL DEF Spec

(* The walk of contains_locks is set inclusion in every state.               *)
THEOREM ContainsIsInclusionProved == Spec => []ContainsIsInclusion
<1>1. HypothesizerInv => ContainsIsInclusion
  <2> SUFFICES ASSUME HypothesizerInv, NEW h \in hypotheses
               PROVE  Matching(h) = {held \in DOMAIN combinations : ToSet(h) \subseteq ToSet(held)}
    BY DEF ContainsIsInclusion
  <2> Observed /\ Sorted(h)
    BY NodeFacts DEF HypothesizerInv, Hypothesis
  <2> QED BY MatchingIs
<1> QED BY <1>1, HypothesizerInvariant, PTL

(* Everything listed has the support of the winner.                          *)
LEMMA SupportOfListed ==
  ASSUME HypothesizerInv, NEW c, c = conflict_list, c # <<>>
  PROVE  /\ List_is(c) /\ \E w : Supported(c, w) /\ w \in Nat
         /\ Search_is(c, nodes, rel_support_winner, winner_found)
<1>0. Observed /\ Graph_is /\ Phase_is /\ Searched
  BY DEF HypothesizerInv
<1>1. Search_is(c, nodes, rel_support_winner, winner_found)
  BY <1>0 DEF Searched
<1>2. List_is(c) /\ rel_support_winner \in Nat
  BY <1>1 DEF Search_is
<1>3. \E w : Supported(c, w) /\ w \in Nat
  <2>0. Occurrences \in Nat
    BY <1>0, CountFacts
  <2>1. CASE strategy = "bottomup"
    BY <1>1, <1>2, <2>1 DEF Search_is, Bottomup_is
  <2>2. CASE strategy = "sharpen"
    BY <1>1, <1>2, <2>2 DEF Search_is, Sharpen_is
  <2>3. CASE strategy = "lockset"
    BY <1>1, <2>0, <2>3 DEF Search_is, Lockset_is
  <2>4. CASE strategy = "topdown"
    <3>1. Topdown_is(c, nodes, rel_support_winner, winner_found)
      BY <1>1, <2>4 DEF Search_is
    <3>2. CASE c = << <<root_node, root_node>> >>
      <4>1. depth >= 1
        BY <1>0, <3>2 DEF Phase_is
      <4>2. c = Only(root_node) /\ root_node \in hypotheses
        BY <1>0, <3>2, <4>1, RootList
      <4>3. Supported(c, Support(root_node)) /\ Support(root_node) = Occurrences
        BY <1>0, <4>2, ListOfOne, SupportOfRoot
      <4> QED BY <2>0, <4>3
    <3>3. CASE Supported(c, rel_support_winner)
      BY <1>2, <3>3
    <3> QED BY <3>1, <3>2, <3>3 DEF Topdown_is
  <2> QED BY <1>0, <2>1, <2>2, <2>3, <2>4 DEF Phase_is, Strategies_all
<1> QED BY <1>1, <1>2, <1>3

(* All entries of the conflict list have the same number of locks and the    *)
(* same support, and none is listed twice, at every moment of every search.  *)
THEOREM ConflictListEqualProved == Spec => []ConflictListEqual
<1>1. HypothesizerInv => ConflictListEqual
  <2> SUFFICES ASSUME HypothesizerInv, NEW i \in 1 .. Len(conflict_list), NEW j \in 1 .. Len(conflict_list)
               PROVE  /\ Len(conflict_list[i][1]) = Len(conflict_list[j][1])
                      /\ Support(conflict_list[i][1]) = Support(conflict_list[j][1])
                      /\ conflict_list[i][2] = conflict_list[j][2] => i = j
    BY DEF ConflictListEqual
  <2> DEFINE c == conflict_list
  <2>1. c # <<>>
    OBVIOUS
  <2>2. List_is(c) /\ \E w : Supported(c, w)
    BY <2>1, SupportOfListed
  <2>3. PICK w : Supported(c, w)
    BY <2>2
  <2> QED BY <2>2, <2>3 DEF List_is, Supported
<1> QED BY <1>1, HypothesizerInvariant, PTL

(* When the report is printed, the queue is empty.                           *)
LEMMA DecidedFacts ==
  ASSUME HypothesizerInv, phase \in {"report", "done"}
  PROVE  /\ Observed /\ Graph_is /\ depth >= 1 /\ conflict_list # <<>> /\ nodes = <<>>
         /\ Search_is(conflict_list, nodes, rel_support_winner, winner_found)
         /\ List_is(conflict_list)
         /\ \A x : ~Queued_in(nodes, x)
         /\ \A h : ~Ahead(nodes, h)
         /\ \A h : h \in Winners <=> Listed_in(conflict_list, h)
         /\ \E h : h \in Winners
<1>0. Observed /\ Graph_is /\ Phase_is /\ Searched
  BY DEF HypothesizerInv
<1>1. depth >= 1 /\ conflict_list # <<>> /\ nodes = <<>>
  BY <1>0 DEF Phase_is
<1>2. Search_is(conflict_list, nodes, rel_support_winner, winner_found)
  BY <1>0, <1>1 DEF Searched
<1>3. List_is(conflict_list)
  BY <1>2 DEF Search_is
<1>4. \A x : ~Queued_in(nodes, x)
  BY <1>1 DEF Queued_in
<1>5. \A h : ~Ahead(nodes, h)
  BY <1>4 DEF Ahead
<1>6. \A h : h \in Winners <=> Listed_in(conflict_list, h)
  BY DEF Winners, Listed_in
<1>7. \E h : h \in Winners
  <2> Len(conflict_list) \in Nat /\ Len(conflict_list) >= 1
    BY <1>0, <1>3, ListFacts DEF List_is
  <2> 1 \in 1 .. Len(conflict_list)
    OBVIOUS
  <2> QED BY DEF Winners
<1> QED BY <1>0, <1>1, <1>2, <1>3, <1>4, <1>5, <1>6, <1>7

(* The bottomup search stops only where no child of a winner is preferable.  *)
THEOREM BottomupStopsProved == Spec => []BottomupStops
<1>1. HypothesizerInv => BottomupStops
  <2> SUFFICES ASSUME HypothesizerInv, Decided("bottomup"), NEW h \in Winners, NEW g \in graph[h]
               PROVE  ~(Support(g) = Support(h) \/ (Accepted(Support(g)) /\ Support(g) < Support(h)))
    BY DEF BottomupStops
  <2>1. phase = "done" /\ strategy = "bottomup"
    BY DEF Decided
  <2>2. Bottomup_is(conflict_list, nodes, rel_support_winner) /\ Listed_in(conflict_list, h) /\ ~Queued_in(nodes, g)
    BY <2>1, DecidedFacts DEF Search_is
  <2>3. Support(h) = rel_support_winner
    BY <2>2 DEF Bottomup_is, Supported, Listed_in
  <2> QED BY <2>2, <2>3 DEF Bottomup_is
<1> QED BY <1>1, HypothesizerInvariant, PTL

(* The lockset search reports all of the largest lock sets that every access *)
(* holds in one order, although it only follows runs of lock ids.            *)
THEOREM LocksetCompleteProved == Spec => []LocksetComplete
<1>1. HypothesizerInv => LocksetComplete
  <2> SUFFICES ASSUME HypothesizerInv, Decided("lockset")
               PROVE  Winners = Found({h \in hypotheses : Support(h) = Occurrences})
    BY DEF LocksetComplete
  <2> DEFINE c == conflict_list
             Good == {h \in hypotheses : Support(h) = Occurrences}
  <2>1. phase = "done" /\ strategy = "lockset"
    BY DEF Decided
  <2>2. /\ Graph_is /\ List_is(c) /\ Lockset_is(c, nodes) /\ \A h : ~Ahead(nodes, h)
        /\ \A h : h \in Winners <=> Listed_in(c, h)
        /\ \E h : h \in Winners
    BY <2>1, DecidedFacts DEF Search_is
  <2>3. Size(c) \in Nat /\ \A h : h \in Winners => h \in hypotheses /\ Len(h) = Size(c)
    BY <2>2, ListFacts
  <2>4. \A h : h \in Winners => h \in Good
    BY <2>2, <2>3 DEF Lockset_is, Supported, Listed_in
  <2>5. \A h \in Good : h \in Winners \/ Len(h) < Size(c)
    BY <2>2 DEF Lockset_is
  <2>6. \A h \in Good : Len(h) \in Nat
    BY <2>2, NodeFacts
  <2> HIDE DEF Good
  <2>7. \A h : h \in Found(Good) <=> h \in Good /\ \A g \in Good : Len(g) <= Len(h)
    BY DEF Found
  <2>8. ASSUME NEW h \in Winners PROVE h \in Found(Good)
    <3>1. h \in Good /\ Len(h) = Size(c)
      BY <2>3, <2>4
    <3>2. \A g \in Good : Len(g) <= Size(c)
      BY <2>3, <2>5, <2>6
    <3> QED BY <2>7, <3>1, <3>2
  <2>9. ASSUME NEW h \in Found(Good) PROVE h \in Winners
    <3>1. PICK g : g \in Winners
      BY <2>2
    <3>2. g \in Good /\ Len(g) = Size(c)
      BY <2>3, <2>4, <3>1
    <3>3. h \in Good /\ Len(g) <= Len(h) /\ Len(h) \in Nat
      BY <2>6, <2>7, <3>2
    <3>4. ~(Len(h) < Size(c))
      BY <2>3, <3>2, <3>3
    <3> QED BY <2>5, <3>3, <3>4
  <2> QED BY <2>8, <2>9 DEF Good
<1> QED BY <1>1, HypothesizerInvariant, PTL

(* The topdown search reports all of the largest hypotheses with the best    *)
(* support of any lock if that is accepted, and otherwise no lock.           *)
THEOREM TopdownCompleteProved == Spec => []TopdownComplete
<1>1. HypothesizerInv => TopdownComplete
  <2> DEFINE c == conflict_list
             w == rel_support_winner
             R == << <<root_node, root_node>> >>
             locking == hypotheses \ {root_node}
             best == {h \in locking : Accepted(Support(h)) /\ \A g \in locking : Support(g) <= Support(h)}
  <2> SUFFICES ASSUME HypothesizerInv, Decided("topdown")
               PROVE  IF NolockWins \/ best = {} THEN Winners = {root_node} /\ winner_found = NolockWins
                      ELSE Winners = Found(best) /\ winner_found
    BY DEF TopdownComplete
  <2>1. phase = "done" /\ strategy = "topdown"
    BY DEF Decided
  <2>2. /\ Observed /\ Graph_is /\ depth >= 1 /\ List_is(c) /\ nodes = <<>> /\ w \in Nat /\ winner_found \in BOOLEAN
        /\ Topdown_is(c, nodes, w, winner_found) /\ \A h : ~Ahead(nodes, h)
        /\ \A h : h \in Winners <=> Listed_in(c, h)
        /\ \E h : h \in Winners
    BY <2>1, DecidedFacts DEF Search_is
  <2>3. Size(c) \in Nat /\ \A h : h \in Winners => h \in hypotheses /\ Len(h) = Size(c)
    BY <2>2, ListFacts
  <2>4. /\ \A x : Listed_in(R, x) <=> x = root_node
        /\ \A h \in hypotheses : Len(h) = 0 <=> h = root_node
    BY <2>2, RootList
  <2>5. c = R => Winners = {root_node}
    BY <2>2, <2>4
  <2>6. \A h \in hypotheses : Len(h) \in Nat /\ Support(h) \in Nat /\ Support(h) >= 1
    BY <2>2, NodeFacts, SupportFacts
  <2>7. CASE NolockWins
    <3>1. c = R /\ (nodes = <<root_node>> \/ winner_found)
      BY <2>2, <2>7 DEF Topdown_is
    <3>2. nodes # <<root_node>>
      BY <2>2
    <3>3. winner_found = NolockWins
      BY <2>2, <2>7, <3>1, <3>2
    <3> QED BY <2>5, <2>7, <3>1, <3>3
  <2>8. CASE ~NolockWins
    <3>1. ASSUME NEW h \in locking, Accepted(Support(h))
          PROVE  Support(h) < w \/ (Support(h) = w /\ (h \in Winners \/ Len(h) < Size(c)))
      <4> h \in hypotheses /\ Len(h) > 0
        BY <2>4, <2>6
      <4> QED BY <2>2, <2>8, <3>1 DEF Topdown_is
    <3>2. CASE c = R /\ w = 0 /\ ~winner_found
      <4>1. best = {}
        <5> SUFFICES ASSUME NEW h \in best PROVE FALSE
          OBVIOUS
        <5>1. h \in locking /\ Accepted(Support(h)) /\ h \in hypotheses
          OBVIOUS
        <5>2. Support(h) < w \/ Support(h) = w
          BY <3>1, <5>1
        <5> QED BY <2>6, <3>2, <5>1, <5>2
      <4>2. winner_found = NolockWins
        BY <2>2, <2>8, <3>2 DEF NolockWins
      <4> QED BY <2>5, <3>2, <4>1, <4>2
    <3>3. CASE Size(c) > 0 /\ Supported(c, w) /\ Accepted(w) /\ winner_found
      <4>1. ASSUME NEW h \in Winners PROVE h \in locking /\ Support(h) = w /\ Len(h) = Size(c)
        <5>1. Support(h) = w
          BY <2>2, <3>3 DEF Supported, Listed_in
        <5>2. h \in hypotheses /\ Len(h) = Size(c)
          BY <2>3
        <5>3. h # root_node
          BY <2>3, <2>4, <3>3, <5>2
        <5> QED BY <5>1, <5>2, <5>3
      <4>2. ASSUME NEW g \in locking PROVE Support(g) <= w
        <5>0. Support(g) \in Nat
          BY <2>6
        <5>1. CASE Accepted(Support(g))
          BY <2>2, <3>1, <5>0, <5>1
        <5>2. CASE ~Accepted(Support(g))
          <6> ~(w <= Support(g))
            BY <2>2, <3>3, <5>0, <5>2, AcceptedMonotone
          <6> QED BY <2>2, <5>0
        <5> QED BY <5>1, <5>2
      <4>3. PICK x : x \in Winners
        BY <2>2
      <4>4. \A h : h \in best <=> h \in locking /\ Support(h) = w
        <5>1. ASSUME NEW h \in best PROVE h \in locking /\ Support(h) = w
          <6>1. h \in locking /\ Support(x) <= Support(h) /\ Support(h) <= w /\ Support(x) = w /\ Support(h) \in Nat
            BY <2>6, <4>1, <4>2, <4>3
          <6> QED BY <2>2, <6>1
        <5>2. ASSUME NEW h \in locking, Support(h) = w PROVE h \in best
          BY <3>3, <4>2, <5>2
        <5> QED BY <5>1, <5>2
      <4>5. x \in best
        BY <4>1, <4>3, <4>4
      <4> HIDE DEF best
      <4>6. \A h : h \in Found(best) <=> h \in best /\ \A g \in best : Len(g) <= Len(h)
        BY DEF Found
      <4>7. \A h \in best : h \in hypotheses /\ Len(h) \in Nat /\ (h \in Winners \/ Len(h) < Size(c))
        <5> SUFFICES ASSUME NEW h \in best PROVE h \in hypotheses /\ Len(h) \in Nat /\ (h \in Winners \/ Len(h) < Size(c))
          OBVIOUS
        <5>1. h \in locking /\ Support(h) = w /\ Support(h) \in Nat /\ Len(h) \in Nat
          BY <2>6, <4>4
        <5>2. Accepted(Support(h))
          BY <3>3, <5>1
        <5>3. Support(h) < w \/ (Support(h) = w /\ (h \in Winners \/ Len(h) < Size(c)))
          BY <3>1, <5>1, <5>2
        <5> QED BY <2>2, <5>1, <5>3
      <4> HIDE DEF locking
      <4>8. ASSUME NEW h \in Winners PROVE h \in Found(best)
        <5>1. h \in best /\ Len(h) = Size(c)
          BY <4>1, <4>4
        <5>2. \A g \in best : Len(g) <= Size(c)
          BY <2>3, <4>7
        <5> QED BY <4>6, <5>1, <5>2
      <4>9. ASSUME NEW h \in Found(best) PROVE h \in Winners
        <5>1. h \in best /\ Len(x) <= Len(h) /\ Len(x) = Size(c) /\ Len(h) \in Nat
          BY <4>1, <4>3, <4>5, <4>6, <4>7
        <5>2. ~(Len(h) < Size(c))
          BY <2>3, <5>1
        <5> QED BY <4>7, <5>1, <5>2
      <4>10. Winners = Found(best)
        BY <4>8, <4>9
      <4>11. best # {}
        BY <4>5
      <4> QED BY <2>8, <3>3, <4>10, <4>11
    <3> QED BY <2>2, <2>8, <3>2, <3>3 DEF Topdown_is
  <2> QED BY <2>7, <2>8
<1> QED BY <1>1, HypothesizerInvariant, PTL

(* Each further lock of a winner of sharpen costs at most the reduction      *)
(* factor, for every number of locks.                                        *)
THEOREM SharpenLossProved == Spec => []SharpenLossBounded
<1>1. HypothesizerInv => SharpenLossBounded
  <2> DEFINE c == conflict_list
             n == Len(winning_hypothesis)
  <2> SUFFICES ASSUME HypothesizerInv, Decided("sharpen")
               PROVE  Power(100, n) * Support(c[1][1]) >= Power(100 - reduction_factor, n) * Occurrences
    BY DEF SharpenLossBounded
  <2>1. phase = "done" /\ strategy = "sharpen"
    BY DEF Decided
  <2>2. Observed /\ Graph_is /\ List_is(c) /\ Sharpen_is(c, rel_support_winner)
    BY <2>1, DecidedFacts DEF Search_is
  <2>3. 1 \in 1 .. Len(c) /\ c[1][1] \in hypotheses /\ Size(c) \in Nat
    BY <2>2, ListFacts DEF List_is
  <2>4. Support(c[1][1]) = rel_support_winner
    BY <2>2, <2>3 DEF Sharpen_is, Supported
  <2>5. c[1][2] = Representative(c[1][1])
    BY <2>2, <2>3 DEF List_is
  <2>6. n = Size(c)
    <3> Len(Representative(c[1][1])) = Len(c[1][1])
      BY <2>2, <2>3, NodeFacts, SupportFacts
    <3> QED BY <2>5 DEF winning_hypothesis, Size
  <2> HIDE DEF n
  <2>7. Power(100 - reduction_factor, Size(c)) * Occurrences <= Power(100, Size(c)) * rel_support_winner
    BY <2>2 DEF Sharpen_is
  <2> QED BY <2>4, <2>6, <2>7
<1> QED BY <1>1, HypothesizerInvariant, PTL

-----------------------------------------------------------------------------
(* The report *)

(* The locks of the winner pass the cutoff.                                  *)
WinnerShown == \A h : h = conflict_list[1][1] => 100 * CountOf(Matching(h)) >= cutoff_threshold * Occurrences

Line_of(h, o) ==
  [locks |-> o, occurrences |-> Matches(h)[o],
   accepted |-> IF IsWinner(h, o) THEN 1 ELSE IF winner_found /\ in_conflict_list(o) THEN 2 ELSE 0]
Marked(rep, o) == \E r \in rep : r.accepted = 1 /\ r.locks = o /\ \A q \in rep : q.accepted = 1 => q = r

(* The report marks the winner, if the cutoff shows its line, and nothing else.*)
LEMMA ReportMarks ==
  ASSUME HypothesizerInv, Report, winner_found, WinnerShown
  PROVE  Marked(report', winning_hypothesis)
<1> DEFINE c == conflict_list
           h0 == c[1][1]
           o0 == c[1][2]
           r0 == Line_of(h0, o0)
<1>0. phase = "report"
  BY DEF Report
<1>1. Observed /\ Graph_is /\ List_is(c)
  BY <1>0, DecidedFacts
<1>2. 1 \in 1 .. Len(c) /\ h0 \in hypotheses
  BY <1>1, ListFacts DEF List_is
<1>3. o0 = Representative(h0) /\ winning_hypothesis = o0
  BY <1>1, <1>2 DEF List_is, winning_hypothesis
<1>4. Hypothesis(h0) /\ o0 \in Orders(h0)
  BY <1>1, <1>2, <1>3, NodeFacts, SupportFacts
<1>5. h0 \in Shown
  BY <1>2 DEF WinnerShown, Shown
<1>6. \A h \in Shown : h \in hypotheses /\ Hypothesis(h) /\ DOMAIN Matches(h) = Orders(h)
  BY <1>1, NodeFacts, MatchesIs DEF Shown
<1>7. report' = UNION {{Line_of(h, o) : o \in DOMAIN Matches(h)} : h \in Shown}
  BY DEF Report, Line_of
<1>8. \A r : r \in report' <=> \E h \in Shown : \E o \in DOMAIN Matches(h) : r = Line_of(h, o)
  BY <1>7
<1>9. ASSUME NEW h, NEW o
      PROVE  Line_of(h, o).locks = o /\ (Line_of(h, o).accepted = 1 <=> IsWinner(h, o))
  BY DEF Line_of
<1>w. \A h, o : IsWinner(h, o) <=> o = o0
  BY <1>3 DEF IsWinner
<1> HIDE DEF o0, h0
<1>10. r0 \in report' /\ r0.accepted = 1 /\ r0.locks = o0
  <2>1. o0 \in DOMAIN Matches(h0)
    BY <1>4, <1>5, <1>6
  <2>2. r0 \in report'
    BY <1>5, <1>8, <2>1
  <2> QED BY <1>9, <1>w, <2>2
<1>11. ASSUME NEW r \in report', r.accepted = 1 PROVE r = r0
  <2>1. PICK h \in Shown : \E o \in DOMAIN Matches(h) : r = Line_of(h, o)
    BY <1>8
  <2>2. PICK o \in DOMAIN Matches(h) : r = Line_of(h, o)
    BY <2>1
  <2>3. o = o0
    BY <1>9, <1>11, <1>w, <2>2
  <2>4. Hypothesis(h) /\ o0 \in Orders(h)
    BY <1>6, <2>3
  <2>5. ToSet(o0) = ToSet(h) /\ ToSet(o0) = ToSet(h0)
    BY <1>1, <1>4, <2>4, OrdersFacts
  <2>6. h = h0
    BY <1>4, <2>4, <2>5, SortedUnique DEF Hypothesis, Sorted
  <2> QED BY <2>2, <2>3, <2>6
<1> HIDE DEF r0
<1> QED BY <1>3, <1>10, <1>11 DEF Marked

(* Printing the report establishes WinnerReported.                           *)
LEMMA ReportedNext ==
  HypothesizerInv /\ (WinnerShown => WinnerReported) /\ [Next]_vars => (WinnerShown => WinnerReported)'
<1> SUFFICES ASSUME HypothesizerInv, WinnerShown => WinnerReported, [Next]_vars, WinnerShown', phase' = "done", winner_found'
             PROVE  Marked(report', winning_hypothesis')
  BY DEF WinnerReported, Marked
<1>s. ASSUME UNCHANGED <<observed, conflict_list>> PROVE WinnerShown /\ winning_hypothesis' = winning_hypothesis
  <2>1. \A h : CountOf(Matching(h))' = CountOf(Matching(h))
    BY <1>s DEF observed, Matching, CountOf, contains_locks
  <2>2. Occurrences' = Occurrences
    BY <1>s, SameObserved
  <2>3. conflict_list' = conflict_list
    BY <1>s
  <2> QED BY <2>1, <2>2, <2>3 DEF WinnerShown, winning_hypothesis
<1>1. CASE Report
  <2>1. UNCHANGED <<observed, conflict_list>> /\ winner_found
    BY <1>1 DEF Report, search
  <2>2. WinnerShown /\ winning_hypothesis' = winning_hypothesis
    BY <1>s, <2>1
  <2> QED BY <1>1, <2>1, <2>2, ReportMarks
<1>2. CASE UNCHANGED vars
  <2>1. UNCHANGED <<observed, conflict_list>> /\ winner_found /\ phase = "done" /\ report' = report
    BY <1>2 DEF vars
  <2>2. WinnerShown /\ winning_hypothesis' = winning_hypothesis
    BY <1>s, <2>1
  <2>3. Marked(report, winning_hypothesis)
    BY <2>1, <2>2 DEF WinnerReported, Marked
  <2> QED BY <2>1, <2>2, <2>3
<1>3. ~FindHypotheses /\ ~StartSearch /\ ~ExamineTopdownRoot /\ ~Examine /\ ~EndSearch
  BY DEF FindHypotheses, StartSearch, ExamineTopdownRoot, TopdownRoot, Examine, Searching, EndSearch
<1> QED BY <1>1, <1>2, <1>3 DEF Next

(* The winner is marked whenever the cutoff shows its line.                  *)
LEMMA ReportedIfShown == Spec => [](WinnerShown => WinnerReported)
<1>1. Init => (WinnerShown => WinnerReported)
  BY DEF Init, WinnerReported
<1> QED BY <1>1, HypothesizerInvariant, ReportedNext, PTL DEF Spec

(* The cutoff is not above the acceptance threshold, nor above what sharpen  *)
(* may leave of the support of its winner.                                   *)
CutoffLow ==
  /\ cutoff_threshold <= accept_threshold
  /\ strategy = "sharpen" =>
       cutoff_threshold * Power(100, SizeOfBest) <= 100 * Power(100 - reduction_factor, SizeOfBest)

(* A power of a positive number is positive.                                 *)
LEMMA PowerPositive ==
  ASSUME NEW n \in Nat
  PROVE  Power(100, n) \in Nat /\ Power(100, n) >= 1
<1> DEFINE P == {k \in Nat : Power(100, k) \in Nat /\ Power(100, k) >= 1}
<1>1. 0 \in P
  BY PowerFacts
<1>2. ASSUME NEW k \in Nat, k \in P PROVE k + 1 \in P
  <2> DEFINE x == Power(100, k)
  <2>1. x \in Nat /\ x >= 1
    BY <1>2
  <2>2. Power(100, k + 1) = 100 * x
    BY PowerFacts
  <2> HIDE DEF x
  <2>3. 100 * x \in Nat /\ 100 * x >= 1
    BY <2>1
  <2> QED BY <2>2, <2>3
<1> HIDE DEF P
<1>3. Nat \subseteq P
  BY <1>1, <1>2, SetInduction
<1> QED BY <1>3 DEF P

(* An accepted winner is above a cutoff that is not above the threshold.     *)
LEMMA CutoffOfAccepted ==
  ASSUME Observed, NEW s \in Nat, Accepted(s), cutoff_threshold <= accept_threshold
  PROVE  cutoff_threshold * Occurrences <= 100 * s
<1>1. cutoff_threshold \in Nat /\ accept_threshold \in Nat
  <2> cutoff_threshold \in Percent /\ accept_threshold \in Percent
    BY ThresholdAssumption
  <2> QED BY DEF Percent
<1>2. Occurrences \in Nat
  BY CountFacts
<1>3. cutoff_threshold * Occurrences <= accept_threshold * Occurrences
  BY <1>1, <1>2, ProductMonotone
<1>4. cutoff_threshold * Occurrences \in Nat /\ accept_threshold * Occurrences \in Nat
  BY <1>1, <1>2, ProductMonotone
<1> HIDE DEF Occurrences
<1> QED BY <1>3, <1>4 DEF Accepted

(* A positive factor cancels.                                                *)
LEMMA CancelProduct ==
  ASSUME NEW a \in Nat, a >= 1, NEW x \in Nat, NEW y \in Nat, a * x <= a * y
  PROVE  x <= y
<1> SUFFICES ASSUME x > y PROVE FALSE
  OBVIOUS
<1>1. y + 1 \in Nat /\ y + 1 <= x
  OBVIOUS
<1>2. a * (y + 1) <= a * x
  BY <1>1, ProductMonotone
<1>3. a * (y + 1) = a * y + a
  OBVIOUS
<1>4. a * y \in Nat /\ a * x \in Nat
  BY ProductMonotone
<1> QED BY <1>2, <1>3, <1>4

(* A winner of sharpen is above a cutoff below what it may lose.             *)
LEMMA CutoffOfSharpened ==
  ASSUME NEW k \in Nat, NEW A \in Nat, A >= 1, NEW B \in Nat, NEW n \in Nat, NEW w \in Nat,
         B * n <= A * w, k * A <= 100 * B
  PROVE  k * n <= 100 * w
<1>1. (k * A) * n <= (100 * B) * n
  <2> k * A \in Nat /\ 100 * B \in Nat
    BY ProductMonotone
  <2> QED BY ProductMonotone
<1>2. 100 * (B * n) <= 100 * (A * w)
  <2> B * n \in Nat /\ A * w \in Nat
    BY ProductMonotone
  <2> QED BY ProductMonotone
<1>3. (k * A) * n = A * (k * n) /\ (100 * B) * n = 100 * (B * n) /\ 100 * (A * w) = A * (100 * w)
  OBVIOUS
<1>4. k * n \in Nat /\ 100 * w \in Nat /\ B * n \in Nat /\ A * w \in Nat
  BY ProductMonotone
<1>5. A * (k * n) \in Nat /\ 100 * (B * n) \in Nat /\ A * (100 * w) \in Nat
  BY <1>4, ProductMonotone
<1>6. A * (k * n) <= A * (100 * w)
  BY <1>1, <1>2, <1>3, <1>5
<1> QED BY <1>4, <1>6, CancelProduct

(* With a low cutoff the line of the winner is shown.                        *)
LEMMA WinnerIsShown ==
  ASSUME HypothesizerInv, CutoffLow, phase = "done"
  PROVE  WinnerShown
<1> DEFINE c == conflict_list
           w == rel_support_winner
           h0 == c[1][1]
           s == Support(h0)
<1>0. /\ Observed /\ Graph_is /\ depth >= 1 /\ List_is(c) /\ w \in Nat
      /\ Search_is(c, nodes, w, winner_found)
      /\ strategy \in Strategies_all
  BY DecidedFacts DEF Search_is, HypothesizerInv, Phase_is
<1>1. 1 \in 1 .. Len(c) /\ h0 \in hypotheses /\ Size(c) \in Nat /\ SizeOfBest = Size(c)
  BY <1>0, ListFacts DEF List_is, SizeOfBest, Size
<1>2. Hypothesis(h0) /\ s \in Nat /\ s <= CountOf(Matching(h0))
  BY <1>0, <1>1, NodeFacts, SupportFacts
<1>3. Matching(h0) \in SUBSET DOMAIN combinations
  BY DEF Matching
<1>4. CountOf(Matching(h0)) \in Nat /\ Occurrences \in Nat
  BY <1>0, <1>3, CountFacts
<1>5. cutoff_threshold \in Nat /\ accept_threshold \in Nat /\ accept_threshold <= 100 /\ 100 - reduction_factor \in Nat
  <2> cutoff_threshold \in Percent /\ accept_threshold \in Percent /\ reduction_factor \in Percent
    BY ThresholdAssumption
  <2> QED BY DEF Percent
<1>6. Accepted(Occurrences)
  <2> accept_threshold * Occurrences <= 100 * Occurrences
    BY <1>4, <1>5, ProductMonotone
  <2> QED BY DEF Accepted
<1>7. \A v : Supported(c, v) => s = v
  BY <1>1 DEF Supported
<1>8. cutoff_threshold * Occurrences <= 100 * s
  <2>1. CASE Accepted(s)
    BY <1>0, <1>2, <2>1, CutoffOfAccepted DEF CutoffLow
  <2>2. CASE strategy = "bottomup"
    <3> Accepted(w) /\ s = w
      BY <1>0, <1>7, <2>2 DEF Search_is, Bottomup_is
    <3> QED BY <2>1
  <2>3. CASE strategy = "lockset"
    <3> s = Occurrences
      BY <1>0, <1>7, <2>3 DEF Search_is, Lockset_is
    <3> QED BY <1>6, <2>1
  <2>4. CASE strategy = "topdown"
    <3>1. Topdown_is(c, nodes, w, winner_found)
      BY <1>0, <2>4 DEF Search_is
    <3>2. CASE c = << <<root_node, root_node>> >>
      <4>1. c = Only(root_node) /\ root_node \in hypotheses
        BY <1>0, <3>2, RootList
      <4>2. Supported(c, Support(root_node)) /\ Support(root_node) = Occurrences
        BY <1>0, <4>1, ListOfOne, SupportOfRoot
      <4>3. s = Occurrences
        BY <1>7, <4>2
      <4> QED BY <1>6, <2>1, <4>3
    <3>3. CASE Supported(c, w) /\ Accepted(w)
      <4> s = w
        BY <1>7, <3>3
      <4> QED BY <2>1, <3>3
    <3> QED BY <3>1, <3>2, <3>3 DEF Topdown_is
  <2>5. CASE strategy = "sharpen"
    <3> DEFINE A == Power(100, Size(c))
               B == Power(100 - reduction_factor, Size(c))
    <3>1. s = w /\ B * Occurrences <= A * w
      BY <1>0, <1>7, <2>5 DEF Search_is, Sharpen_is
    <3>2. cutoff_threshold * A <= 100 * B
      BY <1>1, <2>5 DEF CutoffLow
    <3>3. A \in Nat /\ A >= 1 /\ B \in Nat
      BY <1>1, <1>5, PowerPositive, PowerFacts
    <3> HIDE DEF A, B
    <3> QED BY <1>0, <1>4, <1>5, <3>1, <3>2, <3>3, CutoffOfSharpened
  <2> QED BY <1>0, <2>2, <2>3, <2>4, <2>5 DEF Strategies_all
<1>9. cutoff_threshold * Occurrences \in Nat
  BY <1>4, <1>5, ProductMonotone
<1> HIDE DEF s
<1>10. 100 * CountOf(Matching(h0)) >= cutoff_threshold * Occurrences
  BY <1>2, <1>4, <1>8, <1>9
<1> QED BY <1>10 DEF WinnerShown

(* The report marks exactly one line as the winner, with its locks in order, *)
(* unless the cutoff hides it.                                               *)
THEOREM WinnerReportedProved == Spec => [](CutoffLow => WinnerReported)
<1>1. HypothesizerInv /\ (WinnerShown => WinnerReported) => (CutoffLow => WinnerReported)
  BY WinnerIsShown DEF WinnerReported
<1> QED BY <1>1, HypothesizerInvariant, ReportedIfShown, PTL
=============================================================================
