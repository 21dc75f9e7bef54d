------------------------- MODULE LockManagerProofs -------------------------
(***************************************************************************)
(* Theorems about LockManager, for any locks, contexts and traces.          *)
(***************************************************************************)
EXTENDS LockManager, FiniteSetTheorems, SequenceTheorems, TLAPS

-----------------------------------------------------------------------------
(* What the stack operations return, for every stack. *)

(* The rank of a position among the positions kept is one-to-one onto         *)
(* 1 .. Cardinality(K): every m has exactly one position of rank m.          *)
LEMMA RankBijection ==
  ASSUME NEW n \in Nat, NEW K \in SUBSET (1 .. n)
  PROVE  /\ IsFiniteSet(K) /\ Cardinality(K) \in Nat /\ Cardinality(K) <= n
         /\ \A m \in 1 .. Cardinality(K) :
               \E i \in K : Cardinality({j \in K : j <= i}) = m
<1> DEFINE upto(i) == {j \in K : j <= i}
           rank == [i \in K |-> Cardinality(upto(i))]
<1>1. IsFiniteSet(K) /\ Cardinality(K) \in Nat /\ Cardinality(K) <= n
  <2>1. IsFiniteSet(1 .. n) /\ Cardinality(1 .. n) = n
    BY FS_Interval
  <2>2. IsFiniteSet(K) /\ Cardinality(K) <= n
    BY <2>1, FS_Subset
  <2> QED BY <2>2, FS_CardinalityType
<1>2. ASSUME NEW i \in K
      PROVE  IsFiniteSet(upto(i)) /\ Cardinality(upto(i)) \in 1 .. Cardinality(K)
  <2>1. upto(i) \in SUBSET K /\ i \in upto(i)
    OBVIOUS
  <2>2. IsFiniteSet(upto(i)) /\ Cardinality(upto(i)) <= Cardinality(K)
    BY <1>1, <2>1, FS_Subset
  <2>3. Cardinality(upto(i)) \in Nat /\ Cardinality(upto(i)) # 0
    BY <2>1, <2>2, FS_CardinalityType, FS_EmptySet
  <2> QED BY <1>1, <2>2, <2>3
<1>3. ASSUME NEW i \in K, NEW h \in K, i < h
      PROVE  Cardinality(upto(i)) < Cardinality(upto(h))
  <2>0. K \subseteq Int
    OBVIOUS
  <2>1. upto(i) \in SUBSET upto(h) /\ h \in upto(h) /\ h \notin upto(i)
    <3>1. i \in Int /\ h \in Int /\ i < h
      BY <1>3, <2>0
    <3>2. \A j \in K : j <= i => j <= h
      BY <2>0, <3>1
    <3>3. h <= h /\ ~(h <= i)
      BY <3>1
    <3> QED BY <3>2, <3>3
  <2>2. Cardinality(upto(i)) <= Cardinality(upto(h)) /\ Cardinality(upto(h)) # Cardinality(upto(i))
    BY <1>2, <2>1, FS_Subset
  <2> QED BY <1>1, <1>2, <2>2
<1>4. rank \in Injection(K, 1 .. Cardinality(K))
  <2>1. rank \in [K -> 1 .. Cardinality(K)]
    BY <1>2
  <2>2. ASSUME NEW i \in K, NEW h \in K, i # h PROVE rank[i] # rank[h]
    <3>1. CASE i < h BY <1>1, <1>2, <1>3, <3>1
    <3>2. CASE h < i BY <1>1, <1>2, <1>3, <3>2
    <3> QED BY <2>2, <3>1, <3>2
  <2> QED BY <2>1, <2>2 DEF Injection, IsInjective
<1>5. IsFiniteSet(1 .. Cardinality(K)) /\ Cardinality(1 .. Cardinality(K)) = Cardinality(K)
  BY <1>1, FS_Interval
<1>6. rank \in Surjection(K, 1 .. Cardinality(K))
  BY <1>4, <1>5, FS_Injection
<1>7. \A m \in 1 .. Cardinality(K) : \E i \in K : rank[i] = m
  BY <1>6 DEF Surjection
<1> QED BY <1>1, <1>7

(* EraseAt keeps a subsequence: its entries are entries of s outside E, and    *)
(* two of them never come from the same position.                            *)
LEMMA EraseAtProperties ==
  ASSUME NEW S, NEW s \in Seq(S), NEW E
  PROVE  /\ EraseAt(s, E) \in Seq(S)
         /\ Len(EraseAt(s, E)) <= Len(s)
         /\ \E f \in [1 .. Len(EraseAt(s, E)) -> (1 .. Len(s)) \ E] :
               /\ \A m, n \in 1 .. Len(EraseAt(s, E)) : f[m] = f[n] => m = n
               /\ \A m \in 1 .. Len(EraseAt(s, E)) : EraseAt(s, E)[m] = s[f[m]]
<1> DEFINE K == (1 .. Len(s)) \ E
           C == Cardinality(K)
           rk(i) == Cardinality({j \in K : j <= i})
           at(m) == CHOOSE i \in K : rk(i) = m
           f == [m \in 1 .. C |-> at(m)]
           r == EraseAt(s, E)
<1>1. Len(s) \in Nat /\ K \in SUBSET (1 .. Len(s))
  OBVIOUS
<1>2. C \in Nat /\ C <= Len(s) /\ \A m \in 1 .. C : \E i \in K : rk(i) = m
  <2> HIDE DEF K
  <2> QED BY <1>1, RankBijection
<1>3. r = [m \in 1 .. C |-> s[at(m)]]
  BY DEF EraseAt
<1> HIDE DEF C, r
<1>4. ASSUME NEW m \in 1 .. C PROVE at(m) \in K /\ rk(at(m)) = m
  <2> HIDE DEF K, rk
  <2> QED BY <1>2
<1> HIDE DEF K, rk
<1> HIDE DEF at
<1>5. r \in Seq(S) /\ Len(r) = C
  <2>1. \A m \in 1 .. C : s[at(m)] \in S
    BY <1>1, <1>4 DEF K
  <2> QED BY <1>2, <1>3, <2>1
<1>6. f \in [1 .. Len(r) -> K]
  BY <1>4, <1>5
<1>7. \A m, n \in 1 .. Len(r) : f[m] = f[n] => m = n
  BY <1>4, <1>5
<1>8. \A m \in 1 .. Len(r) : r[m] = s[f[m]]
  BY <1>3, <1>5
<1> HIDE DEF f
<1> QED BY <1>2, <1>5, <1>6, <1>7, <1>8 DEF r, K

(* Topmost finds the highest position of a set of positions, 0 if none.      *)
LEMMA TopmostProperties ==
  ASSUME NEW n \in Nat, NEW I \in SUBSET (1 .. n)
  PROVE  /\ Topmost(I) \in 0 .. n
         /\ Topmost(I) = 0 <=> I = {}
         /\ I # {} => Topmost(I) \in I
         /\ \A j \in I : j <= Topmost(I)
<1>1. CASE I = {}
  BY <1>1 DEF Topmost
<1>2. CASE I # {}
  <2> DEFINE C == Cardinality(I)
  <2>1. IsFiniteSet(I) /\ C \in 1 .. n
    BY <1>2, RankBijection, FS_EmptySet
  <2>2. PICK i \in I : Cardinality({j \in I : j <= i}) = C
    <3>1. \A m \in 1 .. Cardinality(I) : \E i \in I : Cardinality({j \in I : j <= i}) = m
      BY RankBijection
    <3>2. C \in 1 .. Cardinality(I)
      BY <2>1
    <3> HIDE DEF C
    <3> QED BY <3>1, <3>2
  <2>3. {j \in I : j <= i} \in SUBSET I
    OBVIOUS
  <2>4. {j \in I : j <= i} = I
    BY <2>1, <2>2, <2>3, FS_Subset
  <2>5. \A j \in I : j <= i
    BY <2>4
  <2>6. Topmost(I) \in I /\ \A j \in I : j <= Topmost(I)
    BY <1>2, <2>5 DEF Topmost
  <2>7. Topmost(I) \in 1 .. n
    BY <2>6
  <2> QED BY <1>2, <2>6, <2>7
<1> QED BY <1>1, <1>2

-----------------------------------------------------------------------------
(* A selection of m of the positions 1 .. n: in order, and all but those of E. *)
Selection(f, m, n, E) ==
  /\ f \in [1 .. m -> (1 .. n) \ E]
  /\ \A p, r \in 1 .. m : p < r => f[p] < f[r]
  /\ \A i \in (1 .. n) \ E : \E p \in 1 .. m : f[p] = i

LEMMA RankIncreases ==
  ASSUME NEW n \in Nat, NEW K \in SUBSET (1 .. n), NEW i \in K, NEW h \in K, i < h
  PROVE  Cardinality({j \in K : j <= i}) < Cardinality({j \in K : j <= h})
<1> DEFINE I == {j \in K : j <= i}
           H == {j \in K : j <= h}
<1>1. K \subseteq Int /\ i \in Int /\ h \in Int
  OBVIOUS
<1>2. I \in SUBSET H /\ H \in SUBSET K /\ h \in H /\ h \notin I
  <2>1. \A j \in K : j <= i => j <= h
    BY <1>1
  <2>2. h <= h /\ ~(h <= i)
    BY <1>1
  <2> QED BY <2>1, <2>2
<1>3. IsFiniteSet(K)
  BY RankBijection
<1> HIDE DEF I, H
<1>4. IsFiniteSet(H) /\ Cardinality(H) \in Nat
  BY <1>2, <1>3, FS_Subset, FS_CardinalityType
<1>5. IsFiniteSet(I) /\ Cardinality(I) <= Cardinality(H) /\ Cardinality(I) # Cardinality(H)
  BY <1>2, <1>4, FS_Subset
<1>6. Cardinality(I) \in Nat
  BY <1>5, FS_CardinalityType
<1> QED BY <1>4, <1>5, <1>6 DEF I, H

(* r is what such a selection f takes from s.                                *)
Selects(f, r, s, E) == /\ Selection(f, Len(r), Len(s), E)
                       /\ \A m \in 1 .. Len(r) : r[m] = s[f[m]]

Rank(K, i) == Cardinality({j \in K : j <= i})

(* The m-th position of a selection has rank m among those selected.         *)
LEMMA SelectionRank ==
  \A m, n \in Nat : \A E, f : Selection(f, m, n, E) =>
     /\ Cardinality((1 .. n) \ E) = m
     /\ \A p \in 1 .. m : Rank((1 .. n) \ E, f[p]) = p
<1> SUFFICES ASSUME NEW m \in Nat, NEW n \in Nat, NEW E, NEW f, Selection(f, m, n, E)
             PROVE  /\ Cardinality((1 .. n) \ E) = m
                    /\ \A p \in 1 .. m : Rank((1 .. n) \ E, f[p]) = p
  BY Zenon
<1> DEFINE K == (1 .. n) \ E
           upto(i) == {j \in K : j <= i}
<1>1. /\ f \in [1 .. m -> K] /\ \A p, r \in 1 .. m : p < r => f[p] < f[r]
      /\ \A i \in K : \E p \in 1 .. m : f[p] = i
  BY DEF Selection
<1>2. K \subseteq Int
  OBVIOUS
<1> HIDE DEF K
<1>3. \A p, r \in 1 .. m : f[p] \in Int /\ (f[p] <= f[r] <=> p <= r)
  <2> TAKE p, r \in 1 .. m
  <2>1. f[p] \in Int /\ f[r] \in Int
    BY <1>1, <1>2
  <2>2. (p < r => f[p] < f[r]) /\ (r < p => f[r] < f[p])
    BY <1>1
  <2>3. CASE p < r BY <2>1, <2>2, <2>3
  <2>4. CASE p = r BY <2>1, <2>4
  <2>5. CASE r < p BY <2>1, <2>2, <2>5
  <2> QED BY <2>3, <2>4, <2>5
<1>4. \A p, r \in 1 .. m : f[p] = f[r] => p = r
  BY <1>3
<1>5. ASSUME NEW p \in 0 .. m, NEW U, U \subseteq K,
             \A r \in 1 .. p : f[r] \in U, \A i \in U : \E r \in 1 .. p : f[r] = i
      PROVE  Cardinality(U) = p
  <2> DEFINE g == [r \in 1 .. p |-> f[r]]
  <2>1. \A r \in 1 .. p : r \in 1 .. m
    OBVIOUS
  <2>2. g \in [1 .. p -> U]
    BY <1>5
  <2>3. \A r, q \in 1 .. p : g[r] = g[q] => r = q
    BY <1>4, <2>1
  <2>4. \A i \in U : \E r \in 1 .. p : g[r] = i
    BY <1>5
  <2> HIDE DEF g
  <2>5. g \in Bijection(1 .. p, U)
    BY <2>2, <2>3, <2>4 DEF Bijection, Injection, Surjection, IsInjective
  <2>6. IsFiniteSet(1 .. p) /\ Cardinality(1 .. p) = p
    BY FS_Interval
  <2> QED BY <2>5, <2>6, FS_Bijection DEF ExistsBijection
<1>6. Cardinality(K) = m
  BY <1>1, <1>5
<1>7. ASSUME NEW p \in 1 .. m PROVE Cardinality(upto(f[p])) = p
  <2>1. upto(f[p]) \subseteq K
    OBVIOUS
  <2>2. \A r \in 1 .. p : f[r] \in upto(f[p])
    BY <1>1, <1>3
  <2>3. \A i \in upto(f[p]) : \E r \in 1 .. p : f[r] = i
    <3> TAKE i \in upto(f[p])
    <3>1. PICK r \in 1 .. m : f[r] = i
      BY <1>1
    <3>2. f[r] <= f[p]
      BY <3>1
    <3>3. r \in 1 .. p
      BY <1>3, <3>2
    <3> QED BY <3>1, <3>3
  <2>4. p \in 0 .. m
    OBVIOUS
  <2> HIDE DEF upto
  <2> QED BY <1>5, <2>1, <2>2, <2>3, <2>4
<1> QED BY <1>6, <1>7 DEF K, Rank

(* EraseAt selects the entries of s outside E, each once and in order.        *)
LEMMA EraseAtSelects ==
  ASSUME NEW S, NEW s \in Seq(S), NEW E
  PROVE  /\ EraseAt(s, E) \in Seq(S)
         /\ \E f : Selects(f, EraseAt(s, E), s, E)
<1> DEFINE K == (1 .. Len(s)) \ E
           C == Cardinality(K)
           rk(i) == Cardinality({j \in K : j <= i})
           at(m) == CHOOSE i \in K : rk(i) = m
           f == [m \in 1 .. C |-> at(m)]
           r == EraseAt(s, E)
<1>1. Len(s) \in Nat /\ K \in SUBSET (1 .. Len(s)) /\ \A i \in K : s[i] \in S /\ i \in Int
  OBVIOUS
<1>2. IsFiniteSet(K) /\ C \in Nat /\ \A m \in 1 .. C : \E i \in K : rk(i) = m
  <2> HIDE DEF K
  <2> QED BY <1>1, RankBijection
<1>3. r = [m \in 1 .. C |-> s[at(m)]]
  BY DEF EraseAt
<1>4. \A i, h \in K : i < h => rk(i) < rk(h)
  <2> HIDE DEF K
  <2> QED BY <1>1, RankIncreases
<1>5. ASSUME NEW i \in K PROVE rk(i) \in 1 .. C
  <2> DEFINE U == {j \in K : j <= i}
  <2>1. U \in SUBSET K /\ i \in U
    BY <1>1
  <2> HIDE DEF U, K
  <2>2. IsFiniteSet(U) /\ Cardinality(U) <= C /\ Cardinality(U) \in Nat
    BY <1>2, <2>1, FS_Subset, FS_CardinalityType
  <2>3. Cardinality(U) # 0
    BY <2>1, <2>2, FS_EmptySet
  <2>4. Cardinality(U) \in 1 .. C
    BY <1>2, <2>2, <2>3
  <2> QED BY <2>4 DEF U
<1> HIDE DEF C, r
<1>6. ASSUME NEW m \in 1 .. C PROVE at(m) \in K /\ rk(at(m)) = m
  <2> HIDE DEF K, rk
  <2> QED BY <1>2
<1> HIDE DEF K, rk
<1>7. \A i, h \in K : rk(i) = rk(h) => i = h
  <2> TAKE i, h \in K
  <2>1. i \in Int /\ h \in Int /\ rk(i) \in Int /\ rk(h) \in Int
    BY <1>1, <1>5
  <2>2. CASE i < h BY <1>4, <2>1, <2>2
  <2>3. CASE h < i BY <1>4, <2>1, <2>3
  <2> QED BY <2>1, <2>2, <2>3
<1> HIDE DEF at
<1>8. r \in Seq(S) /\ Len(r) = C
  <2>1. \A m \in 1 .. C : s[at(m)] \in S
    BY <1>1, <1>6
  <2> QED BY <1>2, <1>3, <2>1
<1>9. f \in [1 .. C -> K]
  BY <1>6
<1>10. \A m, n \in 1 .. C : m < n => f[m] < f[n]
  <2> TAKE m, n \in 1 .. C
  <2> HAVE m < n
  <2>1. at(m) \in K /\ at(n) \in K /\ rk(at(m)) = m /\ rk(at(n)) = n
    BY <1>6
  <2>2. at(m) \in Int /\ at(n) \in Int
    BY <1>1, <2>1
  <2>3. CASE at(n) < at(m)
    <3>1. n < m
      BY <1>4, <2>1, <2>3
    <3> QED BY <3>1
  <2>4. CASE at(n) = at(m)
    <3>1. n = m
      BY <2>1, <2>4
    <3> QED BY <3>1
  <2> QED BY <2>2, <2>3, <2>4
<1>11. \A i \in K : \E m \in 1 .. C : f[m] = i
  <2> TAKE i \in K
  <2>1. rk(i) \in 1 .. C
    BY <1>5
  <2>2. at(rk(i)) = i
    BY <1>6, <1>7, <2>1
  <2> QED BY <2>1, <2>2
<1>12. \A m \in 1 .. C : r[m] = s[f[m]]
  BY <1>3
<1> HIDE DEF f
<1>13. Selection(f, Len(r), Len(s), E)
  BY <1>8, <1>9, <1>10, <1>11 DEF Selection, K
<1>14. Selects(f, r, s, E)
  BY <1>8, <1>12, <1>13 DEF Selects
<1> QED BY <1>8, <1>14 DEF r

(* EraseAt is the only such sequence.                                        *)
LEMMA SelectionIsErasure ==
  ASSUME NEW S, NEW s \in Seq(S), NEW r \in Seq(S), NEW E, NEW f,
         Selects(f, r, s, E)
  PROVE  r = EraseAt(s, E)
<1>0. /\ Cardinality((1 .. Len(s)) \ E) = Len(r)
      /\ \A m \in 1 .. Len(r) : Rank((1 .. Len(s)) \ E, f[m]) = m
  <2>1. Selection(f, Len(r), Len(s), E) /\ Len(r) \in Nat /\ Len(s) \in Nat
    BY DEF Selects
  <2>2. Cardinality((1 .. Len(s)) \ E) = Len(r)
    BY <2>1, SelectionRank, Zenon
  <2>3. \A m \in 1 .. Len(r) : Rank((1 .. Len(s)) \ E, f[m]) = m
    BY <2>1, SelectionRank, Zenon
  <2> QED BY <2>2, <2>3
<1> DEFINE K == (1 .. Len(s)) \ E
           rk(i) == Rank(K, i)
           at(m) == CHOOSE i \in K : rk(i) = m
<1>1. Len(s) \in Nat /\ Len(r) \in Nat /\ K \in SUBSET (1 .. Len(s)) /\ \A i \in K : i \in Int
  OBVIOUS
<1>2. Cardinality(K) = Len(r) /\ \A m \in 1 .. Len(r) : rk(f[m]) = m
  BY <1>0
<1>3. /\ \A m \in 1 .. Len(r) : f[m] \in K
      /\ \A i \in K : \E m \in 1 .. Len(r) : f[m] = i
  BY DEF Selects, Selection
<1>4. EraseAt(s, E) = [m \in 1 .. Cardinality(K) |-> s[at(m)]]
  BY DEF EraseAt, Rank
<1> HIDE DEF K, rk
<1>5. \A m \in 1 .. Len(r) : at(m) = f[m]
  <2> TAKE m \in 1 .. Len(r)
  <2>1. at(m) \in K /\ rk(at(m)) = m
    BY <1>2, <1>3
  <2> HIDE DEF at
  <2>2. PICK p \in 1 .. Len(r) : f[p] = at(m)
    BY <1>3, <2>1
  <2>3. p = m
    BY <1>2, <2>1, <2>2
  <2> QED BY <2>2, <2>3
<1> HIDE DEF at
<1>6. EraseAt(s, E) = [m \in 1 .. Len(r) |-> r[m]]
  BY <1>2, <1>4, <1>5 DEF Selects
<1>7. r = [m \in 1 .. Len(r) |-> r[m]]
  OBVIOUS
<1> QED BY <1>6, <1>7

-----------------------------------------------------------------------------
(* The lock manager. *)

(* Found is the position of the topmost TXN of the sub lock, 0 if none.       *)
LEMMA FoundProperties ==
  ASSUME TypeOK, NEW c \in Ctxs, NEW l, NEW sub
  PROVE  /\ m_activeTXNs[c] \in Seq(TXN) /\ Len(m_activeTXNs[c]) \in Nat
         /\ Found(c, l, sub) \in 0 .. Len(m_activeTXNs[c])
         /\ Found(c, l, sub) # 0 => /\ m_activeTXNs[c][Found(c, l, sub)].lock = l
                                    /\ m_activeTXNs[c][Found(c, l, sub)].subLock = sub
<1> DEFINE stk == m_activeTXNs[c]
<1>1. stk \in Seq(TXN) /\ Len(stk) \in Nat
  BY DEF TypeOK
<1>2. Matching(stk, l, sub) \in SUBSET (1 .. Len(stk))
  BY DEF Matching
<1>3. /\ Found(c, l, sub) \in 0 .. Len(stk)
      /\ Found(c, l, sub) # 0 => Found(c, l, sub) \in Matching(stk, l, sub)
  BY <1>1, <1>2, TopmostProperties DEF Found
<1> QED BY <1>1, <1>3 DEF Matching

(* The TXNs above position k, started anew in the same order.                 *)
LEMMA RestartedProperties ==
  ASSUME TypeOK, NEW c \in Ctxs, NEW k \in 0 .. Len(m_activeTXNs[c]), NEW t \in Nat
  PROVE  /\ Restarted(m_activeTXNs[c], k, t, c) \in Seq(TXN)
         /\ Len(Restarted(m_activeTXNs[c], k, t, c)) = Len(m_activeTXNs[c]) - k
         /\ \A m \in 1 .. Len(m_activeTXNs[c]) - k :
              /\ Restarted(m_activeTXNs[c], k, t, c)[m].id = m_nextTXNID + (Len(m_activeTXNs[c]) - k - m)
              /\ Restarted(m_activeTXNs[c], k, t, c)[m].memAccessCounter = 0
              /\ Restarted(m_activeTXNs[c], k, t, c)[m].lock = m_activeTXNs[c][k + m].lock
              /\ Restarted(m_activeTXNs[c], k, t, c)[m].subLock = m_activeTXNs[c][k + m].subLock
<1> DEFINE stk == m_activeTXNs[c]
           N   == Restarted(stk, k, t, c)
<1>1. stk \in Seq(TXN) /\ Len(stk) \in Nat /\ m_nextTXNID \in Nat
  BY DEF TypeOK
<1>2. \A m \in 1 .. Len(stk) - k :
        [id |-> m_nextTXNID + (Len(stk) - k - m), start_ts |-> t, start_ctx |-> c,
         memAccessCounter |-> 0, lock |-> stk[k + m].lock, subLock |-> stk[k + m].subLock] \in TXN
  <2> TAKE m \in 1 .. Len(stk) - k
  <2>1. k + m \in 1 .. Len(stk) /\ m_nextTXNID + (Len(stk) - k - m) \in Nat
    BY <1>1
  <2>2. stk[k + m] \in TXN
    BY <1>1, <2>1
  <2> QED BY <2>1, <2>2 DEF TXN
<1>3. N = [m \in 1 .. Len(stk) - k |->
        [id |-> m_nextTXNID + (Len(stk) - k - m), start_ts |-> t, start_ctx |-> c,
         memAccessCounter |-> 0, lock |-> stk[k + m].lock, subLock |-> stk[k + m].subLock]]
  BY DEF Restarted
<1>4. Len(stk) - k \in Nat
  BY <1>1
<1> HIDE DEF N, stk
<1>5. N \in Seq(TXN) /\ Len(N) = Len(stk) - k
  <2> DEFINE n == Len(stk) - k
             e(m) == [id |-> m_nextTXNID + (n - m), start_ts |-> t, start_ctx |-> c,
                      memAccessCounter |-> 0, lock |-> stk[k + m].lock, subLock |-> stk[k + m].subLock]
  <2>1. n \in Nat /\ N = [m \in 1 .. n |-> e(m)] /\ \A m \in 1 .. n : e(m) \in TXN
    BY <1>2, <1>3, <1>4
  <2> HIDE DEF n, e
  <2>2. N \in Seq(TXN) /\ Len(N) = n
    BY <2>1
  <2> QED BY <2>2 DEF n
<1>6. \A m \in 1 .. Len(stk) - k :
        /\ N[m].id = m_nextTXNID + (Len(stk) - k - m) /\ N[m].memAccessCounter = 0
        /\ N[m].lock = stk[k + m].lock /\ N[m].subLock = stk[k + m].subLock
  BY <1>3
<1> QED BY <1>5, <1>6 DEF N, stk

(* The stack A finishTXN leaves of stk: first q TXNs from below position k,    *)
(* each once, p-th from position f[p], then the restarted ones, with the new *)
(* ids counting down to the top.                                             *)
KeptThenRestarted(stk, k, A, q, f) ==
  /\ Len(A) = q + (Len(stk) - k)
  /\ \A p \in 1 .. q : f[p] < k /\ A[p] = stk[f[p]]
  /\ \A p, r \in 1 .. q : f[p] = f[r] => p = r
  /\ \A p \in q + 1 .. Len(A) :
       A[p].id = m_nextTXNID + (Len(A) - p) /\ A[p].memAccessCounter = 0

LEMMA StackAfterProperties ==
  ASSUME TypeOK, NEW c \in Ctxs, NEW l, NEW sub, NEW t \in Nat, NEW rm \in BOOLEAN
  PROVE  /\ StackAfter(c, l, sub, t, rm) \in Seq(TXN)
         /\ \E q \in Nat : \E f \in [1 .. q -> 1 .. Len(m_activeTXNs[c])] :
              KeptThenRestarted(m_activeTXNs[c], Found(c, l, sub), StackAfter(c, l, sub, t, rm), q, f)
<1> DEFINE stk == m_activeTXNs[c]
           k   == Found(c, l, sub)
           below == SubSeq(stk, 1, k - 1)
           R   == Remaining(stk, k, l, rm)
           N   == Restarted(stk, k, t, c)
           A   == StackAfter(c, l, sub, t, rm)
           q   == Len(R)
<1>1. stk \in Seq(TXN) /\ Len(stk) \in Nat /\ k \in 0 .. Len(stk)
  BY FoundProperties
<1> HIDE DEF k, stk
<1>2. /\ below \in Seq(TXN) /\ Len(below) = IF k = 0 THEN 0 ELSE k - 1
      /\ \A i \in 1 .. Len(below) : below[i] = stk[i]
  <2>1. \A i \in 1 .. k - 1 : stk[i] \in TXN
    BY <1>1
  <2> QED BY <1>1, <2>1, SubSeqProperties
<1> HIDE DEF below
<1>3. /\ R \in Seq(TXN)
      /\ \E f \in [1 .. Len(R) -> 1 .. Len(below)] :
            /\ \A p, r \in 1 .. Len(R) : f[p] = f[r] => p = r
            /\ \A p \in 1 .. Len(R) : R[p] = below[f[p]]
  <2>1. CASE rm
    <3> DEFINE E == Matching(below, l, "READER_LOCK")
    <3>1. R = EraseAt(below, E)
      BY <2>1 DEF Remaining, below
    <3> HIDE DEF E, R
    <3>2. /\ R \in Seq(TXN)
          /\ \E f \in [1 .. Len(R) -> (1 .. Len(below)) \ E] :
                /\ \A p, r \in 1 .. Len(R) : f[p] = f[r] => p = r
                /\ \A p \in 1 .. Len(R) : R[p] = below[f[p]]
      BY <1>2, <3>1, EraseAtProperties
    <3>3. \A f \in [1 .. Len(R) -> (1 .. Len(below)) \ E] : f \in [1 .. Len(R) -> 1 .. Len(below)]
      OBVIOUS
    <3> QED BY <3>2, <3>3
  <2>2. CASE ~rm
    <3>1. R = below
      BY <2>2 DEF Remaining, below
    <3> HIDE DEF R
    <3> DEFINE f == [p \in 1 .. Len(R) |-> p]
    <3>2. /\ f \in [1 .. Len(R) -> 1 .. Len(below)]
          /\ \A p, r \in 1 .. Len(R) : f[p] = f[r] => p = r
          /\ \A p \in 1 .. Len(R) : R[p] = below[f[p]]
      BY <1>2, <3>1
    <3> HIDE DEF f
    <3> QED BY <1>2, <3>1, <3>2
  <2> QED BY <2>1, <2>2
<1>4. /\ N \in Seq(TXN) /\ Len(N) = Len(stk) - k
      /\ \A m \in 1 .. Len(stk) - k : /\ N[m].id = m_nextTXNID + (Len(stk) - k - m)
                                      /\ N[m].memAccessCounter = 0
  BY <1>1, RestartedProperties DEF stk
<1>5. A = R \o N
  BY DEF StackAfter, k, stk
<1> HIDE DEF R, N, A
<1>6. /\ A \in Seq(TXN) /\ Len(A) = q + (Len(stk) - k) /\ q \in Nat
      /\ \A p \in 1 .. Len(A) : A[p] = IF p <= q THEN R[p] ELSE N[p - q]
  <2>1. R \in Seq(TXN) /\ N \in Seq(TXN) /\ Len(N) = Len(stk) - k
    BY <1>3, <1>4
  <2>2. /\ R \o N \in Seq(TXN) /\ Len(R \o N) = Len(R) + Len(N) /\ Len(R) \in Nat
        /\ \A i \in 1 .. Len(R) + Len(N) : (R \o N)[i] = IF i <= Len(R) THEN R[i] ELSE N[i - Len(R)]
    <3>1. Len(R) \in Nat
      BY <2>1, LenProperties
    <3> QED BY <2>1, <3>1, ConcatProperties, Zenon
  <2> QED BY <1>5, <2>1, <2>2
<1> HIDE DEF q
<1>7. PICK f \in [1 .. q -> 1 .. Len(below)] :
            /\ \A p, r \in 1 .. q : f[p] = f[r] => p = r
            /\ \A p \in 1 .. q : R[p] = below[f[p]]
  BY <1>3 DEF q
<1>8. f \in [1 .. q -> 1 .. Len(stk)]
  BY <1>1, <1>2, <1>7
<1>9. \A p \in 1 .. q : f[p] < k /\ A[p] = stk[f[p]]
  <2> TAKE p \in 1 .. q
  <2>1. f[p] \in 1 .. Len(below) /\ A[p] = below[f[p]]
    <3>1. p \in 1 .. Len(A) /\ p <= q
      BY <1>1, <1>6
    <3>2. A[p] = R[p]
      BY <1>6, <3>1
    <3>3. R[p] = below[f[p]] /\ f[p] \in 1 .. Len(below)
      BY <1>7, Zenon
    <3> QED BY <3>2, <3>3
  <2> QED BY <1>1, <1>2, <2>1
<1>10. \A p \in q + 1 .. Len(A) : A[p].id = m_nextTXNID + (Len(A) - p) /\ A[p].memAccessCounter = 0
  <2> TAKE p \in q + 1 .. Len(A)
  <2>1. p - q \in 1 .. Len(stk) - k /\ A[p] = N[p - q] /\ Len(stk) - k - (p - q) = Len(A) - p
    BY <1>1, <1>6
  <2> QED BY <1>4, <2>1
<1>11. KeptThenRestarted(stk, k, A, q, f)
  BY <1>6, <1>7, <1>9, <1>10 DEF KeptThenRestarted
<1> QED BY <1>6, <1>8, <1>11 DEF A, k, stk

-----------------------------------------------------------------------------
(* Types *)

LEMMA RowTypes ==
  ASSUME TypeOK, NEW c \in Ctxs, NEW d \in Ctxs, NEW t \in Nat, NEW k
  PROVE  /\ TxnRows(m_activeTXNs[c], k, t, d) \subseteq TxnRow
         /\ HeldRows(m_activeTXNs[c], k) \subseteq HeldRow
<1> DEFINE stk == m_activeTXNs[c]
<1>1. stk \in Seq(TXN) /\ \A i \in 1 .. Len(stk) : stk[i] \in TXN
  BY DEF TypeOK
<1>2. TxnRows(stk, k, t, d) \subseteq TxnRow
  BY <1>1 DEF TxnRows, Recorded, TxnRow, TXN
<1>3. ASSUME NEW i \in Recorded(stk, k), NEW j \in HeldBelow(stk, i)
      PROVE  [txn |-> stk[i].id, lock |-> stk[j].lock, subLock |-> stk[j].subLock,
              start |-> Top(lastNPos[stk[j].lock]).start] \in HeldRow
  <2>1. stk[i] \in TXN /\ stk[j] \in TXN
    BY <1>1 DEF Recorded, HeldBelow
  <2>2. lastNPos[stk[j].lock] \in Seq(LockPos) /\ lastNPos[stk[j].lock] # <<>>
    BY <2>1 DEF TypeOK, TXN, HeldBelow
  <2>3. Top(lastNPos[stk[j].lock]) \in LockPos
    BY <2>2 DEF Top
  <2> QED BY <2>1, <2>3 DEF HeldRow, TXN, LockPos
<1>4. HeldRows(stk, k) \subseteq HeldRow
  BY <1>3 DEF HeldRows
<1> QED BY <1>2, <1>4

LEMMA WriteRowsType ==
  ASSUME TypeOK, NEW c \in Ctxs, NEW l, NEW sub, NEW t \in Nat, NEW d \in Ctxs,
         WriteRows(c, l, sub, t, d)
  PROVE  txns' \subseteq TxnRow /\ locks_held' \subseteq HeldRow
BY RowTypes DEF WriteRows, TypeOK

LEMMA FinishTypes ==
  ASSUME TypeOK, NEW c \in Ctxs, NEW l, NEW sub, NEW t \in Nat, NEW rm \in BOOLEAN
  PROVE  /\ StackAfter(c, l, sub, t, rm) \in Seq(TXN)
         /\ NextIDAfter(c, l, sub) \in Nat \ {0}
<1>1. Found(c, l, sub) \in 0 .. Len(m_activeTXNs[c]) /\ Len(m_activeTXNs[c]) \in Nat
  BY FoundProperties
<1>2. m_nextTXNID \in Nat \ {0}
  BY DEF TypeOK
<1>3. StackAfter(c, l, sub, t, rm) \in Seq(TXN)
  BY StackAfterProperties
<1> QED BY <1>1, <1>2, <1>3 DEF NextIDAfter

LEMMA TakeTypes ==
  ASSUME TypeOK, NEW l \in Locks, NEW sub \in SubLocks, NEW c \in Ctxs,
         NEW cnt \in [SubLocks -> Nat], NEW pos \in Seq(LockPos),
         NEW stk \in Seq(TXN), NEW n \in Nat \ {0},
         Take(l, sub, c, cnt, pos, stk, n)
  PROVE  /\ count' \in [Locks -> [SubLocks -> Nat]]
         /\ lastNPos' \in [Locks -> Seq(LockPos)]
         /\ m_activeTXNs' \in [Ctxs -> Seq(TXN)]
         /\ m_nextTXNID' \in Nat \ {0}
<1> DEFINE new == [id |-> n, start_ts |-> ts + 1, start_ctx |-> c,
                   memAccessCounter |-> 0, lock |-> l, subLock |-> sub]
           lp == [subLock |-> sub, start |-> ts + 1]
<1>1. new \in TXN /\ lp \in LockPos
  BY DEF TypeOK, TXN, LockPos
<1> HIDE DEF new, lp
<1>2. Append(stk, new) \in Seq(TXN) /\ Append(pos, lp) \in Seq(LockPos)
  BY <1>1, AppendProperties
<1>3. [cnt EXCEPT ![sub] = @ + 1] \in [SubLocks -> Nat]
  OBVIOUS
<1>4. count' \in [Locks -> [SubLocks -> Nat]]
  BY <1>3 DEF Take, TypeOK
<1>5. lastNPos' \in [Locks -> Seq(LockPos)]
  BY <1>2 DEF Take, TypeOK, lp
<1>6. m_activeTXNs' \in [Ctxs -> Seq(TXN)]
  BY <1>2 DEF Take, TypeOK, new
<1>7. m_nextTXNID' \in Nat \ {0}
  BY DEF Take
<1> QED BY <1>4, <1>5, <1>6, <1>7

LEMMA PopType ==
  ASSUME NEW S, NEW s \in Seq(S)
  PROVE  Pop(s) \in Seq(S)
<1>1. Len(s) \in Nat /\ \A i \in 1 .. Len(s) - 1 : s[i] \in S
  OBVIOUS
<1> QED BY <1>1, SubSeqProperties DEF Pop

(* The context whose TXN a V finishes: the least of the contexts that have    *)
(* one, which exists because a V only looks at the contexts seen so far.     *)
LEMMA ReleaseCtxType ==
  ASSUME NEW c \in Ctxs, NEW l, NEW sub
  PROVE  LET d == IF isOnTXNStack(c, l, sub) THEN c ELSE findTXN(l, sub, c)
         IN  /\ d \in Ctxs
             /\ isOnTXNStack(d, l, sub) \/ \A e \in Ctxs : ~isOnTXNStack(e, l, sub)
<1> DEFINE on == {d \in Ctxs : isOnTXNStack(d, l, sub)}
<1>1. CASE on = {}
  BY <1>1 DEF findTXN
<1>2. CASE on # {}
  <2>1. PICK e \in on : TRUE
    BY <1>2
  <2>2. on \subseteq Ctxs /\ e \in Int /\ e >= -2 /\ \A d \in on : d \in Int /\ d >= -2
    BY CtxAssumption
  <2> HIDE DEF on
  <2> DEFINE T == {j \in 1 .. e + 3 : e + 1 - j \in on}
             m == e + 1 - Topmost(T)
  <2>3. e + 3 \in Nat /\ T \in SUBSET (1 .. e + 3) /\ T # {}
    <3>1. 1 \in T
      BY <2>1, <2>2
    <3>2. T # {}
      BY <3>1
    <3>3. T \in SUBSET (1 .. e + 3)
      OBVIOUS
    <3>4. e + 3 \in Nat
      BY <2>2
    <3> QED BY <3>2, <3>3, <3>4
  <2>4. Topmost(T) \in T /\ \A j \in T : j <= Topmost(T)
    <3> HIDE DEF T
    <3> QED BY <2>3, TopmostProperties
  <2>5. m \in on /\ \A d \in on : m <= d
    <3>1. m \in on /\ m \in Int /\ m <= e
      BY <2>2, <2>4
    <3>2. ASSUME NEW d \in on PROVE m <= d
      <4>1. CASE d > e
        BY <2>2, <3>1, <4>1
      <4>2. CASE d <= e
        <5>1. e + 1 - d \in 1 .. e + 3 /\ e + 1 - (e + 1 - d) = d
          BY <2>2, <4>2
        <5>2. e + 1 - d \in T
          BY <5>1, <3>2
        <5>3. e + 1 - d <= Topmost(T) /\ Topmost(T) \in Int
          BY <2>4, <5>2
        <5> QED BY <2>2, <5>3
      <4> QED BY <2>2, <4>1, <4>2
    <3> QED BY <3>1, <3>2
  <2>6. (CHOOSE d \in on : \A f \in on : d <= f) \in on
    <3> HIDE DEF m
    <3> QED BY <2>5
  <2> QED BY <1>2, <2>2, <2>6 DEF findTXN, on
<1> QED BY <1>1, <1>2

LEMMA TypeStep ==
  ASSUME TypeOK, [Next]_vars
  PROVE  TypeOK'
<1> USE DEF lockState, rows
<1>0. ts \in Nat /\ ts + 1 \in Nat
  BY DEF TypeOK
<1>1. ASSUME NEW l \in Locks, NEW sub \in SubLocks, NEW c \in Ctxs, NEW recursive, P(l, sub, c, recursive)
      PROVE  TypeOK'
  <2>1. /\ count' \in [Locks -> [SubLocks -> Nat]] /\ lastNPos' \in [Locks -> Seq(LockPos)]
        /\ m_activeTXNs' \in [Ctxs -> Seq(TXN)] /\ m_nextTXNID' \in Nat \ {0}
    <3>1. /\ count[l] \in [SubLocks -> Nat] /\ lastNPos[l] \in Seq(LockPos)
          /\ m_activeTXNs[c] \in Seq(TXN) /\ m_nextTXNID \in Nat \ {0}
      BY DEF TypeOK
    <3> QED BY <1>1, <3>1, TakeTypes DEF P
  <2> QED BY <1>0, <1>1, <2>1 DEF P, Event, TypeOK
<1>2. ASSUME NEW l \in Locks, NEW c \in Ctxs, P_WRITE_again(l, c)
      PROVE  TypeOK'
  <2> DEFINE sub == "WRITER_LOCK"
             pos == PositionsAfter(l, Found(c, l, sub) # 0)
             stk == StackAfter(c, l, sub, ts + 1, FALSE)
             n == NextIDAfter(c, l, sub)
  <2>1. /\ WriteRows(c, l, sub, ts + 1, c) /\ Take(l, sub, c, count[l], pos, stk, n)
        /\ ts' = ts + 1 /\ accesses' = accesses
        /\ status' \in {"undefined", status}
    BY <1>2 DEF P_WRITE_again, Event
  <2>2. /\ sub \in SubLocks /\ count[l] \in [SubLocks -> Nat]
        /\ pos \in Seq(LockPos) /\ stk \in Seq(TXN) /\ n \in Nat \ {0}
    BY <1>0, PopType, FinishTypes DEF TypeOK, SubLocks, PositionsAfter
  <2> HIDE DEF sub, pos, stk, n
  <2>3. /\ count' \in [Locks -> [SubLocks -> Nat]] /\ lastNPos' \in [Locks -> Seq(LockPos)]
        /\ m_activeTXNs' \in [Ctxs -> Seq(TXN)] /\ m_nextTXNID' \in Nat \ {0}
    BY <2>1, <2>2, TakeTypes
  <2>4. txns' \subseteq TxnRow /\ locks_held' \subseteq HeldRow
    BY <1>0, <2>1, WriteRowsType
  <2> QED BY <1>0, <2>1, <2>3, <2>4 DEF TypeOK
<1>3. ASSUME NEW l \in Locks, NEW sub \in SubLocks, NEW c \in Ctxs, P_flush(l, sub, c)
      PROVE  TypeOK'
  <2> DEFINE o == Other(sub)
             cnt == IF Found(c, l, o) # 0 THEN [count[l] EXCEPT ![o] = 0] ELSE count[l]
             pos == IF Found(c, l, o) # 0 THEN <<>> ELSE lastNPos[l]
             stk == StackAfter(c, l, o, ts + 1, TRUE)
             n == NextIDAfter(c, l, o)
  <2>1. /\ WriteRows(c, l, o, ts + 1, c) /\ Take(l, sub, c, cnt, pos, stk, n)
        /\ ts' = ts + 1 /\ accesses' = accesses /\ status' = status
    BY <1>3 DEF P_flush, Event
  <2>2. /\ cnt \in [SubLocks -> Nat]
        /\ pos \in Seq(LockPos) /\ stk \in Seq(TXN) /\ n \in Nat \ {0}
    <3>1. <<>> \in Seq(LockPos) /\ count[l] \in [SubLocks -> Nat] /\ lastNPos[l] \in Seq(LockPos)
      BY DEF TypeOK
    <3>2. stk \in Seq(TXN) /\ n \in Nat \ {0}
      BY <1>0, FinishTypes
    <3> QED BY <3>1, <3>2
  <2> HIDE DEF o, cnt, pos, stk, n
  <2>3. /\ count' \in [Locks -> [SubLocks -> Nat]] /\ lastNPos' \in [Locks -> Seq(LockPos)]
        /\ m_activeTXNs' \in [Ctxs -> Seq(TXN)] /\ m_nextTXNID' \in Nat \ {0}
    BY <2>1, <2>2, TakeTypes
  <2>4. txns' \subseteq TxnRow /\ locks_held' \subseteq HeldRow
    BY <1>0, <2>1, WriteRowsType
  <2> QED BY <1>0, <2>1, <2>3, <2>4 DEF TypeOK
<1>4. ASSUME NEW l \in Locks, NEW sub \in SubLocks, NEW c \in Ctxs, P_flush_fault(l, sub, c)
      PROVE  TypeOK'
  BY <1>0, <1>4 DEF P_flush_fault, Event, TypeOK
<1>5. ASSUME NEW l \in Locks, NEW sub \in SubLocks, NEW c \in Ctxs, V(l, sub, c)
      PROVE  TypeOK'
  <2> DEFINE d == IF isOnTXNStack(c, l, sub) THEN c ELSE findTXN(l, sub, c)
             stk == StackAfter(d, l, sub, ts + 1, FALSE)
  <2>1. d \in Ctxs
    BY ReleaseCtxType
  <2>2. count' \in [Locks -> [SubLocks -> Nat]] /\ ts' = ts + 1 /\ accesses' = accesses /\ status' = status
    <3>1. count' = [count EXCEPT ![l][sub] = Decremented(@)]
      BY <1>5 DEF V
    <3>2. Decremented(count[l][sub]) \in Nat
      BY DEF TypeOK, Decremented
    <3> QED BY <1>5, <3>1, <3>2 DEF V, Event, TypeOK
  <2>3. CASE lastNPos[l] # <<>>
    <3>1. /\ WriteRows(d, l, sub, ts + 1, c)
          /\ m_activeTXNs' = [m_activeTXNs EXCEPT ![d] = stk]
          /\ m_nextTXNID' = NextIDAfter(d, l, sub)
          /\ lastNPos' = [lastNPos EXCEPT ![l] = PositionsAfter(l, Found(d, l, sub) # 0)]
      BY <1>5, <2>3 DEF V
    <3> HIDE DEF d
    <3>2. stk \in Seq(TXN) /\ m_nextTXNID' \in Nat \ {0}
      BY <1>0, <2>1, <3>1, FinishTypes
    <3>3. txns' \subseteq TxnRow /\ locks_held' \subseteq HeldRow
      BY <1>0, <2>1, <3>1, WriteRowsType
    <3>4. lastNPos' \in [Locks -> Seq(LockPos)]
      <4>1. lastNPos \in [Locks -> Seq(LockPos)] /\ PositionsAfter(l, Found(d, l, sub) # 0) \in Seq(LockPos)
        BY PopType DEF TypeOK, PositionsAfter
      <4> QED BY <3>1, <4>1
    <3> HIDE DEF stk
    <3>5. m_activeTXNs' \in [Ctxs -> Seq(TXN)]
      BY <2>1, <3>1, <3>2 DEF TypeOK
    <3> QED BY <1>0, <2>2, <3>2, <3>3, <3>4, <3>5 DEF TypeOK
  <2>4. CASE lastNPos[l] = <<>>
    BY <1>0, <1>5, <2>2, <2>4 DEF V, TypeOK
  <2> QED BY <2>3, <2>4
<1>6. ASSUME NEW l \in Locks, NEW sub \in SubLocks, Throw(l, sub)
      PROVE  TypeOK'
  BY <1>0, <1>6 DEF Throw, Event, TypeOK
<1>7. ASSUME NEW c \in Ctxs, Access(c)
      PROVE  TypeOK'
  <2> DEFINE stk == m_activeTXNs[c]
             n == Len(stk)
  <2>1. stk \in Seq(TXN) /\ n \in Nat /\ \A i \in 1 .. n : stk[i] \in TXN
    BY DEF TypeOK
  <2>2. HeldIn(c) \in Seq(Locks \X SubLocks)
    <3>1. \A i \in 1 .. n : <<stk[i].lock, stk[i].subLock>> \in Locks \X SubLocks
      BY <2>1 DEF TXN
    <3>2. HeldIn(c) = [i \in 1 .. n |-> <<stk[i].lock, stk[i].subLock>>]
      BY DEF HeldIn
    <3> HIDE DEF stk, n
    <3> QED BY <2>1, <3>1, <3>2
  <2>3. (IF hasActiveTXN(c) THEN getActiveTXN(c).id ELSE NULL) \in Nat
    BY <2>1 DEF hasActiveTXN, getActiveTXN, Top, TXN, NULL
  <2>4. AccessRowOf(c) \in AccessRow
    BY <1>0, <2>2, <2>3 DEF AccessRowOf, AccessRow
  <2>5. accesses' \in Seq(AccessRow)
    BY <1>7, <2>4, AppendProperties DEF Access, TypeOK
  <2>6. m_activeTXNs' \in [Ctxs -> Seq(TXN)]
    <3>1. CASE hasActiveTXN(c)
      <4> DEFINE new == [stk EXCEPT ![n].memAccessCounter = @ + 1]
      <4>1. n \in 1 .. n /\ stk[n] \in TXN
        BY <2>1, <3>1 DEF hasActiveTXN
      <4>2. [stk[n] EXCEPT !.memAccessCounter = @ + 1] \in TXN
        BY <4>1 DEF TXN
      <4>3. new \in Seq(TXN)
        BY <2>1, <4>1, <4>2
      <4>4. m_activeTXNs' = [m_activeTXNs EXCEPT ![c] = new]
        BY <1>7, <3>1 DEF Access
      <4> HIDE DEF new
      <4> QED BY <4>3, <4>4 DEF TypeOK
    <3>2. CASE ~hasActiveTXN(c)
      BY <1>7, <3>2 DEF Access, TypeOK
    <3> QED BY <3>1, <3>2
  <2> QED BY <1>0, <1>7, <2>5, <2>6 DEF Access, Event, TypeOK
<1>8. CASE EndOfTrace
  BY <1>8 DEF EndOfTrace, TypeOK
<1>9. ASSUME NEW c \in Ctxs, CloseTXN(c)
      PROVE  TypeOK'
  <2> DEFINE l == getActiveTXN(c).lock
             sub == getActiveTXN(c).subLock
             stk == StackAfter(c, l, sub, ts, FALSE)
  <2>1. /\ WriteRows(c, l, sub, ts, c)
        /\ m_activeTXNs' = [m_activeTXNs EXCEPT ![c] = stk]
        /\ m_nextTXNID' = NextIDAfter(c, l, sub)
        /\ UNCHANGED <<count, lastNPos, accesses, ts, status>>
    BY <1>9 DEF CloseTXN
  <2>2. stk \in Seq(TXN) /\ m_nextTXNID' \in Nat \ {0}
    BY <1>0, <2>1, FinishTypes
  <2>3. txns' \subseteq TxnRow /\ locks_held' \subseteq HeldRow
    BY <1>0, <2>1, WriteRowsType
  <2> HIDE DEF stk
  <2> QED BY <2>1, <2>2, <2>3 DEF TypeOK
<1>10. CASE Closed
  BY <1>10 DEF Closed, TypeOK
<1>11. CASE UNCHANGED vars
  BY <1>11 DEF vars, TypeOK
<1>12. CASE Ignored
  BY <1>12 DEF Ignored, Event, TypeOK
<1> QED BY <1>1, <1>2, <1>3, <1>4, <1>5, <1>6, <1>7, <1>8, <1>9, <1>10, <1>11, <1>12 DEF Next, LockOp

(* Every reachable state of the lock manager is well typed: ids, counters and *)
(* timestamps are natural numbers, and the rows written are complete.        *)
THEOREM TypeCorrect == Spec => []TypeOK
<1>1. Init => TypeOK
  BY EmptySeq DEF Init, TypeOK, SubLocks
<1>2. TypeOK /\ [Next]_vars => TypeOK'
  BY TypeStep
<1> QED BY <1>1, <1>2, PTL DEF Spec

-----------------------------------------------------------------------------
(* TXN ids *)

(* How a step may change the stack of context c: A is the new stack, n the    *)
(* next id after the step, N the rows written to txns.csv.  A TXN of A is an *)
(* old one, with its counter, or has a new id and no accesses; no id is used *)
(* twice; a TXN written is one of the old ones and not in A.                 *)
Shape(c, A, n, N) ==
  /\ A \in Seq(TXN) /\ n \in Nat /\ n >= m_nextTXNID
  /\ \A p \in 1 .. Len(A) :
       \/ \E i \in 1 .. Len(m_activeTXNs[c]) :
             /\ A[p].id = m_activeTXNs[c][i].id
             /\ A[p].memAccessCounter = m_activeTXNs[c][i].memAccessCounter
       \/ A[p].id \in m_nextTXNID .. n - 1 /\ A[p].memAccessCounter = 0
  /\ \A p, r \in 1 .. Len(A) : A[p].id = A[r].id => p = r
  /\ \A w \in N : /\ \E i \in 1 .. Len(m_activeTXNs[c]) : w.id = m_activeTXNs[c][i].id
                  /\ \A p \in 1 .. Len(A) : A[p].id # w.id
  /\ \A w, v \in N : w.id = v.id => w = v

LEMMA NoShape ==
  ASSUME TypeOK, TxnIdsUnique, NEW c \in Ctxs
  PROVE  Shape(c, m_activeTXNs[c], m_nextTXNID, {})
BY DEF Shape, TypeOK, TxnIdsUnique, ActiveIdsUnique

(* finishTXN has that shape.                                                 *)
LEMMA FinishShape ==
  ASSUME TypeOK, TxnIdsUnique, NEW c \in Ctxs, NEW d \in Ctxs, NEW l, NEW sub,
         NEW t \in Nat, NEW rm \in BOOLEAN
  PROVE  Shape(c, StackAfter(c, l, sub, t, rm), NextIDAfter(c, l, sub),
               TxnRows(m_activeTXNs[c], Found(c, l, sub), t, d))
<1> DEFINE stk == m_activeTXNs[c]
           k   == Found(c, l, sub)
           A   == StackAfter(c, l, sub, t, rm)
           n   == NextIDAfter(c, l, sub)
           N   == TxnRows(stk, k, t, d)
<1>1. /\ stk \in Seq(TXN) /\ Len(stk) \in Nat /\ k \in 0 .. Len(stk)
      /\ m_nextTXNID \in Nat
  BY FoundProperties DEF TypeOK
<1>2. /\ A \in Seq(TXN) /\ n = m_nextTXNID + (Len(stk) - k)
      /\ \E q \in Nat : \E f \in [1 .. q -> 1 .. Len(stk)] : KeptThenRestarted(stk, k, A, q, f)
  BY StackAfterProperties DEF NextIDAfter
<1>3. /\ \A i, j \in 1 .. Len(stk) : stk[i].id = stk[j].id => i = j
      /\ \A i \in 1 .. Len(stk) : stk[i].id \in 1 .. m_nextTXNID - 1
  BY DEF TxnIdsUnique, ActiveIdsUnique, ActiveIdsKnown
<1>4. \A w \in N : \E i \in 1 .. Len(stk) : i >= k /\ w.id = stk[i].id
  BY DEF TxnRows, Recorded
<1>5. \A w, v \in N : w.id = v.id => w = v
  <2> TAKE w, v \in N
  <2>1. PICK i \in Recorded(stk, k) :
          w = [id |-> stk[i].id, start_ts |-> stk[i].start_ts, start_ctx |-> stk[i].start_ctx,
               end_ts |-> t, end_ctx |-> d]
    BY DEF TxnRows
  <2>2. PICK j \in Recorded(stk, k) :
          v = [id |-> stk[j].id, start_ts |-> stk[j].start_ts, start_ctx |-> stk[j].start_ctx,
               end_ts |-> t, end_ctx |-> d]
    BY DEF TxnRows
  <2>3. i \in 1 .. Len(stk) /\ j \in 1 .. Len(stk)
    BY DEF Recorded
  <2> HAVE w.id = v.id
  <2>4. i = j
    BY <1>3, <2>1, <2>2, <2>3
  <2> QED BY <2>1, <2>2, <2>4
<1> HIDE DEF stk, k, A, n, N
<1>6. PICK q \in Nat : \E f \in [1 .. q -> 1 .. Len(stk)] : KeptThenRestarted(stk, k, A, q, f)
  BY <1>2
<1>6a. PICK f \in [1 .. q -> 1 .. Len(stk)] : KeptThenRestarted(stk, k, A, q, f)
  BY <1>6
<1>7. /\ Len(A) = q + (Len(stk) - k)
      /\ \A p \in 1 .. q : f[p] < k /\ A[p] = stk[f[p]]
      /\ \A p, r \in 1 .. q : f[p] = f[r] => p = r
      /\ \A p \in q + 1 .. Len(A) :
           A[p].id = m_nextTXNID + (Len(A) - p) /\ A[p].memAccessCounter = 0
  BY <1>6a DEF KeptThenRestarted
<1>8. Len(A) \in Nat /\ n \in Nat /\ n >= m_nextTXNID
  BY <1>1, <1>2
<1>9. ASSUME NEW p \in 1 .. Len(A), p <= q
      PROVE  /\ f[p] \in 1 .. Len(stk) /\ f[p] < k /\ A[p] = stk[f[p]]
             /\ A[p].id \in 1 .. m_nextTXNID - 1
  BY <1>3, <1>7, <1>8, <1>9
<1>10. ASSUME NEW p \in 1 .. Len(A), p > q
       PROVE  /\ A[p].id = m_nextTXNID + (Len(A) - p) /\ A[p].memAccessCounter = 0
              /\ A[p].id \in m_nextTXNID .. n - 1
  <2>1. p \in q + 1 .. Len(A) /\ Len(A) - p \in 0 .. Len(stk) - k - 1
    BY <1>1, <1>7, <1>8, <1>10
  <2>2. A[p].id = m_nextTXNID + (Len(A) - p) /\ A[p].memAccessCounter = 0
    BY <1>7, <2>1
  <2>3. n = m_nextTXNID + (Len(stk) - k) /\ m_nextTXNID \in Nat /\ Len(stk) \in Nat /\ k \in Int
    BY <1>1, <1>2
  <2>4. m_nextTXNID + (Len(A) - p) \in m_nextTXNID .. n - 1
    BY <2>1, <2>3
  <2> QED BY <2>2, <2>4
<1>11. \A p \in 1 .. Len(A) :
         \/ \E i \in 1 .. Len(stk) :
               A[p].id = stk[i].id /\ A[p].memAccessCounter = stk[i].memAccessCounter
         \/ A[p].id \in m_nextTXNID .. n - 1 /\ A[p].memAccessCounter = 0
  <2> TAKE p \in 1 .. Len(A)
  <2>1. CASE p <= q
    BY <1>9, <2>1
  <2>2. CASE p > q
    BY <1>10, <2>2
  <2> QED BY <1>8, <2>1, <2>2
<1>12. \A p, r \in 1 .. Len(A) : A[p].id = A[r].id => p = r
  <2> SUFFICES ASSUME NEW p \in 1 .. Len(A), NEW r \in 1 .. Len(A), A[p].id = A[r].id PROVE p = r
    OBVIOUS
  <2>1. CASE p <= q /\ r <= q
    <3>1. f[p] = f[r]
      BY <1>3, <1>9, <2>1
    <3>2. p \in 1 .. q /\ r \in 1 .. q
      BY <1>8, <2>1
    <3> QED BY <1>7, <3>1, <3>2
  <2>2. CASE p > q /\ r > q
    BY <1>1, <1>8, <1>10, <2>2
  <2>3. CASE p <= q /\ r > q
    BY <1>1, <1>8, <1>9, <1>10, <2>3
  <2>4. CASE p > q /\ r <= q
    BY <1>1, <1>8, <1>9, <1>10, <2>4
  <2> QED BY <1>8, <2>1, <2>2, <2>3, <2>4
<1>13. \A w \in N : \A p \in 1 .. Len(A) : A[p].id # w.id
  <2> TAKE w \in N
  <2> TAKE p \in 1 .. Len(A)
  <2>1. PICK i \in 1 .. Len(stk) : i >= k /\ w.id = stk[i].id
    BY <1>4
  <2>2. w.id \in 1 .. m_nextTXNID - 1
    BY <1>3, <2>1
  <2>3. CASE p <= q
    <3>1. f[p] # i
      BY <1>1, <1>9, <2>1, <2>3
    <3> QED BY <1>3, <1>9, <2>1, <2>3, <3>1
  <2>4. CASE p > q
    BY <1>1, <1>10, <2>2, <2>4
  <2> QED BY <1>8, <2>3, <2>4
<1> QED BY <1>2, <1>4, <1>5, <1>8, <1>11, <1>12, <1>13 DEF Shape, stk, k, A, n, N

(* startTXN on top of a stack of that shape keeps it.                        *)
LEMMA TakeShape ==
  ASSUME TypeOK, TxnIdsUnique, NEW c \in Ctxs, NEW A, NEW n, NEW N, Shape(c, A, n, N),
         NEW new \in TXN, new.id = n, new.memAccessCounter = 0
  PROVE  Shape(c, Append(A, new), n + 1, N)
<1> DEFINE stk == m_activeTXNs[c]
           B == Append(A, new)
<1>1. /\ A \in Seq(TXN) /\ Len(A) \in Nat /\ n \in Nat /\ m_nextTXNID \in Nat /\ n >= m_nextTXNID
      /\ \A i \in 1 .. Len(stk) : stk[i].id \in 1 .. m_nextTXNID - 1
  BY DEF Shape, TypeOK, TxnIdsUnique, ActiveIdsKnown
<1>2. /\ B \in Seq(TXN) /\ Len(B) = Len(A) + 1
      /\ \A i \in 1 .. Len(A) : B[i] = A[i]
      /\ B[Len(A) + 1] = new
  BY <1>1, AppendProperties
<1> HIDE DEF B
<1>3. \A p \in 1 .. Len(A) : A[p].id \in 1 .. n - 1
  <2> TAKE p \in 1 .. Len(A)
  <2>1. \/ \E i \in 1 .. Len(stk) : A[p].id = stk[i].id
        \/ A[p].id \in m_nextTXNID .. n - 1
    BY DEF Shape
  <2>2. m_nextTXNID >= 1
    BY DEF TypeOK
  <2> QED BY <1>1, <2>1, <2>2
<1>4. n + 1 \in Nat /\ n + 1 >= m_nextTXNID
  BY <1>1
<1>5. \A p \in 1 .. Len(B) :
        \/ \E i \in 1 .. Len(stk) :
              B[p].id = stk[i].id /\ B[p].memAccessCounter = stk[i].memAccessCounter
        \/ B[p].id \in m_nextTXNID .. (n + 1) - 1 /\ B[p].memAccessCounter = 0
  <2> TAKE p \in 1 .. Len(B)
  <2>1. CASE p \in 1 .. Len(A)
    <3>1. \/ \E i \in 1 .. Len(stk) :
                A[p].id = stk[i].id /\ A[p].memAccessCounter = stk[i].memAccessCounter
          \/ A[p].id \in m_nextTXNID .. n - 1 /\ A[p].memAccessCounter = 0
      BY <2>1 DEF Shape
    <3> QED BY <1>1, <1>2, <2>1, <3>1
  <2>2. CASE p = Len(A) + 1
    BY <1>1, <1>2, <2>2
  <2> QED BY <1>1, <1>2, <2>1, <2>2
<1>6. \A p, r \in 1 .. Len(B) : B[p].id = B[r].id => p = r
  <2>1. \A p, r \in 1 .. Len(A) : A[p].id = A[r].id => p = r
    BY DEF Shape
  <2>2. \A p \in 1 .. Len(A) : A[p].id # new.id
    BY <1>1, <1>3
  <2>3. \A p \in 1 .. Len(B) : p \in 1 .. Len(A) \/ p = Len(A) + 1
    BY <1>1, <1>2
  <2> QED BY <1>2, <2>1, <2>2, <2>3
<1>7. \A w \in N : /\ \E i \in 1 .. Len(stk) : w.id = stk[i].id
                  /\ \A p \in 1 .. Len(B) : B[p].id # w.id
  <2> TAKE w \in N
  <2>1. /\ \E i \in 1 .. Len(stk) : w.id = stk[i].id
        /\ \A p \in 1 .. Len(A) : A[p].id # w.id
    BY DEF Shape
  <2>2. w.id # n
    BY <1>1, <2>1
  <2>3. \A p \in 1 .. Len(B) : p \in 1 .. Len(A) \/ p = Len(A) + 1
    BY <1>1, <1>2
  <2> QED BY <1>2, <2>1, <2>2, <2>3
<1>8. \A w, v \in N : w.id = v.id => w = v
  BY DEF Shape
<1>9. Shape(c, B, n + 1, N)
  BY <1>2, <1>6, <1>7, <1>4, <1>5, <1>8, Zenon DEF Shape
<1> QED BY <1>9 DEF B

LEMMA TakeKeepsShape ==
  ASSUME TypeOK, TxnIdsUnique, NEW l \in Locks, NEW sub \in SubLocks, NEW c \in Ctxs,
         NEW cnt, NEW pos, NEW A, NEW n, NEW N, Shape(c, A, n, N),
         Take(l, sub, c, cnt, pos, A, n)
  PROVE  \E B, m : /\ Shape(c, B, m, N)
                   /\ m_activeTXNs' = [m_activeTXNs EXCEPT ![c] = B]
                   /\ m_nextTXNID' = m
<1> DEFINE new == [id |-> n, start_ts |-> ts + 1, start_ctx |-> c,
                   memAccessCounter |-> 0, lock |-> l, subLock |-> sub]
<1>1. n \in Nat
  BY DEF Shape
<1>2. new \in TXN /\ new.id = n /\ new.memAccessCounter = 0
  BY <1>1 DEF TypeOK, TXN
<1>3. /\ m_activeTXNs' = [m_activeTXNs EXCEPT ![c] = Append(A, new)]
      /\ m_nextTXNID' = n + 1
  BY DEF Take
<1> HIDE DEF new
<1>4. Shape(c, Append(A, new), n + 1, N)
  BY <1>2, TakeShape
<1> QED BY <1>3, <1>4

(* A step of that shape preserves the uniqueness of TXN ids.                 *)
LEMMA ShapeIds ==
  ASSUME TypeOK, TxnIdsUnique, NEW c \in Ctxs, NEW A, NEW n, NEW N, Shape(c, A, n, N),
         m_activeTXNs' = [m_activeTXNs EXCEPT ![c] = A],
         m_nextTXNID' = n, txns' = txns \cup N
  PROVE  TxnIdsUnique'
<1> DEFINE stk == m_activeTXNs[c]
<1>1. /\ m_activeTXNs \in [Ctxs -> Seq(TXN)] /\ m_nextTXNID \in Nat \ {0}
      /\ n \in Nat /\ n >= m_nextTXNID
      /\ m_activeTXNs'[c] = A /\ \A d \in Ctxs : d # c => m_activeTXNs'[d] = m_activeTXNs[d]
  BY DEF TypeOK, Shape
<1>2. \A d \in Ctxs : \A i \in 1 .. Len(m_activeTXNs[d]) : m_activeTXNs[d][i].id \in 1 .. m_nextTXNID - 1
  BY DEF TxnIdsUnique, ActiveIdsKnown
<1>3. \A p \in 1 .. Len(A) :
        \/ \E i \in 1 .. Len(stk) : A[p].id = stk[i].id
        \/ A[p].id \in m_nextTXNID .. n - 1
  BY DEF Shape
<1>4. \A p \in 1 .. Len(A) : A[p].id \in 1 .. n - 1
  BY <1>1, <1>2, <1>3
<1>5. ActiveIdsKnown'
  <2> SUFFICES ASSUME NEW d \in Ctxs, NEW i \in 1 .. Len(m_activeTXNs'[d])
               PROVE  m_activeTXNs'[d][i].id \in 1 .. n - 1
    BY DEF ActiveIdsKnown
  <2>1. CASE d = c
    BY <1>1, <1>4, <2>1
  <2>2. CASE d # c
    BY <1>1, <1>2, <2>2
  <2> QED BY <2>1, <2>2
<1>6. \A d \in Ctxs : d # c =>
        \A p \in 1 .. Len(A), j \in 1 .. Len(m_activeTXNs[d]) : A[p].id # m_activeTXNs[d][j].id
  <2> SUFFICES ASSUME NEW d \in Ctxs, d # c, NEW p \in 1 .. Len(A),
                      NEW j \in 1 .. Len(m_activeTXNs[d])
               PROVE  A[p].id # m_activeTXNs[d][j].id
    OBVIOUS
  <2>1. CASE \E i \in 1 .. Len(stk) : A[p].id = stk[i].id
    BY <2>1 DEF TxnIdsUnique, ActiveIdsUnique
  <2>2. CASE A[p].id \in m_nextTXNID .. n - 1
    BY <1>1, <1>2, <2>2
  <2> QED BY <1>3, <2>1, <2>2
<1>7. ActiveIdsUnique'
  <2> SUFFICES ASSUME NEW d \in Ctxs, NEW e \in Ctxs, NEW i \in 1 .. Len(m_activeTXNs'[d]),
                      NEW j \in 1 .. Len(m_activeTXNs'[e]),
                      m_activeTXNs'[d][i].id = m_activeTXNs'[e][j].id
               PROVE  d = e /\ i = j
    BY DEF ActiveIdsUnique
  <2>1. CASE d = c /\ e = c
    BY <1>1, <2>1 DEF Shape
  <2>2. CASE d = c /\ e # c
    BY <1>1, <1>6, <2>2
  <2>3. CASE d # c /\ e = c
    BY <1>1, <1>6, <2>3
  <2>4. CASE d # c /\ e # c
    BY <1>1, <2>4 DEF TxnIdsUnique, ActiveIdsUnique
  <2> QED BY <2>1, <2>2, <2>3, <2>4
<1>8. ASSUME NEW w \in N
      PROVE  /\ w.id \in 1 .. m_nextTXNID - 1
             /\ \A d \in Ctxs : \A i \in 1 .. Len(m_activeTXNs'[d]) : m_activeTXNs'[d][i].id # w.id
             /\ \A r \in txns : r.id # w.id
  <2>1. PICK i \in 1 .. Len(stk) : w.id = stk[i].id
    BY DEF Shape
  <2>2. \A p \in 1 .. Len(A) : A[p].id # w.id
    BY DEF Shape
  <2>3. \A d \in Ctxs : d # c => \A j \in 1 .. Len(m_activeTXNs[d]) : m_activeTXNs[d][j].id # w.id
    BY <2>1 DEF TxnIdsUnique, ActiveIdsUnique
  <2>4. \A r \in txns : r.id # w.id
    BY <2>1 DEF TxnIdsUnique, WrittenIdsClosed
  <2> QED BY <1>1, <1>2, <2>1, <2>2, <2>3, <2>4
<1>9. ASSUME NEW r \in txns
      PROVE  /\ r.id \in 1 .. m_nextTXNID - 1
             /\ \A d \in Ctxs : \A i \in 1 .. Len(m_activeTXNs'[d]) : m_activeTXNs'[d][i].id # r.id
  <2>1. /\ r.id \in 1 .. m_nextTXNID - 1
        /\ \A d \in Ctxs : \A i \in 1 .. Len(m_activeTXNs[d]) : m_activeTXNs[d][i].id # r.id
    BY DEF TxnIdsUnique, WrittenIdsClosed
  <2>2. \A p \in 1 .. Len(A) : A[p].id # r.id
    BY <1>1, <1>3, <2>1
  <2> QED BY <1>1, <2>1, <2>2
<1>10. WrittenIdsClosed'
  <2> SUFFICES ASSUME NEW r \in txns'
               PROVE  /\ r.id \in 1 .. n - 1
                      /\ \A d \in Ctxs : \A i \in 1 .. Len(m_activeTXNs'[d]) : m_activeTXNs'[d][i].id # r.id
    BY DEF WrittenIdsClosed
  <2>1. r.id \in 1 .. m_nextTXNID - 1
    BY <1>8, <1>9
  <2>2. r.id \in 1 .. n - 1
    BY <1>1, <2>1
  <2> QED BY <1>8, <1>9, <2>2
<1>11. TxnPrimaryKey'
  <2> SUFFICES ASSUME NEW r \in txns', NEW q \in txns', r.id = q.id PROVE r = q
    BY DEF TxnPrimaryKey
  <2>1. CASE r \in txns /\ q \in txns
    BY <2>1 DEF TxnIdsUnique, TxnPrimaryKey
  <2>2. CASE r \in N /\ q \in N
    BY <2>2 DEF Shape
  <2> QED BY <1>8, <2>1, <2>2
<1> QED BY <1>5, <1>7, <1>10, <1>11 DEF TxnIdsUnique

(* Every step but an access leaves the stacks alone or changes one of them    *)
(* in that way.                                                              *)
Reshape == \E c \in Ctxs : \E A, n, N : /\ Shape(c, A, n, N)
                                       /\ m_activeTXNs' = [m_activeTXNs EXCEPT ![c] = A]
                                       /\ m_nextTXNID' = n
                                       /\ txns' = txns \cup N

LEMMA StepShape ==
  ASSUME TypeOK, TxnIdsUnique, [Next]_vars
  PROVE  \/ \E c \in Ctxs : Access(c)
         \/ /\ accesses' = accesses
            /\ UNCHANGED <<m_activeTXNs, m_nextTXNID, txns>> \/ Reshape
<1> USE DEF rows, lockState
<1>0. ts \in Nat /\ ts + 1 \in Nat
  BY DEF TypeOK
<1>1. ASSUME NEW l \in Locks, NEW sub \in SubLocks, NEW c \in Ctxs, NEW recursive, P(l, sub, c, recursive)
      PROVE  accesses' = accesses /\ Reshape
  <2>1. /\ Take(l, sub, c, count[l], lastNPos[l], m_activeTXNs[c], m_nextTXNID)
        /\ txns' = txns \cup {} /\ accesses' = accesses
    BY <1>1 DEF P
  <2>2. Shape(c, m_activeTXNs[c], m_nextTXNID, {})
    BY NoShape
  <2> QED BY <2>1, <2>2, TakeKeepsShape DEF Reshape
<1>2. ASSUME NEW l \in Locks, NEW c \in Ctxs, P_WRITE_again(l, c)
      PROVE  accesses' = accesses /\ Reshape
  <2> DEFINE sub == "WRITER_LOCK"
             A == StackAfter(c, l, sub, ts + 1, FALSE)
             n == NextIDAfter(c, l, sub)
             N == TxnRows(m_activeTXNs[c], Found(c, l, sub), ts + 1, c)
  <2>1. /\ \E pos : Take(l, sub, c, count[l], pos, A, n)
        /\ txns' = txns \cup N /\ accesses' = accesses
    BY <1>2 DEF P_WRITE_again, WriteRows
  <2>2. Shape(c, A, n, N) /\ sub \in SubLocks
    BY <1>0, FinishShape DEF SubLocks
  <2> HIDE DEF sub, A, n, N
  <2> QED BY <2>1, <2>2, TakeKeepsShape DEF Reshape
<1>3. ASSUME NEW l \in Locks, NEW sub \in SubLocks, NEW c \in Ctxs, P_flush(l, sub, c)
      PROVE  accesses' = accesses /\ Reshape
  <2> DEFINE o == Other(sub)
             A == StackAfter(c, l, o, ts + 1, TRUE)
             n == NextIDAfter(c, l, o)
             N == TxnRows(m_activeTXNs[c], Found(c, l, o), ts + 1, c)
  <2>1. /\ \E cnt, pos : Take(l, sub, c, cnt, pos, A, n)
        /\ txns' = txns \cup N /\ accesses' = accesses
    BY <1>3 DEF P_flush, WriteRows
  <2>2. Shape(c, A, n, N)
    BY <1>0, FinishShape
  <2> HIDE DEF o, A, n, N
  <2> QED BY <2>1, <2>2, TakeKeepsShape DEF Reshape
<1>4. ASSUME NEW l \in Locks, NEW sub \in SubLocks, NEW c \in Ctxs, V(l, sub, c)
      PROVE  accesses' = accesses /\ (UNCHANGED <<m_activeTXNs, m_nextTXNID, txns>> \/ Reshape)
  <2> DEFINE d == IF isOnTXNStack(c, l, sub) THEN c ELSE findTXN(l, sub, c)
             A == StackAfter(d, l, sub, ts + 1, FALSE)
             n == NextIDAfter(d, l, sub)
             N == TxnRows(m_activeTXNs[d], Found(d, l, sub), ts + 1, c)
  <2>1. d \in Ctxs
    BY ReleaseCtxType
  <2>2. CASE lastNPos[l] # <<>>
    <3>1. /\ m_activeTXNs' = [m_activeTXNs EXCEPT ![d] = A] /\ m_nextTXNID' = n
          /\ txns' = txns \cup N /\ accesses' = accesses
      BY <1>4, <2>2 DEF V, WriteRows
    <3> HIDE DEF d
    <3>2. Shape(d, A, n, N)
      BY <1>0, <2>1, FinishShape
    <3> HIDE DEF A, n, N
    <3> QED BY <2>1, <3>1, <3>2 DEF Reshape
  <2>3. CASE lastNPos[l] = <<>>
    BY <1>4, <2>3 DEF V
  <2> QED BY <2>2, <2>3
<1>5. ASSUME NEW c \in Ctxs, CloseTXN(c)
      PROVE  accesses' = accesses /\ Reshape
  <2> DEFINE l == getActiveTXN(c).lock
             sub == getActiveTXN(c).subLock
             A == StackAfter(c, l, sub, ts, FALSE)
             n == NextIDAfter(c, l, sub)
             N == TxnRows(m_activeTXNs[c], Found(c, l, sub), ts, c)
  <2>1. /\ m_activeTXNs' = [m_activeTXNs EXCEPT ![c] = A] /\ m_nextTXNID' = n
        /\ txns' = txns \cup N /\ accesses' = accesses
    BY <1>5 DEF CloseTXN, WriteRows
  <2>2. Shape(c, A, n, N)
    BY <1>0, FinishShape
  <2> HIDE DEF A, n, N
  <2> QED BY <2>1, <2>2 DEF Reshape
<1>6. ASSUME NEW l \in Locks, NEW sub \in SubLocks, NEW c \in Ctxs,
             P_flush_fault(l, sub, c)
      PROVE  accesses' = accesses /\ UNCHANGED <<m_activeTXNs, m_nextTXNID, txns>>
  BY <1>6 DEF P_flush_fault
<1>7. ASSUME NEW l \in Locks, NEW sub \in SubLocks, Throw(l, sub)
      PROVE  accesses' = accesses /\ UNCHANGED <<m_activeTXNs, m_nextTXNID, txns>>
  BY <1>7 DEF Throw
<1>8. ASSUME Ignored \/ EndOfTrace \/ Closed \/ UNCHANGED vars
      PROVE  accesses' = accesses /\ UNCHANGED <<m_activeTXNs, m_nextTXNID, txns>>
  BY <1>8 DEF Ignored, EndOfTrace, Closed, vars, rows
<1> QED BY <1>1, <1>2, <1>3, <1>4, <1>5, <1>6, <1>7, <1>8 DEF Next, LockOp

(* Ids already written with an access are below the next id: the fact that    *)
(* makes a restarted TXN start with no accesses.                             *)
AccessIdsKnown == \A a \in 1 .. Len(accesses) : accesses[a].txn < m_nextTXNID

(* The invariant that is inductive: types, unique ids, and counted accesses. *)
IInv == TypeOK /\ TxnIdsUnique /\ AccessIdsKnown /\ AccessesCounted

LEMMA ReshapeStep ==
  ASSUME IInv, accesses' = accesses, Reshape
  PROVE  TxnIdsUnique' /\ AccessIdsKnown' /\ AccessesCounted'
<1>1. PICK c \in Ctxs : \E A, n, N : /\ Shape(c, A, n, N)
                                     /\ m_activeTXNs' = [m_activeTXNs EXCEPT ![c] = A]
                                     /\ m_nextTXNID' = n
                                     /\ txns' = txns \cup N
  BY DEF Reshape
<1>2. PICK A, n, N : /\ Shape(c, A, n, N)
                     /\ m_activeTXNs' = [m_activeTXNs EXCEPT ![c] = A]
                     /\ m_nextTXNID' = n
                     /\ txns' = txns \cup N
  BY <1>1
<1>3. TxnIdsUnique'
  BY <1>2, ShapeIds DEF IInv
<1>4. /\ m_activeTXNs \in [Ctxs -> Seq(TXN)] /\ m_nextTXNID \in Nat
      /\ accesses \in Seq(AccessRow) /\ n \in Nat /\ n >= m_nextTXNID
      /\ \A a \in 1 .. Len(accesses) : accesses[a].txn \in Nat
  <2>1. m_activeTXNs \in [Ctxs -> Seq(TXN)] /\ m_nextTXNID \in Nat /\ accesses \in Seq(AccessRow)
    BY DEF IInv, TypeOK
  <2>2. n \in Nat /\ n >= m_nextTXNID
    BY <1>2 DEF Shape
  <2>3. \A a \in 1 .. Len(accesses) : accesses[a] \in AccessRow
    BY <2>1
  <2>4. \A a \in 1 .. Len(accesses) : accesses[a].txn \in Nat
    BY <2>3 DEF AccessRow
  <2> QED BY <2>1, <2>2, <2>4
<1>5. AccessIdsKnown'
  BY <1>2, <1>4 DEF IInv, AccessIdsKnown
<1>6. \A id : AccessesOf(id)' = AccessesOf(id)
  BY DEF AccessesOf
<1>7. AccessesCounted'
  <2> SUFFICES ASSUME NEW d \in Ctxs, NEW p \in 1 .. Len(m_activeTXNs'[d])
               PROVE  m_activeTXNs'[d][p].memAccessCounter
                        = Cardinality(AccessesOf(m_activeTXNs'[d][p].id))
    BY <1>6 DEF AccessesCounted, AccessesOf
  <2>1. CASE d # c
    BY <1>2, <1>4, <2>1 DEF IInv, AccessesCounted
  <2>2. CASE d = c
    <3>1. m_activeTXNs'[d] = A
      BY <1>2, <1>4, <2>2
    <3>2. \/ \E i \in 1 .. Len(m_activeTXNs[c]) :
                /\ A[p].id = m_activeTXNs[c][i].id
                /\ A[p].memAccessCounter = m_activeTXNs[c][i].memAccessCounter
          \/ A[p].id \in m_nextTXNID .. n - 1 /\ A[p].memAccessCounter = 0
      BY <1>2, <3>1 DEF Shape
    <3>3. CASE \E i \in 1 .. Len(m_activeTXNs[c]) :
                /\ A[p].id = m_activeTXNs[c][i].id
                /\ A[p].memAccessCounter = m_activeTXNs[c][i].memAccessCounter
      BY <3>1, <3>3 DEF IInv, AccessesCounted
    <3>4. CASE A[p].id \in m_nextTXNID .. n - 1 /\ A[p].memAccessCounter = 0
      <4>1. AccessesOf(A[p].id) = {}
        BY <1>4, <3>4 DEF IInv, AccessIdsKnown, AccessesOf
      <4> QED BY <3>1, <3>4, <4>1, FS_EmptySet
    <3> QED BY <3>2, <3>3, <3>4
  <2> QED BY <2>1, <2>2
<1> QED BY <1>3, <1>5, <1>7

(* An access changes the counter of the top TXN of its context, nothing else  *)
(* on the stacks.                                                            *)
LEMMA AccessStacks ==
  ASSUME TypeOK, NEW c \in Ctxs, Access(c), NEW d \in Ctxs
  PROVE  /\ Len(m_activeTXNs'[d]) = Len(m_activeTXNs[d])
         /\ \A i \in 1 .. Len(m_activeTXNs[d]) :
              /\ m_activeTXNs'[d][i].id = m_activeTXNs[d][i].id
              /\ m_activeTXNs'[d][i].lock = m_activeTXNs[d][i].lock
              /\ m_activeTXNs'[d][i].subLock = m_activeTXNs[d][i].subLock
              /\ m_activeTXNs'[d][i].memAccessCounter =
                   IF d = c /\ i = Len(m_activeTXNs[c]) THEN m_activeTXNs[d][i].memAccessCounter + 1
                   ELSE m_activeTXNs[d][i].memAccessCounter
<1> DEFINE stk == m_activeTXNs[c]
           top == Len(stk)
<1>1. m_activeTXNs \in [Ctxs -> Seq(TXN)] /\ stk \in Seq(TXN) /\ top \in Nat
  BY DEF TypeOK
<1>2. CASE stk = <<>>
  BY <1>1, <1>2 DEF Access, hasActiveTXN
<1>3. CASE stk # <<>>
  <2>1. m_activeTXNs' = [m_activeTXNs EXCEPT ![c][top].memAccessCounter = @ + 1] /\ top \in 1 .. Len(stk)
    BY <1>1, <1>3 DEF Access, hasActiveTXN
  <2>2. CASE d # c
    BY <1>1, <2>1, <2>2
  <2>3. CASE d = c
    <3> DEFINE e == [stk[top] EXCEPT !.memAccessCounter = @ + 1]
    <3>1. m_activeTXNs'[d] = [stk EXCEPT ![top] = e]
      BY <1>1, <2>1, <2>3
    <3>2. stk[top] \in TXN
      BY <1>1, <2>1
    <3>3. /\ e \in TXN /\ e.id = stk[top].id /\ e.memAccessCounter = stk[top].memAccessCounter + 1
          /\ e.lock = stk[top].lock /\ e.subLock = stk[top].subLock
      BY <3>2 DEF TXN
    <3> HIDE DEF e
    <3>4. /\ Len([stk EXCEPT ![top] = e]) = Len(stk)
          /\ \A j \in 1 .. Len(stk) : [stk EXCEPT ![top] = e][j] = IF j = top THEN e ELSE stk[j]
      <4> HIDE DEF stk, top
      <4>1. stk \in Seq(TXN) /\ top \in 1 .. Len(stk)
        BY <1>1, <2>1
      <4> QED BY <3>3, <4>1, ExceptSeq
    <3> QED BY <2>1, <2>3, <3>1, <3>3, <3>4
  <2> QED BY <2>2, <2>3
<1> QED BY <1>2, <1>3

LEMMA AccessStep ==
  ASSUME IInv, NEW c \in Ctxs, Access(c)
  PROVE  TxnIdsUnique' /\ AccessIdsKnown' /\ AccessesCounted'
<1> DEFINE stk == m_activeTXNs[c]
           top == Len(stk)
           L == Len(accesses)
           row == AccessRowOf(c)
<1>1. /\ m_activeTXNs \in [Ctxs -> Seq(TXN)] /\ stk \in Seq(TXN) /\ top \in Nat
      /\ accesses \in Seq(AccessRow) /\ L \in Nat /\ m_nextTXNID \in Nat \ {0}
      /\ m_nextTXNID' = m_nextTXNID /\ txns' = txns
  BY DEF IInv, TypeOK, Access, rows
<1>2. /\ accesses' = Append(accesses, row) /\ Len(accesses') = L + 1
      /\ \A a \in 1 .. L : accesses'[a] = accesses[a]
      /\ accesses'[L + 1] = row
  BY <1>1 DEF Access
<1>3. row.txn = IF stk # <<>> THEN stk[top].id ELSE 0
  BY DEF AccessRowOf, hasActiveTXN, getActiveTXN, Top, NULL
<1>4. ASSUME NEW d \in Ctxs
      PROVE  /\ Len(m_activeTXNs'[d]) = Len(m_activeTXNs[d])
             /\ \A i \in 1 .. Len(m_activeTXNs[d]) :
                  /\ m_activeTXNs'[d][i].id = m_activeTXNs[d][i].id
                  /\ m_activeTXNs'[d][i].memAccessCounter =
                       IF d = c /\ i = top THEN m_activeTXNs[d][i].memAccessCounter + 1
                       ELSE m_activeTXNs[d][i].memAccessCounter
  BY AccessStacks DEF IInv
<1>5. TxnIdsUnique'
  <2>1. ActiveIdsUnique'
    BY <1>4 DEF IInv, TxnIdsUnique, ActiveIdsUnique
  <2>2. ActiveIdsKnown'
    BY <1>1, <1>4 DEF IInv, TxnIdsUnique, ActiveIdsKnown
  <2>3. WrittenIdsClosed'
    BY <1>1, <1>4 DEF IInv, TxnIdsUnique, WrittenIdsClosed
  <2>4. TxnPrimaryKey'
    BY <1>1 DEF IInv, TxnIdsUnique, TxnPrimaryKey
  <2> QED BY <2>1, <2>2, <2>3, <2>4 DEF TxnIdsUnique
<1>6. row.txn \in 0 .. m_nextTXNID - 1
  BY <1>1, <1>3 DEF IInv, TxnIdsUnique, ActiveIdsKnown
<1>7. AccessIdsKnown'
  <2>1. \A a \in 1 .. L + 1 : a \in 1 .. L \/ a = L + 1
    BY <1>1
  <2> HIDE DEF row
  <2> QED BY <1>1, <1>2, <1>6, <2>1 DEF IInv, AccessIdsKnown
<1>8. ASSUME NEW id
      PROVE  AccessesOf(id)' = IF row.txn = id THEN AccessesOf(id) \cup {L + 1} ELSE AccessesOf(id)
  <2>1. \A a \in 1 .. L + 1 : a \in 1 .. L \/ a = L + 1
    BY <1>1
  <2>2. 1 .. L \subseteq 1 .. L + 1 /\ L + 1 \in 1 .. L + 1
    BY <1>1
  <2> HIDE DEF row
  <2> QED BY <1>2, <2>1, <2>2 DEF AccessesOf
<1>9. \A id : IsFiniteSet(AccessesOf(id)) /\ L + 1 \notin AccessesOf(id)
  <2> TAKE id
  <2>1. AccessesOf(id) \in SUBSET (1 .. L) /\ IsFiniteSet(1 .. L)
    BY <1>1, FS_Interval DEF AccessesOf
  <2> QED BY <1>1, <2>1, FS_Subset
<1>10. AccessesCounted'
  <2> SUFFICES ASSUME NEW d \in Ctxs, NEW i \in 1 .. Len(m_activeTXNs[d]),
                      NEW id, id = m_activeTXNs[d][i].id
               PROVE  m_activeTXNs'[d][i].memAccessCounter = Cardinality(AccessesOf(id)')
    BY <1>4 DEF AccessesCounted, AccessesOf
  <2>1. m_activeTXNs[d][i].memAccessCounter = Cardinality(AccessesOf(id))
    BY DEF IInv, AccessesCounted
  <2>2. CASE d = c /\ i = top
    <3>1. row.txn = id
      BY <1>1, <1>3, <2>2
    <3>2. AccessesOf(id)' = AccessesOf(id) \cup {L + 1}
      BY <1>8, <3>1
    <3>3. Cardinality(AccessesOf(id) \cup {L + 1}) = Cardinality(AccessesOf(id)) + 1
      BY <1>9, FS_AddElement
    <3> QED BY <1>4, <2>1, <2>2, <3>2, <3>3
  <2>3. CASE ~(d = c /\ i = top)
    <3>1. row.txn # id
      <4>1. id \in 1 .. m_nextTXNID - 1
        BY DEF IInv, TxnIdsUnique, ActiveIdsKnown
      <4>2. CASE stk = <<>>
        BY <1>3, <4>1, <4>2
      <4>3. CASE stk # <<>>
        <5>1. top \in 1 .. Len(stk)
          BY <1>1, <4>3
        <5> QED BY <1>3, <2>3, <4>3, <5>1 DEF IInv, TxnIdsUnique, ActiveIdsUnique
      <4> QED BY <4>2, <4>3
    <3> QED BY <1>4, <1>8, <2>1, <2>3, <3>1
  <2> QED BY <2>2, <2>3
<1> QED BY <1>5, <1>7, <1>10

LEMMA IInvStep ==
  ASSUME IInv, [Next]_vars
  PROVE  IInv'
<1>1. TypeOK'
  BY TypeStep DEF IInv
<1>2. CASE \E c \in Ctxs : Access(c)
  BY <1>1, <1>2, AccessStep DEF IInv
<1>3. CASE accesses' = accesses /\ Reshape
  BY <1>1, <1>3, ReshapeStep DEF IInv
<1>4. CASE accesses' = accesses /\ UNCHANGED <<m_activeTXNs, m_nextTXNID, txns>>
  <2>1. TxnIdsUnique'
    BY <1>4 DEF IInv, TxnIdsUnique, ActiveIdsUnique, ActiveIdsKnown, WrittenIdsClosed, TxnPrimaryKey
  <2>2. AccessIdsKnown'
    BY <1>4 DEF IInv, AccessIdsKnown
  <2>3. AccessesCounted'
    BY <1>4 DEF IInv, AccessesCounted, AccessesOf
  <2> QED BY <1>1, <2>1, <2>2, <2>3 DEF IInv
<1> QED BY <1>2, <1>3, <1>4, StepShape DEF IInv

LEMMA IInvInit ==
  Init => IInv
<1> SUFFICES ASSUME Init PROVE IInv
  OBVIOUS
<1>1. TypeOK
  BY EmptySeq DEF Init, TypeOK, SubLocks
<1>2. /\ \A c \in Ctxs : m_activeTXNs[c] = <<>> /\ Len(m_activeTXNs[c]) = 0
      /\ txns = {} /\ Len(accesses) = 0
  BY DEF Init
<1>3. \A c \in Ctxs : 1 .. Len(m_activeTXNs[c]) = {}
  BY <1>2
<1>4. 1 .. Len(accesses) = {}
  BY <1>2
<1> QED BY <1>1, <1>2, <1>3, <1>4 DEF IInv, TxnIdsUnique, ActiveIdsUnique, ActiveIdsKnown,
          WrittenIdsClosed, TxnPrimaryKey, AccessIdsKnown, AccessesCounted

(* TXN ids identify TXNs: in every run no id is given twice, whatever is      *)
(* restarted, stolen or closed at the end, so id is a primary key of txns.   *)
THEOREM TxnIdsAreUnique == Spec => []TxnIdsUnique
<1>1. IInv /\ [Next]_vars => IInv'
  BY IInvStep
<1>2. IInv => TxnIdsUnique
  BY DEF IInv
<1> QED BY IInvInit, <1>1, <1>2, PTL DEF Spec

(* memAccessCounter always agrees with the rows of accesses.csv, so a TXN is  *)
(* suppressed as empty exactly when no access names it.                      *)
THEOREM AccessesAreCounted == Spec => []AccessesCounted
<1>1. IInv /\ [Next]_vars => IInv'
  BY IInvStep
<1>2. IInv => AccessesCounted
  BY DEF IInv
<1> QED BY IInvInit, <1>1, <1>2, PTL DEF Spec

-----------------------------------------------------------------------------
(* The lock manager implements HeldLocks, for any locks, contexts and        *)
(* traces: what is recorded as held changes only as HeldLocks promises.      *)

(* The sub locks of a stack of TXNs: HeldIn(c) is that of m_activeTXNs[c].    *)
HeldOf(stk) == [i \in 1 .. Len(stk) |-> <<stk[i].lock, stk[i].subLock>>]

(* What finishTXN makes of stk: A is stk without the positions E, which hold  *)
(* l; f selects them.  Those below k are left alone, those above restarted.  *)
Finished(stk, l, k, A, E, f) ==
  /\ E \subseteq {i \in 1 .. Len(stk) : stk[i].lock = l}
  /\ k = 0 => E = {}
  /\ Selection(f, Len(A), Len(stk), E)
  /\ \A p \in 1 .. Len(A) : /\ A[p].lock = stk[f[p]].lock /\ A[p].subLock = stk[f[p]].subLock
                            /\ f[p] < k => A[p] = stk[f[p]]

LEMMA StackAfterFinished ==
  ASSUME TypeOK, NEW c \in Ctxs, NEW l, NEW sub, NEW t \in Nat, NEW rm \in BOOLEAN
  PROVE  /\ StackAfter(c, l, sub, t, rm) \in Seq(TXN)
         /\ \E E, f :
              /\ Finished(m_activeTXNs[c], l, Found(c, l, sub), StackAfter(c, l, sub, t, rm), E, f)
              /\ ~rm /\ Found(c, l, sub) # 0 => E = {Found(c, l, sub)}
              /\ Found(c, l, sub) # 0 => Found(c, l, sub) \in E
              /\ rm => \A i \in Matching(m_activeTXNs[c], l, "READER_LOCK") : i < Found(c, l, sub) => i \in E
<1> DEFINE stk == m_activeTXNs[c]
           k   == Found(c, l, sub)
           below == SubSeq(stk, 1, k - 1)
           R   == Remaining(stk, k, l, rm)
           N   == Restarted(stk, k, t, c)
           A   == StackAfter(c, l, sub, t, rm)
           q   == Len(R)
<1>1. /\ stk \in Seq(TXN) /\ Len(stk) \in Nat /\ k \in 0 .. Len(stk)
      /\ k # 0 => stk[k].lock = l
  BY FoundProperties
<1>0. A \in Seq(TXN) /\ A = R \o N
  BY StackAfterProperties DEF StackAfter
<1> HIDE DEF k, stk
<1>2. /\ below \in Seq(TXN) /\ Len(below) = IF k = 0 THEN 0 ELSE k - 1
      /\ \A i \in 1 .. Len(below) : below[i] = stk[i]
  <2>1. \A i \in 1 .. k - 1 : stk[i] \in TXN
    BY <1>1
  <2> QED BY <1>1, <2>1, SubSeqProperties
<1> HIDE DEF below
<1>3. /\ R \in Seq(TXN)
      /\ \E M, g : /\ M \subseteq {i \in 1 .. Len(below) : below[i].lock = l}
                   /\ ~rm => M = {}
                   /\ rm => Matching(below, l, "READER_LOCK") \subseteq M
                   /\ Selects(g, R, below, M)
  <2>1. CASE rm
    <3> DEFINE M == Matching(below, l, "READER_LOCK")
    <3>1. R = EraseAt(below, M)
      BY <2>1 DEF Remaining, below
    <3>2. M \subseteq {i \in 1 .. Len(below) : below[i].lock = l}
      BY DEF Matching
    <3> HIDE DEF M, R
    <3>3. R \in Seq(TXN) /\ \E g : Selects(g, R, below, M)
      BY <1>2, <3>1, EraseAtSelects
    <3>4. Matching(below, l, "READER_LOCK") \subseteq M
      BY DEF M
    <3>5. PICK g : Selects(g, R, below, M)
      BY <3>3
    <3>6. M \subseteq {i \in 1 .. Len(below) : below[i].lock = l} /\ (~rm => M = {})
          /\ (rm => Matching(below, l, "READER_LOCK") \subseteq M) /\ Selects(g, R, below, M)
      BY <2>1, <3>2, <3>4, <3>5
    <3> QED BY <3>3, <3>6, Zenon
  <2>2. CASE ~rm
    <3>1. R = below
      BY <2>2 DEF Remaining, below
    <3> HIDE DEF R
    <3> DEFINE g == [p \in 1 .. Len(R) |-> p]
    <3>2. Selection(g, Len(R), Len(below), {}) /\ \A m \in 1 .. Len(R) : R[m] = below[g[m]]
      BY <1>2, <3>1 DEF Selection
    <3> HIDE DEF g
    <3>3. Selects(g, R, below, {})
      BY <3>2 DEF Selects
    <3>4. {} \subseteq {i \in 1 .. Len(below) : below[i].lock = l} /\ (~rm => {} = {})
          /\ (rm => Matching(below, l, "READER_LOCK") \subseteq {}) /\ Selects(g, R, below, {})
      BY <2>2, <3>3
    <3> QED BY <1>2, <3>1, <3>4
  <2> QED BY <2>1, <2>2
<1>4. PICK M, g : /\ M \subseteq {i \in 1 .. Len(below) : below[i].lock = l}
                  /\ ~rm => M = {}
                  /\ rm => Matching(below, l, "READER_LOCK") \subseteq M
                  /\ Selects(g, R, below, M)
  BY <1>3
<1>5. /\ N \in Seq(TXN) /\ Len(N) = Len(stk) - k
      /\ \A m \in 1 .. Len(stk) - k : N[m].lock = stk[k + m].lock /\ N[m].subLock = stk[k + m].subLock
  BY <1>1, RestartedProperties DEF stk
<1> HIDE DEF R, N, A
<1>6. /\ Len(A) = q + (Len(stk) - k) /\ q \in Nat
      /\ \A p \in 1 .. Len(A) : A[p] = IF p <= q THEN R[p] ELSE N[p - q]
  <2>1. R \in Seq(TXN) /\ N \in Seq(TXN) /\ Len(R) \in Nat /\ Len(N) \in Nat
    BY <1>3, <1>5, LenProperties
  <2>2. /\ Len(R \o N) = Len(R) + Len(N)
        /\ \A i \in 1 .. Len(R) + Len(N) : (R \o N)[i] = IF i <= Len(R) THEN R[i] ELSE N[i - Len(R)]
    BY <2>1, ConcatProperties, Zenon
  <2> QED BY <1>0, <1>5, <2>1, <2>2
<1>7. /\ g \in [1 .. q -> (1 .. Len(below)) \ M]
      /\ \A p, r \in 1 .. q : p < r => g[p] < g[r]
      /\ \A i \in (1 .. Len(below)) \ M : \E p \in 1 .. q : g[p] = i
      /\ \A p \in 1 .. q : R[p] = below[g[p]]
  BY <1>4 DEF Selects, Selection
<1> HIDE DEF q
<1> DEFINE n == Len(stk)
           E == M \cup {i \in {k} : i # 0}
           f == [p \in 1 .. Len(A) |-> IF p <= q THEN g[p] ELSE k + (p - q)]
<1>8. n \in Nat /\ k \in 0 .. n /\ Len(A) = q + (n - k) /\ q \in Nat /\ Len(below) \in Nat
  BY <1>1, <1>2, <1>6
<1>9. /\ E \subseteq {i \in 1 .. n : stk[i].lock = l} /\ (k = 0 => E = {})
      /\ ~rm /\ k # 0 => E = {k}
  <2>1. \A i \in M : i \in 1 .. n /\ stk[i].lock = l /\ k # 0
    BY <1>2, <1>4, <1>8
  <2>2. k # 0 => k \in 1 .. n /\ stk[k].lock = l
    BY <1>1
  <2> QED BY <1>4, <2>1, <2>2
<1>r. /\ k # 0 => k \in E
      /\ rm => \A i \in Matching(stk, l, "READER_LOCK") : i < k => i \in E
  <2>1. ASSUME NEW i \in Matching(stk, l, "READER_LOCK"), i < k
        PROVE  i \in Matching(below, l, "READER_LOCK")
    BY <1>2, <1>8, <2>1 DEF Matching, n
  <2> QED BY <1>4, <2>1
<1> HIDE DEF n
<1>10. ASSUME NEW p \in 1 .. Len(A)
       PROVE  /\ f[p] \in (1 .. n) \ E
              /\ A[p].lock = stk[f[p]].lock /\ A[p].subLock = stk[f[p]].subLock
              /\ f[p] < k => A[p] = stk[f[p]]
              /\ p <= q => f[p] = g[p] /\ f[p] < k
              /\ p > q => f[p] = k + (p - q)
  <2>1. CASE p <= q
    <3>1. p \in 1 .. q /\ f[p] = g[p] /\ A[p] = R[p]
      BY <1>6, <1>8, <2>1
    <3>2. f[p] \in 1 .. Len(below) /\ f[p] \notin M /\ R[p] = below[f[p]]
      BY <1>7, <3>1
    <3>3. f[p] \in 1 .. n /\ f[p] < k /\ below[f[p]] = stk[f[p]]
      BY <1>2, <1>8, <3>2
    <3> HIDE DEF f
    <3> QED BY <1>8, <2>1, <3>1, <3>2, <3>3
  <2>2. CASE p > q
    <3>1. p - q \in 1 .. n - k /\ f[p] = k + (p - q) /\ A[p] = N[p - q]
      BY <1>6, <1>8, <2>2
    <3>2. f[p] \in 1 .. n /\ f[p] > k /\ f[p] \notin M
      BY <1>2, <1>4, <1>8, <3>1
    <3>3. A[p].lock = stk[f[p]].lock /\ A[p].subLock = stk[f[p]].subLock
      BY <1>5, <3>1 DEF n
    <3> HIDE DEF f
    <3> QED BY <1>8, <2>2, <3>1, <3>2, <3>3
  <2> QED BY <1>8, <2>1, <2>2
<1>11. \A p, r \in 1 .. Len(A) : p < r => f[p] < f[r]
  <2> SUFFICES ASSUME NEW p \in 1 .. Len(A), NEW r \in 1 .. Len(A), p < r PROVE f[p] < f[r]
    OBVIOUS
  <2> HIDE DEF f, E
  <2>1. CASE r <= q
    <3>1. p \in 1 .. q /\ r \in 1 .. q
      BY <1>8, <2>1
    <3>2. g[p] < g[r]
      BY <1>7, <3>1
    <3> QED BY <1>8, <1>10, <3>1, <3>2
  <2>2. CASE p <= q /\ r > q
    <3>1. f[p] < k /\ f[p] \in 1 .. n
      BY <1>10, <2>2
    <3>2. f[r] = k + (r - q)
      BY <1>10, <2>2
    <3> QED BY <1>8, <2>2, <3>1, <3>2
  <2>3. CASE p > q
    <3>1. f[p] = k + (p - q) /\ f[r] = k + (r - q)
      BY <1>8, <1>10, <2>3
    <3> QED BY <1>8, <3>1
  <2> QED BY <1>8, <2>1, <2>2, <2>3
<1>12. \A i \in (1 .. n) \ E : \E p \in 1 .. Len(A) : f[p] = i
  <2> TAKE i \in (1 .. n) \ E
  <2>1. i \in 1 .. n /\ i \notin M /\ i # k
    OBVIOUS
  <2>2. CASE i < k
    <3>1. i \in (1 .. Len(below)) \ M
      BY <1>2, <1>8, <2>1, <2>2
    <3>2. PICK p \in 1 .. q : g[p] = i
      BY <1>7, <3>1
    <3>3. p \in 1 .. Len(A) /\ p <= q
      BY <1>8
    <3> QED BY <3>2, <3>3
  <2>3. CASE i > k
    <3>1. q + (i - k) \in 1 .. Len(A) /\ q + (i - k) > q /\ k + (q + (i - k) - q) = i
      BY <1>8, <2>1, <2>3
    <3>2. f[q + (i - k)] = i
      BY <1>8, <3>1
    <3> QED BY <3>1, <3>2
  <2> QED BY <1>8, <2>1, <2>2, <2>3
<1>13. f \in [1 .. Len(A) -> (1 .. n) \ E]
  BY <1>10
<1> HIDE DEF f, E
<1>14. Selection(f, Len(A), n, E)
  BY <1>11, <1>12, <1>13 DEF Selection
<1>15. Finished(stk, l, k, A, E, f)
  BY <1>9, <1>10, <1>14 DEF Finished, n
<1> QED BY <1>0, <1>9, <1>r, <1>15 DEF stk, k, A

(* The sub locks of the stack finishTXN leaves are those it had, without E.   *)
LEMMA HeldOfType ==
  ASSUME NEW stk \in Seq(TXN)
  PROVE  /\ HeldOf(stk) \in Seq(Locks \X SubLocks) /\ Len(HeldOf(stk)) = Len(stk)
         /\ \A i \in 1 .. Len(stk) : HeldOf(stk)[i] = <<stk[i].lock, stk[i].subLock>>
<1> DEFINE n == Len(stk)
<1>1. n \in Nat /\ \A i \in 1 .. n : <<stk[i].lock, stk[i].subLock>> \in Locks \X SubLocks
  <2>1. n \in Nat /\ \A i \in 1 .. n : stk[i] \in TXN
    OBVIOUS
  <2> QED BY <2>1 DEF TXN
<1>2. HeldOf(stk) = [i \in 1 .. n |-> <<stk[i].lock, stk[i].subLock>>]
  BY DEF HeldOf
<1> HIDE DEF n
<1>3. /\ HeldOf(stk) \in Seq(Locks \X SubLocks) /\ Len(HeldOf(stk)) = n
      /\ \A i \in 1 .. n : HeldOf(stk)[i] = <<stk[i].lock, stk[i].subLock>>
  BY <1>1, <1>2
<1> QED BY <1>3 DEF n

LEMMA HeldErased ==
  ASSUME NEW stk \in Seq(TXN), NEW A \in Seq(TXN), NEW l, NEW k, NEW E, NEW f,
         Finished(stk, l, k, A, E, f)
  PROVE  HeldOf(A) = EraseAt(HeldOf(stk), E)
<1> DEFINE s == HeldOf(stk)
           r == HeldOf(A)
<1>1. /\ s \in Seq(Locks \X SubLocks) /\ Len(s) = Len(stk)
      /\ \A i \in 1 .. Len(stk) : s[i] = <<stk[i].lock, stk[i].subLock>>
  BY HeldOfType
<1>2. /\ r \in Seq(Locks \X SubLocks) /\ Len(r) = Len(A)
      /\ \A p \in 1 .. Len(A) : r[p] = <<A[p].lock, A[p].subLock>>
  BY HeldOfType
<1>3. /\ Selection(f, Len(A), Len(stk), E)
      /\ \A p \in 1 .. Len(A) : A[p].lock = stk[f[p]].lock /\ A[p].subLock = stk[f[p]].subLock
      /\ \A p \in 1 .. Len(A) : f[p] \in 1 .. Len(stk)
  BY DEF Finished, Selection
<1> HIDE DEF s, r
<1>4. Selects(f, r, s, E)
  <2>1. \A p \in 1 .. Len(r) : r[p] = s[f[p]]
    BY <1>1, <1>2, <1>3
  <2> QED BY <1>1, <1>2, <1>3, <2>1 DEF Selects
<1> QED BY <1>1, <1>2, <1>4, SelectionIsErasure DEF s, r

LEMMA HeldAppended ==
  ASSUME NEW A \in Seq(TXN), NEW new \in TXN
  PROVE  HeldOf(Append(A, new)) = Append(HeldOf(A), <<new.lock, new.subLock>>)
<1> DEFINE B == Append(A, new)
           h == <<new.lock, new.subLock>>
           H == Append(HeldOf(A), h)
<1>1. B \in Seq(TXN) /\ Len(B) = Len(A) + 1 /\ Len(A) \in Nat /\ B[Len(A) + 1] = new /\ \A i \in 1 .. Len(A) : B[i] = A[i]
  BY AppendProperties, LenProperties
<1>2. h \in Locks \X SubLocks
  BY DEF TXN
<1> HIDE DEF B, h
<1>3. /\ HeldOf(A) \in Seq(Locks \X SubLocks) /\ Len(HeldOf(A)) = Len(A)
      /\ \A i \in 1 .. Len(A) : HeldOf(A)[i] = <<A[i].lock, A[i].subLock>>
  BY HeldOfType
<1>4. /\ HeldOf(B) \in Seq(Locks \X SubLocks) /\ Len(HeldOf(B)) = Len(B)
      /\ \A i \in 1 .. Len(B) : HeldOf(B)[i] = <<B[i].lock, B[i].subLock>>
  BY <1>1, HeldOfType
<1>5. /\ H \in Seq(Locks \X SubLocks) /\ Len(H) = Len(A) + 1
      /\ \A i \in 1 .. Len(A) : H[i] = HeldOf(A)[i]
      /\ H[Len(A) + 1] = h
  BY <1>2, <1>3, AppendProperties
<1> HIDE DEF H
<1>6. \A i \in 1 .. Len(H) : H[i] = HeldOf(B)[i]
  <2> TAKE i \in 1 .. Len(H)
  <2>1. CASE i \in 1 .. Len(A)
    BY <1>1, <1>3, <1>4, <1>5, <2>1
  <2>2. CASE i = Len(A) + 1
    BY <1>1, <1>4, <1>5, <2>2 DEF h
  <2> QED BY <1>1, <1>5, <2>1, <2>2
<1>7. H = HeldOf(B)
  <2>1. Len(H) = Len(HeldOf(B))
    BY <1>1, <1>4, <1>5
  <2> QED BY <1>4, <1>5, <1>6, <2>1, SeqEqual, Zenon
<1> QED BY <1>7 DEF B, H, h

-----------------------------------------------------------------------------
(* Steps *)

(* A holds what stk holds, without takes of l at the positions E.             *)
Erased(stk, l, A, E) == /\ E \subseteq {i \in 1 .. Len(stk) : stk[i].lock = l}
                        /\ HeldOf(A) = EraseAt(HeldOf(stk), E)

Held == [c \in Ctxs |-> HeldIn(c)]

(* HeldLocks has its own copy of the stack operations; they agree.            *)
LEMMA HLCardinality == \A T : HL!Cardinality(T) = Cardinality(T)
<1>1. \A T : HL!IsFiniteSet(T) <=> IsFiniteSet(T)
  BY DEF HL!IsFiniteSet, IsFiniteSet
<1> QED BY <1>1 DEF HL!Cardinality, Cardinality

LEMMA HLEraseAt ==
  ASSUME NEW S, NEW s \in Seq(S), NEW E
  PROVE  HL!EraseAt(s, E) = EraseAt(s, E)
<1> DEFINE r == EraseAt(s, E)
<1>1. r \in Seq(S) /\ \E f : Selects(f, r, s, E)
  BY EraseAtSelects
<1> HIDE DEF r
<1>2. PICK f : Selects(f, r, s, E)
  BY <1>1
<1>3. /\ Cardinality((1 .. Len(s)) \ E) = Len(r)
      /\ \A m \in 1 .. Len(r) : Rank((1 .. Len(s)) \ E, f[m]) = m
  <2>1. Selection(f, Len(r), Len(s), E) /\ Len(r) \in Nat /\ Len(s) \in Nat
    BY <1>1, <1>2 DEF Selects
  <2>2. Cardinality((1 .. Len(s)) \ E) = Len(r)
    BY <2>1, SelectionRank, Zenon
  <2>3. \A m \in 1 .. Len(r) : Rank((1 .. Len(s)) \ E, f[m]) = m
    BY <2>1, SelectionRank, Zenon
  <2> QED BY <2>2, <2>3
<1> DEFINE K == (1 .. Len(s)) \ E
           at(m) == CHOOSE i \in K : HL!Cardinality({j \in K : j <= i}) = m
<1>4. /\ \A m \in 1 .. Len(r) : f[m] \in K
      /\ \A i \in K : \E m \in 1 .. Len(r) : f[m] = i
  BY <1>2 DEF Selects, Selection
<1>5. HL!EraseAt(s, E) = [m \in 1 .. HL!Cardinality(K) |-> s[at(m)]]
  BY DEF HL!EraseAt
<1>6. Cardinality(K) = Len(r) /\ \A m \in 1 .. Len(r) : Rank(K, f[m]) = m
  BY <1>3
<1> HIDE DEF K
<1>7. \A i : HL!Cardinality({j \in K : j <= i}) = Rank(K, i)
  BY HLCardinality DEF Rank
<1>8. \A m \in 1 .. Len(r) : at(m) = f[m]
  <2> TAKE m \in 1 .. Len(r)
  <2>1. HL!Cardinality({j \in K : j <= f[m]}) = m /\ f[m] \in K
    BY <1>4, <1>6, <1>7
  <2>2. at(m) \in K /\ HL!Cardinality({j \in K : j <= at(m)}) = m
    BY <2>1
  <2> HIDE DEF at
  <2>3. PICK p \in 1 .. Len(r) : f[p] = at(m)
    BY <1>4, <2>2
  <2>4. Rank(K, f[p]) = m
    BY <1>7, <2>2, <2>3
  <2>5. p = m
    BY <1>6, <2>4
  <2> QED BY <2>3, <2>5
<1> HIDE DEF at
<1>9. HL!EraseAt(s, E) = [m \in 1 .. Len(r) |-> r[m]]
  BY <1>2, <1>5, <1>6, <1>8, HLCardinality DEF Selects
<1>10. r = [m \in 1 .. Len(r) |-> r[m]]
  BY <1>1
<1> QED BY <1>9, <1>10 DEF r

LEMMA HLTopmost == \A I : HL!Topmost(I) = Topmost(I)
BY DEF HL!Topmost, Topmost

LEMMA TakeIsAcquire ==
  ASSUME TypeOK, NEW l \in Locks, NEW sub \in SubLocks, NEW c \in Ctxs, NEW cnt, NEW pos,
         NEW A \in Seq(TXN), NEW n \in Nat, Take(l, sub, c, cnt, pos, A, n),
         status \notin {"closing", "done"}, status' \notin {"closing", "done"},
         NEW E, Erased(m_activeTXNs[c], l, A, E)
  PROVE  HL!Acquire(l, sub, c)
<1> DEFINE new == [id |-> n, start_ts |-> ts + 1, start_ctx |-> c,
                   memAccessCounter |-> 0, lock |-> l, subLock |-> sub]
<1>1. new \in TXN /\ new.lock = l /\ new.subLock = sub
  BY DEF TypeOK, TXN
<1>2. m_activeTXNs' = [m_activeTXNs EXCEPT ![c] = Append(A, new)]
  BY DEF Take
<1> HIDE DEF new
<1>3. Held' = [Held EXCEPT ![c] = Append(HL!EraseAt(Held[c], E), <<l, sub>>)]
  <2>1. \A d \in Ctxs : Held[d] = HeldOf(m_activeTXNs[d]) /\ Held'[d] = HeldOf(m_activeTXNs'[d])
    BY DEF Held, HeldIn, HeldOf
  <2>2. m_activeTXNs'[c] = Append(A, new) /\ \A d \in Ctxs : d # c => m_activeTXNs'[d] = m_activeTXNs[d]
    BY <1>2 DEF TypeOK
  <2>3. Held'[c] = Append(HL!EraseAt(Held[c], E), <<l, sub>>)
    <3>1. HeldOf(m_activeTXNs[c]) \in Seq(Locks \X SubLocks)
      BY HeldOfType DEF TypeOK
    <3>2. HL!EraseAt(Held[c], E) = HeldOf(A)
      BY <2>1, <3>1, HLEraseAt DEF Erased
    <3> QED BY <1>1, <2>1, <2>2, <3>2, HeldAppended
  <2>4. \A d \in Ctxs : d # c => Held'[d] = Held[d]
    BY <2>1, <2>2
  <2> QED BY <2>3, <2>4 DEF Held
<1>4. E \in SUBSET HL!TakesOf(c, l)
  <2>1. /\ Len(HeldOf(m_activeTXNs[c])) = Len(m_activeTXNs[c])
        /\ \A i \in 1 .. Len(m_activeTXNs[c]) : HeldOf(m_activeTXNs[c])[i] = <<m_activeTXNs[c][i].lock, m_activeTXNs[c][i].subLock>>
    BY HeldOfType DEF TypeOK
  <2>2. HL!TakesOf(c, l) = {i \in 1 .. Len(Held[c]) : Held[c][i][1] = l}
    BY DEF HL!TakesOf, Held
  <2>3. Held[c] = HeldOf(m_activeTXNs[c])
    BY DEF Held, HeldIn, HeldOf
  <2> QED BY <2>1, <2>2, <2>3 DEF Erased
<1>5. (status \in {"closing", "done"})' = (status \in {"closing", "done"})
  OBVIOUS
<1> QED BY <1>3, <1>4, <1>5, Zenon DEF HL!Acquire, Held

LEMMA EraseNone ==
  ASSUME NEW S, NEW s \in Seq(S)
  PROVE  s = EraseAt(s, {})
<1> DEFINE f == [p \in 1 .. Len(s) |-> p]
<1>1. Selection(f, Len(s), Len(s), {}) /\ \A m \in 1 .. Len(s) : s[m] = s[f[m]]
  BY DEF Selection
<1> HIDE DEF f
<1>2. Selects(f, s, s, {})
  BY <1>1 DEF Selects
<1> QED BY <1>2, SelectionIsErasure

LEMMA EraseLast ==
  ASSUME NEW S, NEW s \in Seq(S), s # <<>>
  PROVE  Pop(s) = EraseAt(s, {Len(s)})
<1> DEFINE n == Len(s) - 1
           r == Pop(s)
           f == [p \in 1 .. n |-> p]
<1>1. n \in Nat /\ Len(s) = n + 1
  OBVIOUS
<1>2. r \in Seq(S) /\ Len(r) = n /\ \A m \in 1 .. n : r[m] = s[m]
  <2>1. \A i \in 1 .. n : s[i] \in S
    OBVIOUS
  <2> QED BY <1>1, <2>1, SubSeqProperties DEF Pop
<1> HIDE DEF n, r
<1>3. Selection(f, Len(r), Len(s), {Len(s)}) /\ \A m \in 1 .. Len(r) : r[m] = s[f[m]]
  BY <1>1, <1>2 DEF Selection
<1> HIDE DEF f
<1>4. Selects(f, r, s, {Len(s)})
  BY <1>3 DEF Selects
<1>5. r = EraseAt(s, {Len(s)})
  BY <1>2, <1>4, SelectionIsErasure
<1> QED BY <1>5 DEF r

(* The stack after finishTXN, seen as sub locks.                             *)
LEMMA FinishErases ==
  ASSUME TypeOK, NEW c \in Ctxs, NEW l, NEW sub, NEW t \in Nat, NEW rm \in BOOLEAN
  PROVE  \E E :
            /\ Erased(m_activeTXNs[c], l, StackAfter(c, l, sub, t, rm), E)
            /\ Found(c, l, sub) = 0 => E = {}
            /\ ~rm /\ Found(c, l, sub) # 0 => E = {Found(c, l, sub)}
<1> DEFINE stk == m_activeTXNs[c]
           k == Found(c, l, sub)
           A == StackAfter(c, l, sub, t, rm)
<1>1. A \in Seq(TXN) /\ stk \in Seq(TXN)
  BY StackAfterFinished DEF TypeOK
<1>2. \E E, f : Finished(stk, l, k, A, E, f) /\ (~rm /\ k # 0 => E = {k})
  BY StackAfterFinished
<1> HIDE DEF A, k, stk
<1>3. PICK E, f : Finished(stk, l, k, A, E, f) /\ (~rm /\ k # 0 => E = {k})
  BY <1>2
<1>4. HeldOf(A) = EraseAt(HeldOf(stk), E)
  BY <1>1, <1>3, HeldErased
<1>5. E \subseteq {i \in 1 .. Len(stk) : stk[i].lock = l} /\ (k = 0 => E = {})
  BY <1>3 DEF Finished
<1> QED BY <1>3, <1>4, <1>5 DEF Erased, A, k, stk

LEMMA PStep ==
  ASSUME TypeOK, NEW l \in Locks, NEW sub \in SubLocks, NEW c \in Ctxs, NEW recursive,
         P(l, sub, c, recursive)
  PROVE  HL!Acquire(l, sub, c)
<1>1. /\ Take(l, sub, c, count[l], lastNPos[l], m_activeTXNs[c], m_nextTXNID)
      /\ status = "tracing" /\ status' = "tracing"
  BY DEF P, Event
<1>2. m_activeTXNs[c] \in Seq(TXN) /\ m_nextTXNID \in Nat
  BY DEF TypeOK
<1>3. HeldOf(m_activeTXNs[c]) = EraseAt(HeldOf(m_activeTXNs[c]), {})
  BY <1>2, HeldOfType, EraseNone
<1>4. Erased(m_activeTXNs[c], l, m_activeTXNs[c], {})
  BY <1>3 DEF Erased
<1> QED BY <1>1, <1>2, <1>4, TakeIsAcquire

LEMMA PWriteAgainStep ==
  ASSUME TypeOK, NEW l \in Locks, NEW c \in Ctxs, P_WRITE_again(l, c)
  PROVE  HL!Acquire(l, "WRITER_LOCK", c)
<1> DEFINE sub == "WRITER_LOCK"
           A == StackAfter(c, l, sub, ts + 1, FALSE)
           n == NextIDAfter(c, l, sub)
           pos == PositionsAfter(l, Found(c, l, sub) # 0)
<1>1. Take(l, sub, c, count[l], pos, A, n)
  BY DEF P_WRITE_again
<1>2. status = "tracing" /\ status' \in {"tracing", "undefined"}
  BY DEF P_WRITE_again, Event
<1>3. sub \in SubLocks /\ ts + 1 \in Nat
  BY DEF SubLocks, TypeOK
<1>4. A \in Seq(TXN) /\ n \in Nat
  BY <1>3, FinishTypes
<1>5. \E E : Erased(m_activeTXNs[c], l, A, E)
  BY <1>3, FinishErases
<1> HIDE DEF A, n, sub, pos
<1>6. HL!Acquire(l, sub, c)
  BY <1>1, <1>2, <1>3, <1>4, <1>5, TakeIsAcquire
<1> QED BY <1>6 DEF sub

LEMMA PFlushStep ==
  ASSUME TypeOK, NEW l \in Locks, NEW sub \in SubLocks, NEW c \in Ctxs, P_flush(l, sub, c)
  PROVE  HL!Acquire(l, sub, c)
<1> DEFINE o == Other(sub)
           A == StackAfter(c, l, o, ts + 1, TRUE)
           n == NextIDAfter(c, l, o)
           cnt == IF Found(c, l, o) # 0 THEN [count[l] EXCEPT ![o] = 0] ELSE count[l]
           pos == IF Found(c, l, o) # 0 THEN <<>> ELSE lastNPos[l]
<1>1. Take(l, sub, c, cnt, pos, A, n)
  BY DEF P_flush
<1>2. status = "tracing" /\ status' = "tracing"
  BY DEF P_flush, Event
<1>3. ts + 1 \in Nat
  BY DEF TypeOK
<1>4. A \in Seq(TXN) /\ n \in Nat
  BY <1>3, FinishTypes
<1>5. \E E : Erased(m_activeTXNs[c], l, A, E)
  BY <1>3, FinishErases
<1> HIDE DEF A, n, o, cnt, pos
<1> QED BY <1>1, <1>2, <1>3, <1>4, <1>5, TakeIsAcquire

(* The takes HeldLocks sees are the positions Found looks through.            *)
LEMMA TakesAreMatching ==
  ASSUME TypeOK, NEW c \in Ctxs, NEW l, NEW sub
  PROVE  HL!Takes(c, l, sub) = Matching(m_activeTXNs[c], l, sub)
<1> DEFINE stk == m_activeTXNs[c]
<1>1. /\ Len(HeldOf(stk)) = Len(stk)
      /\ \A i \in 1 .. Len(stk) : HeldOf(stk)[i] = <<stk[i].lock, stk[i].subLock>>
  BY HeldOfType DEF TypeOK
<1>2. Held[c] = HeldOf(stk)
  BY DEF Held, HeldIn, HeldOf
<1>3. HL!Takes(c, l, sub) = {i \in 1 .. Len(Held[c]) : Held[c][i] = <<l, sub>>}
  BY DEF HL!Takes, Held
<1> QED BY <1>1, <1>2, <1>3 DEF Matching

(* A step that only erases takes from one context.                           *)
LEMMA HeldAfter ==
  ASSUME TypeOK, NEW c \in Ctxs, NEW l, NEW A, NEW E, Erased(m_activeTXNs[c], l, A, E),
         m_activeTXNs' = [m_activeTXNs EXCEPT ![c] = A]
  PROVE  Held' = [Held EXCEPT ![c] = EraseAt(Held[c], E)]
<1>1. \A d \in Ctxs : Held[d] = HeldOf(m_activeTXNs[d]) /\ Held'[d] = HeldOf(m_activeTXNs'[d])
  BY DEF Held, HeldIn, HeldOf
<1>2. m_activeTXNs'[c] = A /\ \A d \in Ctxs : d # c => m_activeTXNs'[d] = m_activeTXNs[d]
  BY DEF TypeOK
<1>3. Held'[c] = EraseAt(Held[c], E) /\ \A d \in Ctxs : d # c => Held'[d] = Held[d]
  BY <1>1, <1>2 DEF Erased
<1> QED BY <1>3 DEF Held

LEMMA HeldType ==
  ASSUME TypeOK
  PROVE  \A c \in Ctxs : Held[c] \in Seq(Locks \X SubLocks) /\ Held[c] = HeldOf(m_activeTXNs[c])
<1> TAKE c \in Ctxs
<1>1. Held[c] = HeldOf(m_activeTXNs[c])
  BY DEF Held, HeldIn, HeldOf
<1> QED BY <1>1, HeldOfType DEF TypeOK

LEMMA VStep ==
  ASSUME TypeOK, NEW l \in Locks, NEW sub \in SubLocks, NEW c \in Ctxs, V(l, sub, c)
  PROVE  HL!Release(l, sub, c) \/ UNCHANGED HL!vars
<1> DEFINE d == IF isOnTXNStack(c, l, sub) THEN c ELSE findTXN(l, sub, c)
           A == StackAfter(d, l, sub, ts + 1, FALSE)
           k == Found(d, l, sub)
<1>1. d \in Ctxs /\ ts + 1 \in Nat
  BY ReleaseCtxType DEF TypeOK
<1>2. status = "tracing" /\ status' = "tracing"
  BY DEF V, Event
<1>3. CASE lastNPos[l] = <<>>
  <2>1. m_activeTXNs' = m_activeTXNs
    BY <1>3 DEF V
  <2> QED BY <1>2, <2>1 DEF HL!vars, HeldIn
<1>4. CASE lastNPos[l] # <<>>
  <2>1. m_activeTXNs' = [m_activeTXNs EXCEPT ![d] = A]
    BY <1>4 DEF V
  <2>2. d # c => Matching(m_activeTXNs[c], l, sub) = {}
    BY DEF isOnTXNStack
  <2>3. /\ Matching(m_activeTXNs[d], l, sub) \in SUBSET (1 .. Len(m_activeTXNs[d]))
        /\ Len(m_activeTXNs[d]) \in Nat
    BY <1>1 DEF Matching, TypeOK
  <2> HIDE DEF d
  <2>4. k = Topmost(Matching(m_activeTXNs[d], l, sub)) /\ (k = 0 <=> Matching(m_activeTXNs[d], l, sub) = {})
    BY <1>1, <2>3, TopmostProperties DEF Found
  <2>5. \E E : Erased(m_activeTXNs[d], l, A, E) /\ (k = 0 => E = {}) /\ (k # 0 => E = {k})
    BY <1>1, FinishErases
  <2> HIDE DEF A, k
  <2>6. PICK E : Erased(m_activeTXNs[d], l, A, E) /\ (k = 0 => E = {}) /\ (k # 0 => E = {k})
    BY <2>5
  <2>7. Held' = [Held EXCEPT ![d] = EraseAt(Held[d], E)]
    BY <1>1, <2>1, <2>6, HeldAfter
  <2>8. Held[d] \in Seq(Locks \X SubLocks)
    BY <1>1, HeldType
  <2>9. CASE k = 0
    <3>1. Held[d] = EraseAt(Held[d], E)
      BY <2>6, <2>8, <2>9, EraseNone
    <3>2. Held' = Held
      BY <2>7, <3>1 DEF Held
    <3> QED BY <1>2, <3>2 DEF HL!vars, Held
  <2>10. CASE k # 0
    <3>1. HL!Takes(d, l, sub) = Matching(m_activeTXNs[d], l, sub)
      BY <1>1, TakesAreMatching
    <3>2. HL!Takes(c, l, sub) = Matching(m_activeTXNs[c], l, sub)
      BY TakesAreMatching
    <3>3. HL!EraseAt(Held[d], {HL!Topmost(HL!Takes(d, l, sub))}) = EraseAt(Held[d], {k})
      BY <2>4, <2>8, <3>1, HLEraseAt, HLTopmost
    <3>4. /\ HL!Takes(d, l, sub) # {} /\ (d # c => HL!Takes(c, l, sub) = {})
          /\ Held' = [Held EXCEPT ![d] = HL!EraseAt(Held[d], {HL!Topmost(HL!Takes(d, l, sub))})]
      BY <2>2, <2>4, <2>6, <2>7, <2>10, <3>1, <3>2, <3>3
    <3>5. (status \in {"closing", "done"})' = (status \in {"closing", "done"}) /\ status \notin {"closing", "done"}
      BY <1>2
    <3>6. HL!Release(l, sub, c)
      BY <1>1, <3>4, <3>5, Zenon DEF HL!Release, Held
    <3> QED BY <3>6
  <2> QED BY <2>9, <2>10
<1> QED BY <1>3, <1>4

LEMMA CloseStep ==
  ASSUME TypeOK, NEW c \in Ctxs, CloseTXN(c)
  PROVE  HL!Drop(c)
<1> DEFINE stk == m_activeTXNs[c]
           n == Len(stk)
           l == getActiveTXN(c).lock
           sub == getActiveTXN(c).subLock
           A == StackAfter(c, l, sub, ts, FALSE)
           k == Found(c, l, sub)
<1>1. /\ stk \in Seq(TXN) /\ n \in Nat /\ stk # <<>> /\ n # 0 /\ ts \in Nat
      /\ m_activeTXNs' = [m_activeTXNs EXCEPT ![c] = A]
      /\ status = "closing" /\ status' = "closing"
  BY DEF TypeOK, CloseTXN, hasActiveTXN
<1>2. n \in Matching(stk, l, sub) /\ Matching(stk, l, sub) \in SUBSET (1 .. n)
  BY <1>1 DEF Matching, getActiveTXN, Top
<1>3. k = n
  <2>1. Topmost(Matching(stk, l, sub)) \in 0 .. n /\ n <= Topmost(Matching(stk, l, sub))
    BY <1>1, <1>2, TopmostProperties
  <2> QED BY <1>1, <2>1 DEF Found
<1>4. \E E : Erased(stk, l, A, E) /\ (k # 0 => E = {k})
  BY <1>1, FinishErases
<1> HIDE DEF A, k, l, sub
<1>5. Erased(stk, l, A, {n})
  BY <1>1, <1>3, <1>4
<1>6. Held' = [Held EXCEPT ![c] = EraseAt(Held[c], {n})]
  BY <1>1, <1>5, HeldAfter
<1>7. Held[c] \in Seq(Locks \X SubLocks) /\ Len(Held[c]) = n
  BY <1>1, HeldType, HeldOfType
<1>8. Held[c] # <<>>
  BY <1>1, <1>7
<1>9. Pop(Held[c]) = EraseAt(Held[c], {n})
  BY <1>7, <1>8, EraseLast
<1>10. HL!Pop(Held[c]) = Pop(Held[c])
  BY DEF HL!Pop, Pop
<1>11. Held' = [Held EXCEPT ![c] = HL!Pop(Held[c])]
  BY <1>6, <1>9, <1>10
<1>12. (status \in {"closing", "done"})' = (status \in {"closing", "done"}) /\ status \in {"closing", "done"}
  BY <1>1
<1> QED BY <1>8, <1>11, <1>12, Zenon DEF HL!Drop, Held

LEMMA AccessKeepsHeld ==
  ASSUME TypeOK, NEW c \in Ctxs, Access(c)
  PROVE  UNCHANGED HL!vars
<1> DEFINE stk == m_activeTXNs[c]
           n == Len(stk)
<1>1. /\ status' = status
      /\ m_activeTXNs' = IF stk # <<>> THEN [m_activeTXNs EXCEPT ![c][n].memAccessCounter = @ + 1] ELSE m_activeTXNs
  BY DEF Access, Event, hasActiveTXN
<1>2. Held' = Held
  <2>1. CASE stk = <<>>
    BY <1>1, <2>1 DEF Held, HeldIn
  <2>2. CASE stk # <<>>
    <3> DEFINE e == [stk[n] EXCEPT !.memAccessCounter = @ + 1]
               A == [stk EXCEPT ![n] = e]
    <3>1. stk \in Seq(TXN) /\ n \in 1 .. Len(stk) /\ stk[n] \in TXN
      BY <2>2 DEF TypeOK
    <3>2. m_activeTXNs' = [m_activeTXNs EXCEPT ![c] = A]
      BY <1>1, <2>2
    <3>3. e \in TXN /\ e.lock = stk[n].lock /\ e.subLock = stk[n].subLock
      <4>1. \A t \in TXN : /\ [t EXCEPT !.memAccessCounter = @ + 1] \in TXN
                           /\ [t EXCEPT !.memAccessCounter = @ + 1].lock = t.lock
                           /\ [t EXCEPT !.memAccessCounter = @ + 1].subLock = t.subLock
        BY DEF TXN
      <4> QED BY <3>1, <4>1
    <3> HIDE DEF e
    <3>4. A \in Seq(TXN) /\ Len(A) = Len(stk) /\ \A j \in 1 .. Len(stk) : A[j] = IF j = n THEN e ELSE stk[j]
      <4> HIDE DEF stk, n
      <4> QED BY <3>1, <3>3, ExceptSeq
    <3> HIDE DEF A
    <3>5. HeldOf(A) = HeldOf(stk)
      BY <3>1, <3>3, <3>4 DEF HeldOf
    <3>6. \A d \in Ctxs : Held[d] = HeldOf(m_activeTXNs[d]) /\ Held'[d] = HeldOf(m_activeTXNs'[d])
      BY DEF Held, HeldIn, HeldOf
    <3>7. m_activeTXNs'[c] = A /\ \A d \in Ctxs : d # c => m_activeTXNs'[d] = m_activeTXNs[d]
      BY <3>2 DEF TypeOK
    <3>8. \A d \in Ctxs : Held'[d] = Held[d]
      BY <3>5, <3>6, <3>7
    <3> QED BY <3>8 DEF Held
  <2> QED BY <2>1, <2>2
<1> QED BY <1>1, <1>2 DEF HL!vars, Held

LEMMA HeldLocksStep ==
  ASSUME TypeOK, [Next]_vars
  PROVE  [HL!Next]_(HL!vars)
<1> USE DEF lockState, rows
<1>1. ASSUME NEW l \in Locks, NEW sub \in SubLocks, NEW c \in Ctxs, LockOp(l, sub, c)
      PROVE  \/ HL!Acquire(l, sub, c) \/ HL!Release(l, sub, c)
             \/ UNCHANGED HL!vars
  <2>1. CASE \E recursive \in Flags[l] : P(l, sub, c, recursive)
    BY <2>1, PStep
  <2>2. CASE sub = "WRITER_LOCK" /\ P_WRITE_again(l, c)
    BY <2>2, PWriteAgainStep
  <2>3. CASE P_flush(l, sub, c)
    BY <2>3, PFlushStep
  <2>4. CASE P_flush_fault(l, sub, c)
    BY <2>4 DEF P_flush_fault, Event, HL!vars, HeldIn
  <2>5. CASE V(l, sub, c)
    BY <2>5, VStep
  <2> QED BY <1>1, <2>1, <2>2, <2>3, <2>4, <2>5 DEF LockOp
<1>2. ASSUME NEW l \in Locks, NEW sub \in SubLocks, Throw(l, sub)
      PROVE  UNCHANGED HL!vars
  BY <1>2 DEF Throw, Event, HL!vars, HeldIn
<1>3. CASE Ignored
  BY <1>3 DEF Ignored, HL!vars, HeldIn
<1>4. CASE EndOfTrace
  <2>1. status = "tracing" /\ status' = "closing" /\ m_activeTXNs' = m_activeTXNs
    BY <1>4 DEF EndOfTrace
  <2>2. Held' = Held
    BY <2>1 DEF Held, HeldIn
  <2>3. ~(status \in {"closing", "done"}) /\ (status \in {"closing", "done"})' = TRUE
    BY <2>1
  <2>4. HL!EndOfTrace
    BY <2>2, <2>3 DEF HL!EndOfTrace, Held
  <2> QED BY <2>4 DEF HL!Next
<1>5. CASE Closed
  BY <1>5 DEF Closed, HL!vars, HeldIn
<1>6. CASE UNCHANGED vars
  BY <1>6 DEF vars, HL!vars, HeldIn
<1>7. ASSUME NEW c \in Ctxs, Access(c) \/ CloseTXN(c)
      PROVE  HL!Drop(c) \/ UNCHANGED HL!vars
  BY <1>7, AccessKeepsHeld, CloseStep
<1> QED BY <1>1, <1>2, <1>3, <1>4, <1>5, <1>6, <1>7 DEF Next, HL!Next

(* The lock manager implements HeldLocks.  Whatever the trace, in whatever    *)
(* contexts and with whatever loss of events, an event on one lock leaves    *)
(* what is recorded of the others and their order alone through all the      *)
(* restarts, a V takes away at most the latest take, and nothing is taken    *)
(* once the trace has ended.                                                 *)
THEOREM HeldLocksImplemented == Spec => ImplementsHeldLocks
<1>1. Init => HL!Init
  <2> SUFFICES ASSUME Init PROVE HL!Init
    OBVIOUS
  <2>1. \A c \in Ctxs : HeldIn(c) = <<>>
    BY DEF Init, HeldIn
  <2>2. (status \in {"closing", "done"}) = FALSE
    BY DEF Init
  <2> QED BY <2>1, <2>2 DEF HL!Init
<1>2. TypeOK /\ [Next]_vars => [HL!Next]_(HL!vars)
  BY HeldLocksStep
<1> QED BY <1>1, <1>2, TypeCorrect, PTL DEF Spec, ImplementsHeldLocks, HL!Spec
=============================================================================
