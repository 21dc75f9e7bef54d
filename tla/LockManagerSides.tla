------------------------ MODULE LockManagerSides ------------------------
(***************************************************************************)
(* What holds of the lock manager depending on the sides of its locks, for  *)
(* any number of locks and any trace, lost events included.  First, every   *)
(* lock has one side only, that is, all lock classes but those of RWLock    *)
(* (rwlock_t, rw_semaphore and their BSD counterparts): no side is ever     *)
(* flushed, in any number of contexts.  Then locks of all classes, in one   *)
(* context, with reader-writer locks that are not recursive.                *)
(***************************************************************************)
EXTENDS LockManagerProofs, FunctionTheorems

OneSided == \A l \in Locks : Kind[l] # "RWLock"

-----------------------------------------------------------------------------
(* finishTXN without removeReader *)

(* The position in the old stack of the TXN at p, when the one at k is gone.  *)
Src(k, p) == IF k = 0 \/ p < k THEN p ELSE p + 1

(* A is stk without the TXN at k, in order.                                  *)
Closes(stk, k, A) ==
  /\ A \in Seq(TXN) /\ k \in 0 .. Len(stk)
  /\ Len(A) = IF k = 0 THEN Len(stk) ELSE Len(stk) - 1
  /\ \A p \in 1 .. Len(A) : A[p].lock = stk[Src(k, p)].lock /\ A[p].subLock = stk[Src(k, p)].subLock

LEMMA FinishCloses ==
  ASSUME TypeOK, NEW c \in Ctxs, NEW l, NEW sub, NEW t \in Nat
  PROVE  /\ Closes(m_activeTXNs[c], Found(c, l, sub), StackAfter(c, l, sub, t, FALSE))
         /\ \A p \in 1 .. Len(StackAfter(c, l, sub, t, FALSE)) :
              IF p < Found(c, l, sub) THEN StackAfter(c, l, sub, t, FALSE)[p] = m_activeTXNs[c][p]
              ELSE StackAfter(c, l, sub, t, FALSE)[p].id >= m_nextTXNID
<1> DEFINE stk == m_activeTXNs[c]
           k   == Found(c, l, sub)
           below == SubSeq(stk, 1, k - 1)
           N   == Restarted(stk, k, t, c)
           A   == StackAfter(c, l, sub, t, FALSE)
           q   == Len(below)
<1>1. stk \in Seq(TXN) /\ Len(stk) \in Nat /\ k \in 0 .. Len(stk) /\ m_nextTXNID \in Nat
  BY FoundProperties DEF TypeOK
<1>2. A \in Seq(TXN) /\ A = below \o N
  BY StackAfterProperties DEF StackAfter, Remaining
<1> HIDE DEF k, stk
<1>3. /\ below \in Seq(TXN) /\ q = (IF k = 0 THEN 0 ELSE k - 1) /\ q \in Nat
      /\ \A i \in 1 .. q : below[i] = stk[i]
  <2>1. \A i \in 1 .. k - 1 : stk[i] \in TXN
    BY <1>1
  <2> QED BY <1>1, <2>1, SubSeqProperties
<1>4. /\ N \in Seq(TXN) /\ Len(N) = Len(stk) - k
      /\ \A m \in 1 .. Len(stk) - k : /\ N[m].id = m_nextTXNID + (Len(stk) - k - m)
                                      /\ N[m].lock = stk[k + m].lock /\ N[m].subLock = stk[k + m].subLock
  BY <1>1, RestartedProperties DEF stk
<1> HIDE DEF below, N, A
<1>5. /\ Len(A) = q + (Len(stk) - k)
      /\ \A p \in 1 .. Len(A) : A[p] = IF p <= q THEN below[p] ELSE N[p - q]
  <2>1. Len(N) \in Nat
    BY <1>4, LenProperties
  <2>2. /\ Len(below \o N) = Len(below) + Len(N)
        /\ \A i \in 1 .. Len(below) + Len(N) :
             (below \o N)[i] = IF i <= Len(below) THEN below[i] ELSE N[i - Len(below)]
    BY <1>3, <1>4, ConcatProperties, Zenon
  <2> QED BY <1>2, <1>3, <1>4, <2>1, <2>2
<1> HIDE DEF q
<1>6. Len(A) = IF k = 0 THEN Len(stk) ELSE Len(stk) - 1
  BY <1>1, <1>3, <1>5
<1>7. ASSUME NEW p \in 1 .. Len(A)
      PROVE  /\ A[p].lock = stk[Src(k, p)].lock /\ A[p].subLock = stk[Src(k, p)].subLock
             /\ IF p < k THEN A[p] = stk[p] ELSE A[p].id >= m_nextTXNID
  <2>0. p \in Nat /\ p >= 1
    BY <1>1, <1>3, <1>5
  <2>1. CASE p <= q
    <3>1. k # 0 /\ p < k /\ p \in 1 .. q
      BY <1>1, <1>3, <2>0, <2>1
    <3>2. A[p] = stk[p]
      BY <1>3, <1>5, <3>1
    <3> QED BY <3>1, <3>2 DEF Src
  <2>2. CASE p > q
    <3>1. /\ p - q \in 1 .. Len(stk) - k /\ k + (p - q) = Src(k, p) /\ ~(p < k)
          /\ m_nextTXNID + (Len(stk) - k - (p - q)) >= m_nextTXNID
      BY <1>1, <1>3, <1>5, <2>0, <2>2 DEF Src
    <3>2. A[p] = N[p - q]
      BY <1>3, <1>5, <2>0, <2>2
    <3>3. /\ N[p - q].lock = stk[k + (p - q)].lock /\ N[p - q].subLock = stk[k + (p - q)].subLock
          /\ N[p - q].id = m_nextTXNID + (Len(stk) - k - (p - q))
      BY <1>4, <3>1
    <3> QED BY <3>1, <3>2, <3>3
  <2> QED BY <1>3, <2>0, <2>1, <2>2
<1> QED BY <1>1, <1>2, <1>6, <1>7 DEF Closes, stk, k, A

-----------------------------------------------------------------------------
(* Counting the TXNs of a sub lock *)

(* The stacks st, with A for context c.                                      *)
With(st, c, A) == [st EXCEPT ![c] = A]

LEMMA WithProperties ==
  ASSUME NEW st \in [Ctxs -> Seq(TXN)], NEW c \in Ctxs, NEW A \in Seq(TXN)
  PROVE  /\ With(st, c, A) \in [Ctxs -> Seq(TXN)] /\ With(st, c, A)[c] = A
         /\ \A d \in Ctxs : d # c => With(st, c, A)[d] = st[d]
BY DEF With

TxnsIn(st, l, sub) == UNION {{c} \X Matching(st[c], l, sub) : c \in Ctxs}

LEMMA TxnsInElement ==
  ASSUME NEW st, NEW l, NEW sub
  PROVE  /\ \A x \in TxnsIn(st, l, sub) : /\ x = <<x[1], x[2]>> /\ x[1] \in Ctxs
                                          /\ x[2] \in Matching(st[x[1]], l, sub)
         /\ \A c \in Ctxs : \A i \in Matching(st[c], l, sub) : <<c, i>> \in TxnsIn(st, l, sub)
         /\ \A c, i : <<c, i>> \in TxnsIn(st, l, sub) => c \in Ctxs /\ i \in Matching(st[c], l, sub)
BY DEF TxnsIn

(* S is finite and has n elements; one less or more than n.                  *)
Counts(S, n) == IsFiniteSet(S) /\ Cardinality(S) = n
Less(n, b) == IF b THEN n - 1 ELSE n
More(n, b) == IF b THEN n + 1 ELSE n

LEMMA CloseCount ==
  ASSUME NEW st \in [Ctxs -> Seq(TXN)], NEW c \in Ctxs, NEW k, NEW A, Closes(st[c], k, A),
         NEW l, NEW sub, IsFiniteSet(TxnsIn(st, l, sub))
  PROVE  Counts(TxnsIn(With(st, c, A), l, sub),
                Less(Cardinality(TxnsIn(st, l, sub)), k \in Matching(st[c], l, sub)))
<1> DEFINE tt == With(st, c, A)
           stk == st[c]
           T == TxnsIn(tt, l, sub)
           S == TxnsIn(st, l, sub) \ {<<c, k>>}
           F == [x \in T |-> IF x[1] = c THEN <<c, Src(k, x[2])>> ELSE x]
<1>1. /\ tt[c] = A /\ \A d \in Ctxs : d # c => tt[d] = st[d]
      /\ stk \in Seq(TXN) /\ Len(stk) \in Nat /\ A \in Seq(TXN) /\ Len(A) \in Nat /\ k \in 0 .. Len(stk)
      /\ Len(A) = IF k = 0 THEN Len(stk) ELSE Len(stk) - 1
      /\ \A p \in 1 .. Len(A) : A[p].lock = stk[Src(k, p)].lock /\ A[p].subLock = stk[Src(k, p)].subLock
  BY WithProperties DEF Closes
<1> HIDE DEF tt
<1>2. \A p \in 1 .. Len(A) : Src(k, p) \in 1 .. Len(stk) /\ Src(k, p) # k
  BY <1>1 DEF Src
<1>3. \A p, r \in 1 .. Len(A) : Src(k, p) = Src(k, r) => p = r
  BY <1>1 DEF Src
<1>4. \A i \in 1 .. Len(stk) : i # k => \E p \in 1 .. Len(A) : Src(k, p) = i
  <2> SUFFICES ASSUME NEW i \in 1 .. Len(stk), i # k
               PROVE  \E p \in 1 .. Len(A) : Src(k, p) = i
    OBVIOUS
  <2>1. CASE k = 0 \/ i < k
    <3>1. i \in 1 .. Len(A) /\ Src(k, i) = i
      BY <1>1, <2>1 DEF Src
    <3> QED BY <3>1
  <2>2. CASE k # 0 /\ i > k
    <3>1. i - 1 \in 1 .. Len(A) /\ Src(k, i - 1) = i
      BY <1>1, <2>2 DEF Src
    <3> QED BY <3>1
  <2> QED BY <1>1, <2>1, <2>2
<1>5. \A p : p \in Matching(A, l, sub) <=> p \in 1 .. Len(A) /\ Src(k, p) \in Matching(stk, l, sub)
  <2> TAKE p
  <2>1. CASE p \in 1 .. Len(A)
    BY <1>1, <1>2, <2>1 DEF Matching
  <2>2. CASE p \notin 1 .. Len(A)
    BY <2>2 DEF Matching
  <2> QED BY <2>1, <2>2
<1> HIDE DEF T, S, stk
<1>6. ASSUME NEW x \in T
      PROVE  /\ x = <<x[1], x[2]>> /\ x[1] \in Ctxs
             /\ F[x] \in S
             /\ x[1] = c => x[2] \in 1 .. Len(A) /\ F[x] = <<c, Src(k, x[2])>>
             /\ x[1] # c => F[x] = x
  <2>1. x = <<x[1], x[2]>> /\ x[1] \in Ctxs /\ x[2] \in Matching(tt[x[1]], l, sub)
    BY TxnsInElement DEF T
  <2>2. CASE x[1] = c
    <3>1. x[2] \in 1 .. Len(A) /\ Src(k, x[2]) \in Matching(stk, l, sub) /\ Src(k, x[2]) # k
      BY <1>1, <1>2, <1>5, <2>1, <2>2
    <3>2. <<c, Src(k, x[2])>> \in TxnsIn(st, l, sub)
      BY <3>1, TxnsInElement DEF stk
    <3> QED BY <2>1, <2>2, <3>1, <3>2 DEF S
  <2>3. CASE x[1] # c
    <3>1. x[2] \in Matching(st[x[1]], l, sub)
      BY <1>1, <2>1, <2>3
    <3>2. <<x[1], x[2]>> \in TxnsIn(st, l, sub)
      BY <2>1, <3>1, TxnsInElement
    <3>3. F[x] = x
      BY <2>3
    <3> HIDE DEF F
    <3>4. x \in TxnsIn(st, l, sub) /\ x # <<c, k>>
      BY <2>1, <2>3, <3>2
    <3> QED BY <2>1, <2>3, <3>3, <3>4 DEF S
  <2> QED BY <2>2, <2>3
<1>7. F \in [T -> S]
  BY <1>6
<1> HIDE DEF F
<1>8. ASSUME NEW x \in T, NEW y \in T, F[x] = F[y] PROVE x = y
  <2>1. CASE x[1] = c /\ y[1] = c
    <3>1. x[2] \in 1 .. Len(A) /\ y[2] \in 1 .. Len(A) /\ <<c, Src(k, x[2])>> = <<c, Src(k, y[2])>>
      BY <1>6, <1>8, <2>1
    <3>2. x[2] = y[2]
      BY <1>3, <3>1
    <3> QED BY <1>6, <2>1, <3>2
  <2>2. CASE x[1] # c /\ y[1] # c
    BY <1>6, <1>8, <2>2
  <2>3. CASE x[1] = c /\ y[1] # c
    <3>1. F[x][1] = c /\ F[y][1] = y[1]
      BY <1>6, <2>3
    <3> QED BY <1>8, <2>3, <3>1
  <2>4. CASE x[1] # c /\ y[1] = c
    <3>1. F[y][1] = c /\ F[x][1] = x[1]
      BY <1>6, <2>4
    <3> QED BY <1>8, <2>4, <3>1
  <2> QED BY <2>1, <2>2, <2>3, <2>4
<1>9. ASSUME NEW y \in S PROVE \E x \in T : F[x] = y
  <2>1. y \in TxnsIn(st, l, sub) /\ y # <<c, k>>
    BY DEF S
  <2>2. y = <<y[1], y[2]>> /\ y[1] \in Ctxs /\ y[2] \in Matching(st[y[1]], l, sub)
    BY <2>1, TxnsInElement
  <2>3. CASE y[1] = c
    <3>1. y[2] \in Matching(stk, l, sub) /\ y[2] \in 1 .. Len(stk) /\ y[2] # k
      BY <2>1, <2>2, <2>3 DEF Matching, stk
    <3>2. PICK p \in 1 .. Len(A) : Src(k, p) = y[2]
      BY <1>4, <3>1
    <3>3. p \in Matching(tt[c], l, sub)
      BY <1>1, <1>5, <3>1, <3>2
    <3>4. <<c, p>> \in T
      BY <3>3, TxnsInElement DEF T
    <3>5. F[<<c, p>>] = <<c, Src(k, p)>>
      BY <1>6, <3>4
    <3> QED BY <2>2, <2>3, <3>2, <3>4, <3>5
  <2>4. CASE y[1] # c
    <3>1. y[2] \in Matching(tt[y[1]], l, sub)
      BY <1>1, <2>2, <2>4
    <3>2. y \in T
      BY <2>2, <3>1, TxnsInElement DEF T
    <3>3. F[y] = y
      BY <1>6, <2>4, <3>2
    <3> QED BY <3>2, <3>3
  <2> QED BY <2>3, <2>4
<1>10. F \in Bijection(T, S)
  BY <1>7, <1>8, <1>9 DEF Bijection, Injection, Surjection, IsInjective
<1>11. ExistsBijection(S, T)
  BY <1>10, Fun_ExistsBijSymmetric DEF ExistsBijection
<1>12. /\ IsFiniteSet(S)
       /\ Cardinality(S) = IF <<c, k>> \in TxnsIn(st, l, sub) THEN Cardinality(TxnsIn(st, l, sub)) - 1
                           ELSE Cardinality(TxnsIn(st, l, sub))
  BY FS_RemoveElement DEF S
<1>13. <<c, k>> \in TxnsIn(st, l, sub) <=> k \in Matching(st[c], l, sub)
  BY TxnsInElement
<1>14. IsFiniteSet(T) /\ Cardinality(T) = Cardinality(S)
  BY <1>11, <1>12, FS_Bijection
<1> QED BY <1>12, <1>13, <1>14 DEF T, tt, Counts, Less

LEMMA StartCount ==
  ASSUME NEW st \in [Ctxs -> Seq(TXN)], NEW c \in Ctxs, NEW A \in Seq(TXN), NEW new \in TXN,
         NEW l, NEW sub, IsFiniteSet(TxnsIn(With(st, c, A), l, sub))
  PROVE  Counts(TxnsIn(With(st, c, Append(A, new)), l, sub),
                More(Cardinality(TxnsIn(With(st, c, A), l, sub)), new.lock = l /\ new.subLock = sub))
<1> DEFINE B == Append(A, new)
           s1 == With(st, c, A)
           s2 == With(st, c, B)
           T1 == TxnsIn(s1, l, sub)
           T2 == TxnsIn(s2, l, sub)
           x == <<c, Len(A) + 1>>
           is == new.lock = l /\ new.subLock = sub
<1>1. /\ Len(A) \in Nat /\ Len(B) = Len(A) + 1 /\ B[Len(A) + 1] = new
      /\ \A i \in 1 .. Len(A) : B[i] = A[i]
  BY AppendProperties, LenProperties
<1>2. s1[c] = A /\ s2[c] = B /\ \A d \in Ctxs : d # c => s1[d] = s2[d]
  <2>1. B \in Seq(TXN)
    BY AppendProperties
  <2> HIDE DEF B
  <2> QED BY <2>1, WithProperties
<1> HIDE DEF B, s1, s2
<1>3. \A p : p \in Matching(B, l, sub) <=> p \in Matching(A, l, sub) \/ (p = Len(A) + 1 /\ is)
  <2> TAKE p
  <2>1. CASE p \in 1 .. Len(A)
    BY <1>1, <2>1 DEF Matching
  <2>2. CASE p = Len(A) + 1
    BY <1>1, <2>2 DEF Matching
  <2>3. CASE p \notin 1 .. Len(A) /\ p # Len(A) + 1
    BY <1>1, <2>3 DEF Matching
  <2> QED BY <2>1, <2>2, <2>3
<1> HIDE DEF T1, T2, is
<1>4. x \notin T1
  <2>1. x \in T1 => Len(A) + 1 \in Matching(A, l, sub)
    BY <1>2, TxnsInElement DEF T1
  <2> QED BY <1>1, <2>1 DEF Matching
<1>5. is => T2 = T1 \cup {x}
  <2> SUFFICES ASSUME is PROVE T2 = T1 \cup {x}
    OBVIOUS
  <2>1. ASSUME NEW y \in T2 PROVE y \in T1 \cup {x}
    <3>1. y = <<y[1], y[2]>> /\ y[1] \in Ctxs /\ y[2] \in Matching(s2[y[1]], l, sub)
      BY TxnsInElement DEF T2
    <3>2. y[2] \in Matching(s1[y[1]], l, sub) \/ (y[1] = c /\ y[2] = Len(A) + 1)
      BY <1>2, <1>3, <3>1
    <3>3. CASE y[2] \in Matching(s1[y[1]], l, sub)
      <4>1. <<y[1], y[2]>> \in T1
        BY <3>1, <3>3, TxnsInElement DEF T1
      <4> QED BY <3>1, <4>1
    <3>4. CASE y[1] = c /\ y[2] = Len(A) + 1
      BY <3>1, <3>4
    <3> QED BY <3>2, <3>3, <3>4
  <2>2. ASSUME NEW y \in T1 PROVE y \in T2
    <3>1. y = <<y[1], y[2]>> /\ y[1] \in Ctxs /\ y[2] \in Matching(s1[y[1]], l, sub)
      BY TxnsInElement DEF T1
    <3>2. y[2] \in Matching(s2[y[1]], l, sub)
      BY <1>2, <1>3, <3>1
    <3>3. <<y[1], y[2]>> \in T2
      BY <3>1, <3>2, TxnsInElement DEF T2
    <3> QED BY <3>1, <3>3
  <2>3. x \in T2
    <3>1. Len(A) + 1 \in Matching(s2[c], l, sub)
      BY <1>2, <1>3
    <3> QED BY <3>1, TxnsInElement DEF T2
  <2> QED BY <2>1, <2>2, <2>3
<1>6. ~is => T2 = T1
  <2> SUFFICES ASSUME ~is PROVE T2 = T1
    OBVIOUS
  <2>1. Matching(B, l, sub) = Matching(A, l, sub)
    BY <1>3
  <2>2. \A d \in Ctxs : Matching(s1[d], l, sub) = Matching(s2[d], l, sub)
    BY <1>2, <2>1
  <2> QED BY <2>2 DEF T1, T2, TxnsIn
<1>7. CASE is
  <2>1. IsFiniteSet(T1 \cup {x}) /\ Cardinality(T1 \cup {x}) = Cardinality(T1) + 1
    BY <1>4, FS_AddElement DEF T1, s1
  <2> QED BY <1>5, <1>7, <2>1 DEF T1, T2, s1, s2, B, is, Counts, More
<1>8. CASE ~is
  BY <1>6, <1>8 DEF T1, T2, s1, s2, B, is, Counts, More
<1> QED BY <1>7, <1>8

-----------------------------------------------------------------------------
(* Positions, counters and TXNs *)

(* A lock counts at least its TXNs ...                                       *)
TakesCounted ==
  \A l \in Locks, sub \in SubLocks :
     IsFiniteSet(TxnsOf(l, sub)) /\ Cardinality(TxnsOf(l, sub)) <= count[l][sub]
(* ... and only on its own side, ...                                         *)
OtherSideUnused == \A l \in Locks, sub \in SubLocks : ~Takes(l, sub) => count[l][sub] = 0
(* ... and has a position for each, exactly one during the trace.            *)
Txns(l) == Cardinality(TxnsOf(l, "READER_LOCK")) + Cardinality(TxnsOf(l, "WRITER_LOCK"))
PositionsSuffice ==
  \A l \in Locks : /\ Len(lastNPos[l]) >= Txns(l)
                   /\ status = "tracing" => Len(lastNPos[l]) = Txns(l)
Sync == TakesCounted /\ OtherSideUnused /\ PositionsSuffice

LEMMA SyncNumbers ==
  ASSUME Sync
  PROVE  \A l \in Locks, sub \in SubLocks :
           IsFiniteSet(TxnsOf(l, sub)) /\ Cardinality(TxnsOf(l, sub)) \in Nat
BY FS_CardinalityType DEF Sync, TakesCounted

LEMMA TxnsOfIn ==
  \A l, sub : /\ TxnsOf(l, sub) = TxnsIn(m_activeTXNs, l, sub)
              /\ TxnsOf(l, sub)' = TxnsIn(m_activeTXNs', l, sub)
BY DEF TxnsOf, TxnsIn

(* What a sub lock (m, s) loses when the TXN k of (l, sub) is finished, and   *)
(* gains when, after that, a new one is started.                             *)
Lost(m, s, l, sub, k) == IF m = l /\ s = sub /\ k # 0 THEN 1 ELSE 0
Gained(m, s, l, sub, k) == IF m = l /\ s = sub /\ k = 0 THEN 1 ELSE 0

(* finishTXN in context c.                                                   *)
LEMMA ClosedCounts ==
  ASSUME TypeOK, Sync, NEW c \in Ctxs, NEW k, NEW A, Closes(m_activeTXNs[c], k, A),
         NEW l \in Locks, NEW sub \in SubLocks,
         k # 0 => k \in Matching(m_activeTXNs[c], l, sub),
         NEW m \in Locks, NEW s \in SubLocks
  PROVE  Counts(TxnsIn(With(m_activeTXNs, c, A), m, s),
                Cardinality(TxnsOf(m, s)) - Lost(m, s, l, sub, k))
<1>1. k \in Matching(m_activeTXNs[c], m, s) <=> m = l /\ s = sub /\ k # 0
  BY DEF Matching
<1>2. m_activeTXNs \in [Ctxs -> Seq(TXN)] /\ IsFiniteSet(TxnsOf(m, s)) /\ Cardinality(TxnsOf(m, s)) \in Nat
  BY SyncNumbers DEF TypeOK
<1>3. TxnsOf(m, s) = TxnsIn(m_activeTXNs, m, s)
  BY TxnsOfIn
<1>4. IsFiniteSet(TxnsIn(m_activeTXNs, m, s))
  BY <1>2, <1>3
<1>5. Counts(TxnsIn(With(m_activeTXNs, c, A), m, s),
             Less(Cardinality(TxnsIn(m_activeTXNs, m, s)), k \in Matching(m_activeTXNs[c], m, s)))
  BY <1>2, <1>4, CloseCount, Zenon
<1> QED BY <1>1, <1>2, <1>3, <1>5 DEF Less, Lost

IsFor(txn, l, sub) == txn.lock = l /\ txn.subLock = sub

(* finishTXN, if k is not 0, and startTXN in context c.                      *)
LEMMA TakenCounts ==
  ASSUME TypeOK, Sync, NEW c \in Ctxs, NEW k, NEW A, Closes(m_activeTXNs[c], k, A),
         NEW l \in Locks, NEW sub \in SubLocks,
         k # 0 => k \in Matching(m_activeTXNs[c], l, sub),
         NEW new \in TXN, IsFor(new, l, sub),
         m_activeTXNs' = With(m_activeTXNs, c, Append(A, new)),
         NEW m \in Locks, NEW s \in SubLocks
  PROVE  Counts(TxnsOf(m, s)',
                Cardinality(TxnsOf(m, s)) + Gained(m, s, l, sub, k))
<1>1. Counts(TxnsIn(With(m_activeTXNs, c, A), m, s),
             Cardinality(TxnsOf(m, s)) - Lost(m, s, l, sub, k))
  BY ClosedCounts, Zenon
<1>2. m_activeTXNs \in [Ctxs -> Seq(TXN)] /\ A \in Seq(TXN) /\ Cardinality(TxnsOf(m, s)) \in Nat
  BY SyncNumbers DEF TypeOK, Closes
<1>3. TxnsOf(m, s)' = TxnsIn(With(m_activeTXNs, c, Append(A, new)), m, s)
  BY TxnsOfIn
<1>4. Counts(TxnsIn(With(m_activeTXNs, c, Append(A, new)), m, s),
             More(Cardinality(TxnsIn(With(m_activeTXNs, c, A), m, s)), new.lock = m /\ new.subLock = s))
  <2>1. IsFiniteSet(TxnsIn(With(m_activeTXNs, c, A), m, s))
    BY <1>1 DEF Counts
  <2> QED BY <1>2, <2>1, StartCount, Zenon
<1> QED BY <1>1, <1>2, <1>3, <1>4 DEF Counts, More, Lost, Gained, IsFor

(* A lock of one side has TXNs of that side only.                            *)
LEMMA OneSideOnly ==
  ASSUME OneSided, Sync, TypeOK, NEW l \in Locks, NEW sub \in SubLocks, Takes(l, sub)
  PROVE  /\ \A s \in SubLocks : s # sub => ~Takes(l, s) /\ count[l][s] = 0 /\ Cardinality(TxnsOf(l, s)) = 0
         /\ Txns(l) = Cardinality(TxnsOf(l, sub))
<1>1. ASSUME NEW s \in SubLocks, s # sub
      PROVE  ~Takes(l, s) /\ count[l][s] = 0 /\ Cardinality(TxnsOf(l, s)) = 0
  <2>1. ~Takes(l, s)
    BY <1>1 DEF OneSided, Takes, SubLocks
  <2>2. count[l][s] = 0
    BY <2>1 DEF Sync, OtherSideUnused
  <2>3. Cardinality(TxnsOf(l, s)) <= 0 /\ Cardinality(TxnsOf(l, s)) \in Nat
    BY <2>2, SyncNumbers DEF Sync, TakesCounted
  <2> QED BY <2>1, <2>2, <2>3
<1>2. Txns(l) = Cardinality(TxnsOf(l, sub))
  <2>1. /\ Cardinality(TxnsOf(l, "READER_LOCK")) \in Nat /\ Cardinality(TxnsOf(l, "WRITER_LOCK")) \in Nat
        /\ "READER_LOCK" \in SubLocks /\ "WRITER_LOCK" \in SubLocks
    BY SyncNumbers DEF SubLocks
  <2>2. CASE sub = "READER_LOCK"
    BY <1>1, <2>1, <2>2 DEF Txns
  <2>3. CASE sub = "WRITER_LOCK"
    BY <1>1, <2>1, <2>3 DEF Txns
  <2> QED BY <2>2, <2>3 DEF SubLocks
<1> QED BY <1>1, <1>2

(* The sum over the sides, when only the side sub changes, by n.              *)
LEMMA TxnsChange ==
  ASSUME Sync, NEW m \in Locks, NEW n \in Int, NEW sub \in SubLocks,
         \A s \in SubLocks : Cardinality(TxnsOf(m, s)') = Cardinality(TxnsOf(m, s)) + (IF s = sub THEN n ELSE 0)
  PROVE  Txns(m)' = Txns(m) + n
<1>1. /\ Cardinality(TxnsOf(m, "READER_LOCK")) \in Nat /\ Cardinality(TxnsOf(m, "WRITER_LOCK")) \in Nat
      /\ "READER_LOCK" \in SubLocks /\ "WRITER_LOCK" \in SubLocks
  BY SyncNumbers DEF SubLocks
<1>2. /\ Txns(m)' = Cardinality(TxnsOf(m, "READER_LOCK")') + Cardinality(TxnsOf(m, "WRITER_LOCK")')
      /\ Txns(m) = Cardinality(TxnsOf(m, "READER_LOCK")) + Cardinality(TxnsOf(m, "WRITER_LOCK"))
  BY DEF Txns
<1>3. CASE sub = "READER_LOCK"
  BY <1>1, <1>2, <1>3
<1>4. CASE sub = "WRITER_LOCK"
  BY <1>1, <1>2, <1>4
<1> QED BY <1>3, <1>4 DEF SubLocks

(* The end of a P: finishTXN popped a position for the TXN it found, and     *)
(* Take adds one of each.                                                    *)
LEMMA TakeSync ==
  ASSUME TypeOK, Sync, status = "tracing", NEW l \in Locks, NEW sub \in SubLocks, Takes(l, sub),
         NEW c \in Ctxs, NEW k, NEW A, Closes(m_activeTXNs[c], k, A),
         k # 0 => k \in Matching(m_activeTXNs[c], l, sub),
         NEW pos \in Seq(LockPos), NEW n \in Nat,
         Len(pos) = Len(lastNPos[l]) - (IF k # 0 THEN 1 ELSE 0),
         Take(l, sub, c, count[l], pos, A, n)
  PROVE  Sync'
<1> DEFINE new == [id |-> n, start_ts |-> ts + 1, start_ctx |-> c,
                   memAccessCounter |-> 0, lock |-> l, subLock |-> sub]
           lp == [subLock |-> sub, start |-> ts + 1]
           g == IF k = 0 THEN 1 ELSE 0
<1>1. new \in TXN /\ IsFor(new, l, sub) /\ lp \in LockPos
  BY DEF TypeOK, TXN, IsFor, LockPos
<1>2. /\ m_activeTXNs' = With(m_activeTXNs, c, Append(A, new))
      /\ lastNPos' = [lastNPos EXCEPT ![l] = Append(pos, lp)]
      /\ count' = [count EXCEPT ![l] = [count[l] EXCEPT ![sub] = @ + 1]]
  BY DEF Take, With
<1> HIDE DEF new, lp
<1>3. ASSUME NEW m \in Locks, NEW s \in SubLocks
      PROVE  Counts(TxnsOf(m, s)', Cardinality(TxnsOf(m, s)) + Gained(m, s, l, sub, k))
  BY <1>1, <1>2, TakenCounts, Zenon
<1>4. ASSUME NEW m \in Locks, NEW s \in SubLocks
      PROVE  /\ count'[m][s] = count[m][s] + (IF m = l /\ s = sub THEN 1 ELSE 0)
             /\ count[m][s] \in Nat
  BY <1>2 DEF TypeOK
<1>5. ASSUME NEW m \in Locks
      PROVE  Len(lastNPos'[m]) = Len(lastNPos[m]) + (IF m = l THEN g ELSE 0)
  <2>1. lastNPos \in [Locks -> Seq(LockPos)] /\ Len(lastNPos[m]) \in Nat /\ Len(pos) \in Nat
    BY LenProperties DEF TypeOK
  <2>2. Len(Append(pos, lp)) = Len(pos) + 1
    BY <1>1, AppendProperties
  <2>3. lastNPos'[m] = IF m = l THEN Append(pos, lp) ELSE lastNPos[m]
    BY <1>2, <2>1
  <2> QED BY <2>1, <2>2, <2>3
<1>6. TakesCounted'
  <2> SUFFICES ASSUME NEW m \in Locks, NEW s \in SubLocks
               PROVE  IsFiniteSet(TxnsOf(m, s)') /\ Cardinality(TxnsOf(m, s)') <= count'[m][s]
    BY DEF TakesCounted
  <2>1. Cardinality(TxnsOf(m, s)) <= count[m][s] /\ Cardinality(TxnsOf(m, s)) \in Nat
    BY SyncNumbers DEF Sync, TakesCounted
  <2> QED BY <1>3, <1>4, <2>1 DEF Counts, Gained
<1>7. OtherSideUnused'
  <2> SUFFICES ASSUME NEW m \in Locks, NEW s \in SubLocks, ~Takes(m, s) PROVE count'[m][s] = 0
    BY DEF OtherSideUnused, Takes
  <2>1. ~(m = l /\ s = sub) /\ count[m][s] = 0
    BY DEF Sync, OtherSideUnused
  <2>2. count'[m][s] = count[m][s] + 0
    BY <1>4, <2>1
  <2> QED BY <2>1, <2>2
<1>8. PositionsSuffice'
  <2> SUFFICES ASSUME NEW m \in Locks PROVE Len(lastNPos'[m]) = Txns(m)' /\ Txns(m)' \in Nat
    BY DEF PositionsSuffice
  <2>1. Len(lastNPos[m]) = Txns(m) /\ Len(lastNPos[m]) \in Nat
    BY DEF Sync, PositionsSuffice, TypeOK
  <2>2. \A s \in SubLocks : Cardinality(TxnsOf(m, s)') = Cardinality(TxnsOf(m, s))
                              + (IF s = sub THEN (IF m = l THEN g ELSE 0) ELSE 0)
    BY <1>3, SyncNumbers DEF Counts, Gained
  <2>3. Txns(m)' = Txns(m) + (IF m = l THEN g ELSE 0)
    <3> DEFINE n2 == IF m = l THEN g ELSE 0
    <3>1. n2 \in Int
      OBVIOUS
    <3> HIDE DEF n2
    <3>2. \A s \in SubLocks : Cardinality(TxnsOf(m, s)') = Cardinality(TxnsOf(m, s)) + (IF s = sub THEN n2 ELSE 0)
      BY <2>2 DEF n2
    <3>3. Txns(m)' = Txns(m) + n2
      BY <3>1, <3>2, TxnsChange
    <3> QED BY <3>3 DEF n2
  <2>4. Len(lastNPos'[m]) = Len(lastNPos[m]) + (IF m = l THEN g ELSE 0)
    BY <1>5
  <2>5. (IF m = l THEN g ELSE 0) \in Nat
    OBVIOUS
  <2> HIDE DEF g
  <2> QED BY <2>1, <2>3, <2>4, <2>5
<1> QED BY <1>6, <1>7, <1>8 DEF Sync

(* finishTXN alone, in context c: one TXN less, or none.                     *)
LEMMA FinishCounts ==
  ASSUME TypeOK, Sync, NEW c \in Ctxs, NEW l \in Locks, NEW sub \in SubLocks, NEW t \in Nat,
         m_activeTXNs' = [m_activeTXNs EXCEPT ![c] = StackAfter(c, l, sub, t, FALSE)],
         NEW m \in Locks, NEW s \in SubLocks
  PROVE  Counts(TxnsOf(m, s)', Cardinality(TxnsOf(m, s)) - Lost(m, s, l, sub, Found(c, l, sub)))
<1> DEFINE A == StackAfter(c, l, sub, t, FALSE)
           k == Found(c, l, sub)
<1>1. Closes(m_activeTXNs[c], k, A)
  BY FinishCloses
<1>2. k # 0 => k \in Matching(m_activeTXNs[c], l, sub)
  BY FoundProperties DEF Matching
<1>3. TxnsOf(m, s)' = TxnsIn(With(m_activeTXNs, c, A), m, s)
  BY TxnsOfIn DEF With
<1> HIDE DEF A, k
<1>4. Counts(TxnsIn(With(m_activeTXNs, c, A), m, s), Cardinality(TxnsOf(m, s)) - Lost(m, s, l, sub, k))
  BY <1>1, <1>2, ClosedCounts, Zenon
<1> QED BY <1>3, <1>4 DEF k

LEMMA FinishTxns ==
  ASSUME TypeOK, Sync, NEW c \in Ctxs, NEW l \in Locks, NEW sub \in SubLocks, NEW t \in Nat,
         m_activeTXNs' = [m_activeTXNs EXCEPT ![c] = StackAfter(c, l, sub, t, FALSE)],
         NEW m \in Locks
  PROVE  Txns(m)' = Txns(m) - Lost(m, sub, l, sub, Found(c, l, sub))
<1> DEFINE n == 0 - Lost(m, sub, l, sub, Found(c, l, sub))
<1>1. n \in Int
  BY DEF Lost
<1>2. \A s \in SubLocks : Cardinality(TxnsOf(m, s)') = Cardinality(TxnsOf(m, s)) + (IF s = sub THEN n ELSE 0)
  <2> TAKE s \in SubLocks
  <2>1. Counts(TxnsOf(m, s)', Cardinality(TxnsOf(m, s)) - Lost(m, s, l, sub, Found(c, l, sub)))
    BY FinishCounts
  <2>2. Cardinality(TxnsOf(m, s)) \in Nat
    BY SyncNumbers
  <2> QED BY <2>1, <2>2 DEF Counts, Lost
<1> HIDE DEF n
<1>3. Txns(m)' = Txns(m) + n
  BY <1>1, <1>2, TxnsChange
<1>4. Txns(m) \in Int
  BY SyncNumbers DEF Txns, SubLocks
<1>5. Lost(m, sub, l, sub, Found(c, l, sub)) \in Int
  BY DEF Lost
<1> QED BY <1>3, <1>4, <1>5 DEF n

(* A V whose TXN is found nowhere has no TXN.                                *)
LEMMA ReleaseFinds ==
  ASSUME TypeOK, NEW c \in Ctxs, NEW l \in Locks, NEW sub \in SubLocks, NEW d,
         d = IF isOnTXNStack(c, l, sub) THEN c ELSE findTXN(l, sub, c)
  PROVE  d \in Ctxs /\ (Found(d, l, sub) = 0 => Cardinality(TxnsOf(l, sub)) = 0)
<1>1. d \in Ctxs /\ (isOnTXNStack(d, l, sub) \/ \A e \in Ctxs : ~isOnTXNStack(e, l, sub))
  BY ReleaseCtxType
<1>2. Found(d, l, sub) = 0 => Matching(m_activeTXNs[d], l, sub) = {}
  <2>1. Len(m_activeTXNs[d]) \in Nat
    BY <1>1, FoundProperties
  <2>2. Matching(m_activeTXNs[d], l, sub) \in SUBSET (1 .. Len(m_activeTXNs[d]))
    BY DEF Matching
  <2> QED BY <2>1, <2>2, TopmostProperties DEF Found
<1>3. Found(d, l, sub) = 0 => \A e \in Ctxs : Matching(m_activeTXNs[e], l, sub) = {}
  BY <1>1, <1>2 DEF isOnTXNStack
<1>4. Found(d, l, sub) = 0 => TxnsOf(l, sub) = {}
  BY <1>3 DEF TxnsOf
<1> QED BY <1>1, <1>4, FS_EmptySet

LEMMA PopLength ==
  ASSUME NEW S, NEW s \in Seq(S), s # <<>>
  PROVE  Pop(s) \in Seq(S) /\ Len(Pop(s)) = Len(s) - 1
<1> DEFINE n == Len(s) - 1
<1>1. Len(s) \in Nat /\ n \in Nat /\ \A i \in 1 .. n : s[i] \in S
  OBVIOUS
<1> HIDE DEF n
<1>2. Len(SubSeq(s, 1, n)) = IF 1 <= n THEN n - 1 + 1 ELSE 0
  <2>1. 1 \in Int /\ n \in Int
    BY <1>1
  <2> QED BY <1>1, <2>1, SubSeqProperties
<1>3. Len(SubSeq(s, 1, n)) = n
  BY <1>1, <1>2
<1> QED BY <1>3, PopType DEF Pop, n

LEMMA VSync ==
  ASSUME TypeOK, Sync, NEW l \in Locks, NEW sub \in SubLocks, NEW c \in Ctxs, V(l, sub, c)
  PROVE  Sync'
<1> DEFINE d == IF isOnTXNStack(c, l, sub) THEN c ELSE findTXN(l, sub, c)
           k == Found(d, l, sub)
<1>1. d \in Ctxs /\ (k = 0 => Cardinality(TxnsOf(l, sub)) = 0)
  BY ReleaseFinds
<1>2. /\ status = "tracing" /\ status' = "tracing" /\ ts + 1 \in Nat
      /\ count' = [count EXCEPT ![l][sub] = Decremented(@)]
  BY DEF V, Event, TypeOK
<1>3. ASSUME NEW m \in Locks, NEW s \in SubLocks
      PROVE  /\ count[m][s] \in Nat
             /\ count'[m][s] = IF m = l /\ s = sub THEN Decremented(count[l][sub]) ELSE count[m][s]
  BY <1>2 DEF TypeOK
<1>4. OtherSideUnused'
  <2> SUFFICES ASSUME NEW m \in Locks, NEW s \in SubLocks, ~Takes(m, s) PROVE count'[m][s] = 0
    BY DEF OtherSideUnused, Takes
  <2>1. count[m][s] = 0
    BY DEF Sync, OtherSideUnused
  <2> QED BY <1>3, <2>1 DEF Decremented
<1>5. /\ \A m \in Locks : Len(lastNPos[m]) = Txns(m) /\ Len(lastNPos[m]) \in Nat
      /\ \A m \in Locks, s \in SubLocks : /\ Cardinality(TxnsOf(m, s)) <= count[m][s]
                                          /\ IsFiniteSet(TxnsOf(m, s)) /\ Cardinality(TxnsOf(m, s)) \in Nat
  <2>1. \A m \in Locks : Len(lastNPos[m]) \in Nat
    BY DEF TypeOK
  <2> QED BY <1>2, <2>1, SyncNumbers DEF Sync, PositionsSuffice, TakesCounted
<1>6. CASE lastNPos[l] = <<>>
  <2>1. m_activeTXNs' = m_activeTXNs /\ lastNPos' = lastNPos
    BY <1>6 DEF V
  <2>2. \A m \in Locks, s \in SubLocks : TxnsOf(m, s)' = TxnsOf(m, s)
    BY <2>1 DEF TxnsOf
  <2>3. Cardinality(TxnsOf(l, sub)) = 0
    <3>1. Txns(l) = 0
      BY <1>5, <1>6
    <3>2. /\ Cardinality(TxnsOf(l, "READER_LOCK")) \in Nat /\ Cardinality(TxnsOf(l, "WRITER_LOCK")) \in Nat
          /\ sub \in {"READER_LOCK", "WRITER_LOCK"}
      BY <1>5 DEF SubLocks
    <3> QED BY <3>1, <3>2 DEF Txns
  <2>4. TakesCounted'
    <3> SUFFICES ASSUME NEW m \in Locks, NEW s \in SubLocks
                 PROVE  IsFiniteSet(TxnsOf(m, s)') /\ Cardinality(TxnsOf(m, s)') <= count'[m][s]
      BY DEF TakesCounted
    <3> QED BY <1>3, <1>5, <2>2, <2>3 DEF Decremented
  <2>5. PositionsSuffice'
    <3>1. \A m \in Locks : Txns(m)' = Txns(m) /\ Len(lastNPos'[m]) = Len(lastNPos[m])
      BY <2>1, <2>2 DEF Txns, SubLocks
    <3> QED BY <1>5, <3>1 DEF PositionsSuffice
  <2> QED BY <1>4, <2>4, <2>5 DEF Sync
<1>7. CASE lastNPos[l] # <<>>
  <2>1. /\ m_activeTXNs' = [m_activeTXNs EXCEPT ![d] = StackAfter(d, l, sub, ts + 1, FALSE)]
        /\ lastNPos' = [lastNPos EXCEPT ![l] = PositionsAfter(l, k # 0)]
    BY <1>7 DEF V
  <2>2. k \in Nat
    BY <1>1, FoundProperties
  <2> HIDE DEF d, k
  <2>3. ASSUME NEW m \in Locks, NEW s \in SubLocks
        PROVE  Counts(TxnsOf(m, s)', Cardinality(TxnsOf(m, s)) - Lost(m, s, l, sub, k))
    BY <1>1, <1>2, <2>1, FinishCounts DEF k
  <2>4. ASSUME NEW m \in Locks
        PROVE  Txns(m)' = Txns(m) - Lost(m, sub, l, sub, k)
    BY <1>1, <1>2, <2>1, FinishTxns DEF k
  <2>5. TakesCounted'
    <3> SUFFICES ASSUME NEW m \in Locks, NEW s \in SubLocks
                 PROVE  IsFiniteSet(TxnsOf(m, s)') /\ Cardinality(TxnsOf(m, s)') <= count'[m][s]
      BY DEF TakesCounted
    <3>1. Counts(TxnsOf(m, s)', Cardinality(TxnsOf(m, s)) - Lost(m, s, l, sub, k))
      BY <2>3
    <3>2. CASE m = l /\ s = sub
      BY <1>1, <1>3, <1>5, <3>1, <3>2 DEF Counts, Lost, Decremented
    <3>3. CASE ~(m = l /\ s = sub)
      BY <1>3, <1>5, <3>1, <3>3 DEF Counts, Lost
    <3> QED BY <3>2, <3>3
  <2>6. PositionsSuffice'
    <3> SUFFICES ASSUME NEW m \in Locks PROVE Len(lastNPos'[m]) = Txns(m)' /\ Txns(m)' \in Nat
      BY DEF PositionsSuffice
    <3>1. lastNPos \in [Locks -> Seq(LockPos)] /\ lastNPos[l] \in Seq(LockPos)
      BY DEF TypeOK
    <3>2. Len(PositionsAfter(l, k # 0)) = Len(lastNPos[l]) - Lost(l, sub, l, sub, k)
      BY <1>5, <1>7, <3>1, PopLength DEF PositionsAfter, Lost
    <3>3. lastNPos'[m] = IF m = l THEN PositionsAfter(l, k # 0) ELSE lastNPos[m]
      BY <2>1, <3>1
    <3>4. Len(lastNPos[l]) # 0
      BY <1>7, <3>1
    <3> QED BY <1>5, <2>4, <3>2, <3>3, <3>4 DEF Lost
  <2> QED BY <1>4, <2>5, <2>6 DEF Sync
<1> QED BY <1>6, <1>7

LEMMA CloseSync ==
  ASSUME TypeOK, Sync, NEW c \in Ctxs, CloseTXN(c)
  PROVE  Sync'
<1> DEFINE l == getActiveTXN(c).lock
           sub == getActiveTXN(c).subLock
           k == Found(c, l, sub)
<1>1. l \in Locks /\ sub \in SubLocks
  <2>1. m_activeTXNs[c] \in Seq(TXN) /\ m_activeTXNs[c] # <<>>
    BY DEF TypeOK, CloseTXN, hasActiveTXN
  <2>2. getActiveTXN(c) \in TXN
    BY <2>1 DEF getActiveTXN, Top
  <2> QED BY <2>2 DEF TXN
<1>2. /\ m_activeTXNs' = [m_activeTXNs EXCEPT ![c] = StackAfter(c, l, sub, ts, FALSE)]
      /\ ts \in Nat /\ status' = "closing" /\ count' = count /\ lastNPos' = lastNPos
  BY DEF CloseTXN, TypeOK, lockState
<1> HIDE DEF l, sub, k
<1>3. ASSUME NEW m \in Locks, NEW s \in SubLocks
      PROVE  Counts(TxnsOf(m, s)', Cardinality(TxnsOf(m, s)) - Lost(m, s, l, sub, k))
  BY <1>1, <1>2, FinishCounts DEF k
<1>4. ASSUME NEW m \in Locks
      PROVE  Txns(m)' = Txns(m) - Lost(m, sub, l, sub, k)
  BY <1>1, <1>2, FinishTxns DEF k
<1>5. TakesCounted'
  <2> SUFFICES ASSUME NEW m \in Locks, NEW s \in SubLocks
               PROVE  IsFiniteSet(TxnsOf(m, s)') /\ Cardinality(TxnsOf(m, s)') <= count[m][s]
    BY <1>2 DEF TakesCounted
  <2>1. /\ Cardinality(TxnsOf(m, s)) <= count[m][s] /\ Cardinality(TxnsOf(m, s)) \in Nat
        /\ count[m][s] \in Nat
    BY SyncNumbers DEF Sync, TakesCounted, TypeOK
  <2> QED BY <1>3, <2>1 DEF Counts, Lost
<1>6. OtherSideUnused'
  BY <1>2 DEF Sync, OtherSideUnused, Takes
<1>7. PositionsSuffice'
  <2> SUFFICES ASSUME NEW m \in Locks PROVE Len(lastNPos[m]) >= Txns(m)'
    BY <1>2 DEF PositionsSuffice
  <2>1. /\ Len(lastNPos[m]) >= Txns(m) /\ Len(lastNPos[m]) \in Nat /\ Txns(m) \in Nat
    BY SyncNumbers DEF Sync, PositionsSuffice, TypeOK, Txns, SubLocks
  <2> QED BY <1>4, <2>1 DEF Lost
<1> QED BY <1>5, <1>6, <1>7 DEF Sync

(* A step that changes no lock, no position and no lock of a TXN.            *)
LEMMA SameSync ==
  ASSUME TypeOK, Sync, UNCHANGED lockState, status' = "tracing" => status = "tracing",
         \A c \in Ctxs : /\ Len(m_activeTXNs'[c]) = Len(m_activeTXNs[c])
                         /\ \A i \in 1 .. Len(m_activeTXNs[c]) :
                              /\ m_activeTXNs'[c][i].lock = m_activeTXNs[c][i].lock
                              /\ m_activeTXNs'[c][i].subLock = m_activeTXNs[c][i].subLock
  PROVE  Sync'
<1>1. \A c \in Ctxs : \A l, sub : Matching(m_activeTXNs'[c], l, sub) = Matching(m_activeTXNs[c], l, sub)
  BY DEF Matching
<1>2. \A l, sub : TxnsOf(l, sub)' = TxnsOf(l, sub)
  BY <1>1 DEF TxnsOf
<1>3. \A l : Txns(l)' = Txns(l)
  BY <1>2 DEF Txns
<1>4. count' = count /\ lastNPos' = lastNPos
  BY DEF lockState
<1>5. TakesCounted'
  BY <1>2, <1>4 DEF Sync, TakesCounted
<1>6. OtherSideUnused'
  BY <1>4 DEF Sync, OtherSideUnused, Takes
<1>7. PositionsSuffice'
  BY <1>3, <1>4 DEF Sync, PositionsSuffice
<1> QED BY <1>5, <1>6, <1>7 DEF Sync

LEMMA PSync ==
  ASSUME TypeOK, Sync, NEW l \in Locks, NEW sub \in SubLocks, NEW c \in Ctxs, NEW recursive,
         P(l, sub, c, recursive)
  PROVE  Sync'
<1>1. /\ status = "tracing" /\ Takes(l, sub)
      /\ Take(l, sub, c, count[l], lastNPos[l], m_activeTXNs[c], m_nextTXNID)
  BY DEF P, Event
<1>2. /\ m_activeTXNs[c] \in Seq(TXN) /\ lastNPos[l] \in Seq(LockPos) /\ m_nextTXNID \in Nat
      /\ Len(m_activeTXNs[c]) \in Nat /\ Len(lastNPos[l]) \in Nat
  BY DEF TypeOK
<1>3. Closes(m_activeTXNs[c], 0, m_activeTXNs[c])
  BY <1>2 DEF Closes, Src
<1>4. Len(lastNPos[l]) = Len(lastNPos[l]) - (IF 0 # 0 THEN 1 ELSE 0)
  BY <1>2
<1> QED BY <1>1, <1>2, <1>3, <1>4, TakeSync

(* The topmost TXN of a lock that is written again has its position: the     *)
(* pop of P_WRITE_again is never one of an empty stack.                      *)
LEMMA FoundHasPosition ==
  ASSUME TypeOK, Sync, NEW c \in Ctxs, NEW l \in Locks, NEW sub \in SubLocks, Found(c, l, sub) # 0
  PROVE  lastNPos[l] # <<>> /\ Len(lastNPos[l]) # 0
<1> DEFINE k == Found(c, l, sub)
<1>1. <<c, k>> \in TxnsOf(l, sub)
  <2>1. k \in Matching(m_activeTXNs[c], l, sub)
    BY FoundProperties DEF Matching
  <2>2. <<c, k>> \in TxnsIn(m_activeTXNs, l, sub)
    BY <2>1, TxnsInElement
  <2> QED BY <2>2, TxnsOfIn
<1>2. Cardinality(TxnsOf(l, sub)) # 0
  BY <1>1, SyncNumbers, FS_EmptySet
<1>3. Txns(l) \in Nat /\ Txns(l) # 0
  <2>1. /\ Cardinality(TxnsOf(l, "READER_LOCK")) \in Nat /\ Cardinality(TxnsOf(l, "WRITER_LOCK")) \in Nat
        /\ sub \in {"READER_LOCK", "WRITER_LOCK"}
    BY SyncNumbers DEF SubLocks
  <2> QED BY <1>2, <2>1 DEF Txns
<1>4. Len(lastNPos[l]) >= Txns(l) /\ Len(lastNPos[l]) \in Nat
  BY DEF Sync, PositionsSuffice, TypeOK
<1>5. Len(lastNPos[l]) # 0
  BY <1>3, <1>4
<1> QED BY <1>5

LEMMA PWriteAgainSync ==
  ASSUME TypeOK, Sync, NEW l \in Locks, NEW c \in Ctxs, P_WRITE_again(l, c)
  PROVE  Sync' /\ status' = status
<1> DEFINE sub == "WRITER_LOCK"
           k == Found(c, l, sub)
           A == StackAfter(c, l, sub, ts + 1, FALSE)
           n == NextIDAfter(c, l, sub)
           pos == PositionsAfter(l, k # 0)
<1>1. /\ status = "tracing" /\ Takes(l, sub) /\ Take(l, sub, c, count[l], pos, A, n)
      /\ status' = IF k # 0 /\ lastNPos[l] = <<>> THEN "undefined" ELSE status
      /\ sub \in SubLocks /\ ts + 1 \in Nat
  <2>1. sub \in SubLocks /\ ts + 1 \in Nat
    BY DEF SubLocks, TypeOK
  <2>2. /\ status = "tracing" /\ Takes(l, sub) /\ Take(l, sub, c, count[l], pos, A, n)
        /\ status' = IF k # 0 /\ lastNPos[l] = <<>> THEN "undefined" ELSE status
    BY Zenon DEF P_WRITE_again, Event
  <2> QED BY <2>1, <2>2
<1>2. Closes(m_activeTXNs[c], k, A)
  BY <1>1, FinishCloses
<1>3. k # 0 => k \in Matching(m_activeTXNs[c], l, sub)
  BY FoundProperties DEF Matching
<1>4. k # 0 => lastNPos[l] # <<>>
  BY <1>1, FoundHasPosition
<1>5. pos \in Seq(LockPos) /\ Len(pos) = Len(lastNPos[l]) - (IF k # 0 THEN 1 ELSE 0)
  <2>1. lastNPos[l] \in Seq(LockPos) /\ Len(lastNPos[l]) \in Nat
    BY DEF TypeOK
  <2> HIDE DEF k
  <2> QED BY <1>4, <2>1, PopLength DEF PositionsAfter
<1>6. n \in Nat
  BY <1>1, FinishTypes
<1> HIDE DEF sub, k, A, n, pos
<1>7. Sync'
  BY <1>1, <1>2, <1>3, <1>5, <1>6, TakeSync
<1> QED BY <1>1, <1>4, <1>7

LEMMA OneSidedNeverFlushes ==
  ASSUME OneSided, TypeOK, Sync, NEW l \in Locks, NEW sub \in SubLocks, NEW c \in Ctxs
  PROVE  ~P_flush(l, sub, c) /\ ~P_flush_fault(l, sub, c)
<1>1. Takes(l, sub) => count[l][Other(sub)] = 0
  <2>1. Other(sub) \in SubLocks /\ Other(sub) # sub
    BY DEF Other, SubLocks
  <2> QED BY <2>1, OneSideOnly
<1>2. (P_flush(l, sub, c) \/ P_flush_fault(l, sub, c)) => Takes(l, sub) /\ count[l][Other(sub)] > 0
  BY DEF P_flush, P_flush_fault
<1> QED BY <1>1, <1>2

(* A TXN stands for a lock that is held and has a position.                  *)
LEMMA TxnsHeld ==
  ASSUME TypeOK, Sync, NEW c \in Ctxs, NEW i \in 1 .. Len(m_activeTXNs[c])
  PROVE  isHeld(m_activeTXNs[c][i].lock) /\ lastNPos[m_activeTXNs[c][i].lock] # <<>>
<1> DEFINE l == m_activeTXNs[c][i].lock
           sub == m_activeTXNs[c][i].subLock
<1>1. l \in Locks /\ sub \in SubLocks
  <2>1. m_activeTXNs[c][i] \in TXN
    BY DEF TypeOK
  <2> QED BY <2>1 DEF TXN
<1>2. <<c, i>> \in TxnsOf(l, sub)
  <2>1. i \in Matching(m_activeTXNs[c], l, sub)
    BY DEF Matching
  <2>2. <<c, i>> \in TxnsIn(m_activeTXNs, l, sub)
    BY <2>1, TxnsInElement
  <2> QED BY <2>2, TxnsOfIn
<1> HIDE DEF l, sub
<1>3. Cardinality(TxnsOf(l, sub)) \in Nat /\ Cardinality(TxnsOf(l, sub)) # 0
  BY <1>1, <1>2, SyncNumbers, FS_EmptySet
<1>4. Cardinality(TxnsOf(l, sub)) <= count[l][sub] /\ count[l][sub] \in Nat
  BY <1>1 DEF Sync, TakesCounted, TypeOK
<1>5. count[l][sub] > 0
  BY <1>3, <1>4
<1>6. Takes(l, sub)
  BY <1>1, <1>5 DEF Sync, OtherSideUnused
<1>7. lastNPos[l] # <<>>
  <2>1. Found(c, l, sub) # 0
    <3>1. i \in Matching(m_activeTXNs[c], l, sub)
      BY DEF Matching, l, sub
    <3>2. /\ Len(m_activeTXNs[c]) \in Nat
          /\ Matching(m_activeTXNs[c], l, sub) \in SUBSET (1 .. Len(m_activeTXNs[c]))
      BY FoundProperties DEF Matching
    <3> QED BY <3>1, <3>2, TopmostProperties DEF Found
  <2> QED BY <1>1, <2>1, FoundHasPosition
<1> QED BY <1>1, <1>5, <1>6, <1>7 DEF isHeld, l

-----------------------------------------------------------------------------
(* What is written *)

(* The TXNs of context c up to position q stay, those above it are closed,    *)
(* and the stack becomes B, whose TXNs above q are new.                      *)
Cut(c, q, B) ==
  /\ B \in Seq(TXN) /\ q \in 0 .. Len(m_activeTXNs[c]) /\ q <= Len(B)
  /\ \A i \in 1 .. q : B[i] = m_activeTXNs[c][i]
  /\ \A i \in 1 .. Len(B) : i > q => B[i].id >= m_nextTXNID
  /\ m_activeTXNs' = With(m_activeTXNs, c, B)
  /\ \E t, e : txns' = txns \cup TxnRows(m_activeTXNs[c], q + 1, t, e)
  /\ locks_held' = locks_held \cup HeldRows(m_activeTXNs[c], q + 1)
  /\ accesses' = accesses

(* A TXN has held rows only once it is written.                              *)
RowsWritten == \A h \in locks_held : \E r \in txns : r.id = h.txn

(* What was held at an access of an active TXN is what the TXNs up to it     *)
(* stand for now.                                                            *)
HeldUpTo(stk, i) == [j \in 1 .. i |-> <<stk[j].lock, stk[j].subLock>>]
HeldAtAccess ==
  \A c \in Ctxs : \A i \in 1 .. Len(m_activeTXNs[c]) : \A a \in AccessesOf(m_activeTXNs[c][i].id) :
     accesses[a].held = HeldUpTo(m_activeTXNs[c], i)

WInv == AccessesHaveTxn /\ RowsWritten /\ HeldAtAccess /\ HeldExactly

LEMMA TxnRowsElement ==
  ASSUME NEW stk, NEW k, NEW t, NEW e
  PROVE  /\ \A r \in TxnRows(stk, k, t, e) : \E i \in Recorded(stk, k) : r.id = stk[i].id
         /\ \A i \in Recorded(stk, k) : \E r \in TxnRows(stk, k, t, e) : r.id = stk[i].id
<1> DEFINE row(i) == [id |-> stk[i].id, start_ts |-> stk[i].start_ts, start_ctx |-> stk[i].start_ctx,
                      end_ts |-> t, end_ctx |-> e]
<1>1. TxnRows(stk, k, t, e) = {row(i) : i \in Recorded(stk, k)}
  BY DEF TxnRows
<1>2. \A i : row(i).id = stk[i].id
  OBVIOUS
<1> HIDE DEF row
<1> QED BY <1>1, <1>2

LEMMA HeldRowsElement ==
  ASSUME NEW stk, NEW k
  PROVE  /\ \A h \in HeldRows(stk, k) : \E i \in Recorded(stk, k) : \E j \in HeldBelow(stk, i) :
              h.txn = stk[i].id /\ h.lock = stk[j].lock /\ h.subLock = stk[j].subLock
         /\ \A i \in Recorded(stk, k) : \A j \in HeldBelow(stk, i) : \E h \in HeldRows(stk, k) :
              h.txn = stk[i].id /\ h.lock = stk[j].lock /\ h.subLock = stk[j].subLock
<1> DEFINE row(i, j) == [txn |-> stk[i].id, lock |-> stk[j].lock, subLock |-> stk[j].subLock,
                         start |-> Top(lastNPos[stk[j].lock]).start]
<1>1. HeldRows(stk, k) = UNION {{row(i, j) : j \in HeldBelow(stk, i)} : i \in Recorded(stk, k)}
  BY DEF HeldRows
<1>2. \A i, j : row(i, j).txn = stk[i].id /\ row(i, j).lock = stk[j].lock /\ row(i, j).subLock = stk[j].subLock
  OBVIOUS
<1> HIDE DEF row
<1>3. \A h \in HeldRows(stk, k) : \E i \in Recorded(stk, k) : \E j \in HeldBelow(stk, i) : h = row(i, j)
  BY <1>1
<1>4. \A i \in Recorded(stk, k) : \A j \in HeldBelow(stk, i) : row(i, j) \in HeldRows(stk, k)
  BY <1>1
<1> QED BY <1>2, <1>3, <1>4

LEMMA CutStep ==
  ASSUME IInv, Sync, WInv, NEW c \in Ctxs, NEW q, NEW B, Cut(c, q, B)
  PROVE  WInv'
<1> DEFINE stk == m_activeTXNs[c]
           N == HeldRows(stk, q + 1)
<1>1. /\ m_activeTXNs \in [Ctxs -> Seq(TXN)] /\ stk \in Seq(TXN) /\ Len(stk) \in Nat /\ q \in Nat
      /\ B \in Seq(TXN) /\ Len(B) \in Nat /\ q <= Len(B) /\ q <= Len(stk) /\ m_nextTXNID \in Nat
      /\ accesses \in Seq(AccessRow) /\ accesses' = accesses /\ locks_held' = locks_held \cup N
  BY DEF IInv, TypeOK, Cut
<1>2. m_activeTXNs'[c] = B /\ \A d \in Ctxs : d # c => m_activeTXNs'[d] = m_activeTXNs[d]
  <2>1. m_activeTXNs' = With(m_activeTXNs, c, B)
    BY DEF Cut
  <2> QED BY <1>1, <2>1, WithProperties
<1>3. /\ \A i \in 1 .. q : B[i] = stk[i]
      /\ \A i \in 1 .. Len(B) : i > q => B[i].id >= m_nextTXNID
  BY DEF Cut
<1>4. PICK t, e : txns' = txns \cup TxnRows(stk, q + 1, t, e)
  BY DEF Cut
<1> DEFINE M == TxnRows(stk, q + 1, t, e)
           R == Recorded(stk, q + 1)
<1>5. R = {i \in 1 .. Len(stk) : i > q /\ stk[i].memAccessCounter > 0}
  BY <1>1 DEF Recorded
<1>6. /\ \A r \in M : \E i \in R : r.id = stk[i].id
      /\ \A i \in R : \E r \in M : r.id = stk[i].id
  BY TxnRowsElement
<1>7. /\ \A h \in N : \E i \in R : \E j \in HeldBelow(stk, i) :
              h.txn = stk[i].id /\ h.lock = stk[j].lock /\ h.subLock = stk[j].subLock
      /\ \A i \in R : \A j \in HeldBelow(stk, i) : \E h \in N :
              h.txn = stk[i].id /\ h.lock = stk[j].lock /\ h.subLock = stk[j].subLock
  BY HeldRowsElement
<1> HIDE DEF M, N, R
<1>8. txns' = txns \cup M
  BY <1>4 DEF M
<1>9. \A id : AccessesOf(id)' = AccessesOf(id)
  BY <1>1 DEF AccessesOf
<1>10. \A r \in txns : \A i \in R : r.id # stk[i].id
  BY <1>5 DEF IInv, TxnIdsUnique, WrittenIdsClosed
(* An access of a TXN that is closed has a row: its counter is not 0.         *)
<1>11. AccessesHaveTxn'
  <2> SUFFICES ASSUME NEW a \in 1 .. Len(accesses), accesses[a].txn # NULL
               PROVE  \/ \E d \in Ctxs : \E i \in 1 .. Len(m_activeTXNs'[d]) :
                            m_activeTXNs'[d][i].id = accesses[a].txn
                      \/ \E r \in txns' : r.id = accesses[a].txn
    BY <1>1 DEF AccessesHaveTxn, Active
  <2> DEFINE id == accesses[a].txn
  <2>1. CASE \E r \in txns : r.id = id
    BY <1>8, <2>1
  <2>2. CASE Active(id)
    <3>0. PICK d \in Ctxs : \E i \in 1 .. Len(m_activeTXNs[d]) : m_activeTXNs[d][i].id = id
      BY <2>2 DEF Active
    <3>1. PICK i \in 1 .. Len(m_activeTXNs[d]) : m_activeTXNs[d][i].id = id
      BY <3>0
    <3>2. CASE d # c
      BY <1>2, <3>1, <3>2
    <3>3. CASE d = c /\ i <= q
      <4>1. i \in 1 .. q /\ i \in 1 .. Len(B)
        BY <1>1, <3>1, <3>3
      <4>2. m_activeTXNs'[c][i].id = id
        BY <1>2, <1>3, <3>1, <3>3, <4>1
      <4> QED BY <1>2, <4>1, <4>2
    <3>4. CASE d = c /\ i > q
      <4>1. stk[i].memAccessCounter = Cardinality(AccessesOf(id))
        BY <3>1, <3>4 DEF IInv, AccessesCounted
      <4>2. a \in AccessesOf(id)
        BY DEF AccessesOf
      <4>3. IsFiniteSet(AccessesOf(id))
        <5>1. AccessesOf(id) \in SUBSET (1 .. Len(accesses)) /\ IsFiniteSet(1 .. Len(accesses))
          BY <1>1, FS_Interval DEF AccessesOf
        <5> HIDE DEF id
        <5> QED BY <5>1, FS_Subset
      <4>4. Cardinality(AccessesOf(id)) \in Nat /\ Cardinality(AccessesOf(id)) # 0
        BY <4>2, <4>3, FS_CardinalityType, FS_EmptySet
      <4>5. i \in R
        BY <1>5, <3>1, <3>4, <4>1, <4>4
      <4> QED BY <1>6, <1>8, <3>1, <3>4, <4>5
    <3>5. i \in Nat
      BY <1>1
    <3> QED BY <1>1, <3>2, <3>3, <3>4, <3>5
  <2> QED BY <2>1, <2>2 DEF WInv, AccessesHaveTxn
<1>12. RowsWritten'
  <2> SUFFICES ASSUME NEW h \in locks_held' PROVE \E r \in txns' : r.id = h.txn
    BY DEF RowsWritten
  <2>1. CASE h \in locks_held
    BY <1>8, <2>1 DEF WInv, RowsWritten
  <2>2. CASE h \in N
    BY <1>6, <1>7, <1>8, <2>2
  <2> QED BY <1>1, <2>1, <2>2
(* A kept TXN keeps those below it; a new TXN has no accesses yet.            *)
<1>13. HeldAtAccess'
  <2> SUFFICES ASSUME NEW d \in Ctxs, NEW i \in 1 .. Len(m_activeTXNs'[d]),
                      NEW a \in AccessesOf(m_activeTXNs'[d][i].id)
               PROVE  accesses[a].held = HeldUpTo(m_activeTXNs'[d], i)
    BY <1>1, <1>9 DEF HeldAtAccess, HeldUpTo
  <2>1. CASE d # c
    BY <1>2, <2>1 DEF WInv, HeldAtAccess
  <2>2. CASE d = c /\ i <= q
    <3>1. i \in 1 .. q /\ i \in 1 .. Len(stk) /\ i \in Nat
      BY <1>1, <1>2, <2>2
    <3>2. accesses[a].held = HeldUpTo(stk, i)
      BY <1>2, <1>3, <2>2, <3>1 DEF WInv, HeldAtAccess
    <3>3. \A j \in 1 .. i : B[j] = stk[j]
      BY <1>1, <1>3, <2>2, <3>1
    <3>4. HeldUpTo(B, i) = HeldUpTo(stk, i)
      BY <3>3 DEF HeldUpTo
    <3> QED BY <1>2, <2>2, <3>2, <3>4
  <2>3. CASE d = c /\ i > q
    <3>1. B[i].id >= m_nextTXNID /\ B[i].id \in Nat
      <4>1. B[i] \in TXN /\ i \in 1 .. Len(B)
        BY <1>1, <1>2, <2>3
      <4> QED BY <1>3, <2>3, <4>1 DEF TXN
    <3>2. a \in 1 .. Len(accesses) /\ accesses[a].txn = B[i].id
      BY <1>2, <2>3 DEF AccessesOf
    <3>3. accesses[a].txn < m_nextTXNID
      BY <3>2 DEF IInv, AccessIdsKnown
    <3> QED BY <1>1, <3>1, <3>2, <3>3
  <2>4. i \in Nat
    BY <1>1, <1>2, <2>1
  <2> QED BY <1>1, <2>1, <2>2, <2>3, <2>4
<1>14. HeldExactly'
  <2> SUFFICES ASSUME NEW r \in txns', NEW a \in AccessesOf(r.id)
               PROVE  {<<h.lock, h.subLock>> : h \in RowsOf(r.id)'}
                        = {accesses[a].held[i] : i \in 1 .. Len(accesses[a].held)}
    BY <1>1, <1>9 DEF HeldExactly
  <2>1. CASE r \in txns
    <3>1. RowsOf(r.id)' = RowsOf(r.id)
      <4>1. \A h \in N : h.txn # r.id
        BY <1>7, <1>10, <2>1
      <4> QED BY <1>1, <4>1 DEF RowsOf
    <3> QED BY <2>1, <3>1 DEF WInv, HeldExactly
  <2>2. CASE r \in M
    <3>1. PICK i \in R : r.id = stk[i].id
      BY <1>6, <2>2
    <3>2. i \in 1 .. Len(stk)
      BY <1>5
    <3>3. accesses[a].held = HeldUpTo(stk, i)
      BY <3>1, <3>2 DEF WInv, HeldAtAccess
    <3>4. HeldBelow(stk, i) = 1 .. i
      <4>1. \A j \in 1 .. i : j \in 1 .. Len(stk)
        BY <1>1, <3>2
      <4> QED BY <4>1, TxnsHeld DEF HeldBelow, IInv
    <3>5. ASSUME NEW h \in RowsOf(r.id)'
          PROVE  \E j \in 1 .. i : h.lock = stk[j].lock /\ h.subLock = stk[j].subLock
      <4>1. h.txn = stk[i].id /\ (h \in locks_held \/ h \in N)
        BY <1>1, <3>1 DEF RowsOf
      <4>2. h \notin locks_held
        BY <1>10, <4>1 DEF WInv, RowsWritten
      <4>3. PICK p \in R : \E j \in HeldBelow(stk, p) :
                h.txn = stk[p].id /\ h.lock = stk[j].lock /\ h.subLock = stk[j].subLock
        BY <1>7, <4>1, <4>2
      <4>4. p \in 1 .. Len(stk) /\ stk[p].id = stk[i].id
        BY <1>5, <4>1, <4>3
      <4>5. p = i
        BY <3>2, <4>4 DEF IInv, TxnIdsUnique, ActiveIdsUnique
      <4> QED BY <3>4, <4>3, <4>5
    <3>6. ASSUME NEW j \in 1 .. i
          PROVE  \E h \in RowsOf(r.id)' : h.lock = stk[j].lock /\ h.subLock = stk[j].subLock
      <4>1. PICK h \in N : h.txn = stk[i].id /\ h.lock = stk[j].lock /\ h.subLock = stk[j].subLock
        BY <1>7, <3>4
      <4>2. h \in RowsOf(r.id)'
        BY <1>1, <3>1, <4>1 DEF RowsOf
      <4> QED BY <4>1, <4>2
    <3>7. /\ Len(HeldUpTo(stk, i)) = i
          /\ \A j \in 1 .. i : HeldUpTo(stk, i)[j] = <<stk[j].lock, stk[j].subLock>>
      <4>1. i \in Nat
        BY <3>2
      <4> QED BY <4>1 DEF HeldUpTo
    <3> DEFINE X == RowsOf(r.id)'
               H == HeldUpTo(stk, i)
    <3> HIDE DEF X, H
    <3>8. {<<h.lock, h.subLock>> : h \in X} = {H[j] : j \in 1 .. i}
      <4>1. \A h \in X : \E j \in 1 .. i : <<h.lock, h.subLock>> = H[j]
        BY <3>5, <3>7 DEF X, H
      <4>2. \A j \in 1 .. i : \E h \in X : H[j] = <<h.lock, h.subLock>>
        BY <3>6, <3>7 DEF X, H
      <4> QED BY <4>1, <4>2
    <3> QED BY <3>3, <3>7, <3>8 DEF X, H
  <2> QED BY <1>8, <2>1, <2>2
<1> QED BY <1>11, <1>12, <1>13, <1>14 DEF WInv

(* finishTXN cuts the stack below the TXN found, at the bottom if there is    *)
(* none.                                                                     *)
LEMMA FinishCuts ==
  ASSUME TypeOK, NEW c \in Ctxs, NEW l, NEW sub, NEW t \in Nat, NEW e, NEW B \in Seq(TXN),
         NEW q, q = IF Found(c, l, sub) = 0 THEN 0 ELSE Found(c, l, sub) - 1,
         Len(StackAfter(c, l, sub, t, FALSE)) <= Len(B),
         \A p \in 1 .. Len(StackAfter(c, l, sub, t, FALSE)) : B[p] = StackAfter(c, l, sub, t, FALSE)[p],
         \A p \in 1 .. Len(B) : p > Len(StackAfter(c, l, sub, t, FALSE)) => B[p].id >= m_nextTXNID,
         m_activeTXNs' = With(m_activeTXNs, c, B),
         WriteRows(c, l, sub, t, e), accesses' = accesses
  PROVE  Cut(c, q, B)
<1> DEFINE stk == m_activeTXNs[c]
           k == Found(c, l, sub)
           A == StackAfter(c, l, sub, t, FALSE)
<1>1. stk \in Seq(TXN) /\ Len(stk) \in Nat /\ k \in 0 .. Len(stk) /\ m_nextTXNID \in Nat
  BY FoundProperties DEF TypeOK
<1>2. /\ Closes(stk, k, A)
      /\ \A p \in 1 .. Len(A) : IF p < k THEN A[p] = stk[p] ELSE A[p].id >= m_nextTXNID
  BY FinishCloses
<1>3. txns' = txns \cup TxnRows(stk, k, t, e) /\ locks_held' = locks_held \cup HeldRows(stk, k)
  BY DEF WriteRows
<1>4. Recorded(stk, k) = Recorded(stk, q + 1)
  BY <1>1 DEF Recorded
<1>5. TxnRows(stk, k, t, e) = TxnRows(stk, q + 1, t, e) /\ HeldRows(stk, k) = HeldRows(stk, q + 1)
  BY <1>4 DEF TxnRows, HeldRows
<1> HIDE DEF k, stk, A
<1>6. A \in Seq(TXN) /\ Len(A) \in Nat /\ Len(A) = (IF k = 0 THEN Len(stk) ELSE Len(stk) - 1)
  BY <1>2, LenProperties DEF Closes
<1>7. q \in 0 .. Len(stk) /\ q \in Nat /\ q <= Len(A) /\ (k = 0 => q = 0) /\ (k # 0 => q = k - 1)
  BY <1>1, <1>6 DEF k
<1>8. Len(B) \in Nat /\ Len(A) <= Len(B) /\ q <= Len(B)
  <2>1. Len(B) \in Nat
    BY LenProperties
  <2>2. Len(A) <= Len(B)
    BY DEF A
  <2> QED BY <1>6, <1>7, <2>1, <2>2
<1>9. \A i \in 1 .. q : B[i] = stk[i]
  <2> TAKE i \in 1 .. q
  <2>1. i \in 1 .. Len(A) /\ i < k
    BY <1>1, <1>6, <1>7
  <2>2. B[i] = A[i]
    BY <2>1 DEF A
  <2> QED BY <1>2, <2>1, <2>2
<1>10. \A i \in 1 .. Len(B) : i > q => B[i].id >= m_nextTXNID
  <2> SUFFICES ASSUME NEW i \in 1 .. Len(B), i > q PROVE B[i].id >= m_nextTXNID
    OBVIOUS
  <2>1. CASE i <= Len(A)
    <3>1. i \in 1 .. Len(A) /\ ~(i < k)
      BY <1>1, <1>6, <1>7, <1>8, <2>1
    <3>2. B[i] = A[i]
      BY <3>1 DEF A
    <3> QED BY <1>2, <3>1, <3>2
  <2>2. CASE i > Len(A)
    BY <2>2 DEF A
  <2> QED BY <1>6, <1>8, <2>1, <2>2
<1>11. \E tt, ee : txns' = txns \cup TxnRows(stk, q + 1, tt, ee)
  BY <1>3, <1>5
<1>12. locks_held' = locks_held \cup HeldRows(stk, q + 1)
  BY <1>3, <1>5
<1> QED BY <1>7, <1>8, <1>9, <1>10, <1>11, <1>12 DEF Cut, stk

(* finishTXN and nothing else.                                               *)
LEMMA FinishOnlyCuts ==
  ASSUME TypeOK, NEW c \in Ctxs, NEW l, NEW sub, NEW t \in Nat, NEW e,
         m_activeTXNs' = [m_activeTXNs EXCEPT ![c] = StackAfter(c, l, sub, t, FALSE)],
         WriteRows(c, l, sub, t, e), accesses' = accesses
  PROVE  \E q, B : Cut(c, q, B)
<1> DEFINE A == StackAfter(c, l, sub, t, FALSE)
           q == IF Found(c, l, sub) = 0 THEN 0 ELSE Found(c, l, sub) - 1
<1>1. A \in Seq(TXN) /\ m_activeTXNs' = With(m_activeTXNs, c, A)
  <2>1. A \in Seq(TXN)
    BY FinishTypes
  <2>2. m_activeTXNs' = With(m_activeTXNs, c, A)
    BY DEF With
  <2> QED BY <2>1, <2>2
<1>2. Cut(c, q, A)
  <2>1. /\ Len(A) <= Len(A) /\ \A p \in 1 .. Len(A) : A[p] = A[p]
        /\ \A p \in 1 .. Len(A) : p > Len(A) => A[p].id >= m_nextTXNID
    <3> HIDE DEF A
    <3>1. Len(A) \in Nat
      BY <1>1, LenProperties
    <3> QED BY <3>1
  <2> HIDE DEF q
  <2>2. q = IF Found(c, l, sub) = 0 THEN 0 ELSE Found(c, l, sub) - 1
    BY DEF q
  <2> QED BY <1>1, <2>1, <2>2, FinishCuts
<1> QED BY <1>2

LEMMA PCuts ==
  ASSUME TypeOK, NEW l \in Locks, NEW sub \in SubLocks, NEW c \in Ctxs, NEW recursive,
         P(l, sub, c, recursive)
  PROVE  \E q, B : Cut(c, q, B)
<1> DEFINE stk == m_activeTXNs[c]
           new == [id |-> m_nextTXNID, start_ts |-> ts + 1, start_ctx |-> c,
                   memAccessCounter |-> 0, lock |-> l, subLock |-> sub]
           B == Append(stk, new)
           q == Len(stk)
<1>1. stk \in Seq(TXN) /\ q \in Nat /\ m_nextTXNID \in Nat /\ new \in TXN /\ new.id = m_nextTXNID
  <2>1. m_nextTXNID \in Nat /\ ts + 1 \in Nat /\ stk \in Seq(TXN) /\ q \in Nat
    BY DEF TypeOK
  <2>2. new \in TXN /\ new.id = m_nextTXNID
    BY <2>1 DEF TXN
  <2> QED BY <2>1, <2>2
<1>2. /\ m_activeTXNs' = With(m_activeTXNs, c, B)
      /\ txns' = txns /\ locks_held' = locks_held /\ accesses' = accesses
  BY DEF P, Take, With, rows
<1> HIDE DEF new, stk
<1>3. B \in Seq(TXN) /\ Len(B) = q + 1 /\ B[q + 1] = new /\ \A i \in 1 .. q : B[i] = stk[i]
  BY <1>1, AppendProperties
<1>4. Recorded(stk, q + 1) = {}
  BY <1>1 DEF Recorded
<1>5. (\A t, e : TxnRows(stk, q + 1, t, e) = {}) /\ HeldRows(stk, q + 1) = {}
  BY <1>4 DEF TxnRows, HeldRows
<1> HIDE DEF B, q
<1>6. \A i \in 1 .. Len(B) : i > q => B[i].id >= m_nextTXNID
  <2> SUFFICES ASSUME NEW i \in 1 .. Len(B), i > q PROVE B[i].id >= m_nextTXNID
    OBVIOUS
  <2>1. i = q + 1
    BY <1>1, <1>3
  <2> QED BY <1>1, <1>3, <2>1
<1>7. q \in 0 .. Len(stk) /\ q <= Len(B)
  <2>1. q = Len(stk)
    BY DEF q
  <2> QED BY <1>1, <1>3, <2>1
<1>8. \E t, e : txns' = txns \cup TxnRows(stk, q + 1, t, e)
  BY <1>2, <1>5
<1>9. locks_held' = locks_held \cup HeldRows(stk, q + 1)
  BY <1>2, <1>5
<1>10. Cut(c, q, B)
  BY <1>2, <1>3, <1>6, <1>7, <1>8, <1>9 DEF Cut, stk
<1> QED BY <1>10

LEMMA PWriteAgainCuts ==
  ASSUME TypeOK, NEW l \in Locks, NEW c \in Ctxs, P_WRITE_again(l, c)
  PROVE  \E q, B : Cut(c, q, B)
<1> DEFINE sub == "WRITER_LOCK"
           A == StackAfter(c, l, sub, ts + 1, FALSE)
           n == NextIDAfter(c, l, sub)
           new == [id |-> n, start_ts |-> ts + 1, start_ctx |-> c,
                   memAccessCounter |-> 0, lock |-> l, subLock |-> sub]
           B == Append(A, new)
           q == IF Found(c, l, sub) = 0 THEN 0 ELSE Found(c, l, sub) - 1
<1>1. /\ m_activeTXNs' = With(m_activeTXNs, c, B)
      /\ WriteRows(c, l, sub, ts + 1, c) /\ accesses' = accesses
  BY DEF P_WRITE_again, Take, With
<1>2. ts + 1 \in Nat /\ ts \in Nat /\ sub \in SubLocks /\ m_nextTXNID \in Nat
  BY DEF TypeOK, SubLocks
<1>3. A \in Seq(TXN) /\ n \in Nat
  BY <1>2, FinishTypes
<1>4. n >= m_nextTXNID
  <2>1. Found(c, l, sub) \in 0 .. Len(m_activeTXNs[c]) /\ Len(m_activeTXNs[c]) \in Nat
    BY FoundProperties
  <2> QED BY <1>2, <2>1 DEF NextIDAfter
<1> HIDE DEF A, n, sub
<1>5. new \in TXN /\ new.id = n
  BY <1>2, <1>3 DEF TXN
<1> HIDE DEF new
<1>6. /\ B \in Seq(TXN) /\ Len(A) \in Nat /\ Len(B) = Len(A) + 1 /\ B[Len(A) + 1] = new
      /\ \A p \in 1 .. Len(A) : B[p] = A[p]
  BY <1>3, <1>5, AppendProperties, LenProperties
<1> HIDE DEF B
<1>7. \A p \in 1 .. Len(B) : p > Len(A) => B[p].id >= m_nextTXNID
  <2> SUFFICES ASSUME NEW p \in 1 .. Len(B), p > Len(A) PROVE B[p].id >= m_nextTXNID
    OBVIOUS
  <2>1. p = Len(A) + 1
    BY <1>6
  <2> QED BY <1>4, <1>5, <1>6, <2>1
<1>8. Len(A) <= Len(B)
  BY <1>6
<1>9. q = IF Found(c, l, sub) = 0 THEN 0 ELSE Found(c, l, sub) - 1
  OBVIOUS
<1> HIDE DEF q
<1>10. Cut(c, q, B)
  BY <1>1, <1>2, <1>6, <1>7, <1>8, <1>9, FinishCuts DEF A
<1> QED BY <1>10

(* An access is of the top TXN, or of none.                                  *)
LEMMA AccessWrites ==
  ASSUME IInv, WInv, NEW c \in Ctxs, Access(c)
  PROVE  WInv'
<1> DEFINE stk == m_activeTXNs[c]
           top == Len(stk)
           L == Len(accesses)
           row == AccessRowOf(c)
<1>1. /\ m_activeTXNs \in [Ctxs -> Seq(TXN)] /\ stk \in Seq(TXN) /\ top \in Nat
      /\ accesses \in Seq(AccessRow) /\ L \in Nat /\ txns' = txns /\ locks_held' = locks_held
  BY DEF IInv, TypeOK, Access, rows
<1>2. /\ accesses' = Append(accesses, row) /\ Len(accesses') = L + 1
      /\ \A a \in 1 .. L : accesses'[a] = accesses[a]
      /\ accesses'[L + 1] = row
  BY <1>1 DEF Access
<1>3. /\ row.txn = IF stk # <<>> THEN stk[top].id ELSE 0
      /\ row.held = HeldUpTo(stk, top)
  BY DEF AccessRowOf, hasActiveTXN, getActiveTXN, Top, NULL, HeldIn, HeldUpTo
<1>4. \A d \in Ctxs : /\ Len(m_activeTXNs'[d]) = Len(m_activeTXNs[d])
                      /\ \A i \in 1 .. Len(m_activeTXNs[d]) :
                           /\ m_activeTXNs'[d][i].id = m_activeTXNs[d][i].id
                           /\ m_activeTXNs'[d][i].lock = m_activeTXNs[d][i].lock
                           /\ m_activeTXNs'[d][i].subLock = m_activeTXNs[d][i].subLock
  BY AccessStacks DEF IInv
<1> HIDE DEF row
<1>5. \A a \in 1 .. L + 1 : a \in 1 .. L \/ a = L + 1
  BY <1>1
<1>6. ASSUME NEW id, NEW a \in AccessesOf(id)'
      PROVE  \/ a \in AccessesOf(id) /\ a \in 1 .. L /\ accesses'[a] = accesses[a]
             \/ accesses'[a] = row /\ row.txn = id
  BY <1>2, <1>5 DEF AccessesOf
<1>7. stk # <<>> => top \in 1 .. Len(stk)
  BY <1>1
<1>8. AccessesHaveTxn'
  <2> SUFFICES ASSUME NEW a \in 1 .. L + 1, accesses'[a].txn # 0
               PROVE  \/ \E d \in Ctxs : \E i \in 1 .. Len(m_activeTXNs'[d]) :
                            m_activeTXNs'[d][i].id = accesses'[a].txn
                      \/ \E r \in txns : r.id = accesses'[a].txn
    BY <1>1, <1>2 DEF AccessesHaveTxn, Active, NULL
  <2>1. CASE a \in 1 .. L
    <3>1. Active(accesses[a].txn) \/ \E r \in txns : r.id = accesses[a].txn
      BY <1>2, <2>1 DEF WInv, AccessesHaveTxn, NULL
    <3> QED BY <1>2, <1>4, <2>1, <3>1 DEF Active
  <2>2. CASE a = L + 1
    <3>1. stk # <<>> /\ accesses'[a].txn = stk[top].id
      BY <1>2, <1>3, <2>2
    <3> QED BY <1>4, <1>7, <3>1
  <2> QED BY <1>5, <2>1, <2>2
<1>9. RowsWritten'
  BY <1>1 DEF WInv, RowsWritten
<1>10. HeldAtAccess'
  <2> SUFFICES ASSUME NEW d \in Ctxs, NEW i \in 1 .. Len(m_activeTXNs'[d]),
                      NEW a \in 1 .. L + 1, accesses'[a].txn = m_activeTXNs'[d][i].id
               PROVE  accesses'[a].held = HeldUpTo(m_activeTXNs'[d], i)
    BY <1>2 DEF HeldAtAccess, HeldUpTo, AccessesOf
  <2>0. PICK id : /\ id = m_activeTXNs[d][i].id
                  /\ i \in 1 .. Len(m_activeTXNs[d]) /\ accesses'[a].txn = id
    BY <1>4
  <2>4. a \in AccessesOf(id)'
    BY <1>2, <2>0 DEF AccessesOf
  <2>1. HeldUpTo(m_activeTXNs'[d], i) = HeldUpTo(m_activeTXNs[d], i)
    <3>1. \A j \in 1 .. i : j \in 1 .. Len(m_activeTXNs[d])
      BY <1>1, <2>0
    <3> QED BY <1>4, <3>1 DEF HeldUpTo
  <2>2. CASE a \in AccessesOf(id) /\ accesses'[a] = accesses[a]
    BY <2>0, <2>1, <2>2 DEF WInv, HeldAtAccess
  <2>3. CASE accesses'[a] = row /\ row.txn = id
    <3>1. id # 0
      BY <2>0 DEF IInv, TxnIdsUnique, ActiveIdsKnown
    <3>2. stk # <<>> /\ id = stk[top].id
      BY <1>3, <2>3, <3>1
    <3>3. d = c /\ i = top
      <4>1. top \in 1 .. Len(m_activeTXNs[c]) /\ m_activeTXNs[c][top].id = m_activeTXNs[d][i].id
        BY <1>7, <2>0, <3>2
      <4> HIDE DEF stk, top
      <4> QED BY <2>0, <4>1 DEF IInv, TxnIdsUnique, ActiveIdsUnique
    <3> QED BY <1>3, <2>1, <2>3, <3>3
  <2> QED BY <1>6, <2>2, <2>3, <2>4
<1>11. HeldExactly'
  <2> SUFFICES ASSUME NEW r \in txns, NEW a \in AccessesOf(r.id)'
               PROVE  {<<h.lock, h.subLock>> : h \in RowsOf(r.id)}
                        = {accesses'[a].held[i] : i \in 1 .. Len(accesses'[a].held)}
    BY <1>1 DEF HeldExactly, RowsOf, AccessesOf
  <2>1. row.txn # r.id
    <3>1. r.id # 0 /\ \A i \in 1 .. Len(stk) : stk[i].id # r.id
      BY DEF IInv, TxnIdsUnique, WrittenIdsClosed
    <3> QED BY <1>3, <1>7, <3>1
  <2>2. a \in AccessesOf(r.id) /\ accesses'[a] = accesses[a]
    BY <1>6, <2>1
  <2> QED BY <2>2 DEF WInv, HeldExactly
<1> QED BY <1>8, <1>9, <1>10, <1>11 DEF WInv

(* A step that writes nothing and leaves the stacks alone.                    *)
LEMMA SameWrites ==
  ASSUME WInv, UNCHANGED <<m_activeTXNs, rows, accesses>>
  PROVE  WInv'
<1>1. /\ m_activeTXNs' = m_activeTXNs /\ txns' = txns
      /\ locks_held' = locks_held /\ accesses' = accesses
  BY DEF rows
<1>2. AccessesHaveTxn'
  BY <1>1 DEF WInv, AccessesHaveTxn, Active
<1>3. RowsWritten'
  BY <1>1 DEF WInv, RowsWritten
<1>4. HeldAtAccess'
  BY <1>1 DEF WInv, HeldAtAccess, AccessesOf, HeldUpTo
<1>5. HeldExactly'
  BY <1>1 DEF WInv, HeldExactly, AccessesOf, RowsOf
<1> QED BY <1>2, <1>3, <1>4, <1>5 DEF WInv

-----------------------------------------------------------------------------
(* The invariant that is inductive when no lock has two sides.                *)
OInv == IInv /\ Sync /\ WInv /\ NoUndefinedPop

LEMMA OInvInit ==
  Init => OInv
<1> SUFFICES ASSUME Init PROVE OInv
  OBVIOUS
<1>1. /\ \A c \in Ctxs : m_activeTXNs[c] = <<>> /\ Len(m_activeTXNs[c]) = 0
      /\ txns = {} /\ locks_held = {} /\ Len(accesses) = 0 /\ status = "tracing"
      /\ \A l \in Locks : Len(lastNPos[l]) = 0 /\ \A sub \in SubLocks : count[l][sub] = 0
  BY DEF Init
<1>2. (\A c \in Ctxs : 1 .. Len(m_activeTXNs[c]) = {}) /\ 1 .. Len(accesses) = {}
  BY <1>1
<1>3. \A l, sub : TxnsOf(l, sub) = {} /\ IsFiniteSet(TxnsOf(l, sub)) /\ Cardinality(TxnsOf(l, sub)) = 0
  <2> TAKE l, sub
  <2>1. TxnsOf(l, sub) = {}
    BY <1>2 DEF TxnsOf, Matching
  <2> QED BY <2>1, FS_EmptySet
<1>4. Sync
  BY <1>1, <1>3 DEF Sync, TakesCounted, OtherSideUnused, PositionsSuffice, Txns
<1>5. WInv
  BY <1>1, <1>2 DEF WInv, AccessesHaveTxn, RowsWritten, HeldAtAccess, HeldExactly
<1> QED BY <1>1, <1>4, <1>5, IInvInit DEF OInv, NoUndefinedPop

LEMMA OInvStep ==
  ASSUME OneSided, OInv, [Next]_vars
  PROVE  OInv'
<1> USE DEF rows, lockState
<1>0. IInv /\ TypeOK /\ Sync /\ WInv /\ status # "undefined" /\ ts \in Nat /\ ts + 1 \in Nat
  BY DEF OInv, IInv, TypeOK, NoUndefinedPop
<1>1. IInv'
  BY <1>0, IInvStep
<1>2. ASSUME NEW l \in Locks, NEW sub \in SubLocks, NEW c \in Ctxs, NEW recursive, P(l, sub, c, recursive)
      PROVE  Sync' /\ WInv' /\ status' = status
  <2>1. \E q, B : Cut(c, q, B)
    BY <1>0, <1>2, PCuts
  <2>2. WInv'
    BY <1>0, <2>1, CutStep
  <2>3. Sync'
    BY <1>0, <1>2, PSync
  <2> QED BY <1>2, <2>2, <2>3 DEF P
<1>3. ASSUME NEW l \in Locks, NEW c \in Ctxs, P_WRITE_again(l, c)
      PROVE  Sync' /\ WInv' /\ status' = status
  <2>1. \E q, B : Cut(c, q, B)
    BY <1>0, <1>3, PWriteAgainCuts
  <2>2. WInv'
    BY <1>0, <2>1, CutStep
  <2> QED BY <1>0, <1>3, <2>2, PWriteAgainSync
<1>4. ASSUME NEW l \in Locks, NEW sub \in SubLocks, NEW c \in Ctxs,
             P_flush(l, sub, c) \/ P_flush_fault(l, sub, c)
      PROVE  FALSE
  BY <1>0, <1>4, OneSidedNeverFlushes
<1>5. ASSUME NEW l \in Locks, NEW sub \in SubLocks, NEW c \in Ctxs, V(l, sub, c)
      PROVE  Sync' /\ WInv' /\ status' = status
  <2>1. Sync' /\ status' = status
    BY <1>0, <1>5, VSync DEF V
  <2>2. CASE lastNPos[l] = <<>>
    BY <1>0, <1>5, <2>1, <2>2, SameWrites DEF V
  <2>3. CASE lastNPos[l] # <<>>
    <3> DEFINE d == IF isOnTXNStack(c, l, sub) THEN c ELSE findTXN(l, sub, c)
    <3>1. /\ m_activeTXNs' = [m_activeTXNs EXCEPT ![d] = StackAfter(d, l, sub, ts + 1, FALSE)]
          /\ WriteRows(d, l, sub, ts + 1, c) /\ accesses' = accesses
      BY <1>5, <2>3 DEF V
    <3>2. d \in Ctxs
      BY ReleaseCtxType
    <3> HIDE DEF d
    <3>3. \E q, B : Cut(d, q, B)
      BY <1>0, <3>1, <3>2, FinishOnlyCuts
    <3> QED BY <1>0, <2>1, <3>2, <3>3, CutStep
  <2> QED BY <2>2, <2>3
<1>6. ASSUME NEW c \in Ctxs, CloseTXN(c)
      PROVE  Sync' /\ WInv' /\ status' = status
  <2>1. Sync' /\ status' = status
    BY <1>0, <1>6, CloseSync DEF CloseTXN
  <2> DEFINE l == getActiveTXN(c).lock
             sub == getActiveTXN(c).subLock
  <2>2. /\ m_activeTXNs' = [m_activeTXNs EXCEPT ![c] = StackAfter(c, l, sub, ts, FALSE)]
        /\ WriteRows(c, l, sub, ts, c) /\ accesses' = accesses
    BY <1>6 DEF CloseTXN
  <2> HIDE DEF l, sub
  <2>3. \E q, B : Cut(c, q, B)
    BY <1>0, <2>2, FinishOnlyCuts
  <2> QED BY <1>0, <2>1, <2>3, CutStep
<1>7. ASSUME NEW c \in Ctxs, Access(c)
      PROVE  Sync' /\ WInv' /\ status' = status
  <2>1. WInv'
    BY <1>0, <1>7, AccessWrites
  <2>2. \A d \in Ctxs : /\ Len(m_activeTXNs'[d]) = Len(m_activeTXNs[d])
                        /\ \A i \in 1 .. Len(m_activeTXNs[d]) :
                             /\ m_activeTXNs'[d][i].lock = m_activeTXNs[d][i].lock
                             /\ m_activeTXNs'[d][i].subLock = m_activeTXNs[d][i].subLock
    BY <1>0, <1>7, AccessStacks
  <2>3. UNCHANGED lockState /\ status' = status
    BY <1>7 DEF Access
  <2>4. Sync'
    BY <1>0, <2>2, <2>3, SameSync
  <2> QED BY <2>1, <2>3, <2>4
<1>8. ASSUME UNCHANGED <<m_activeTXNs, lockState, rows, accesses>>,
             status' = "tracing" => status = "tracing"
      PROVE  Sync' /\ WInv'
  <2>1. WInv'
    BY <1>0, <1>8, SameWrites
  <2>2. Sync'
    BY <1>0, <1>8, SameSync
  <2> QED BY <2>1, <2>2
<1>9. ASSUME (\E l \in Locks, sub \in SubLocks : Throw(l, sub)) \/ Ignored \/ EndOfTrace \/ Closed \/ UNCHANGED vars
      PROVE  Sync' /\ WInv' /\ status' # "undefined"
  <2>1. UNCHANGED <<m_activeTXNs, lockState, rows, accesses>>
    BY <1>9 DEF Throw, Ignored, EndOfTrace, Closed, vars
  <2>2. (status' = "tracing" => status = "tracing") /\ status' # "undefined"
    BY <1>0, <1>9 DEF Throw, Event, Ignored, EndOfTrace, Closed, vars
  <2> QED BY <1>8, <2>1, <2>2
<1>10. Sync' /\ WInv' /\ status' # "undefined"
  BY <1>0, <1>2, <1>3, <1>4, <1>5, <1>6, <1>7, <1>9 DEF Next, LockOp
<1> QED BY <1>1, <1>10 DEF OInv, NoUndefinedPop

LEMMA SyncImplies ==
  ASSUME TypeOK, Sync
  PROVE  InSync /\ TxnsAreHeld
<1>1. TxnsAreHeld
  BY TxnsHeld DEF TxnsAreHeld
<1>2. InSync
  <2> SUFFICES ASSUME status = "tracing", NEW l \in Locks
               PROVE  /\ Len(lastNPos[l]) = Txns(l)
                      /\ \A sub \in SubLocks : count[l][sub] >= Cardinality(TxnsOf(l, sub))
    BY DEF InSync, Txns
  <2>1. \A sub \in SubLocks : /\ Cardinality(TxnsOf(l, sub)) <= count[l][sub]
                              /\ Cardinality(TxnsOf(l, sub)) \in Nat /\ count[l][sub] \in Nat
    BY SyncNumbers DEF Sync, TakesCounted, TypeOK
  <2> QED BY <2>1 DEF Sync, PositionsSuffice
<1> QED BY <1>1, <1>2

LEMMA OInvImplies ==
  OInv => InSync /\ TxnsAreHeld
BY SyncImplies DEF OInv, IInv

LEMMA OInvAlways ==
  ASSUME OneSided
  PROVE  Spec => []OInv
<1>1. OInv /\ [Next]_vars => OInv'
  BY OInvStep
<1> QED BY OInvInit, <1>1, PTL DEF Spec

(* The positions of a lock and its TXNs never get out of step, in any number  *)
(* of contexts, whatever P and V events the trace loses: V and the repair of  *)
(* a missed V in P_WRITE pop a position exactly when finishTXN found a TXN.   *)
THEOREM OneSidedInSync == ASSUME OneSided PROVE Spec => []InSync
BY OInvAlways, OInvImplies, PTL

(* An active TXN always stands for a lock that is held, so finishTXN lists    *)
(* the locks of all TXNs below the one it writes.                            *)
THEOREM OneSidedTxnsAreHeld == ASSUME OneSided PROVE Spec => []TxnsAreHeld
BY OInvAlways, OInvImplies, PTL

(* No access refers to a TXN that is neither active nor written: finishTXN    *)
(* writes every TXN it closes that has an access, also those it restarts.    *)
THEOREM OneSidedAccessesHaveTxn == ASSUME OneSided PROVE Spec => []AccessesHaveTxn
<1>1. OInv => AccessesHaveTxn
  BY DEF OInv, WInv
<1> QED BY <1>1, OInvAlways, PTL

(* locks_held.csv is exact: the rows of a written TXN are the sub locks held  *)
(* in the context at each of its accesses, no more and no fewer.             *)
THEOREM OneSidedHeldExactly == ASSUME OneSided PROVE Spec => []HeldExactly
<1>1. OInv => HeldExactly
  BY DEF OInv, WInv
<1> QED BY <1>1, OInvAlways, PTL

(* The pop of lastNPos in P_WRITE_again is never one of an empty stack: the   *)
(* undefined behaviour lm_pop_empty finds needs a lock with two sides.       *)
THEOREM OneSidedNoUndefinedPop == ASSUME OneSided PROVE Spec => []NoUndefinedPop
<1>1. OInv => NoUndefinedPop
  BY DEF OInv
<1> QED BY <1>1, OInvAlways, PTL

-----------------------------------------------------------------------------
(* Locks of both sides, in one context (convert without -c) *)

(* One context, and reader-writer locks the trace never shows as recursive.   *)
OneContext == \A c, d \in Ctxs : c = d
SidesNotRecursive == \A l \in Locks : Kind[l] = "RWLock" => TRUE \notin Flags[l]

(* Then it has one writer TXN at most, and a flush leaves none of its TXNs.   *)
WritersOnce == \A l \in Locks : Kind[l] = "RWLock" => Cardinality(TxnsOf(l, "WRITER_LOCK")) <= 1

(* TXNs that finishTXN does not erase are as many as before.                 *)
LEMMA KeptCount ==
  ASSUME NEW st \in [Ctxs -> Seq(TXN)], NEW c \in Ctxs, NEW A \in Seq(TXN), NEW E, NEW f,
         Selection(f, Len(A), Len(st[c]), E),
         \A p \in 1 .. Len(A) : A[p].lock = st[c][f[p]].lock /\ A[p].subLock = st[c][f[p]].subLock,
         NEW l, NEW sub, IsFiniteSet(TxnsIn(st, l, sub)), \A i \in Matching(st[c], l, sub) : i \notin E
  PROVE  Counts(TxnsIn(With(st, c, A), l, sub), Cardinality(TxnsIn(st, l, sub)))
<1> DEFINE tt == With(st, c, A)
           stk == st[c]
           T == TxnsIn(tt, l, sub)
           S == TxnsIn(st, l, sub)
           F == [x \in T |-> IF x[1] = c THEN <<c, f[x[2]]>> ELSE x]
<1>1. /\ tt[c] = A /\ \A d \in Ctxs : d # c => tt[d] = st[d]
      /\ stk \in Seq(TXN) /\ Len(stk) \in Nat /\ Len(A) \in Nat
  BY WithProperties
<1> HIDE DEF tt
<1>2. \A p \in 1 .. Len(A) : f[p] \in 1 .. Len(stk)
  BY DEF Selection
<1>3. \A p, r \in 1 .. Len(A) : f[p] = f[r] => p = r
  <2> SUFFICES ASSUME NEW p \in 1 .. Len(A), NEW r \in 1 .. Len(A), f[p] = f[r] PROVE p = r
    OBVIOUS
  <2>1. /\ f[p] \in Int /\ f[r] \in Int /\ (p < r => f[p] < f[r]) /\ (r < p => f[r] < f[p])
        /\ p \in Int /\ r \in Int
    BY <1>1, <1>2 DEF Selection
  <2> QED BY <2>1
<1>4. \A i \in Matching(stk, l, sub) : \E p \in 1 .. Len(A) : f[p] = i
  <2> TAKE i \in Matching(stk, l, sub)
  <2>1. i \in (1 .. Len(stk)) \ E
    BY DEF Matching
  <2> QED BY <2>1 DEF Selection
<1>5. \A p : p \in Matching(A, l, sub) <=> p \in 1 .. Len(A) /\ f[p] \in Matching(stk, l, sub)
  <2> TAKE p
  <2>1. CASE p \in 1 .. Len(A)
    BY <1>1, <1>2, <2>1 DEF Matching
  <2>2. CASE p \notin 1 .. Len(A)
    BY <2>2 DEF Matching
  <2> QED BY <2>1, <2>2
<1> HIDE DEF T, S, stk
<1>6. ASSUME NEW x \in T
      PROVE  /\ x = <<x[1], x[2]>> /\ x[1] \in Ctxs
             /\ F[x] \in S
             /\ x[1] = c => x[2] \in 1 .. Len(A) /\ F[x] = <<c, f[x[2]]>>
             /\ x[1] # c => F[x] = x
  <2>1. x = <<x[1], x[2]>> /\ x[1] \in Ctxs /\ x[2] \in Matching(tt[x[1]], l, sub)
    BY TxnsInElement DEF T
  <2>2. CASE x[1] = c
    <3>1. x[2] \in 1 .. Len(A) /\ f[x[2]] \in Matching(stk, l, sub)
      BY <1>1, <1>5, <2>1, <2>2
    <3>2. <<c, f[x[2]]>> \in TxnsIn(st, l, sub)
      BY <3>1, TxnsInElement DEF stk
    <3> QED BY <2>1, <2>2, <3>1, <3>2 DEF S
  <2>3. CASE x[1] # c
    <3>1. x[2] \in Matching(st[x[1]], l, sub)
      BY <1>1, <2>1, <2>3
    <3>2. <<x[1], x[2]>> \in TxnsIn(st, l, sub)
      BY <2>1, <3>1, TxnsInElement
    <3>3. F[x] = x
      BY <2>3
    <3> HIDE DEF F
    <3>4. x \in TxnsIn(st, l, sub)
      BY <2>1, <3>2
    <3> QED BY <2>1, <2>3, <3>3, <3>4 DEF S
  <2> QED BY <2>2, <2>3
<1>7. F \in [T -> S]
  BY <1>6
<1> HIDE DEF F
<1>8. ASSUME NEW x \in T, NEW y \in T, F[x] = F[y] PROVE x = y
  <2>1. CASE x[1] = c /\ y[1] = c
    <3>1. x[2] \in 1 .. Len(A) /\ y[2] \in 1 .. Len(A) /\ <<c, f[x[2]]>> = <<c, f[y[2]]>>
      BY <1>6, <1>8, <2>1
    <3>2. x[2] = y[2]
      BY <1>3, <3>1
    <3> QED BY <1>6, <2>1, <3>2
  <2>2. CASE x[1] # c /\ y[1] # c
    BY <1>6, <1>8, <2>2
  <2>3. CASE x[1] = c /\ y[1] # c
    <3>1. F[x][1] = c /\ F[y][1] = y[1]
      BY <1>6, <2>3
    <3> QED BY <1>8, <2>3, <3>1
  <2>4. CASE x[1] # c /\ y[1] = c
    <3>1. F[y][1] = c /\ F[x][1] = x[1]
      BY <1>6, <2>4
    <3> QED BY <1>8, <2>4, <3>1
  <2> QED BY <2>1, <2>2, <2>3, <2>4
<1>9. ASSUME NEW y \in S PROVE \E x \in T : F[x] = y
  <2>1. y = <<y[1], y[2]>> /\ y[1] \in Ctxs /\ y[2] \in Matching(st[y[1]], l, sub)
    BY TxnsInElement DEF S
  <2>2. CASE y[1] = c
    <3>1. y[2] \in Matching(stk, l, sub)
      BY <2>1, <2>2 DEF stk
    <3>2. PICK p \in 1 .. Len(A) : f[p] = y[2]
      BY <1>4, <3>1
    <3>3. p \in Matching(tt[c], l, sub)
      BY <1>1, <1>5, <3>1, <3>2
    <3>4. <<c, p>> \in T
      BY <3>3, TxnsInElement DEF T
    <3>5. F[<<c, p>>] = <<c, f[p]>>
      BY <1>6, <3>4
    <3> QED BY <2>1, <2>2, <3>2, <3>4, <3>5
  <2>3. CASE y[1] # c
    <3>1. y[2] \in Matching(tt[y[1]], l, sub)
      BY <1>1, <2>1, <2>3
    <3>2. y \in T
      BY <2>1, <3>1, TxnsInElement DEF T
    <3>3. F[y] = y
      BY <1>6, <2>3, <3>2
    <3> QED BY <3>2, <3>3
  <2> QED BY <2>2, <2>3
<1>10. F \in Bijection(T, S)
  BY <1>7, <1>8, <1>9 DEF Bijection, Injection, Surjection, IsInjective
<1>11. ExistsBijection(S, T)
  BY <1>10, Fun_ExistsBijSymmetric DEF ExistsBijection
<1>12. IsFiniteSet(T) /\ Cardinality(T) = Cardinality(S)
  <2>1. IsFiniteSet(S)
    BY DEF S
  <2> QED BY <1>11, <2>1, FS_Bijection
<1> QED BY <1>12 DEF T, S, tt, Counts

(* A flush that finds a TXN in the context finds all TXNs of the lock there.  *)
LEMMA FlushErasesAll ==
  ASSUME TypeOK, Sync, WritersOnce, NEW l \in Locks, Kind[l] = "RWLock", NEW sub \in SubLocks,
         count[l][sub] = 0, NEW c \in Ctxs, Found(c, l, Other(sub)) # 0,
         NEW E, Found(c, l, Other(sub)) \in E,
         \A i \in Matching(m_activeTXNs[c], l, "READER_LOCK") : i < Found(c, l, Other(sub)) => i \in E,
         NEW s \in SubLocks, NEW i \in Matching(m_activeTXNs[c], l, s)
  PROVE  i \in E
<1> DEFINE other == Other(sub)
           k == Found(c, l, other)
           stk == m_activeTXNs[c]
<1>1. /\ other \in SubLocks /\ sub # other /\ (s = sub \/ s = other)
      /\ other \in {"READER_LOCK", "WRITER_LOCK"}
  BY DEF Other, SubLocks
<1>2. \A r \in SubLocks : \A j \in Matching(stk, l, r) : <<c, j>> \in TxnsOf(l, r)
  BY DEF TxnsOf
<1>3. k \in Matching(stk, l, other)
  BY FoundProperties DEF Matching
<1>4. \A j \in Matching(stk, l, other) : j <= k /\ j \in Int /\ k \in Int
  <2>1. Len(stk) \in Nat /\ Matching(stk, l, other) \in SUBSET (1 .. Len(stk))
    BY FoundProperties DEF Matching
  <2> HIDE DEF stk, other
  <2>2. \A j \in Matching(stk, l, other) : j <= Topmost(Matching(stk, l, other))
    BY <2>1, TopmostProperties
  <2>3. Topmost(Matching(stk, l, other)) \in 0 .. Len(stk)
    BY <2>1, TopmostProperties
  <2>4. k = Topmost(Matching(stk, l, other))
    BY DEF Found, stk
  <2> QED BY <2>1, <2>2, <2>3, <2>4
<1> HIDE DEF k, stk, other
<1>5. s # sub
  <2>1. Cardinality(TxnsOf(l, sub)) = 0 /\ IsFiniteSet(TxnsOf(l, sub))
    BY SyncNumbers DEF Sync, TakesCounted
  <2>2. TxnsOf(l, sub) = {}
    BY <2>1, FS_EmptySet
  <2> QED BY <1>2, <2>2 DEF stk
<1>6. CASE other = "READER_LOCK"
  <2>1. i \in Matching(stk, l, "READER_LOCK") /\ i <= k /\ i \in Int /\ k \in Int
    BY <1>1, <1>4, <1>5, <1>6 DEF stk
  <2>2. CASE i = k
    BY <2>2 DEF k, other
  <2>3. CASE i # k
    <3>1. i < k
      BY <2>1, <2>3
    <3> QED BY <2>1, <3>1 DEF k, other, stk
  <2> QED BY <2>2, <2>3
<1>7. CASE other = "WRITER_LOCK"
  <2> DEFINE T == TxnsOf(l, "WRITER_LOCK")
  <2>1. IsFiniteSet(T) /\ Cardinality(T) \in Nat /\ Cardinality(T) <= 1
    BY <1>1, <1>7, SyncNumbers DEF WritersOnce
  <2>2. <<c, i>> \in T /\ <<c, k>> \in T
    BY <1>1, <1>2, <1>3, <1>5, <1>7 DEF stk
  <2> HIDE DEF T
  <2>3. Cardinality(T) = 1
    BY <2>1, <2>2, FS_EmptySet
  <2>4. PICK x : T = {x}
    BY <2>1, <2>3, FS_Singleton
  <2>5. i = k
    BY <2>2, <2>4
  <2> QED BY <2>5 DEF k, other
<1> QED BY <1>1, <1>6, <1>7

(* The TXNs of every sub lock after the flush, before the new one starts.    *)
LEMMA FlushCounts ==
  ASSUME TypeOK, Sync, OneContext, WritersOnce, NEW l \in Locks, Kind[l] = "RWLock", NEW sub \in SubLocks,
         count[l][sub] = 0, NEW c \in Ctxs, NEW t \in Nat, NEW m \in Locks, NEW s \in SubLocks
  PROVE  Counts(TxnsIn(With(m_activeTXNs, c, StackAfter(c, l, Other(sub), t, TRUE)), m, s),
                IF m = l /\ Found(c, l, Other(sub)) # 0 THEN 0 ELSE Cardinality(TxnsOf(m, s)))
<1> DEFINE A == StackAfter(c, l, Other(sub), t, TRUE)
           k == Found(c, l, Other(sub))
           stk == m_activeTXNs[c]
           tt == With(m_activeTXNs, c, A)
<1>1. A \in Seq(TXN)
  BY StackAfterFinished
<1>2. PICK E, f : /\ Finished(stk, l, k, A, E, f)
                  /\ k # 0 => k \in E
                  /\ \A i \in Matching(stk, l, "READER_LOCK") : i < k => i \in E
  BY StackAfterFinished
<1>3. m_activeTXNs \in [Ctxs -> Seq(TXN)] /\ IsFiniteSet(TxnsOf(m, s)) /\ TxnsOf(m, s) = TxnsIn(m_activeTXNs, m, s)
  BY SyncNumbers, TxnsOfIn DEF TypeOK
<1>4. /\ Selection(f, Len(A), Len(stk), E)
      /\ \A p \in 1 .. Len(A) : A[p].lock = stk[f[p]].lock /\ A[p].subLock = stk[f[p]].subLock
      /\ E \subseteq {i \in 1 .. Len(stk) : stk[i].lock = l} /\ (k = 0 => E = {})
  BY <1>2 DEF Finished
<1> HIDE DEF A
<1>5. CASE ~(m = l /\ k # 0)
  <2>1. \A i \in Matching(stk, m, s) : i \notin E
    BY <1>4, <1>5 DEF Matching
  <2>2. IsFiniteSet(TxnsIn(m_activeTXNs, m, s))
    BY <1>3
  <2>3. Counts(TxnsIn(tt, m, s), Cardinality(TxnsIn(m_activeTXNs, m, s)))
    BY <1>1, <1>3, <1>4, <2>1, <2>2, KeptCount
  <2> HIDE DEF k
  <2> QED BY <1>3, <1>5, <2>3 DEF A, k
<1>6. CASE m = l /\ k # 0
  <2>1. \A i \in Matching(stk, l, s) : i \in E
    BY <1>2, <1>6, FlushErasesAll
  <2>2. Matching(A, l, s) = {}
    <3> SUFFICES ASSUME NEW p \in Matching(A, l, s) PROVE FALSE
      OBVIOUS
    <3>1. p \in 1 .. Len(A) /\ A[p].lock = l /\ A[p].subLock = s
      BY DEF Matching
    <3>2. f[p] \in (1 .. Len(stk)) \ E
      BY <1>4, <3>1 DEF Selection
    <3>3. f[p] \in Matching(stk, l, s)
      BY <1>4, <3>1, <3>2 DEF Matching
    <3> QED BY <2>1, <3>2, <3>3
  <2>3. tt[c] = A /\ \A d \in Ctxs : d = c
    BY <1>1, <1>3, WithProperties DEF OneContext
  <2> HIDE DEF tt
  <2>4. TxnsIn(tt, l, s) = {}
    BY <2>2, <2>3 DEF TxnsIn
  <2>5. Counts(TxnsIn(tt, l, s), 0)
    BY <2>4, FS_EmptySet DEF Counts
  <2> HIDE DEF k
  <2> QED BY <1>6, <2>5 DEF A, k, tt
<1> QED BY <1>5, <1>6

LEMMA NotFoundNone ==
  ASSUME TypeOK, OneContext, NEW c \in Ctxs, NEW l \in Locks, NEW sub \in SubLocks, Found(c, l, sub) = 0
  PROVE  Cardinality(TxnsOf(l, sub)) = 0
<1>1. Len(m_activeTXNs[c]) \in Nat /\ Matching(m_activeTXNs[c], l, sub) \in SUBSET (1 .. Len(m_activeTXNs[c]))
  BY FoundProperties DEF Matching
<1>2. Matching(m_activeTXNs[c], l, sub) = {}
  BY <1>1, TopmostProperties DEF Found
<1>3. \A d \in Ctxs : Matching(m_activeTXNs[d], l, sub) = {}
  BY <1>2 DEF OneContext
<1>4. TxnsOf(l, sub) = {}
  BY <1>3 DEF TxnsOf
<1> QED BY <1>4, FS_EmptySet

(* P of one side while the other is held: the lock starts anew with one take, *)
(* or, when the take of the other side has no TXN, gains one of each.        *)
LEMMA FlushSync ==
  ASSUME TypeOK, Sync, OneContext, WritersOnce, NEW l \in Locks, NEW sub \in SubLocks, NEW c \in Ctxs,
         P_flush(l, sub, c)
  PROVE  Sync' /\ WritersOnce'
<1> DEFINE other == Other(sub)
           k == Found(c, l, other)
           A == StackAfter(c, l, other, ts + 1, TRUE)
           n == NextIDAfter(c, l, other)
           cnt == IF k # 0 THEN [count[l] EXCEPT ![other] = 0] ELSE count[l]
           pos == IF k # 0 THEN <<>> ELSE lastNPos[l]
           new == [id |-> n, start_ts |-> ts + 1, start_ctx |-> c,
                   memAccessCounter |-> 0, lock |-> l, subLock |-> sub]
           lp == [subLock |-> sub, start |-> ts + 1]
           base(m, s) == IF m = l /\ k # 0 THEN 0 ELSE Cardinality(TxnsOf(m, s))
           more(m, s) == IF m = l /\ s = sub THEN 1 ELSE 0
<1>1. /\ status = "tracing" /\ status' = "tracing" /\ Takes(l, sub) /\ count[l][sub] = 0 /\ count[l][other] > 0
      /\ Take(l, sub, c, cnt, pos, A, n)
  BY Zenon DEF P_flush, Event
<1>2. other \in SubLocks /\ sub # other /\ \A s \in SubLocks : s = sub \/ s = other
  BY DEF Other, SubLocks
<1>3. Kind[l] = "RWLock" /\ ts + 1 \in Nat
  <2>1. Takes(l, other)
    BY <1>1, <1>2 DEF Sync, OtherSideUnused
  <2>2. ts + 1 \in Nat
    BY DEF TypeOK
  <2> QED BY <1>1, <1>2, <2>1, <2>2 DEF Takes
<1>4. A \in Seq(TXN) /\ n \in Nat /\ k \in Nat
  <2>1. A \in Seq(TXN)
    BY <1>3, StackAfterFinished
  <2>2. n \in Nat /\ k \in Nat
    BY FoundProperties DEF NextIDAfter, TypeOK
  <2> QED BY <2>1, <2>2
<1>5. /\ m_activeTXNs' = With(m_activeTXNs, c, Append(A, new))
      /\ lastNPos' = [lastNPos EXCEPT ![l] = Append(pos, lp)]
      /\ count' = [count EXCEPT ![l] = [cnt EXCEPT ![sub] = @ + 1]]
  BY <1>1, Zenon DEF Take, With
<1>6. new \in TXN /\ new.lock = l /\ new.subLock = sub /\ lp \in LockPos
  BY <1>3, <1>4 DEF TXN, LockPos
<1>7. /\ Cardinality(TxnsOf(l, sub)) = 0
      /\ k = 0 => Cardinality(TxnsOf(l, other)) = 0
  <2>1. Cardinality(TxnsOf(l, sub)) \in Nat /\ Cardinality(TxnsOf(l, sub)) <= 0
    BY <1>1, SyncNumbers DEF Sync, TakesCounted
  <2>2. k = 0 => Cardinality(TxnsOf(l, other)) = 0
    BY <1>2, NotFoundNone
  <2> QED BY <2>1, <2>2
<1>8. ASSUME NEW m \in Locks, NEW s \in SubLocks
      PROVE  Counts(TxnsIn(With(m_activeTXNs, c, A), m, s), base(m, s))
  BY <1>1, <1>3, FlushCounts
<1> HIDE DEF A, n, new, lp, k, other
<1>9. ASSUME NEW m \in Locks, NEW s \in SubLocks
      PROVE  /\ Counts(TxnsOf(m, s)', base(m, s) + more(m, s)) /\ base(m, s) \in Nat /\ more(m, s) \in Nat
             /\ Cardinality(TxnsOf(m, s)) \in Nat /\ Cardinality(TxnsOf(m, s)) <= count[m][s]
  <2>1. m_activeTXNs \in [Ctxs -> Seq(TXN)] /\ IsFiniteSet(TxnsIn(With(m_activeTXNs, c, A), m, s))
    BY <1>8 DEF TypeOK, Counts
  <2>2. Counts(TxnsIn(With(m_activeTXNs, c, Append(A, new)), m, s),
               More(Cardinality(TxnsIn(With(m_activeTXNs, c, A), m, s)), new.lock = m /\ new.subLock = s))
    BY <1>4, <1>6, <2>1, StartCount, Zenon
  <2>3. TxnsOf(m, s)' = TxnsIn(With(m_activeTXNs, c, Append(A, new)), m, s)
    BY <1>5, TxnsOfIn
  <2>4. Cardinality(TxnsOf(m, s)) \in Nat /\ Cardinality(TxnsOf(m, s)) <= count[m][s]
    BY SyncNumbers DEF Sync, TakesCounted
  <2>5. base(m, s) \in Nat /\ more(m, s) \in Nat
    BY <2>4
  <2>6. Cardinality(TxnsIn(With(m_activeTXNs, c, A), m, s)) = base(m, s)
    BY <1>8 DEF Counts
  <2>7. More(base(m, s), new.lock = m /\ new.subLock = s) = base(m, s) + more(m, s)
    <3> DEFINE b == base(m, s)
    <3> b \in Nat
      BY <2>5
    <3> HIDE DEF b
    <3>1. More(b, new.lock = m /\ new.subLock = s) = b + more(m, s)
      BY <1>6 DEF More
    <3> QED BY <3>1 DEF b
  <2> HIDE DEF base, more
  <2> QED BY <2>2, <2>3, <2>4, <2>5, <2>6, <2>7
<1>10. ASSUME NEW m \in Locks, NEW s \in SubLocks
       PROVE  /\ count[m][s] \in Nat
              /\ count'[m][s] = IF m # l THEN count[m][s] ELSE IF s = sub THEN 1
                                ELSE IF k # 0 THEN 0 ELSE count[m][s]
  <2>1. count \in [Locks -> [SubLocks -> Nat]] /\ cnt \in [SubLocks -> Nat] /\ cnt[sub] = 0
    BY <1>1, <1>2 DEF TypeOK
  <2>2. cnt[other] = IF k # 0 THEN 0 ELSE count[l][other]
    BY <1>2, <2>1
  <2> HIDE DEF cnt
  <2>3. count'[l][sub] = 1 /\ count'[l][other] = cnt[other]
    BY <1>2, <1>5, <2>1
  <2> QED BY <1>2, <1>5, <2>1, <2>2, <2>3
<1>11. ASSUME NEW m \in Locks
       PROVE  /\ Len(lastNPos[m]) \in Nat /\ Len(lastNPos[m]) = Txns(m)
              /\ Len(lastNPos'[m]) = IF m # l THEN Len(lastNPos[m]) ELSE IF k # 0 THEN 1 ELSE Len(lastNPos[l]) + 1
  <2>1. lastNPos \in [Locks -> Seq(LockPos)] /\ Len(lastNPos[m]) \in Nat /\ pos \in Seq(LockPos)
    BY LenProperties DEF TypeOK
  <2>2. Len(pos) = IF k # 0 THEN 0 ELSE Len(lastNPos[l])
    OBVIOUS
  <2> HIDE DEF pos
  <2>3. Len(Append(pos, lp)) = Len(pos) + 1
    BY <1>6, <2>1, AppendProperties
  <2>4. lastNPos'[m] = IF m = l THEN Append(pos, lp) ELSE lastNPos[m]
    BY <1>5, <2>1
  <2>5. Len(lastNPos[m]) = Txns(m)
    BY <1>1 DEF Sync, PositionsSuffice
  <2> QED BY <2>1, <2>2, <2>3, <2>4, <2>5
<1>12. ASSUME NEW m \in Locks, NEW s \in SubLocks
       PROVE  /\ IsFiniteSet(TxnsOf(m, s)')
              /\ Cardinality(TxnsOf(m, s)') = IF m # l THEN Cardinality(TxnsOf(m, s))
                                               ELSE IF s = sub THEN 1 ELSE 0
  <2>1. CASE m # l
    BY <1>9, <2>1 DEF Counts
  <2>2. CASE m = l /\ s = sub
    BY <1>7, <1>9, <2>2 DEF Counts
  <2>3. CASE m = l /\ s # sub
    BY <1>2, <1>7, <1>9, <2>3 DEF Counts
  <2> QED BY <2>1, <2>2, <2>3
<1>13. TakesCounted'
  <2> SUFFICES ASSUME NEW m \in Locks, NEW s \in SubLocks
               PROVE  IsFiniteSet(TxnsOf(m, s)') /\ Cardinality(TxnsOf(m, s)') <= count'[m][s]
    BY DEF TakesCounted
  <2> QED BY <1>9, <1>10, <1>12
<1>14. OtherSideUnused'
  <2> SUFFICES ASSUME NEW m \in Locks, NEW s \in SubLocks, ~Takes(m, s) PROVE count'[m][s] = 0
    BY DEF OtherSideUnused, Takes
  <2>1. m # l /\ count[m][s] = 0
    BY <1>3 DEF Sync, OtherSideUnused, Takes
  <2> QED BY <1>10, <2>1
<1>15. PositionsSuffice'
  <2> SUFFICES ASSUME NEW m \in Locks PROVE Len(lastNPos'[m]) = Txns(m)' /\ Txns(m)' \in Nat
    BY DEF PositionsSuffice
  <2>1. /\ Txns(m)' = Cardinality(TxnsOf(m, "READER_LOCK")') + Cardinality(TxnsOf(m, "WRITER_LOCK")')
        /\ Txns(m) = Cardinality(TxnsOf(m, "READER_LOCK")) + Cardinality(TxnsOf(m, "WRITER_LOCK"))
        /\ "READER_LOCK" \in SubLocks /\ "WRITER_LOCK" \in SubLocks
    BY DEF Txns, SubLocks
  <2>2. CASE m # l
    <3>1. Txns(m)' = Txns(m)
      BY <1>12, <2>1, <2>2
    <3> QED BY <1>11, <2>2, <3>1
  <2>3. CASE m = l
    <3>1. Txns(m)' = 1
      BY <1>12, <2>1, <2>3 DEF SubLocks
    <3>2. k = 0 => Txns(m) = 0
      BY <1>2, <1>7, <2>1, <2>3 DEF SubLocks
    <3>3. Len(lastNPos'[m]) = 1
      <4>1. CASE k # 0
        BY <1>11, <2>3, <4>1
      <4>2. CASE k = 0
        <5>1. Len(lastNPos[m]) = 0
          BY <1>11, <3>2, <4>2
        <5>2. Len(lastNPos'[m]) = Len(lastNPos[m]) + 1
          BY <1>11, <2>3, <4>2
        <5> QED BY <5>1, <5>2
      <4> QED BY <4>1, <4>2
    <3> QED BY <3>1, <3>3
  <2> QED BY <2>2, <2>3
<1>16. WritersOnce'
  <2> SUFFICES ASSUME NEW m \in Locks, Kind[m] = "RWLock" PROVE Cardinality(TxnsOf(m, "WRITER_LOCK")') <= 1
    BY DEF WritersOnce
  <2>1. "WRITER_LOCK" \in SubLocks /\ Cardinality(TxnsOf(m, "WRITER_LOCK")) <= 1
    BY DEF SubLocks, WritersOnce
  <2> QED BY <1>12, <2>1
<1> QED BY <1>13, <1>14, <1>15, <1>16 DEF Sync

(* A P with nothing to repair takes a reader-writer lock for writing only     *)
(* when nobody writes it.                                                    *)
LEMMA PWritersOnce ==
  ASSUME TypeOK, Sync, SidesNotRecursive, WritersOnce, NEW l \in Locks, NEW sub \in SubLocks, NEW c \in Ctxs,
         NEW recursive \in Flags[l], P(l, sub, c, recursive)
  PROVE  WritersOnce'
<1> DEFINE w == "WRITER_LOCK"
           A == m_activeTXNs[c]
           new == [id |-> m_nextTXNID, start_ts |-> ts + 1, start_ctx |-> c,
                   memAccessCounter |-> 0, lock |-> l, subLock |-> sub]
<1>1. m_activeTXNs' = With(m_activeTXNs, c, Append(A, new))
  BY DEF P, Take, With
<1>2. new \in TXN /\ IsFor(new, l, sub)
  BY DEF TypeOK, TXN, IsFor
<1>3. Closes(m_activeTXNs[c], 0, A)
  <2>1. A \in Seq(TXN) /\ Len(A) \in Nat
    BY DEF TypeOK
  <2> QED BY <2>1 DEF Closes, Src
<1> HIDE DEF A, new
<1> SUFFICES ASSUME NEW m \in Locks, Kind[m] = "RWLock" PROVE Cardinality(TxnsOf(m, w)') <= 1
  BY DEF WritersOnce
<1>4. w \in SubLocks
  BY DEF SubLocks
<1>5. Counts(TxnsOf(m, w)', Cardinality(TxnsOf(m, w)) + Gained(m, w, l, sub, 0))
  BY <1>1, <1>2, <1>3, <1>4, TakenCounts, Zenon
<1>6. /\ Cardinality(TxnsOf(m, w)) \in Nat /\ Cardinality(TxnsOf(m, w)) <= 1
      /\ Cardinality(TxnsOf(m, w)) <= count[m][w]
  BY <1>4, SyncNumbers DEF WritersOnce, Sync, TakesCounted
<1>7. CASE m = l /\ sub = w
  <2>1. count[l][w] = 0
    <3>1. ~recursive
      <4>1. recursive \in BOOLEAN
        BY LockAssumption
      <4>2. recursive # TRUE
        BY <1>7 DEF SidesNotRecursive
      <4> QED BY <4>1, <4>2
    <3>2. count[l][sub] = 0 \/ sub = "READER_LOCK" \/ recursive
      BY DEF P
    <3> QED BY <1>7, <3>1, <3>2
  <2> QED BY <1>5, <1>6, <1>7, <2>1 DEF Counts, Gained
<1>8. CASE ~(m = l /\ sub = w)
  BY <1>5, <1>6, <1>8 DEF Counts, Gained
<1> QED BY <1>7, <1>8

(* P_WRITE of a lock that is written: its TXN, if there is one, is finished   *)
(* first.                                                                    *)
LEMMA AgainWritersOnce ==
  ASSUME TypeOK, Sync, OneContext, WritersOnce, NEW l \in Locks, NEW c \in Ctxs, P_WRITE_again(l, c)
  PROVE  WritersOnce'
<1> DEFINE w == "WRITER_LOCK"
           k == Found(c, l, w)
           A == StackAfter(c, l, w, ts + 1, FALSE)
           n == NextIDAfter(c, l, w)
           new == [id |-> n, start_ts |-> ts + 1, start_ctx |-> c,
                   memAccessCounter |-> 0, lock |-> l, subLock |-> w]
<1>1. m_activeTXNs' = With(m_activeTXNs, c, Append(A, new))
  BY Zenon DEF P_WRITE_again, Take, With
<1>2. w \in SubLocks /\ ts + 1 \in Nat
  BY DEF SubLocks, TypeOK
<1>3. n \in Nat
  BY <1>2, FinishTypes
<1>4. Closes(m_activeTXNs[c], k, A)
  BY <1>2, FinishCloses
<1>5. k # 0 => k \in Matching(m_activeTXNs[c], l, w)
  BY FoundProperties DEF Matching
<1>6. k = 0 => Cardinality(TxnsOf(l, w)) = 0
  BY <1>2, NotFoundNone
<1> HIDE DEF n, A, k, w
<1>7. new \in TXN /\ IsFor(new, l, w)
  BY <1>2, <1>3 DEF TXN, IsFor
<1> HIDE DEF new
<1> SUFFICES ASSUME NEW m \in Locks, Kind[m] = "RWLock" PROVE Cardinality(TxnsOf(m, w)') <= 1
  BY DEF WritersOnce, w
<1>8. Counts(TxnsOf(m, w)', Cardinality(TxnsOf(m, w)) + Gained(m, w, l, w, k))
  BY <1>1, <1>2, <1>4, <1>5, <1>7, TakenCounts, Zenon
<1>9. Cardinality(TxnsOf(m, w)) \in Nat /\ Cardinality(TxnsOf(m, w)) <= 1
  BY <1>2, SyncNumbers DEF WritersOnce, w
<1>10. CASE m = l /\ k = 0
  BY <1>6, <1>8, <1>9, <1>10 DEF Counts, Gained
<1>11. CASE ~(m = l /\ k = 0)
  BY <1>8, <1>9, <1>11 DEF Counts, Gained
<1> QED BY <1>10, <1>11

LEMMA FinishWritersOnce ==
  ASSUME TypeOK, Sync, WritersOnce, NEW c \in Ctxs, NEW l \in Locks, NEW sub \in SubLocks, NEW t \in Nat,
         m_activeTXNs' = [m_activeTXNs EXCEPT ![c] = StackAfter(c, l, sub, t, FALSE)]
  PROVE  WritersOnce'
<1> DEFINE w == "WRITER_LOCK"
<1> SUFFICES ASSUME NEW m \in Locks, Kind[m] = "RWLock" PROVE Cardinality(TxnsOf(m, w)') <= 1
  BY DEF WritersOnce
<1>1. w \in SubLocks
  BY DEF SubLocks
<1>2. Cardinality(TxnsOf(m, w)) \in Nat /\ Cardinality(TxnsOf(m, w)) <= 1
  BY <1>1, SyncNumbers DEF WritersOnce
<1> HIDE DEF w
<1>3. Counts(TxnsOf(m, w)', Cardinality(TxnsOf(m, w)) - Lost(m, w, l, sub, Found(c, l, sub)))
  BY <1>1, FinishCounts
<1> QED BY <1>2, <1>3 DEF Counts, Lost

LEMMA SameWritersOnce ==
  ASSUME WritersOnce,
         \A c \in Ctxs : /\ Len(m_activeTXNs'[c]) = Len(m_activeTXNs[c])
                         /\ \A i \in 1 .. Len(m_activeTXNs[c]) :
                              /\ m_activeTXNs'[c][i].lock = m_activeTXNs[c][i].lock
                              /\ m_activeTXNs'[c][i].subLock = m_activeTXNs[c][i].subLock
  PROVE  WritersOnce'
<1>1. \A c \in Ctxs : \A l, sub : Matching(m_activeTXNs'[c], l, sub) = Matching(m_activeTXNs[c], l, sub)
  BY DEF Matching
<1>2. \A l, sub : TxnsOf(l, sub)' = TxnsOf(l, sub)
  BY <1>1 DEF TxnsOf
<1> QED BY <1>2 DEF WritersOnce

DInv == IInv /\ Sync /\ WritersOnce /\ NoUndefinedPop

LEMMA DInvInit == Init => DInv
<1> SUFFICES ASSUME Init PROVE DInv
  OBVIOUS
<1>1. OInv
  BY OInvInit
<1>2. \A c \in Ctxs : 1 .. Len(m_activeTXNs[c]) = {}
  BY DEF Init
<1>3. \A l, sub : TxnsOf(l, sub) = {}
  BY <1>2 DEF TxnsOf, Matching
<1>4. WritersOnce
  BY <1>3, FS_EmptySet DEF WritersOnce
<1> QED BY <1>1, <1>4 DEF OInv, DInv

LEMMA DInvStep ==
  ASSUME OneContext, SidesNotRecursive, DInv, [Next]_vars
  PROVE  DInv'
<1> USE DEF rows, lockState
<1>0. IInv /\ TypeOK /\ Sync /\ WritersOnce /\ status # "undefined" /\ ts \in Nat /\ ts + 1 \in Nat
  BY DEF DInv, IInv, TypeOK, NoUndefinedPop
<1>1. IInv'
  BY <1>0, IInvStep
<1>2. ASSUME NEW l \in Locks, NEW sub \in SubLocks, NEW c \in Ctxs, NEW recursive \in Flags[l], P(l, sub, c, recursive)
      PROVE  Sync' /\ WritersOnce' /\ status' # "undefined"
  <2>1. Sync'
    BY <1>0, <1>2, PSync
  <2>2. WritersOnce'
    BY <1>0, <1>2, PWritersOnce
  <2> QED BY <1>0, <1>2, <2>1, <2>2 DEF P
<1>3. ASSUME NEW l \in Locks, NEW c \in Ctxs, P_WRITE_again(l, c)
      PROVE  Sync' /\ WritersOnce' /\ status' # "undefined"
  <2>1. Sync' /\ status' = status
    BY <1>0, <1>3, PWriteAgainSync
  <2>2. WritersOnce'
    BY <1>0, <1>3, AgainWritersOnce
  <2> QED BY <1>0, <2>1, <2>2
<1>4. ASSUME NEW l \in Locks, NEW sub \in SubLocks, NEW c \in Ctxs, P_flush(l, sub, c)
      PROVE  Sync' /\ WritersOnce' /\ status' # "undefined"
  <2>1. Sync' /\ WritersOnce'
    BY <1>0, <1>4, FlushSync
  <2>2. status' = status
    BY <1>4, Zenon DEF P_flush
  <2> QED BY <1>0, <2>1, <2>2
<1>5. ASSUME NEW l \in Locks, NEW sub \in SubLocks, NEW c \in Ctxs, V(l, sub, c)
      PROVE  Sync' /\ WritersOnce' /\ status' # "undefined"
  <2>1. Sync' /\ status' = status
    BY <1>0, <1>5, VSync DEF V
  <2>2. CASE lastNPos[l] = <<>>
    BY <1>0, <1>5, <2>1, <2>2, SameWritersOnce DEF V
  <2>3. CASE lastNPos[l] # <<>>
    <3> DEFINE d == IF isOnTXNStack(c, l, sub) THEN c ELSE findTXN(l, sub, c)
    <3>1. m_activeTXNs' = [m_activeTXNs EXCEPT ![d] = StackAfter(d, l, sub, ts + 1, FALSE)]
      BY <1>5, <2>3 DEF V
    <3>2. d \in Ctxs
      BY ReleaseCtxType
    <3> HIDE DEF d
    <3>3. WritersOnce'
      BY <1>0, <3>1, <3>2, FinishWritersOnce
    <3> QED BY <1>0, <2>1, <3>3
  <2> QED BY <2>2, <2>3
<1>6. ASSUME NEW c \in Ctxs, CloseTXN(c)
      PROVE  Sync' /\ WritersOnce' /\ status' # "undefined"
  <2>1. Sync' /\ status' = status
    BY <1>0, <1>6, CloseSync DEF CloseTXN
  <2> DEFINE l == getActiveTXN(c).lock
             sub == getActiveTXN(c).subLock
  <2>2. m_activeTXNs' = [m_activeTXNs EXCEPT ![c] = StackAfter(c, l, sub, ts, FALSE)]
    BY <1>6 DEF CloseTXN
  <2>3. l \in Locks /\ sub \in SubLocks
    <3>1. m_activeTXNs[c] \in Seq(TXN) /\ m_activeTXNs[c] # <<>>
      BY <1>0, <1>6 DEF TypeOK, CloseTXN, hasActiveTXN
    <3>2. getActiveTXN(c) \in TXN
      BY <3>1 DEF getActiveTXN, Top
    <3> QED BY <3>2 DEF TXN
  <2> HIDE DEF l, sub
  <2>4. WritersOnce'
    BY <1>0, <2>2, <2>3, FinishWritersOnce
  <2> QED BY <1>0, <2>1, <2>4
<1>7. ASSUME NEW c \in Ctxs, Access(c)
      PROVE  Sync' /\ WritersOnce' /\ status' # "undefined"
  <2>1. \A d \in Ctxs : /\ Len(m_activeTXNs'[d]) = Len(m_activeTXNs[d])
                        /\ \A i \in 1 .. Len(m_activeTXNs[d]) :
                             /\ m_activeTXNs'[d][i].lock = m_activeTXNs[d][i].lock
                             /\ m_activeTXNs'[d][i].subLock = m_activeTXNs[d][i].subLock
    BY <1>0, <1>7, AccessStacks
  <2>2. UNCHANGED lockState /\ status' = status
    BY <1>7 DEF Access
  <2>3. Sync'
    BY <1>0, <2>1, <2>2, SameSync
  <2>4. WritersOnce'
    BY <1>0, <2>1, SameWritersOnce
  <2> QED BY <1>0, <2>2, <2>3, <2>4
<1>8. ASSUME \/ \E l \in Locks, sub \in SubLocks : Throw(l, sub)
             \/ \E l \in Locks, sub \in SubLocks, c \in Ctxs : P_flush_fault(l, sub, c)
             \/ Ignored \/ EndOfTrace \/ Closed \/ UNCHANGED vars
      PROVE  Sync' /\ WritersOnce' /\ status' # "undefined"
  <2>1. UNCHANGED <<m_activeTXNs, lockState>>
    BY <1>8 DEF Throw, P_flush_fault, Ignored, EndOfTrace, Closed, vars
  <2>2. (status' = "tracing" => status = "tracing") /\ status' # "undefined"
    BY <1>0, <1>8 DEF Throw, P_flush_fault, Event, Ignored, EndOfTrace, Closed, vars
  <2>3. Sync'
    BY <1>0, <2>1, <2>2, SameSync
  <2>4. WritersOnce'
    BY <1>0, <2>1, SameWritersOnce
  <2> QED BY <2>2, <2>3, <2>4
<1>9. Sync' /\ WritersOnce' /\ status' # "undefined"
  BY <1>2, <1>3, <1>4, <1>5, <1>6, <1>7, <1>8 DEF Next, LockOp
<1> QED BY <1>1, <1>9 DEF DInv, NoUndefinedPop

LEMMA DInvAlways ==
  ASSUME OneContext, SidesNotRecursive
  PROVE  Spec => []DInv
<1>1. DInv /\ [Next]_vars => DInv'
  BY DInvStep
<1> QED BY DInvInit, <1>1, PTL DEF Spec

(* Without -c, the positions of a lock and its TXNs stay in step whatever the *)
(* trace loses, with any number of locks of any class: a flush takes away all *)
(* positions and, since a lock has one writer TXN at most, all TXNs.         *)
THEOREM DefaultInSync == ASSUME OneContext, SidesNotRecursive PROVE Spec => []InSync
<1>1. DInv => InSync
  BY SyncImplies DEF DInv, IInv
<1> QED BY <1>1, DInvAlways, PTL

(* Without -c, an active TXN stands for a lock that is held, also of a lock   *)
(* whose other side was flushed.                                             *)
THEOREM DefaultTxnsAreHeld == ASSUME OneContext, SidesNotRecursive PROVE Spec => []TxnsAreHeld
<1>1. DInv => TxnsAreHeld
  BY SyncImplies DEF DInv, IInv
<1> QED BY <1>1, DInvAlways, PTL

(* Without -c, P_WRITE_again pops no empty stack of positions: what           *)
(* lm_pop_empty finds with two contexts does not happen.                     *)
THEOREM DefaultNoUndefinedPop == ASSUME OneContext, SidesNotRecursive PROVE Spec => []NoUndefinedPop
<1>1. DInv => NoUndefinedPop
  BY DEF DInv
<1> QED BY <1>1, DInvAlways, PTL
=============================================================================
