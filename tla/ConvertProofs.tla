--------------------------- MODULE ConvertProofs ---------------------------
(***************************************************************************)
(* Theorems about Convert, for any trace: any lines, data types, sections   *)
(* and options.                                                             *)
(***************************************************************************)
EXTENDS Convert, SequenceTheorems, FiniteSetTheorems, TLAPS

(* The lock manager without its accesses: what convert changes of it outside  *)
(* writeMemAccesses.                                                         *)
Core == INSTANCE LockManagerProofs WITH accesses <- <<>>

LEMMA CoreTypeStep ==
  ASSUME Core!TypeOK, Core!Next
  PROVE  Core!TypeOK'
BY LockAssumption, CtxAssumption, MaxTsAssumption, Core!TypeStep DEF Core!TypeStep

(* A step of the lock manager is a step of its core.                          *)
LEMMA PIsCore ==
  ASSUME NEW l, NEW sub, NEW c, NEW recursive, P(l, sub, c, recursive)
  PROVE  Core!P(l, sub, c, recursive)
BY Zenon DEF P, Core!P, Event, Core!Event, Takes, Core!Takes, Other, Core!Other, rows, Core!rows,
             Take, Core!Take

(* finishTXN, in parts.                                                       *)
LEMMA FoundIsCore ==
  ASSUME NEW c, NEW l, NEW sub
  PROVE  Core!Found(c, l, sub) = Found(c, l, sub)
BY Zenon DEF Found, Core!Found, Topmost, Core!Topmost, Matching, Core!Matching

LEMMA NextIDIsCore ==
  ASSUME NEW c, NEW l, NEW sub
  PROVE  Core!NextIDAfter(c, l, sub) = NextIDAfter(c, l, sub)
BY FoundIsCore DEF NextIDAfter, Core!NextIDAfter

LEMMA StackAfterIsCore ==
  ASSUME NEW c, NEW l, NEW sub, NEW t, NEW rm
  PROVE  Core!StackAfter(c, l, sub, t, rm) = StackAfter(c, l, sub, t, rm)
<1> DEFINE stk == m_activeTXNs[c]
           k == Found(c, l, sub)
<1>1. Core!Found(c, l, sub) = k
  BY FoundIsCore
<1>2. Core!Restarted(stk, k, t, c) = Restarted(stk, k, t, c)
  BY Zenon DEF Restarted, Core!Restarted
<1>3. \A s, E : Core!EraseAt(s, E) = EraseAt(s, E)
  BY Zenon DEF EraseAt, Core!EraseAt, Cardinality, Core!Cardinality, IsFiniteSet, Core!IsFiniteSet
<1>4. \A s : Core!Matching(s, l, "READER_LOCK") = Matching(s, l, "READER_LOCK")
  BY Zenon DEF Matching, Core!Matching
<1>5. Core!Remaining(stk, k, l, rm) = Remaining(stk, k, l, rm)
  BY <1>3, <1>4 DEF Remaining, Core!Remaining
<1> QED BY <1>1, <1>2, <1>5 DEF StackAfter, Core!StackAfter

LEMMA WriteRowsIsCore ==
  ASSUME NEW c, NEW l, NEW sub, NEW t, NEW e, WriteRows(c, l, sub, t, e)
  PROVE  Core!WriteRows(c, l, sub, t, e)
BY Zenon DEF WriteRows, Core!WriteRows, Found, Core!Found, Topmost, Core!Topmost, Matching, Core!Matching,
   TxnRows, Core!TxnRows, HeldRows, Core!HeldRows, Recorded, Core!Recorded, HeldBelow, Core!HeldBelow,
   isHeld, Core!isHeld, Takes, Core!Takes, Top, Core!Top, SubLocks, Core!SubLocks

LEMMA TakeIsCore ==
  ASSUME NEW l, NEW sub, NEW c, NEW cnt, NEW pos, NEW stk, NEW n, Take(l, sub, c, cnt, pos, stk, n)
  PROVE  Core!Take(l, sub, c, cnt, pos, stk, n)
BY Zenon DEF Take, Core!Take

LEMMA PWriteAgainIsCore ==
  ASSUME NEW l, NEW c, P_WRITE_again(l, c)
  PROVE  Core!P_WRITE_again(l, c)
<1> DEFINE sub == "WRITER_LOCK"
           A == StackAfter(c, l, sub, ts + 1, FALSE)
           n == NextIDAfter(c, l, sub)
           pos == PositionsAfter(l, Found(c, l, sub) # 0)
<1>1. /\ Core!Found(c, l, sub) = Found(c, l, sub) /\ Core!NextIDAfter(c, l, sub) = n
      /\ Core!StackAfter(c, l, sub, ts + 1, FALSE) = A
  BY FoundIsCore, NextIDIsCore, StackAfterIsCore
<1>2. Core!PositionsAfter(l, Core!Found(c, l, sub) # 0) = pos
  BY <1>1 DEF PositionsAfter, Core!PositionsAfter, Pop, Core!Pop
<1>3. WriteRows(c, l, sub, ts + 1, c) /\ Take(l, sub, c, count[l], pos, A, n)
  BY DEF P_WRITE_again
<1>4. /\ Event /\ Takes(l, sub) /\ FALSE \in Flags[l]
      /\ count[l][sub] > 0 /\ count[l][Other(sub)] = 0
      /\ status' = IF Found(c, l, sub) # 0 /\ lastNPos[l] = <<>> THEN "undefined" ELSE status
  BY DEF P_WRITE_again
<1>5. Core!WriteRows(c, l, sub, ts + 1, c) /\ Core!Take(l, sub, c, count[l], pos, A, n)
  <2> HIDE DEF sub, A, n, pos
  <2> QED BY <1>3, WriteRowsIsCore, TakeIsCore
<1>6. Core!Event /\ Core!Takes(l, sub) /\ Core!Other(sub) = Other(sub)
  BY <1>4 DEF Event, Core!Event, Takes, Core!Takes, Other, Core!Other
<1> HIDE DEF A, n, pos
<1> QED BY <1>1, <1>2, <1>4, <1>5, <1>6 DEF Core!P_WRITE_again

LEMMA PFlushIsCore ==
  ASSUME NEW l, NEW sub, NEW c, P_flush(l, sub, c)
  PROVE  Core!P_flush(l, sub, c)
<1> DEFINE o == Other(sub)
           A == StackAfter(c, l, o, ts + 1, TRUE)
           n == NextIDAfter(c, l, o)
           cnt == IF Found(c, l, o) # 0 THEN [count[l] EXCEPT ![o] = 0] ELSE count[l]
           pos == IF Found(c, l, o) # 0 THEN <<>> ELSE lastNPos[l]
<1>0. Core!Other(sub) = o
  BY DEF Other, Core!Other
<1>1. /\ Core!Found(c, l, o) = Found(c, l, o) /\ Core!NextIDAfter(c, l, o) = n
      /\ Core!StackAfter(c, l, o, ts + 1, TRUE) = A
  BY FoundIsCore, NextIDIsCore, StackAfterIsCore
<1>3. WriteRows(c, l, o, ts + 1, c) /\ Take(l, sub, c, cnt, pos, A, n)
  BY DEF P_flush
<1>4. /\ Event /\ Takes(l, sub) /\ count[l][sub] = 0 /\ count[l][o] > 0 /\ status' = status
  BY DEF P_flush
<1>5. Core!WriteRows(c, l, o, ts + 1, c) /\ Core!Take(l, sub, c, cnt, pos, A, n)
  <2> HIDE DEF o, A, n, pos, cnt
  <2> QED BY <1>3, WriteRowsIsCore, TakeIsCore
<1>6. Core!Event /\ Core!Takes(l, sub)
  BY <1>4 DEF Event, Core!Event, Takes, Core!Takes
<1> HIDE DEF A, n
<1> QED BY <1>0, <1>1, <1>4, <1>5, <1>6 DEF Core!P_flush

LEMMA PFlushFaultIsCore ==
  ASSUME NEW l, NEW sub, NEW c, P_flush_fault(l, sub, c)
  PROVE  Core!P_flush_fault(l, sub, c)
BY Zenon DEF P_flush_fault, Core!P_flush_fault, Event, Core!Event, Takes, Core!Takes, Other, Core!Other,
   rows, Core!rows, lockState, Core!lockState, Found, Core!Found, Topmost, Core!Topmost,
   Matching, Core!Matching

LEMMA ThrowIsCore ==
  ASSUME NEW l, NEW sub, Throw(l, sub)
  PROVE  Core!Throw(l, sub)
BY Zenon DEF Throw, Core!Throw, Event, Core!Event, Takes, Core!Takes, InvalidState, Core!InvalidState,
   rows, Core!rows, lockState, Core!lockState, SubLocks, Core!SubLocks

LEMMA VIsCore ==
  ASSUME NEW l, NEW sub, NEW c, V(l, sub, c)
  PROVE  Core!V(l, sub, c)
BY Zenon DEF V, Core!V, Event, Core!Event, Takes, Core!Takes,
   rows, Core!rows, WriteRows, Core!WriteRows, StackAfter, Core!StackAfter,
   NextIDAfter, Core!NextIDAfter, PositionsAfter, Core!PositionsAfter, Found, Core!Found,
   Topmost, Core!Topmost, Matching, Core!Matching, TxnRows, Core!TxnRows, HeldRows, Core!HeldRows,
   Recorded, Core!Recorded, HeldBelow, Core!HeldBelow, isHeld, Core!isHeld, Top, Core!Top,
   SubLocks, Core!SubLocks, Remaining, Core!Remaining, Restarted, Core!Restarted,
   EraseAt, Core!EraseAt, Pop, Core!Pop, isOnTXNStack, Core!isOnTXNStack, findTXN, Core!findTXN,
   Decremented, Core!Decremented

LEMMA CloseIsCore ==
  ASSUME NEW c, CloseTXN(c)
  PROVE  Core!CloseTXN(c)
<1> DEFINE l == getActiveTXN(c).lock
           sub == getActiveTXN(c).subLock
           A == StackAfter(c, l, sub, ts, FALSE)
           n == NextIDAfter(c, l, sub)
<1>0. Core!getActiveTXN(c) = getActiveTXN(c) /\ \A d : Core!hasActiveTXN(d) <=> hasActiveTXN(d)
  BY DEF getActiveTXN, Core!getActiveTXN, Top, Core!Top, hasActiveTXN, Core!hasActiveTXN
<1>1. Core!NextIDAfter(c, l, sub) = n /\ Core!StackAfter(c, l, sub, ts, FALSE) = A
  BY NextIDIsCore, StackAfterIsCore
<1>2. /\ WriteRows(c, l, sub, ts, c) /\ m_activeTXNs' = [m_activeTXNs EXCEPT ![c] = A] /\ m_nextTXNID' = n
      /\ status = "closing" /\ hasActiveTXN(c) /\ \A d \in Ctxs : d < c => ~hasActiveTXN(d)
      /\ count' = count /\ lastNPos' = lastNPos /\ ts' = ts /\ status' = status
  BY DEF CloseTXN, lockState
<1>3. Core!WriteRows(c, l, sub, ts, c)
  <2> HIDE DEF l, sub
  <2> QED BY <1>2, WriteRowsIsCore
<1> HIDE DEF A, n
<1> QED BY <1>0, <1>1, <1>2, <1>3 DEF Core!CloseTXN, Core!lockState

(* The transition of a lock for a line.                                       *)
LEMMA TransitionIsCore ==
  ASSUME NEW l \in Locks, line \in LockLine, Transition(l)
  PROVE  Core!Next
<1>1. line.sub \in SubLocks /\ line.ctx \in Ctxs
  BY DEF LockLine
<1>2. Core!SubLocks = SubLocks
  BY DEF SubLocks, Core!SubLocks
<1>3. ASSUME NEW recursive \in Flags[l], P(l, line.sub, line.ctx, recursive) PROVE Core!Next
  BY <1>1, <1>2, <1>3, PIsCore DEF Core!Next, Core!LockOp
<1>4. CASE line.sub = "WRITER_LOCK" /\ P_WRITE_again(l, line.ctx)
  BY <1>1, <1>2, <1>4, PWriteAgainIsCore DEF Core!Next, Core!LockOp
<1>5. CASE P_flush(l, line.sub, line.ctx)
  BY <1>1, <1>2, <1>5, PFlushIsCore DEF Core!Next, Core!LockOp
<1>6. CASE P_flush_fault(l, line.sub, line.ctx)
  BY <1>1, <1>2, <1>6, PFlushFaultIsCore DEF Core!Next, Core!LockOp
<1>7. CASE V(l, line.sub, line.ctx)
  BY <1>1, <1>2, <1>7, VIsCore DEF Core!Next, Core!LockOp
<1>8. CASE Throw(l, line.sub)
  BY <1>1, <1>2, <1>8, ThrowIsCore DEF Core!Next
<1> QED BY <1>3, <1>4, <1>5, <1>6, <1>7, <1>8 DEF Transition

LEMMA TransitionEffect ==
  ASSUME NEW l, Transition(l)
  PROVE  /\ status = "tracing" /\ status' \in {"tracing", "aborted", "undefined"}
         /\ ts' = ts + 1 /\ accesses' = accesses
BY DEF Transition, P, P_WRITE_again, P_flush, P_flush_fault, V, Throw, Event

-----------------------------------------------------------------------------
(* Types *)

BufferedAccess == [ts : Nat, alloc_id : Nat, action : {"r", "w"}, size : Nat, addr : Nat,
                   same : BOOLEAN, ctx : Ctxs, held : Seq(Locks \X SubLocks)]
WrittenAccess == [ts : Nat, ctx : Ctxs, txn : Nat, held : Seq(Locks \X SubLocks), alloc_id : Nat, addr : Nat]

AllocationsTyped ==
  /\ curAllocID \in Nat
  /\ \A a \in activeAllocs : a.base \in Nat /\ a.size \in Nat /\ a.id \in Nat /\ a.start \in Nat
  /\ \A r \in allocations : r.base \in Nat /\ r.id \in Nat /\ r.start \in Nat /\ r.end \in Nat
  /\ \A k \in m_locks : k.addr \in Nat /\ k.lock \in Locks /\ k.allocation_id \in Nat

ConvertTypeOK ==
  /\ Core!TypeOK
  /\ line \in Lines \cup {NoLine}
  /\ lastMemAccesses \in Seq(BufferedAccess)
  /\ accesses \in Seq(WrittenAccess)
  /\ AllocationsTyped

(* The action of a line tells its fields.                                    *)
LEMMA LineFields ==
  ASSUME line \in Lines \cup {NoLine}
  PROVE  /\ line.action = "a" => line \in AllocLine
         /\ line.action = "f" => line \in FreeLine
         /\ line.action = "l" => line \in LockLine
         /\ line.action \in {"r", "w"} => line \in AccessLine
BY LinesAssumption DEF NoLine, AllocLine, FreeLine, LockLine, AccessLine, OtherLine

LEMMA CoreTypes ==
  ASSUME Core!TypeOK
  PROVE  /\ m_activeTXNs \in [Ctxs -> Seq(TXN)] /\ m_nextTXNID \in Nat \ {0} /\ ts \in Nat
         /\ lastNPos \in [Locks -> Seq(LockPos)] /\ count \in [Locks -> [SubLocks -> Nat]]
         /\ txns \subseteq TxnRow /\ locks_held \subseteq HeldRow
         /\ status \in {"tracing", "closing", "done", "aborted", "undefined"}
BY Zenon DEF Core!TypeOK, Core!TXN, TXN, Core!LockPos, LockPos, Core!SubLocks, SubLocks,
   Core!TxnRow, TxnRow, Core!HeldRow, HeldRow

(* Core's types, when only its stacks, its time and its status may change.    *)
LEMMA CoreTypeKept ==
  ASSUME Core!TypeOK, UNCHANGED <<m_nextTXNID, count, lastNPos, txns, locks_held>>,
         m_activeTXNs' \in [Ctxs -> Seq(TXN)], ts' \in Nat,
         status' \in {"tracing", "closing", "done", "aborted", "undefined"}
  PROVE  Core!TypeOK'
<1>1. [Ctxs -> Seq(TXN)] = [Ctxs -> Seq(Core!TXN)]
  BY Zenon DEF TXN, Core!TXN, SubLocks, Core!SubLocks
<1>2. /\ m_nextTXNID \in Nat \ {0} /\ lastNPos \in [Locks -> Seq(Core!LockPos)]
      /\ count \in [Locks -> [Core!SubLocks -> Nat]]
      /\ txns \subseteq Core!TxnRow /\ locks_held \subseteq Core!HeldRow /\ <<>> \in Seq(Core!AccessRow)
  BY Zenon DEF Core!TypeOK
<1>3. m_activeTXNs' \in [Ctxs -> Seq(Core!TXN)]
  BY <1>1
<1> QED BY <1>2, <1>3, Zenon DEF Core!TypeOK

-----------------------------------------------------------------------------
(* writeMemAccesses *)

(* What is kept of the buffer is its beginning.                              *)
LEMMA KeptProperties ==
  ASSUME lastMemAccesses \in Seq(BufferedAccess), NEW pAction, NEW pAddress
  PROVE  /\ Kept(pAction, pAddress) \in Seq(BufferedAccess)
         /\ Len(Kept(pAction, pAddress)) \in 0 .. Len(lastMemAccesses)
         /\ \A i \in 1 .. Len(Kept(pAction, pAddress)) : Kept(pAction, pAddress)[i] = lastMemAccesses[i]
<1> DEFINE n == Len(lastMemAccesses)
<1>1. n \in Nat
  OBVIOUS
<1>2. CASE pAction \in {"p", "v"} /\ ReadWritePair(lastMemAccesses, pAddress)
  <2> DEFINE m == n - 2
             s == SubSeq(lastMemAccesses, 1, m)
  <2>1. m \in Nat /\ m <= n /\ \A i \in 1 .. m : lastMemAccesses[i] \in BufferedAccess
    BY <1>1, <1>2 DEF ReadWritePair
  <2>2. Kept(pAction, pAddress) = s
    BY <1>2 DEF Kept
  <2> HIDE DEF m, n
  <2>3. s \in Seq(BufferedAccess) /\ Len(s) = m /\ \A i \in 1 .. m : s[i] = lastMemAccesses[i]
    BY <2>1, SubSeqProperties
  <2> HIDE DEF s
  <2> QED BY <1>1, <2>1, <2>2, <2>3 DEF n
<1>3. CASE ~(pAction \in {"p", "v"} /\ ReadWritePair(lastMemAccesses, pAddress))
  BY <1>1, <1>3 DEF Kept
<1> QED BY <1>2, <1>3

(* The rows written for a buffer.                                            *)
LEMMA RowsOfBufferProperties ==
  ASSUME m_activeTXNs \in [Ctxs -> Seq(TXN)], NEW buf \in Seq(BufferedAccess)
  PROVE  /\ RowsOfBuffer(buf) \in Seq(WrittenAccess) /\ Len(RowsOfBuffer(buf)) = Len(buf)
         /\ \A i \in 1 .. Len(buf) :
              /\ RowsOfBuffer(buf)[i].ts = buf[i].ts /\ RowsOfBuffer(buf)[i].alloc_id = buf[i].alloc_id
              /\ RowsOfBuffer(buf)[i].addr = buf[i].addr /\ RowsOfBuffer(buf)[i].ctx = buf[i].ctx
              /\ RowsOfBuffer(buf)[i].held = buf[i].held
              /\ RowsOfBuffer(buf)[i].txn = IF hasActiveTXN(buf[i].ctx) THEN getActiveTXN(buf[i].ctx).id ELSE NULL
<1> DEFINE row(i) == [ts |-> buf[i].ts, ctx |-> buf[i].ctx,
                      txn |-> IF hasActiveTXN(buf[i].ctx) THEN getActiveTXN(buf[i].ctx).id ELSE NULL,
                      held |-> buf[i].held, alloc_id |-> buf[i].alloc_id, addr |-> buf[i].addr]
           R == RowsOfBuffer(buf)
           n == Len(buf)
<1>1. n \in Nat /\ \A i \in 1 .. n : buf[i] \in BufferedAccess
  OBVIOUS
<1>2. R = [i \in 1 .. n |-> row(i)]
  BY DEF RowsOfBuffer
<1>3. \A c \in Ctxs : (IF hasActiveTXN(c) THEN getActiveTXN(c).id ELSE NULL) \in Nat
  <2> TAKE c \in Ctxs
  <2>1. CASE hasActiveTXN(c)
    <3>1. getActiveTXN(c) \in TXN
      BY <2>1 DEF hasActiveTXN, getActiveTXN, Top
    <3> QED BY <2>1, <3>1 DEF TXN
  <2>2. CASE ~hasActiveTXN(c)
    BY <2>2 DEF NULL
  <2> QED BY <2>1, <2>2
<1>4. \A i \in 1 .. n : row(i) \in WrittenAccess
  <2> TAKE i \in 1 .. n
  <2>1. /\ buf[i].ts \in Nat /\ buf[i].ctx \in Ctxs /\ buf[i].held \in Seq(Locks \X SubLocks)
        /\ buf[i].alloc_id \in Nat /\ buf[i].addr \in Nat
    BY <1>1 DEF BufferedAccess
  <2> QED BY <1>3, <2>1 DEF WrittenAccess
<1>5. \A i \in 1 .. n :
        /\ row(i).ts = buf[i].ts /\ row(i).alloc_id = buf[i].alloc_id /\ row(i).addr = buf[i].addr
        /\ row(i).ctx = buf[i].ctx /\ row(i).held = buf[i].held
        /\ row(i).txn = IF hasActiveTXN(buf[i].ctx) THEN getActiveTXN(buf[i].ctx).id ELSE NULL
  OBVIOUS
<1> HIDE DEF row, R, n
<1>6. R \in Seq(WrittenAccess) /\ Len(R) = n /\ \A i \in 1 .. n : R[i] = row(i)
  BY <1>1, <1>2, <1>4
<1> QED BY <1>5, <1>6 DEF R, n

(* Counted, for the stacks m.                                                 *)
Count(buf, c) == Cardinality({a \in 1 .. Len(buf) : buf[a].ctx = c})
Bumped(t, k) == [t EXCEPT !.memAccessCounter = @ + k]
CountedIn(m, buf) ==
  [c \in Ctxs |-> [i \in 1 .. Len(m[c]) |-> IF i = Len(m[c]) THEN Bumped(m[c][i], Count(buf, c)) ELSE m[c][i]]]

(* M is m with the accesses in buf counted.                                   *)
IsCounted(M, m, buf) ==
  /\ M \in [Ctxs -> Seq(TXN)]
  /\ \A c \in Ctxs :
       /\ Len(M[c]) = Len(m[c])
       /\ \A i \in 1 .. Len(m[c]) : M[c][i] = IF i = Len(m[c]) THEN Bumped(m[c][i], Count(buf, c)) ELSE m[c][i]

LEMMA CountType ==
  ASSUME NEW S, NEW buf \in Seq(S), NEW c
  PROVE  Count(buf, c) \in Nat
<1>1. {a \in 1 .. Len(buf) : buf[a].ctx = c} \in SUBSET (1 .. Len(buf)) /\ IsFiniteSet(1 .. Len(buf))
  BY FS_Interval
<1> QED BY <1>1, FS_Subset, FS_CardinalityType DEF Count

LEMMA BumpedProperties ==
  ASSUME NEW t \in TXN, NEW k \in Nat
  PROVE  /\ Bumped(t, k) \in TXN /\ Bumped(t, k).id = t.id
         /\ Bumped(t, k).lock = t.lock /\ Bumped(t, k).subLock = t.subLock
<1> DEFINE y == t.memAccessCounter + k
<1>1. y \in Nat
  BY DEF TXN
<1> HIDE DEF y
<1>2. [t EXCEPT !.memAccessCounter = y] \in TXN
  BY <1>1 DEF TXN
<1>3. /\ [t EXCEPT !.memAccessCounter = y].id = t.id /\ [t EXCEPT !.memAccessCounter = y].lock = t.lock
      /\ [t EXCEPT !.memAccessCounter = y].subLock = t.subLock
  BY DEF TXN
<1> QED BY <1>2, <1>3 DEF Bumped, y

LEMMA CountedInProperties ==
  ASSUME NEW m \in [Ctxs -> Seq(TXN)], NEW S, NEW buf \in Seq(S)
  PROVE  IsCounted(CountedIn(m, buf), m, buf)
<1> DEFINE e(c, i) == IF i = Len(m[c]) THEN Bumped(m[c][i], Count(buf, c)) ELSE m[c][i]
<1>1. CountedIn(m, buf) = [c \in Ctxs |-> [i \in 1 .. Len(m[c]) |-> e(c, i)]]
  BY DEF CountedIn
<1>2. ASSUME NEW c \in Ctxs, NEW i \in 1 .. Len(m[c])
      PROVE  e(c, i) \in TXN
  <2>1. m[c][i] \in TXN /\ Count(buf, c) \in Nat
    BY CountType
  <2> QED BY <2>1, BumpedProperties
<1>3. \A c \in Ctxs : Len(m[c]) \in Nat
  OBVIOUS
<1> HIDE DEF e
<1>4. \A c \in Ctxs : /\ [i \in 1 .. Len(m[c]) |-> e(c, i)] \in Seq(TXN)
                      /\ Len([i \in 1 .. Len(m[c]) |-> e(c, i)]) = Len(m[c])
  <2> TAKE c \in Ctxs
  <2> DEFINE n == Len(m[c])
  <2>1. n \in Nat /\ \A i \in 1 .. n : e(c, i) \in TXN
    BY <1>2, <1>3
  <2> HIDE DEF n
  <2>2. [i \in 1 .. n |-> e(c, i)] \in Seq(TXN) /\ Len([i \in 1 .. n |-> e(c, i)]) = n
    BY <2>1
  <2> QED BY <2>2 DEF n
<1>5. CountedIn(m, buf) \in [Ctxs -> Seq(TXN)]
  BY <1>1, <1>4
<1>6. \A c \in Ctxs : CountedIn(m, buf)[c] = [i \in 1 .. Len(m[c]) |-> e(c, i)]
  BY <1>1
<1>7. \A c \in Ctxs : /\ Len(CountedIn(m, buf)[c]) = Len(m[c])
                      /\ \A i \in 1 .. Len(m[c]) : CountedIn(m, buf)[c][i] = e(c, i)
  BY <1>4, <1>6
<1> QED BY <1>5, <1>7, Zenon DEF e, IsCounted

LEMMA CountedType ==
  ASSUME m_activeTXNs \in [Ctxs -> Seq(TXN)], NEW buf \in Seq(BufferedAccess)
  PROVE  Counted(buf) \in [Ctxs -> Seq(TXN)]
<1>1. Counted(buf) = CountedIn(m_activeTXNs, buf)
  BY Zenon DEF Counted, CountedIn, Count, Bumped
<1> QED BY <1>1, CountedInProperties DEF IsCounted

LEMMA WriteMemAccessesTypes ==
  ASSUME m_activeTXNs \in [Ctxs -> Seq(TXN)], lastMemAccesses \in Seq(BufferedAccess),
         accesses \in Seq(WrittenAccess), NEW pAction, NEW pAddress, writeMemAccesses(pAction, pAddress)
  PROVE  /\ m_activeTXNs' \in [Ctxs -> Seq(TXN)] /\ lastMemAccesses' \in Seq(BufferedAccess)
         /\ accesses' \in Seq(WrittenAccess)
<1>1. CASE Not_flushed(pAction)
  BY <1>1 DEF writeMemAccesses
<1>2. CASE ~Not_flushed(pAction)
  <2> DEFINE buf == Kept(pAction, pAddress)
  <2>1. /\ accesses' = accesses \o RowsOfBuffer(buf) /\ m_activeTXNs' = Counted(buf) /\ lastMemAccesses' = <<>>
    BY <1>2 DEF writeMemAccesses
  <2>2. buf \in Seq(BufferedAccess)
    BY KeptProperties
  <2> HIDE DEF buf
  <2>3. RowsOfBuffer(buf) \in Seq(WrittenAccess)
    BY <2>2, RowsOfBufferProperties
  <2>4. accesses \o RowsOfBuffer(buf) \in Seq(WrittenAccess)
    BY <2>3, ConcatProperties
  <2>5. Counted(buf) \in [Ctxs -> Seq(TXN)]
    BY <2>2, CountedType
  <2> QED BY <2>1, <2>4, <2>5
<1> QED BY <1>1, <1>2

LEMMA EnclosingProperties ==
  ASSUME NEW addr, Enclosing(addr) # {}
  PROVE  \E a \in activeAllocs : a.base <= addr /\ addr < a.base + a.size /\ AllocationOf(addr) = a.id
<1> DEFINE a == CHOOSE b \in Enclosing(addr) : TRUE
<1>1. a \in Enclosing(addr)
  OBVIOUS
<1>2. AllocationOf(addr) = a.id
  BY DEF AllocationOf
<1> HIDE DEF a
<1>3. a \in activeAllocs /\ a.base <= addr /\ addr < a.base + a.size
  BY <1>1 DEF Enclosing
<1> QED BY <1>2, <1>3

LEMMA AllocationOfType ==
  ASSUME AllocationsTyped, NEW addr
  PROVE  AllocationOf(addr) \in Nat
<1>1. CASE Enclosing(addr) # {}
  BY <1>1, EnclosingProperties DEF AllocationsTyped
<1>2. CASE Enclosing(addr) = {}
  BY <1>2, OptionsAssumption DEF AllocationOf, NULL, pseudoAllocID
<1> QED BY <1>1, <1>2

LEMMA HeldInType ==
  ASSUME m_activeTXNs \in [Ctxs -> Seq(TXN)], NEW c \in Ctxs
  PROVE  HeldIn(c) \in Seq(Locks \X SubLocks)
<1> DEFINE n == Len(m_activeTXNs[c])
           e(i) == <<m_activeTXNs[c][i].lock, m_activeTXNs[c][i].subLock>>
<1>1. n \in Nat /\ \A i \in 1 .. n : m_activeTXNs[c][i] \in TXN
  OBVIOUS
<1>2. \A i \in 1 .. n : e(i) \in Locks \X SubLocks
  BY <1>1 DEF TXN
<1>3. HeldIn(c) = [i \in 1 .. n |-> e(i)]
  BY DEF HeldIn
<1> HIDE DEF n, e
<1> QED BY <1>1, <1>2, <1>3

LEMMA BufferEffect ==
  ASSUME ConvertTypeOK, Buffer
  PROVE  /\ status = "tracing" /\ ts' = ts + 1
         /\ UNCHANGED <<m_activeTXNs, m_nextTXNID, lockState, rows, accesses, status, loopVars, exit>>
         /\ line \in AccessLine
         /\ \E a \in At(line.base), x \in BufferedAccess :
              /\ x = [ts |-> ts + 1, alloc_id |-> a.id, action |-> line.action, size |-> line.size,
                      addr |-> line.addr, same |-> line.same, ctx |-> line.ctx, held |-> HeldIn(line.ctx)]
              /\ lastMemAccesses' = Append(lastMemAccesses, x)
              /\ line.addr >= a.base
<1>1. line \in AccessLine
  BY LineFields DEF ConvertTypeOK, Buffer
<1>2. PICK a \in At(line.base) :
        /\ InRange(a)
        /\ lastMemAccesses' = Append(lastMemAccesses,
             [ts |-> ts + 1, alloc_id |-> a.id, action |-> line.action, size |-> line.size,
              addr |-> line.addr, same |-> line.same, ctx |-> line.ctx, held |-> HeldIn(line.ctx)])
  BY DEF Buffer
<1>3. a.id \in Nat /\ ts + 1 \in Nat /\ m_activeTXNs \in [Ctxs -> Seq(TXN)]
  BY CoreTypes DEF At, ConvertTypeOK, AllocationsTyped
<1>4. line.ctx \in Ctxs /\ line.action \in {"r", "w"} /\ line.size \in Nat /\ line.addr \in Nat /\ line.same \in BOOLEAN
  BY <1>1 DEF AccessLine
<1>5. HeldIn(line.ctx) \in Seq(Locks \X SubLocks)
  BY <1>3, <1>4, HeldInType
<1>6. [ts |-> ts + 1, alloc_id |-> a.id, action |-> line.action, size |-> line.size,
       addr |-> line.addr, same |-> line.same, ctx |-> line.ctx, held |-> HeldIn(line.ctx)] \in BufferedAccess
  BY <1>3, <1>4, <1>5 DEF BufferedAccess
<1>7. status = "tracing" /\ ts' = ts + 1
  BY DEF Buffer, Event
<1>8. UNCHANGED <<m_activeTXNs, m_nextTXNID, lockState, rows, accesses, status, loopVars, exit>>
  BY DEF Buffer, Handled
<1> QED BY <1>1, <1>2, <1>6, <1>7, <1>8 DEF InRange

LEMMA ConvertTypeStep ==
  ASSUME ConvertTypeOK, [ConvertNext]_allVars
  PROVE  ConvertTypeOK'
<1> USE DEF lockState, rows, loopVars, convertVars
<1>0. /\ m_activeTXNs \in [Ctxs -> Seq(TXN)] /\ ts \in Nat /\ ts + 1 \in Nat /\ Core!TypeOK
      /\ status \in {"tracing", "closing", "done", "aborted", "undefined"}
      /\ lastMemAccesses \in Seq(BufferedAccess) /\ accesses \in Seq(WrittenAccess) /\ AllocationsTyped
      /\ line \in Lines \cup {NoLine}
  BY CoreTypes DEF ConvertTypeOK
<1>1. ASSUME NEW e \in Lines, ReadLine(e) PROVE ConvertTypeOK'
  <2>1. /\ m_activeTXNs' \in [Ctxs -> Seq(TXN)] /\ lastMemAccesses' \in Seq(BufferedAccess)
        /\ accesses' \in Seq(WrittenAccess)
    BY <1>0, <1>1, WriteMemAccessesTypes DEF ReadLine
  <2>2. Core!TypeOK'
    BY <1>0, <1>1, <2>1, CoreTypeKept DEF ReadLine
  <2>3. AllocationsTyped'
    BY <1>0, <1>1 DEF ReadLine, AllocationsTyped
  <2>4. line' \in Lines \cup {NoLine}
    BY <1>1 DEF ReadLine
  <2> QED BY <2>1, <2>2, <2>3, <2>4 DEF ConvertTypeOK
<1>2. CASE Finish
  <2>1. /\ m_activeTXNs' \in [Ctxs -> Seq(TXN)] /\ lastMemAccesses' \in Seq(BufferedAccess)
        /\ accesses' \in Seq(WrittenAccess)
    BY <1>0, <1>2, WriteMemAccessesTypes DEF Finish
  <2>2. Core!TypeOK'
    BY <1>0, <1>2, <2>1, CoreTypeKept DEF Finish
  <2>3. AllocationsTyped'
    <3>1. ASSUME NEW r \in allocations' PROVE r.base \in Nat /\ r.id \in Nat /\ r.start \in Nat /\ r.end \in Nat
      <4>1. r \in allocations \/ \E a \in activeAllocs : r = AllocationRow(a, a.size, NULL)
        BY <1>2 DEF Finish
      <4> QED BY <1>0, <4>1 DEF AllocationsTyped, AllocationRow, NULL
    <3>2. /\ curAllocID' \in Nat
          /\ \A a \in activeAllocs' : a.base \in Nat /\ a.size \in Nat /\ a.id \in Nat /\ a.start \in Nat
          /\ \A k \in m_locks' : k.addr \in Nat /\ k.lock \in Locks /\ k.allocation_id \in Nat
      BY <1>0, <1>2 DEF Finish, AllocationsTyped
    <3> QED BY <3>1, <3>2 DEF AllocationsTyped
  <2>4. line' \in Lines \cup {NoLine}
    BY <1>0, <1>2 DEF Finish
  <2> QED BY <2>1, <2>2, <2>3, <2>4 DEF ConvertTypeOK
<1>3. ASSUME m_activeTXNs' = m_activeTXNs, UNCHANGED <<m_nextTXNID, lockState, rows, accesses, status, lastMemAccesses>>,
             ts' \in {ts, ts + 1}, line' \in {line, NoLine}, AllocationsTyped'
      PROVE  ConvertTypeOK'
  <2>1. Core!TypeOK'
    BY <1>0, <1>3, CoreTypeKept
  <2> QED BY <1>0, <1>3, <2>1 DEF ConvertTypeOK
<1>4. CASE Alloc
  <2> DEFINE new == [base |-> line.base, size |-> line.size, id |-> curAllocID, start |-> ts + 1,
                     subclass_idx |-> IF Named(SubclassName(line.type)) # {} THEN First(Named(SubclassName(line.type)))
                                      ELSE Len(subclasses) + 1]
  <2>1. activeAllocs' = (activeAllocs \ At(line.base)) \cup {new}
    BY <1>4 DEF Alloc
  <2>2. line.base \in Nat /\ line.size \in Nat /\ curAllocID \in Nat
    BY <1>0, <1>4, LineFields DEF Alloc, Handling, AllocLine, AllocationsTyped
  <2>3. new.base \in Nat /\ new.size \in Nat /\ new.id \in Nat /\ new.start \in Nat
    BY <1>0, <2>2
  <2> HIDE DEF new
  <2>4. \A a \in activeAllocs' : a.base \in Nat /\ a.size \in Nat /\ a.id \in Nat /\ a.start \in Nat
    BY <1>0, <2>1, <2>3 DEF AllocationsTyped
  <2>5. curAllocID' \in Nat /\ allocations' = allocations /\ m_locks' = m_locks
    BY <1>4, <2>2 DEF Alloc
  <2>6. AllocationsTyped'
    BY <1>0, <2>4, <2>5 DEF AllocationsTyped
  <2> QED BY <1>3, <1>4, <2>6 DEF Alloc, Event, Handled
<1>5. CASE Free
  <2>1. PICK a \in At(line.base) : /\ allocations' = allocations \cup {AllocationRow(a, line.size, ts + 1)}
                                   /\ m_locks' = deleteLockByArea(a)
                                   /\ activeAllocs' = activeAllocs \ {a}
    BY <1>5 DEF Free
  <2>2. /\ AllocationRow(a, line.size, ts + 1).base \in Nat /\ AllocationRow(a, line.size, ts + 1).id \in Nat
        /\ AllocationRow(a, line.size, ts + 1).start \in Nat /\ AllocationRow(a, line.size, ts + 1).end \in Nat
    BY <1>0 DEF At, AllocationRow, AllocationsTyped
  <2>3. curAllocID' = curAllocID /\ m_locks' \subseteq m_locks
    BY <1>5, <2>1 DEF Free, deleteLockByArea
  <2>4. AllocationsTyped'
    <3> DEFINE row == AllocationRow(a, line.size, ts + 1)
    <3> HIDE DEF row
    <3>1. \A r \in allocations' : r \in allocations \/ r = row
      BY <2>1 DEF row
    <3>2. row.base \in Nat /\ row.id \in Nat /\ row.start \in Nat /\ row.end \in Nat
      BY <2>2 DEF row
    <3> QED BY <1>0, <2>1, <2>3, <3>1, <3>2 DEF AllocationsTyped
  <2> QED BY <1>3, <1>5, <2>4 DEF Free, Event, Handled
<1>6. CASE LockKnown
  <2>1. PICK k \in findLock(line.addr) : Transition(k.lock)
    BY <1>6 DEF LockKnown
  <2>2. k.lock \in Locks /\ line \in LockLine
    BY <1>0, <1>6, LineFields DEF LockKnown, Handling, findLock, AllocationsTyped
  <2>3. Core!TypeOK'
    BY <1>0, <2>1, <2>2, TransitionIsCore, CoreTypeStep
  <2>4. accesses' = accesses
    BY <2>1, TransitionEffect
  <2>5. line' = NoLine /\ UNCHANGED <<loopVars, lastMemAccesses>>
    BY <1>6 DEF LockKnown, Handled
  <2>6. AllocationsTyped'
    BY <1>0, <2>5 DEF AllocationsTyped
  <2> QED BY <1>0, <2>3, <2>4, <2>5, <2>6 DEF ConvertTypeOK
<1>7. CASE LockNew
  <2>1. PICK l \in Unused(line.type) :
          /\ m_locks' = m_locks \cup {[addr |-> line.addr, lock |-> l, allocation_id |-> AllocationOf(line.addr)]}
          /\ Transition(l)
    BY <1>7 DEF LockNew
  <2>2. l \in Locks /\ line \in LockLine /\ line.addr \in Nat
    BY <1>0, <1>7, LineFields DEF LockNew, NewLock, Handling, Unused, LockLine
  <2>3. Core!TypeOK'
    BY <1>0, <2>1, <2>2, TransitionIsCore, CoreTypeStep
  <2>4. accesses' = accesses
    BY <2>1, TransitionEffect
  <2>5. line' = NoLine /\ UNCHANGED <<activeAllocs, curAllocID, subclasses, allocations, lastMemAccesses>>
    BY <1>7 DEF LockNew, Handled
  <2>6. AllocationsTyped'
    <3>1. AllocationOf(line.addr) \in Nat
      BY <1>0, AllocationOfType
    <3>2. \A k \in m_locks' : k.addr \in Nat /\ k.lock \in Locks /\ k.allocation_id \in Nat
      BY <1>0, <2>1, <2>2, <3>1 DEF AllocationsTyped
    <3> QED BY <1>0, <2>5, <3>2 DEF AllocationsTyped
  <2> QED BY <1>0, <2>3, <2>4, <2>5, <2>6 DEF ConvertTypeOK
<1>8. CASE Buffer
  <2>1. /\ ts' = ts + 1
        /\ UNCHANGED <<m_activeTXNs, m_nextTXNID, lockState, rows, accesses, status, loopVars, exit>>
        /\ \E x \in BufferedAccess : lastMemAccesses' = Append(lastMemAccesses, x)
    BY <1>8, BufferEffect
  <2>2. lastMemAccesses' \in Seq(BufferedAccess)
    BY <1>0, <2>1, AppendProperties
  <2>3. AllocationsTyped'
    BY <1>0, <2>1 DEF AllocationsTyped
  <2>4. Core!TypeOK'
    BY <1>0, <2>1, CoreTypeKept
  <2>5. line' = NoLine
    BY <1>8 DEF Buffer, Handled
  <2> QED BY <1>0, <2>1, <2>2, <2>3, <2>4, <2>5 DEF ConvertTypeOK
<1>9. CASE Closing
  <2>1. UNCHANGED convertVars
    BY <1>9 DEF Closing
  <2>2. AllocationsTyped'
    BY <1>0, <2>1 DEF AllocationsTyped
  <2>3. Core!TypeOK' /\ accesses' = accesses
    <3>1. CASE Closed
      <4>1. /\ m_activeTXNs' = m_activeTXNs /\ ts' = ts /\ status' = "done" /\ accesses' = accesses
            /\ UNCHANGED <<m_nextTXNID, count, lastNPos, txns, locks_held>>
        BY <3>1 DEF Closed
      <4> QED BY <1>0, <4>1, CoreTypeKept
    <3>2. ASSUME NEW c \in Ctxs, CloseTXN(c) PROVE Core!TypeOK' /\ accesses' = accesses
      <4>1. Core!Next
        BY <3>2, CloseIsCore DEF Core!Next
      <4> QED BY <1>0, <3>2, <4>1, CoreTypeStep DEF CloseTXN
    <3> QED BY <1>9, <3>1, <3>2 DEF Closing
  <2> QED BY <1>0, <2>1, <2>2, <2>3 DEF ConvertTypeOK
<1>10. ASSUME UNCHANGED <<loopVars, lastMemAccesses, m_activeTXNs, m_nextTXNID, lockState, rows, accesses, status>>,
              ts' \in {ts, ts + 1}, line' \in {line, NoLine}
       PROVE  ConvertTypeOK'
  <2>1. AllocationsTyped'
    BY <1>0, <1>10 DEF AllocationsTyped
  <2> QED BY <1>3, <1>10, <2>1
<1>11. ASSUME (\E e \in Lines : SkipLine(e)) \/ AllocMixedUp \/ LockTypeUnknown \/ AccessOutOfRange \/ Ignore
              \/ UNCHANGED allVars
       PROVE  ConvertTypeOK'
  <2>1. /\ UNCHANGED <<loopVars, lastMemAccesses, m_activeTXNs, m_nextTXNID, lockState, rows, accesses, status>>
        /\ ts' \in {ts, ts + 1} /\ line' \in {line, NoLine}
    BY <1>11 DEF SkipLine, AllocMixedUp, LockTypeUnknown, AccessOutOfRange, Ignore, Ignored, Event, GiveUp,
                 Handled, allVars, vars
  <2> QED BY <1>10, <2>1
<1> QED BY <1>1, <1>2, <1>4, <1>5, <1>6, <1>7, <1>8, <1>9, <1>11 DEF ConvertNext

LEMMA ConvertTypeInit == ConvertInit => ConvertTypeOK
<1> SUFFICES ASSUME ConvertInit PROVE ConvertTypeOK
  OBVIOUS
<1>1. Core!TypeOK
  <2>1. Core!Init
    BY DEF ConvertInit, Init, Core!Init, SubLocks, Core!SubLocks
  <2> QED BY <2>1, EmptySeq DEF Core!Init, Core!TypeOK, Core!SubLocks
<1>2. lastMemAccesses \in Seq(BufferedAccess) /\ accesses \in Seq(WrittenAccess) /\ line \in Lines \cup {NoLine}
  BY DEF ConvertInit, Init
<1>3. AllocationsTyped
  BY OptionsAssumption DEF ConvertInit, AllocationsTyped, pseudoAllocID, NULL
<1> QED BY <1>1, <1>2, <1>3 DEF ConvertTypeOK

-----------------------------------------------------------------------------
(* Lifetimes *)

(* The allocations have all been written.                                     *)
Over == status \in {"closing", "done"}

(* At time t, access r lies in the past and in the lifetime of an allocation  *)
(* in act that is not written yet, or of one in written.                      *)
Lived(r, t, over, act, written) ==
  /\ r.ts <= t
  /\ \/ ~over /\ \E a \in act : Alive(a, r, NULL)
     \/ \E q \in written : Alive(q, r, q.end)

AccessesLived == \A i \in 1 .. Len(accesses) : Lived(accesses[i], ts, Over, activeAllocs, allocations)
BufferLived == \A i \in 1 .. Len(lastMemAccesses) : Lived(lastMemAccesses[i], ts, Over, activeAllocs, allocations)

(* An id names one allocation, active or written, and is never given again.  *)
ActiveKnown == \A a \in activeAllocs : a.start <= ts /\ a.id < curAllocID
ActiveKeys == \A a, b \in activeAllocs : a.id = b.id => a = b
RowsKnown == \A r \in allocations : r.id < curAllocID
RowKeys == \A r, q \in allocations : r.id = q.id => r = q
RowsApart == ~Over => \A a \in activeAllocs, r \in allocations : a.id # r.id
AllocationKeys == ActiveKnown /\ ActiveKeys /\ RowsKnown /\ RowKeys /\ RowsApart

LInv == AllocationKeys /\ LocksInLiveMemory /\ AccessesLived /\ BufferLived

(* What Lived says of an access survives a step in which time does not go     *)
(* back and every allocation stays, or gets a row that covers the access.     *)
LEMMA LivedKept ==
  ASSUME NEW t \in Nat, NEW u \in Nat, t <= u, NEW o, NEW p, NEW A, NEW B, NEW X, NEW Y,
         X \subseteq Y,
         \A a \in A : ~o => \/ ~p /\ a \in B
                            \/ \E q \in Y : /\ q.id = a.id /\ q.base = a.base /\ q.start = a.start
                                            /\ q.end = NULL \/ t < q.end,
         \A q \in Y : q.end \in Nat
  PROVE  \A r : r.ts \in Nat /\ Lived(r, t, o, A, X) => Lived(r, u, p, B, Y)
<1> TAKE r
<1> HAVE r.ts \in Nat /\ Lived(r, t, o, A, X)
<1>1. r.ts <= t /\ r.ts <= u
  BY DEF Lived
<1>2. CASE \E q \in X : Alive(q, r, q.end)
  BY <1>1, <1>2 DEF Lived
<1>3. ASSUME ~o, NEW a \in A, Alive(a, r, NULL) PROVE Lived(r, u, p, B, Y)
  <2>1. CASE ~p /\ a \in B
    BY <1>1, <1>3, <2>1 DEF Lived
  <2>2. ASSUME NEW q \in Y, q.id = a.id, q.base = a.base, q.start = a.start, q.end = NULL \/ t < q.end
        PROVE  Lived(r, u, p, B, Y)
    <3>1. q.end = NULL \/ r.ts < q.end
      BY <1>1, <2>2 DEF NULL
    <3>2. Alive(q, r, q.end)
      BY <1>3, <2>2, <3>1 DEF Alive
    <3> QED BY <1>1, <3>2 DEF Lived
  <2> QED BY <1>3, <2>1, <2>2
<1> QED BY <1>2, <1>3 DEF Lived

(* Lived looks at the time, the allocation and the address of an access.      *)
LEMMA LivedSame ==
  ASSUME NEW t, NEW o, NEW A, NEW X, NEW r, NEW s, r.ts = s.ts, r.alloc_id = s.alloc_id, r.addr = s.addr,
         Lived(r, t, o, A, X)
  PROVE  Lived(s, t, o, A, X)
BY DEF Lived, Alive

LEMMA TimesTyped ==
  /\ \A s \in Seq(WrittenAccess) : \A i \in 1 .. Len(s) : s[i].ts \in Nat
  /\ \A s \in Seq(BufferedAccess) : \A i \in 1 .. Len(s) : s[i].ts \in Nat
<1>1. \A r \in WrittenAccess : r.ts \in Nat
  BY DEF WrittenAccess
<1>2. \A r \in BufferedAccess : r.ts \in Nat
  BY DEF BufferedAccess
<1> QED BY <1>1, <1>2

LEMMA UnbufferedLived ==
  ASSUME ConvertTypeOK, AccessesLived, BufferLived, UNCHANGED <<accesses, lastMemAccesses>>,
         \A r : r.ts \in Nat /\ Lived(r, ts, Over, activeAllocs, allocations)
                   => Lived(r, ts', Over', activeAllocs', allocations')
  PROVE  AccessesLived' /\ BufferLived'
<1>1. /\ \A i \in 1 .. Len(accesses) : accesses[i].ts \in Nat
      /\ \A i \in 1 .. Len(lastMemAccesses) : lastMemAccesses[i].ts \in Nat
  BY TimesTyped, Zenon DEF ConvertTypeOK
<1> QED BY <1>1 DEF AccessesLived, BufferLived

LEMMA WrittenLived ==
  ASSUME ConvertTypeOK, AccessesLived, BufferLived, NEW pAction, NEW pAddress, writeMemAccesses(pAction, pAddress),
         \A r : r.ts \in Nat /\ Lived(r, ts, Over, activeAllocs, allocations)
                   => Lived(r, ts', Over', activeAllocs', allocations')
  PROVE  AccessesLived' /\ BufferLived'
<1> DEFINE buf == Kept(pAction, pAddress)
           new == RowsOfBuffer(buf)
           L(r) == Lived(r, ts', Over', activeAllocs', allocations')
<1>1. CASE Not_flushed(pAction)
  BY <1>1, UnbufferedLived DEF writeMemAccesses
<1>2. CASE ~Not_flushed(pAction)
  <2>1. accesses' = accesses \o new /\ lastMemAccesses' = <<>>
    BY <1>2 DEF writeMemAccesses
  <2>2. /\ lastMemAccesses \in Seq(BufferedAccess) /\ accesses \in Seq(WrittenAccess)
        /\ m_activeTXNs \in [Ctxs -> Seq(TXN)]
    BY CoreTypes DEF ConvertTypeOK
  <2>3. /\ buf \in Seq(BufferedAccess) /\ Len(buf) \in 0 .. Len(lastMemAccesses)
        /\ \A i \in 1 .. Len(buf) : buf[i] = lastMemAccesses[i]
    BY <2>2, KeptProperties
  <2> HIDE DEF buf
  <2>4. /\ new \in Seq(WrittenAccess) /\ Len(new) = Len(buf)
        /\ \A i \in 1 .. Len(buf) : /\ new[i].ts = buf[i].ts /\ new[i].alloc_id = buf[i].alloc_id
                                    /\ new[i].addr = buf[i].addr
    BY <2>2, <2>3, RowsOfBufferProperties
  <2> HIDE DEF new, L
  <2>5. \A i \in 1 .. Len(accesses) : L(accesses[i])
    <3>1. \A i \in 1 .. Len(accesses) : accesses[i].ts \in Nat
      BY <2>2, TimesTyped, Zenon
    <3> QED BY <3>1 DEF AccessesLived, L
  <2>6. \A i \in 1 .. Len(new) : L(new[i])
    <3> TAKE i \in 1 .. Len(new)
    <3>1. i \in 1 .. Len(lastMemAccesses) /\ i \in 1 .. Len(buf) /\ buf[i] = lastMemAccesses[i]
      BY <2>2, <2>3, <2>4
    <3>2. lastMemAccesses[i].ts \in Nat
      BY <2>2, <3>1, TimesTyped, Zenon
    <3>3. L(lastMemAccesses[i])
      BY <3>1, <3>2 DEF BufferLived, L
    <3>4. L(buf[i])
      BY <3>1, <3>3
    <3>5. new[i].ts = buf[i].ts /\ new[i].alloc_id = buf[i].alloc_id /\ new[i].addr = buf[i].addr
      BY <2>4, <3>1
    <3> QED BY <3>4, <3>5, LivedSame DEF L
  <2>7. \A i \in 1 .. Len(accesses \o new) : L((accesses \o new)[i])
    <3> TAKE i \in 1 .. Len(accesses \o new)
    <3>1. Len(accesses \o new) = Len(accesses) + Len(new) /\ Len(accesses) \in Nat /\ Len(new) \in Nat
      BY <2>2, <2>4, ConcatProperties, LenProperties
    <3>2. CASE i <= Len(accesses)
      <4>1. (accesses \o new)[i] = accesses[i] /\ i \in 1 .. Len(accesses)
        BY <2>2, <2>4, <3>1, <3>2
      <4> QED BY <2>5, <4>1
    <3>3. CASE i > Len(accesses)
      <4>1. (accesses \o new)[i] = new[i - Len(accesses)] /\ i - Len(accesses) \in 1 .. Len(new)
        BY <2>2, <2>4, <3>1, <3>3
      <4> QED BY <2>6, <4>1
    <3> QED BY <3>1, <3>2, <3>3
  <2> QED BY <2>1, <2>7 DEF AccessesLived, BufferLived, L
<1> QED BY <1>1, <1>2

(* A step that leaves the allocations alone.                                  *)
LEMMA AllocationsLeft ==
  ASSUME ConvertTypeOK, AllocationKeys, UNCHANGED <<activeAllocs, curAllocID, allocations>>,
         ts' \in {ts, ts + 1}, Over' = Over
  PROVE  /\ AllocationKeys'
         /\ \A r : r.ts \in Nat /\ Lived(r, ts, Over, activeAllocs, allocations)
                     => Lived(r, ts', Over', activeAllocs', allocations')
<1>1. ts \in Nat /\ ts' \in Nat /\ ts <= ts' /\ AllocationsTyped
  BY CoreTypes DEF ConvertTypeOK
<1>2. ActiveKnown'
  BY <1>1 DEF AllocationKeys, ActiveKnown, AllocationsTyped
<1>3. ActiveKeys' /\ RowsKnown' /\ RowKeys' /\ RowsApart'
  BY DEF AllocationKeys, ActiveKeys, RowsKnown, RowKeys, RowsApart
<1>4. \A q \in allocations : q.end \in Nat
  BY <1>1 DEF AllocationsTyped
<1>5. \A r : r.ts \in Nat /\ Lived(r, ts, Over, activeAllocs, allocations)
               => Lived(r, ts', Over, activeAllocs, allocations)
  <2> DEFINE t == ts
             u == ts'
             o == Over
             A == activeAllocs
             X == allocations
  <2>1. t \in Nat /\ u \in Nat /\ t <= u /\ \A q \in X : q.end \in Nat
    BY <1>1, <1>4
  <2>2. \A a \in A : ~o => ~o /\ a \in A
    OBVIOUS
  <2> HIDE DEF t, u, o, A, X
  <2>3. \A r : r.ts \in Nat /\ Lived(r, t, o, A, X) => Lived(r, u, o, A, X)
    BY <2>1, <2>2, LivedKept
  <2> QED BY <2>3 DEF t, u, o, A, X
<1> QED BY <1>2, <1>3, <1>5 DEF AllocationKeys

LEMMA LInvInit == ConvertInit => LInv
<1> SUFFICES ASSUME ConvertInit PROVE LInv
  OBVIOUS
<1>1. AllocationKeys
  BY OptionsAssumption DEF ConvertInit, AllocationKeys, ActiveKnown, ActiveKeys, RowsKnown, RowKeys, RowsApart,
     pseudoAllocID
<1>2. LocksInLiveMemory /\ AccessesLived /\ BufferLived
  BY DEF ConvertInit, Init, LocksInLiveMemory, AccessesLived, BufferLived
<1> QED BY <1>1, <1>2 DEF LInv

(* An allocation: its base is free and its id new.                            *)
LEMMA AllocLInv ==
  ASSUME ConvertTypeOK, LInv, Alloc
  PROVE  LInv'
<1>0. ts \in Nat /\ AllocationsTyped /\ curAllocID \in Nat
  BY CoreTypes DEF ConvertTypeOK, AllocationsTyped
<1> DEFINE new == [base |-> line.base, size |-> line.size, id |-> curAllocID, start |-> ts + 1,
                   subclass_idx |-> IF Named(SubclassName(line.type)) # {} THEN First(Named(SubclassName(line.type)))
                                    ELSE Len(subclasses) + 1]
<1>1. At(line.base) = {}
  BY DEF Alloc, AllocTaken, AllocIgnored
<1>2. activeAllocs' = activeAllocs \cup {new}
  BY <1>1 DEF Alloc
<1>3. new.id = curAllocID /\ new.start = ts + 1
  OBVIOUS
<1> HIDE DEF new
<1>4. /\ curAllocID' = curAllocID + 1 /\ ts' = ts + 1 /\ Over' = Over
      /\ UNCHANGED <<allocations, m_locks, accesses, lastMemAccesses>>
  BY DEF Alloc, Event, Over
<1>5. AllocationKeys'
  <2>1. \A a \in activeAllocs : a.id \in Nat /\ a.id < curAllocID /\ a.start \in Nat /\ a.start <= ts
    BY <1>0 DEF LInv, AllocationKeys, ActiveKnown, AllocationsTyped
  <2>2. \A r \in allocations : r.id \in Nat /\ r.id < curAllocID
    BY <1>0 DEF LInv, AllocationKeys, RowsKnown, AllocationsTyped
  <2>3. ActiveKnown'
    BY <1>0, <1>2, <1>3, <1>4, <2>1 DEF ActiveKnown
  <2>4. ActiveKeys'
    BY <1>0, <1>2, <1>3, <2>1 DEF LInv, AllocationKeys, ActiveKeys
  <2>5. RowsKnown'
    BY <1>0, <1>4, <2>2 DEF RowsKnown
  <2>6. RowKeys'
    BY <1>4 DEF LInv, AllocationKeys, RowKeys
  <2>7. RowsApart'
    BY <1>0, <1>2, <1>3, <1>4, <2>2 DEF LInv, AllocationKeys, RowsApart
  <2> QED BY <2>3, <2>4, <2>5, <2>6, <2>7 DEF AllocationKeys
<1>6. LocksInLiveMemory'
  BY <1>2, <1>4 DEF LInv, LocksInLiveMemory
<1>7. \A r : r.ts \in Nat /\ Lived(r, ts, Over, activeAllocs, allocations)
               => Lived(r, ts', Over', activeAllocs', allocations')
  <2> DEFINE t == ts
             u == ts + 1
             o == Over
             A == activeAllocs
             B == activeAllocs \cup {new}
             X == allocations
  <2>1. t \in Nat /\ u \in Nat /\ t <= u /\ \A q \in X : q.end \in Nat
    BY <1>0 DEF AllocationsTyped
  <2>2. \A a \in A : ~o => ~o /\ a \in B
    OBVIOUS
  <2> HIDE DEF t, u, o, A, B, X
  <2>3. \A r : r.ts \in Nat /\ Lived(r, t, o, A, X) => Lived(r, u, o, B, X)
    BY <2>1, <2>2, LivedKept
  <2> QED BY <1>2, <1>4, <2>3 DEF t, u, o, A, B, X
<1>8. AccessesLived' /\ BufferLived'
  BY <1>4, <1>7, UnbufferedLived DEF LInv
<1> QED BY <1>5, <1>6, <1>8 DEF LInv

(* A free: the locks in the area go with the allocation, and its row ends     *)
(* after every access so far.                                                 *)
LEMMA FreeLInv ==
  ASSUME ConvertTypeOK, LInv, Free
  PROVE  LInv'
<1>0. ts \in Nat /\ AllocationsTyped /\ curAllocID \in Nat
  BY CoreTypes DEF ConvertTypeOK, AllocationsTyped
<1>1. PICK a \in At(line.base) : /\ allocations' = allocations \cup {AllocationRow(a, line.size, ts + 1)}
                                 /\ m_locks' = deleteLockByArea(a)
                                 /\ activeAllocs' = activeAllocs \ {a}
  BY DEF Free
<1> DEFINE row == AllocationRow(a, line.size, ts + 1)
<1>2. a \in activeAllocs
  BY DEF At
<1>3. row.id = a.id /\ row.base = a.base /\ row.start = a.start /\ row.end = ts + 1
  BY DEF AllocationRow
<1> HIDE DEF row
<1>4. allocations' = allocations \cup {row}
  BY <1>1 DEF row
<1>5. status = "tracing" /\ ts' = ts + 1 /\ UNCHANGED <<status, curAllocID, accesses, lastMemAccesses>>
  BY DEF Free, Event
<1>6. ~Over /\ ~Over'
  BY <1>5 DEF Over
<1>7. AllocationKeys'
  <2>1. \A b \in activeAllocs : b.id \in Nat /\ b.id < curAllocID /\ b.start \in Nat /\ b.start <= ts
    BY <1>0 DEF LInv, AllocationKeys, ActiveKnown, AllocationsTyped
  <2>3. ActiveKnown'
    BY <1>0, <1>1, <1>5, <2>1 DEF ActiveKnown
  <2>4. ActiveKeys'
    BY <1>1 DEF LInv, AllocationKeys, ActiveKeys
  <2>5. RowsKnown'
    BY <1>2, <1>3, <1>4, <1>5, <2>1 DEF LInv, AllocationKeys, RowsKnown
  <2>6. RowKeys'
    BY <1>2, <1>3, <1>4, <1>6 DEF LInv, AllocationKeys, RowKeys, RowsApart
  <2>7. RowsApart'
    BY <1>1, <1>2, <1>3, <1>4, <1>6 DEF LInv, AllocationKeys, RowsApart, ActiveKeys
  <2> QED BY <2>3, <2>4, <2>5, <2>6, <2>7 DEF AllocationKeys
<1>8. LocksInLiveMemory'
  <2> SUFFICES ASSUME NEW k \in m_locks', k.allocation_id > pseudoAllocID
               PROVE  \E b \in activeAllocs' : b.id = k.allocation_id /\ b.base <= k.addr /\ k.addr < b.base + b.size
    BY DEF LocksInLiveMemory, pseudoAllocID
  <2>1. k \in m_locks /\ k.addr \notin FreedArea(a)
    BY <1>1 DEF deleteLockByArea
  <2>2. PICK b \in activeAllocs : b.id = k.allocation_id /\ b.base <= k.addr /\ k.addr < b.base + b.size
    BY <2>1 DEF LInv, LocksInLiveMemory
  <2>3. k.addr \in Nat /\ b.base \in Nat /\ b.size \in Nat
    BY <1>0, <2>1 DEF AllocationsTyped
  <2>4. b # a
    BY <2>1, <2>2, <2>3 DEF FreedArea
  <2> QED BY <1>1, <2>2, <2>4
<1>9. \A r : r.ts \in Nat /\ Lived(r, ts, Over, activeAllocs, allocations)
               => Lived(r, ts', Over', activeAllocs', allocations')
  <2> DEFINE t == ts
             u == ts + 1
             A == activeAllocs
             B == activeAllocs \ {a}
             X == allocations
             Y == allocations \cup {row}
  <2>1. t \in Nat /\ u \in Nat /\ t <= u /\ X \subseteq Y
    BY <1>0
  <2>2. \A q \in Y : q.end \in Nat
    BY <1>0, <1>3 DEF AllocationsTyped
  <2>3. row \in Y /\ t < row.end
    BY <1>0, <1>3
  <2>4. \A b \in A : b \in B \/ b = a
    OBVIOUS
  <2> HIDE DEF t, u, A, B, X, Y
  <2>5. \A b \in A : ~FALSE => \/ ~FALSE /\ b \in B
                               \/ \E q \in Y : /\ q.id = b.id /\ q.base = b.base /\ q.start = b.start
                                               /\ q.end = NULL \/ t < q.end
    BY <1>3, <2>3, <2>4
  <2>6. \A r : r.ts \in Nat /\ Lived(r, t, FALSE, A, X) => Lived(r, u, FALSE, B, Y)
    BY <2>1, <2>2, <2>5, LivedKept
  <2>7. \A r : r.ts \in Nat /\ Lived(r, ts, FALSE, activeAllocs, allocations)
                 => Lived(r, ts', FALSE, activeAllocs', allocations')
    BY <1>1, <1>4, <1>5, <2>6 DEF t, u, A, B, X, Y
  <2> QED BY <1>6, <2>7 DEF Lived
<1>10. AccessesLived' /\ BufferLived'
  BY <1>5, <1>9, UnbufferedLived DEF LInv
<1> QED BY <1>7, <1>8, <1>10 DEF LInv

(* The end of the trace: every active allocation gets its row.                *)
LEMMA FinishLInv ==
  ASSUME ConvertTypeOK, LInv, Finish
  PROVE  LInv'
<1>0. ts \in Nat /\ AllocationsTyped /\ curAllocID \in Nat
  BY CoreTypes DEF ConvertTypeOK, AllocationsTyped
<1> DEFINE row(a) == AllocationRow(a, a.size, NULL)
<1>1. \A a : row(a).id = a.id /\ row(a).base = a.base /\ row(a).start = a.start /\ row(a).end = NULL
  BY DEF AllocationRow
<1>2. allocations' = allocations \cup {row(a) : a \in activeAllocs}
  BY DEF Finish
<1> HIDE DEF row
<1>3. status = "tracing" /\ status' = "closing" /\ UNCHANGED <<ts, activeAllocs, curAllocID, m_locks>>
  BY DEF Finish, Reading
<1>4. ~Over /\ Over'
  BY <1>3 DEF Over
<1>5. AllocationKeys'
  <2>1. ActiveKnown' /\ ActiveKeys' /\ RowsApart'
    BY <1>3, <1>4 DEF LInv, AllocationKeys, ActiveKnown, ActiveKeys, RowsApart
  <2>2. RowsKnown'
    BY <1>1, <1>2, <1>3 DEF LInv, AllocationKeys, RowsKnown, ActiveKnown
  <2>3. RowKeys'
    BY <1>1, <1>2, <1>4 DEF LInv, AllocationKeys, RowKeys, ActiveKeys, RowsApart
  <2> QED BY <2>1, <2>2, <2>3 DEF AllocationKeys
<1>6. LocksInLiveMemory'
  BY <1>3 DEF LInv, LocksInLiveMemory
<1>7. \A r : r.ts \in Nat /\ Lived(r, ts, Over, activeAllocs, allocations)
               => Lived(r, ts', Over', activeAllocs', allocations')
  <2> DEFINE t == ts
             A == activeAllocs
             X == allocations
             Y == allocations \cup {row(a) : a \in activeAllocs}
  <2>1. t \in Nat /\ t <= t /\ X \subseteq Y
    BY <1>0
  <2>2. \A q \in Y : q.end \in Nat
    BY <1>0, <1>1 DEF AllocationsTyped, NULL
  <2>3. \A b \in A : row(b) \in Y
    OBVIOUS
  <2> HIDE DEF t, A, X, Y
  <2>5. \A b \in A : ~FALSE => \/ ~TRUE /\ b \in A
                               \/ \E q \in Y : /\ q.id = b.id /\ q.base = b.base /\ q.start = b.start
                                               /\ q.end = NULL \/ t < q.end
    BY <1>1, <2>3
  <2>6. \A r : r.ts \in Nat /\ Lived(r, t, FALSE, A, X) => Lived(r, t, TRUE, A, Y)
    BY <2>1, <2>2, <2>5, LivedKept
  <2>7. \A r : r.ts \in Nat /\ Lived(r, ts, FALSE, activeAllocs, allocations)
                 => Lived(r, ts', TRUE, activeAllocs', allocations')
    BY <1>2, <1>3, <2>6 DEF t, A, X, Y
  <2> QED BY <1>4, <2>7 DEF Lived
<1>8. AccessesLived' /\ BufferLived'
  BY <1>7, WrittenLived DEF LInv, Finish
<1> QED BY <1>5, <1>6, <1>8 DEF LInv

(* A new lock lies in the allocation that encloses it, if there is one.       *)
LEMMA LockNewLInv ==
  ASSUME ConvertTypeOK, LInv, LockNew
  PROVE  LInv'
<1>1. PICK l \in Unused(line.type) :
        /\ m_locks' = m_locks \cup {[addr |-> line.addr, lock |-> l, allocation_id |-> AllocationOf(line.addr)]}
        /\ Transition(l)
  BY DEF LockNew
<1>2. /\ status = "tracing" /\ status' \in {"tracing", "aborted", "undefined"}
      /\ ts' = ts + 1 /\ accesses' = accesses
  BY <1>1, TransitionEffect
<1>3. UNCHANGED <<activeAllocs, curAllocID, allocations, lastMemAccesses>> /\ Over' = Over
  BY <1>2 DEF LockNew, Over
<1>4. /\ AllocationKeys'
      /\ \A r : r.ts \in Nat /\ Lived(r, ts, Over, activeAllocs, allocations)
                  => Lived(r, ts', Over', activeAllocs', allocations')
  BY <1>2, <1>3, AllocationsLeft DEF LInv
<1>5. AccessesLived' /\ BufferLived'
  BY <1>2, <1>3, <1>4, UnbufferedLived DEF LInv
<1>6. LocksInLiveMemory'
  <2>1. AllocationOf(line.addr) > pseudoAllocID =>
          \E a \in activeAllocs : a.id = AllocationOf(line.addr) /\ a.base <= line.addr /\ line.addr < a.base + a.size
    <3>1. CASE Enclosing(line.addr) # {}
      BY <3>1, EnclosingProperties
    <3>2. CASE Enclosing(line.addr) = {}
      <4>1. AllocationOf(line.addr) \in {0, pseudoAllocID}
        BY <3>2 DEF AllocationOf, NULL
      <4> QED BY <4>1, OptionsAssumption DEF pseudoAllocID
    <3> QED BY <3>1, <3>2
  <2> QED BY <1>1, <1>3, <2>1 DEF LInv, LocksInLiveMemory, pseudoAllocID
<1> QED BY <1>4, <1>5, <1>6 DEF LInv

(* An access: its allocation started before it.                               *)
LEMMA BufferLInv ==
  ASSUME ConvertTypeOK, LInv, Buffer
  PROVE  LInv'
<1>0. ts \in Nat /\ AllocationsTyped /\ lastMemAccesses \in Seq(BufferedAccess)
  BY CoreTypes DEF ConvertTypeOK
<1>1. /\ status = "tracing" /\ ts' = ts + 1
      /\ UNCHANGED <<m_activeTXNs, m_nextTXNID, lockState, rows, accesses, status, loopVars, exit>>
  BY BufferEffect
<1>2. PICK a \in At(line.base) : \E x \in BufferedAccess :
        /\ x = [ts |-> ts + 1, alloc_id |-> a.id, action |-> line.action, size |-> line.size,
                addr |-> line.addr, same |-> line.same, ctx |-> line.ctx, held |-> HeldIn(line.ctx)]
        /\ lastMemAccesses' = Append(lastMemAccesses, x)
        /\ line.addr >= a.base
  BY BufferEffect
<1>3. PICK x \in BufferedAccess :
        /\ x = [ts |-> ts + 1, alloc_id |-> a.id, action |-> line.action, size |-> line.size,
                addr |-> line.addr, same |-> line.same, ctx |-> line.ctx, held |-> HeldIn(line.ctx)]
        /\ lastMemAccesses' = Append(lastMemAccesses, x)
        /\ line.addr >= a.base
  BY <1>2
<1>4. x.ts = ts + 1 /\ x.alloc_id = a.id /\ x.addr = line.addr
  BY <1>3
<1>5. line.addr \in Nat /\ a \in activeAllocs /\ a.base \in Nat /\ a.start \in Nat /\ a.start <= ts
  BY <1>0, BufferEffect DEF AccessLine, At, AllocationsTyped, LInv, AllocationKeys, ActiveKnown
<1>6. UNCHANGED <<activeAllocs, curAllocID, allocations, m_locks>> /\ ~Over /\ ~Over' /\ Over' = Over
  BY <1>1 DEF loopVars, Over
<1>7. /\ AllocationKeys'
      /\ \A r : r.ts \in Nat /\ Lived(r, ts, Over, activeAllocs, allocations)
                  => Lived(r, ts', Over', activeAllocs', allocations')
  BY <1>1, <1>6, AllocationsLeft DEF LInv
<1>8. LocksInLiveMemory'
  BY <1>6 DEF LInv, LocksInLiveMemory
<1>9. AccessesLived'
  <2>1. \A i \in 1 .. Len(accesses) : accesses[i].ts \in Nat
    BY TimesTyped, Zenon DEF ConvertTypeOK
  <2> QED BY <1>1, <1>7, <2>1 DEF LInv, AccessesLived
<1>10. Lived(x, ts', Over', activeAllocs', allocations')
  <2>1. Alive(a, x, NULL)
    BY <1>0, <1>3, <1>4, <1>5 DEF Alive
  <2> QED BY <1>0, <1>1, <1>4, <1>5, <1>6, <2>1 DEF Lived
<1>11. BufferLived'
  <2>1. \A i \in 1 .. Len(lastMemAccesses) : Lived(lastMemAccesses[i], ts', Over', activeAllocs', allocations')
    <3>1. \A i \in 1 .. Len(lastMemAccesses) : lastMemAccesses[i].ts \in Nat
      BY TimesTyped, Zenon DEF ConvertTypeOK
    <3> QED BY <1>7, <3>1 DEF LInv, BufferLived
  <2> DEFINE n == Len(lastMemAccesses)
             s == Append(lastMemAccesses, x)
  <2>2. n \in Nat /\ Len(s) = n + 1 /\ s[n + 1] = x /\ \A i \in 1 .. n : s[i] = lastMemAccesses[i]
    BY <1>0
  <2>3. s = lastMemAccesses'
    BY <1>3
  <2> HIDE DEF s
  <2>4. \A i \in 1 .. Len(s) : Lived(s[i], ts', Over', activeAllocs', allocations')
    <3> TAKE i \in 1 .. Len(s)
    <3>1. CASE i \in 1 .. n
      BY <2>1, <2>2, <3>1
    <3>2. CASE i = n + 1
      BY <1>10, <2>2, <3>2
    <3> QED BY <2>2, <3>1, <3>2
  <2> QED BY <2>3, <2>4 DEF BufferLived
<1> QED BY <1>7, <1>8, <1>9, <1>11 DEF LInv

LEMMA LInvStep ==
  ASSUME ConvertTypeOK, LInv, [ConvertNext]_allVars
  PROVE  LInv'
<1>1. ASSUME UNCHANGED <<loopVars, lastMemAccesses, accesses>>, ts' \in {ts, ts + 1}, Over' = Over
      PROVE  LInv'
  <2>0. UNCHANGED <<activeAllocs, curAllocID, allocations, m_locks>>
    BY <1>1 DEF loopVars
  <2>1. /\ AllocationKeys'
        /\ \A r : r.ts \in Nat /\ Lived(r, ts, Over, activeAllocs, allocations)
                    => Lived(r, ts', Over', activeAllocs', allocations')
    BY <1>1, <2>0, AllocationsLeft DEF LInv
  <2>2. AccessesLived' /\ BufferLived'
    BY <1>1, <2>1, UnbufferedLived DEF LInv
  <2>3. LocksInLiveMemory'
    BY <2>0 DEF LInv, LocksInLiveMemory
  <2> QED BY <2>1, <2>2, <2>3 DEF LInv
<1>2. ASSUME NEW e \in Lines, ReadLine(e) PROVE LInv'
  <2>0. /\ UNCHANGED <<activeAllocs, curAllocID, allocations, m_locks, ts>> /\ Over' = Over
        /\ writeMemAccesses(e.action, AddressOf(e))
    BY <1>2 DEF ReadLine, loopVars, Over
  <2>1. /\ AllocationKeys'
        /\ \A r : r.ts \in Nat /\ Lived(r, ts, Over, activeAllocs, allocations)
                    => Lived(r, ts', Over', activeAllocs', allocations')
    BY <2>0, AllocationsLeft DEF LInv
  <2>2. AccessesLived' /\ BufferLived'
    BY <2>0, <2>1, WrittenLived DEF LInv
  <2>3. LocksInLiveMemory'
    BY <2>0 DEF LInv, LocksInLiveMemory
  <2> QED BY <2>1, <2>2, <2>3 DEF LInv
<1>3. CASE LockKnown
  <2>1. PICK k \in findLock(line.addr) : Transition(k.lock)
    BY <1>3 DEF LockKnown
  <2>2. /\ status = "tracing" /\ status' \in {"tracing", "aborted", "undefined"}
        /\ ts' = ts + 1 /\ accesses' = accesses
    BY <2>1, TransitionEffect
  <2>3. Over' = Over
    BY <2>2 DEF Over
  <2> QED BY <1>1, <1>3, <2>2, <2>3 DEF LockKnown
<1>4. CASE Closing
  <2>1. UNCHANGED <<loopVars, lastMemAccesses>>
    BY <1>4 DEF Closing, convertVars
  <2>2. UNCHANGED <<accesses, ts>> /\ status = "closing" /\ status' \in {"closing", "done"}
    BY <1>4 DEF Closing, Closed, CloseTXN
  <2>3. Over' = Over
    BY <2>2 DEF Over
  <2> QED BY <1>1, <2>1, <2>2, <2>3
<1>5. ASSUME (\E e \in Lines : SkipLine(e)) \/ AllocMixedUp \/ LockTypeUnknown \/ AccessOutOfRange \/ Ignore
             \/ UNCHANGED allVars
      PROVE  LInv'
  <2>1. UNCHANGED <<loopVars, lastMemAccesses, accesses, status>> /\ ts' \in {ts, ts + 1}
    BY <1>5 DEF SkipLine, AllocMixedUp, LockTypeUnknown, AccessOutOfRange, Ignore, Ignored, Event, GiveUp,
                allVars, vars, convertVars
  <2>2. Over' = Over
    BY <2>1 DEF Over
  <2> QED BY <1>1, <2>1, <2>2
<1> QED BY <1>2, <1>3, <1>4, <1>5, AllocLInv, FreeLInv, FinishLInv, LockNewLInv, BufferLInv DEF ConvertNext

LEMMA LInvAlways == ConvertSpec => [](ConvertTypeOK /\ LInv)
<1>1. ConvertInit => ConvertTypeOK /\ LInv
  BY ConvertTypeInit, LInvInit
<1>2. (ConvertTypeOK /\ LInv) /\ [ConvertNext]_allVars => (ConvertTypeOK /\ LInv)'
  BY ConvertTypeStep, LInvStep
<1> QED BY <1>1, <1>2, PTL DEF ConvertSpec

(* LocksInLiveMemory, of run cv_memory, for any trace: the lock findLock      *)
(* returns lies in memory that is still allocated, whatever was freed (with   *)
(* whatever size), allocated again or overlapped in between.                  *)
THEOREM LocksStayInLiveMemory == ConvertSpec => []LocksInLiveMemory
<1>1. ConvertTypeOK /\ LInv => LocksInLiveMemory
  BY DEF LInv
<1> QED BY <1>1, LInvAlways, PTL

(* AccessesInLifetime, of run cv_buffer, for any trace: a row of accesses.csv *)
(* and an access still buffered name an allocation that was alive at the      *)
(* access, and at the end exactly one row of allocations.csv.                 *)
THEOREM AccessesStayInLifetime == ConvertSpec => []AccessesInLifetime
<1>1. ASSUME ConvertTypeOK, LInv PROVE AccessesInLifetime
  <2> DEFINE new == RowsOfBuffer(lastMemAccesses)
             L(r) == Lived(r, ts, Over, activeAllocs, allocations)
  <2>1. /\ lastMemAccesses \in Seq(BufferedAccess) /\ accesses \in Seq(WrittenAccess)
        /\ m_activeTXNs \in [Ctxs -> Seq(TXN)]
    BY <1>1, CoreTypes DEF ConvertTypeOK
  <2>2. /\ new \in Seq(WrittenAccess) /\ Len(new) = Len(lastMemAccesses)
        /\ \A i \in 1 .. Len(lastMemAccesses) :
             /\ new[i].ts = lastMemAccesses[i].ts /\ new[i].alloc_id = lastMemAccesses[i].alloc_id
             /\ new[i].addr = lastMemAccesses[i].addr
    BY <2>1, RowsOfBufferProperties
  <2> HIDE DEF new, L
  <2>3. \A i \in 1 .. Len(accesses) : L(accesses[i])
    BY <1>1 DEF LInv, AccessesLived, L
  <2>4. \A i \in 1 .. Len(new) : L(new[i])
    <3>1. \A i \in 1 .. Len(lastMemAccesses) : L(lastMemAccesses[i])
      BY <1>1 DEF LInv, BufferLived, L
    <3> QED BY <2>2, <3>1, LivedSame DEF L
  <2>5. \A i \in 1 .. Len(accesses \o new) : L((accesses \o new)[i])
    <3> TAKE i \in 1 .. Len(accesses \o new)
    <3>1. Len(accesses \o new) = Len(accesses) + Len(new) /\ Len(accesses) \in Nat /\ Len(new) \in Nat
      BY <2>1, <2>2, ConcatProperties, LenProperties
    <3>2. CASE i <= Len(accesses)
      <4>1. (accesses \o new)[i] = accesses[i] /\ i \in 1 .. Len(accesses)
        BY <2>1, <2>2, <3>1, <3>2
      <4> QED BY <2>3, <4>1
    <3>3. CASE i > Len(accesses)
      <4>1. (accesses \o new)[i] = new[i - Len(accesses)] /\ i - Len(accesses) \in 1 .. Len(new)
        BY <2>1, <2>2, <3>1, <3>3
      <4> QED BY <2>4, <4>1
    <3> QED BY <3>1, <3>2, <3>3
  <2>6. RowKeys
    BY <1>1 DEF LInv, AllocationKeys
  <2> DEFINE seen == accesses \o new
  <2>7. \A i \in 1 .. Len(seen) : L(seen[i])
    BY <2>5
  <2> HIDE DEF seen
  <2>8. \A i \in 1 .. Len(seen) :
          IF status \notin {"closing", "done"}
          THEN \/ \E a \in activeAllocs : Alive(a, seen[i], NULL)
               \/ \E r \in allocations : Alive(r, seen[i], r.end)
          ELSE \E r \in allocations : /\ Alive(r, seen[i], r.end)
                                      /\ \A q \in allocations : q.id = r.id => q = r
    BY <2>6, <2>7 DEF L, Lived, Over, RowKeys
  <2> QED BY <2>8 DEF AccessesInLifetime, seen, new
<1> QED BY <1>1, LInvAlways, PTL

-----------------------------------------------------------------------------
(* Convert implements the lock manager: buffering the accesses and writing   *)
(* them before the next line that is not an access cannot be told from       *)
(* writing each at once.                                                     *)

(* With an empty buffer, the lock manager that is implemented has the stacks  *)
(* convert has: its operators are convert's.                                  *)
LEMMA FoundIsSeen ==
  ASSUME TXNsSeen = m_activeTXNs, NEW c, NEW l, NEW sub
  PROVE  LM!Found(c, l, sub) = Found(c, l, sub)
<1>1. \A s : LM!Matching(s, l, sub) = Matching(s, l, sub)
  BY Zenon DEF Matching, LM!Matching
<1>2. \A S : LM!Topmost(S) = Topmost(S)
  BY Zenon DEF Topmost, LM!Topmost
<1> QED BY <1>1, <1>2 DEF Found, LM!Found

LEMMA NextIDIsSeen ==
  ASSUME TXNsSeen = m_activeTXNs, NEW c, NEW l, NEW sub
  PROVE  LM!NextIDAfter(c, l, sub) = NextIDAfter(c, l, sub)
BY FoundIsSeen DEF NextIDAfter, LM!NextIDAfter

LEMMA StackAfterIsSeen ==
  ASSUME TXNsSeen = m_activeTXNs, NEW c, NEW l, NEW sub, NEW t, NEW rm
  PROVE  LM!StackAfter(c, l, sub, t, rm) = StackAfter(c, l, sub, t, rm)
<1> DEFINE stk == m_activeTXNs[c]
           k == Found(c, l, sub)
<1>1. LM!Found(c, l, sub) = k
  BY FoundIsSeen
<1>2. LM!Restarted(stk, k, t, c) = Restarted(stk, k, t, c)
  BY Zenon DEF Restarted, LM!Restarted
<1>3. \A s, E : LM!EraseAt(s, E) = EraseAt(s, E)
  BY Zenon DEF EraseAt, LM!EraseAt, Cardinality, LM!Cardinality, IsFiniteSet, LM!IsFiniteSet
<1>4. \A s : LM!Matching(s, l, "READER_LOCK") = Matching(s, l, "READER_LOCK")
  BY Zenon DEF Matching, LM!Matching
<1>5. LM!Remaining(stk, k, l, rm) = Remaining(stk, k, l, rm)
  BY <1>3, <1>4 DEF Remaining, LM!Remaining
<1> QED BY <1>1, <1>2, <1>5 DEF StackAfter, LM!StackAfter

LEMMA WriteRowsIsSeen ==
  ASSUME TXNsSeen = m_activeTXNs,
         NEW c, NEW l, NEW sub, NEW t, NEW e, WriteRows(c, l, sub, t, e)
  PROVE  LM!WriteRows(c, l, sub, t, e)
<1> DEFINE stk == m_activeTXNs[c]
           k == Found(c, l, sub)
<1>1. LM!Found(c, l, sub) = k
  BY FoundIsSeen
<1>2. LM!TxnRows(stk, k, t, e) = TxnRows(stk, k, t, e)
  BY Zenon DEF TxnRows, LM!TxnRows, Recorded, LM!Recorded
<1>3. LM!HeldRows(stk, k) = HeldRows(stk, k)
  BY Zenon DEF HeldRows, LM!HeldRows, Recorded, LM!Recorded, HeldBelow, LM!HeldBelow,
               isHeld, LM!isHeld, Takes, LM!Takes, Top, LM!Top, SubLocks, LM!SubLocks
<1> QED BY <1>1, <1>2, <1>3 DEF WriteRows, LM!WriteRows

LEMMA TakeIsSeen ==
  ASSUME TXNsSeen = m_activeTXNs, TXNsSeen' = m_activeTXNs',
         NEW l, NEW sub, NEW c, NEW cnt, NEW pos, NEW stk, NEW n, Take(l, sub, c, cnt, pos, stk, n)
  PROVE  LM!Take(l, sub, c, cnt, pos, stk, n)
BY Zenon DEF Take, LM!Take

LEMMA PIsSeen ==
  ASSUME TXNsSeen = m_activeTXNs, TXNsSeen' = m_activeTXNs', AccessesSeen' = AccessesSeen,
         NEW l, NEW sub, NEW c, NEW recursive, P(l, sub, c, recursive)
  PROVE  LM!P(l, sub, c, recursive)
<1>1. LM!Take(l, sub, c, count[l], lastNPos[l], m_activeTXNs[c], m_nextTXNID)
  BY TakeIsSeen DEF P
<1> QED BY <1>1 DEF P, LM!P, Event, LM!Event, Takes, LM!Takes, Other, LM!Other, rows, LM!rows

LEMMA PWriteAgainIsSeen ==
  ASSUME TXNsSeen = m_activeTXNs, TXNsSeen' = m_activeTXNs', AccessesSeen' = AccessesSeen,
         NEW l, NEW c, P_WRITE_again(l, c)
  PROVE  LM!P_WRITE_again(l, c)
<1> DEFINE sub == "WRITER_LOCK"
           A == StackAfter(c, l, sub, ts + 1, FALSE)
           n == NextIDAfter(c, l, sub)
           pos == PositionsAfter(l, Found(c, l, sub) # 0)
<1>1. /\ LM!Found(c, l, sub) = Found(c, l, sub) /\ LM!NextIDAfter(c, l, sub) = n
      /\ LM!StackAfter(c, l, sub, ts + 1, FALSE) = A
  BY FoundIsSeen, NextIDIsSeen, StackAfterIsSeen
<1>2. LM!PositionsAfter(l, LM!Found(c, l, sub) # 0) = pos
  BY <1>1 DEF PositionsAfter, LM!PositionsAfter, Pop, LM!Pop
<1>3. WriteRows(c, l, sub, ts + 1, c) /\ Take(l, sub, c, count[l], pos, A, n)
  BY DEF P_WRITE_again
<1>4. /\ Event /\ Takes(l, sub) /\ FALSE \in Flags[l]
      /\ count[l][sub] > 0 /\ count[l][Other(sub)] = 0
      /\ status' = IF Found(c, l, sub) # 0 /\ lastNPos[l] = <<>> THEN "undefined" ELSE status
  BY DEF P_WRITE_again
<1>5. LM!WriteRows(c, l, sub, ts + 1, c) /\ LM!Take(l, sub, c, count[l], pos, A, n)
  <2> HIDE DEF sub, A, n, pos
  <2> QED BY <1>3, WriteRowsIsSeen, TakeIsSeen
<1>6. LM!Event /\ LM!Takes(l, sub) /\ LM!Other(sub) = Other(sub)
  BY <1>4 DEF Event, LM!Event, Takes, LM!Takes, Other, LM!Other
<1> HIDE DEF A, n, pos
<1> QED BY <1>1, <1>2, <1>4, <1>5, <1>6 DEF LM!P_WRITE_again

LEMMA PFlushIsSeen ==
  ASSUME TXNsSeen = m_activeTXNs, TXNsSeen' = m_activeTXNs', AccessesSeen' = AccessesSeen,
         NEW l, NEW sub, NEW c, P_flush(l, sub, c)
  PROVE  LM!P_flush(l, sub, c)
<1> DEFINE o == Other(sub)
           A == StackAfter(c, l, o, ts + 1, TRUE)
           n == NextIDAfter(c, l, o)
           cnt == IF Found(c, l, o) # 0 THEN [count[l] EXCEPT ![o] = 0] ELSE count[l]
           pos == IF Found(c, l, o) # 0 THEN <<>> ELSE lastNPos[l]
<1>0. LM!Other(sub) = o
  BY DEF Other, LM!Other
<1>1. /\ LM!Found(c, l, o) = Found(c, l, o) /\ LM!NextIDAfter(c, l, o) = n
      /\ LM!StackAfter(c, l, o, ts + 1, TRUE) = A
  BY FoundIsSeen, NextIDIsSeen, StackAfterIsSeen
<1>3. WriteRows(c, l, o, ts + 1, c) /\ Take(l, sub, c, cnt, pos, A, n)
  BY DEF P_flush
<1>4. /\ Event /\ Takes(l, sub) /\ count[l][sub] = 0 /\ count[l][o] > 0 /\ status' = status
  BY DEF P_flush
<1>5. LM!WriteRows(c, l, o, ts + 1, c) /\ LM!Take(l, sub, c, cnt, pos, A, n)
  <2> HIDE DEF o, A, n, pos, cnt
  <2> QED BY <1>3, WriteRowsIsSeen, TakeIsSeen
<1>6. LM!Event /\ LM!Takes(l, sub)
  BY <1>4 DEF Event, LM!Event, Takes, LM!Takes
<1> HIDE DEF A, n
<1> QED BY <1>0, <1>1, <1>4, <1>5, <1>6 DEF LM!P_flush

LEMMA PFlushFaultIsSeen ==
  ASSUME TXNsSeen = m_activeTXNs, TXNsSeen' = m_activeTXNs', AccessesSeen' = AccessesSeen,
         NEW l, NEW sub, NEW c, P_flush_fault(l, sub, c)
  PROVE  LM!P_flush_fault(l, sub, c)
<1>1. LM!Found(c, l, Other(sub)) = Found(c, l, Other(sub))
  BY FoundIsSeen
<1>2. \A s : LM!Matching(s, l, "WRITER_LOCK") = Matching(s, l, "WRITER_LOCK")
  BY Zenon DEF Matching, LM!Matching
<1>3. LM!Other(sub) = Other(sub) /\ (LM!Takes(l, sub) <=> Takes(l, sub)) /\ (LM!Event <=> Event)
  BY DEF Event, LM!Event, Takes, LM!Takes, Other, LM!Other
<1> QED BY <1>1, <1>2, <1>3 DEF P_flush_fault, LM!P_flush_fault, rows, LM!rows, lockState, LM!lockState

LEMMA ThrowIsSeen ==
  ASSUME TXNsSeen' = TXNsSeen, AccessesSeen' = AccessesSeen, NEW l, NEW sub, Throw(l, sub)
  PROVE  LM!Throw(l, sub)
BY Zenon DEF Throw, LM!Throw, Event, LM!Event, Takes, LM!Takes, InvalidState, LM!InvalidState,
   rows, LM!rows, lockState, LM!lockState, SubLocks, LM!SubLocks

LEMMA VIsSeen ==
  ASSUME TXNsSeen = m_activeTXNs, TXNsSeen' = m_activeTXNs', AccessesSeen' = AccessesSeen,
         NEW l, NEW sub, NEW c, V(l, sub, c)
  PROVE  LM!V(l, sub, c)
<1> DEFINE d == IF isOnTXNStack(c, l, sub) THEN c ELSE findTXN(l, sub, c)
           A == StackAfter(d, l, sub, ts + 1, FALSE)
           n == NextIDAfter(d, l, sub)
           pos == PositionsAfter(l, Found(d, l, sub) # 0)
<1>1. \A s : LM!Matching(s, l, sub) = Matching(s, l, sub)
  BY Zenon DEF Matching, LM!Matching
<1>2. \A e : LM!isOnTXNStack(e, l, sub) <=> isOnTXNStack(e, l, sub)
  BY <1>1 DEF isOnTXNStack, LM!isOnTXNStack
<1>3. LM!findTXN(l, sub, c) = findTXN(l, sub, c)
  <2> DEFINE F(on) == IF on = {} THEN c ELSE CHOOSE e \in on : \A f \in on : e <= f
             S == {e \in Ctxs : isOnTXNStack(e, l, sub)}
             T == {e \in Ctxs : LM!isOnTXNStack(e, l, sub)}
  <2>1. findTXN(l, sub, c) = F(S) /\ LM!findTXN(l, sub, c) = F(T)
    BY Zenon DEF findTXN, LM!findTXN
  <2>2. T = S
    BY <1>2
  <2> HIDE DEF F, S, T
  <2> QED BY <2>1, <2>2
<1>4. (IF LM!isOnTXNStack(c, l, sub) THEN c ELSE LM!findTXN(l, sub, c)) = d
  BY <1>2, <1>3
<1> HIDE DEF d
<1>5. /\ LM!Found(d, l, sub) = Found(d, l, sub) /\ LM!NextIDAfter(d, l, sub) = n
      /\ LM!StackAfter(d, l, sub, ts + 1, FALSE) = A
  BY FoundIsSeen, NextIDIsSeen, StackAfterIsSeen
<1>6. LM!PositionsAfter(l, LM!Found(d, l, sub) # 0) = pos
  BY <1>5 DEF PositionsAfter, LM!PositionsAfter, Pop, LM!Pop
<1>7. LM!Event /\ LM!Takes(l, sub)
  BY DEF V, Event, LM!Event, Takes, LM!Takes
<1>8. count' = [count EXCEPT ![l][sub] = LM!Decremented(@)] /\ status' = status
  BY DEF V, Decremented, LM!Decremented
<1>9. CASE lastNPos[l] # <<>>
  <2>1. /\ WriteRows(d, l, sub, ts + 1, c) /\ m_activeTXNs' = [m_activeTXNs EXCEPT ![d] = A]
        /\ m_nextTXNID' = n /\ lastNPos' = [lastNPos EXCEPT ![l] = pos]
    BY <1>9 DEF V, d
  <2>2. LM!WriteRows(d, l, sub, ts + 1, c)
    BY <2>1, WriteRowsIsSeen
  <2> HIDE DEF A, n, pos
  <2>3. /\ LM!WriteRows(d, l, sub, ts + 1, c)
        /\ TXNsSeen' = [TXNsSeen EXCEPT ![d] = LM!StackAfter(d, l, sub, ts + 1, FALSE)]
        /\ m_nextTXNID' = LM!NextIDAfter(d, l, sub)
        /\ lastNPos' = [lastNPos EXCEPT ![l] = LM!PositionsAfter(l, LM!Found(d, l, sub) # 0)]
    BY <1>5, <1>6, <2>1, <2>2
  <2> QED BY <1>4, <1>7, <1>8, <1>9, <2>3 DEF LM!V
<1>10. CASE lastNPos[l] = <<>>
  BY <1>7, <1>8, <1>10 DEF V, LM!V, rows, LM!rows
<1> QED BY <1>9, <1>10

LEMMA CloseIsSeen ==
  ASSUME TXNsSeen = m_activeTXNs, TXNsSeen' = m_activeTXNs', AccessesSeen' = AccessesSeen,
         NEW c, CloseTXN(c)
  PROVE  LM!CloseTXN(c)
<1> DEFINE l == getActiveTXN(c).lock
           sub == getActiveTXN(c).subLock
           A == StackAfter(c, l, sub, ts, FALSE)
           n == NextIDAfter(c, l, sub)
<1>0. LM!getActiveTXN(c) = getActiveTXN(c) /\ \A d : LM!hasActiveTXN(d) <=> hasActiveTXN(d)
  BY DEF getActiveTXN, LM!getActiveTXN, Top, LM!Top, hasActiveTXN, LM!hasActiveTXN
<1>1. LM!NextIDAfter(c, l, sub) = n /\ LM!StackAfter(c, l, sub, ts, FALSE) = A
  BY NextIDIsSeen, StackAfterIsSeen
<1>2. /\ WriteRows(c, l, sub, ts, c) /\ m_activeTXNs' = [m_activeTXNs EXCEPT ![c] = A] /\ m_nextTXNID' = n
      /\ status = "closing" /\ hasActiveTXN(c) /\ \A d \in Ctxs : d < c => ~hasActiveTXN(d)
      /\ count' = count /\ lastNPos' = lastNPos /\ ts' = ts /\ status' = status
  BY DEF CloseTXN, lockState
<1>3. LM!WriteRows(c, l, sub, ts, c)
  <2> HIDE DEF l, sub
  <2> QED BY <1>2, WriteRowsIsSeen
<1> HIDE DEF A, n
<1> QED BY <1>0, <1>1, <1>2, <1>3 DEF LM!CloseTXN, LM!lockState

LEMMA ClosedIsSeen ==
  ASSUME TXNsSeen = m_activeTXNs, TXNsSeen' = m_activeTXNs', AccessesSeen' = AccessesSeen, Closed
  PROVE  LM!Closed
BY DEF Closed, LM!Closed, hasActiveTXN, LM!hasActiveTXN, lockState, LM!lockState, rows, LM!rows

LEMMA IgnoredIsSeen ==
  ASSUME TXNsSeen' = TXNsSeen, AccessesSeen' = AccessesSeen, Event,
         UNCHANGED <<m_nextTXNID, lockState, rows, status>>
  PROVE  LM!Ignored
BY DEF LM!Ignored, Event, LM!Event, lockState, LM!lockState, rows, LM!rows

LEMMA TransitionIsSeen ==
  ASSUME TXNsSeen = m_activeTXNs, TXNsSeen' = m_activeTXNs', AccessesSeen' = AccessesSeen,
         NEW l \in Locks, line \in LockLine, Transition(l)
  PROVE  LM!Next
<1>1. line.sub \in SubLocks /\ line.ctx \in Ctxs
  BY DEF LockLine
<1>2. LM!SubLocks = SubLocks
  BY DEF SubLocks, LM!SubLocks
<1>3. ASSUME NEW recursive \in Flags[l], P(l, line.sub, line.ctx, recursive) PROVE LM!Next
  BY <1>1, <1>2, <1>3, PIsSeen DEF LM!Next, LM!LockOp
<1>4. CASE line.sub = "WRITER_LOCK" /\ P_WRITE_again(l, line.ctx)
  BY <1>1, <1>2, <1>4, PWriteAgainIsSeen DEF LM!Next, LM!LockOp
<1>5. CASE P_flush(l, line.sub, line.ctx)
  BY <1>1, <1>2, <1>5, PFlushIsSeen DEF LM!Next, LM!LockOp
<1>6. CASE P_flush_fault(l, line.sub, line.ctx)
  BY <1>1, <1>2, <1>6, PFlushFaultIsSeen DEF LM!Next, LM!LockOp
<1>7. CASE V(l, line.sub, line.ctx)
  BY <1>1, <1>2, <1>7, VIsSeen DEF LM!Next, LM!LockOp
<1>8. CASE Throw(l, line.sub)
  <2>1. TXNsSeen' = TXNsSeen
    BY <1>8 DEF Throw
  <2> QED BY <1>1, <1>2, <1>8, <2>1, ThrowIsSeen DEF LM!Next
<1> QED BY <1>3, <1>4, <1>5, <1>6, <1>7, <1>8 DEF Transition

-----------------------------------------------------------------------------
(* The buffer *)

(* RowsOfBuffer, for the stacks m.                                            *)
TxnIn(m, c) == IF m[c] # <<>> THEN Top(m[c]).id ELSE NULL
RowIn(m, x) == [ts |-> x.ts, ctx |-> x.ctx, txn |-> TxnIn(m, x.ctx), held |-> x.held,
                alloc_id |-> x.alloc_id, addr |-> x.addr]
RowsIn(m, buf) == [i \in 1 .. Len(buf) |-> RowIn(m, buf[i])]

LEMMA SeenIn ==
  /\ TXNsSeen = CountedIn(m_activeTXNs, lastMemAccesses)
  /\ AccessesSeen = Written(accesses \o RowsIn(m_activeTXNs, lastMemAccesses))
  /\ TXNsSeen' = CountedIn(m_activeTXNs', lastMemAccesses')
  /\ AccessesSeen' = Written(accesses' \o RowsIn(m_activeTXNs', lastMemAccesses'))
BY Zenon DEF TXNsSeen, Counted, CountedIn, Count, Bumped, AccessesSeen, RowsOfBuffer, RowsIn, RowIn, TxnIn,
   hasActiveTXN, getActiveTXN

(* An empty buffer.                                                           *)
LEMMA EmptyBuffer ==
  ASSUME NEW m \in [Ctxs -> Seq(TXN)]
  PROVE  CountedIn(m, <<>>) = m /\ RowsIn(m, <<>>) = <<>>
<1>1. \A c : Count(<<>>, c) = 0
  BY FS_EmptySet DEF Count
<1>2. \A t \in TXN : Bumped(t, 0) = t
  <2> TAKE t \in TXN
  <2>1. t.memAccessCounter + 0 = t.memAccessCounter
    BY DEF TXN
  <2>2. [t EXCEPT !.memAccessCounter = t.memAccessCounter] = t
    BY DEF TXN
  <2> QED BY <2>1, <2>2 DEF Bumped
<1> DEFINE M == CountedIn(m, <<>>)
<1>3. /\ M \in [Ctxs -> Seq(TXN)]
      /\ \A c \in Ctxs : /\ Len(M[c]) = Len(m[c])
                         /\ \A i \in 1 .. Len(m[c]) :
                              M[c][i] = IF i = Len(m[c]) THEN Bumped(m[c][i], Count(<<>>, c)) ELSE m[c][i]
  <2>1. <<>> \in Seq({})
    OBVIOUS
  <2>2. IsCounted(M, m, <<>>)
    BY <2>1, CountedInProperties
  <2> QED BY <2>2, Zenon DEF IsCounted
<1> HIDE DEF M
<1>4. ASSUME NEW c \in Ctxs PROVE M[c] = m[c]
  <2>1. M[c] \in Seq(TXN) /\ m[c] \in Seq(TXN) /\ Len(M[c]) = Len(m[c])
    BY <1>3
  <2>2. ASSUME NEW i \in 1 .. Len(m[c]) PROVE M[c][i] = m[c][i]
    <3>1. m[c][i] \in TXN
      OBVIOUS
    <3> QED BY <1>1, <1>2, <1>3, <3>1
  <2> QED BY <2>1, <2>2, SeqEqual
<1>5. M = m
  BY <1>3, <1>4
<1>6. RowsIn(m, <<>>) = <<>>
  BY DEF RowsIn
<1> QED BY <1>5, <1>6 DEF M

(* One more access in context c.                                              *)
LEMMA CountAppend ==
  ASSUME NEW buf \in Seq(BufferedAccess), NEW x \in BufferedAccess, NEW d
  PROVE  Count(Append(buf, x), d) = IF d = x.ctx THEN Count(buf, d) + 1 ELSE Count(buf, d)
<1> DEFINE n == Len(buf)
           s == Append(buf, x)
           S == {a \in 1 .. n : buf[a].ctx = d}
           T == {a \in 1 .. Len(s) : s[a].ctx = d}
<1>1. n \in Nat /\ Len(s) = n + 1 /\ s[n + 1] = x /\ \A i \in 1 .. n : s[i] = buf[i]
  OBVIOUS
<1>2. IsFiniteSet(S)
  <2>1. IsFiniteSet(1 .. n) /\ S \in SUBSET (1 .. n)
    BY <1>1, FS_Interval
  <2> QED BY <2>1, FS_Subset
<1>3. n + 1 \notin S
  BY <1>1
<1> HIDE DEF s
<1>4. T = IF d = x.ctx THEN S \cup {n + 1} ELSE S
  BY <1>1
<1> HIDE DEF S, T
<1>5. Cardinality(S \cup {n + 1}) = Cardinality(S) + 1
  BY <1>2, <1>3, FS_AddElement
<1>6. Count(buf, d) = Cardinality(S) /\ Count(s, d) = Cardinality(T)
  BY DEF Count, S, T
<1> QED BY <1>4, <1>5, <1>6 DEF s

OneMore(M, c) == IF M[c] # <<>> THEN [M EXCEPT ![c][Len(M[c])].memAccessCounter = @ + 1] ELSE M

LEMMA CountedAppend ==
  ASSUME NEW m \in [Ctxs -> Seq(TXN)], NEW buf \in Seq(BufferedAccess), NEW x \in BufferedAccess,
         NEW M, M = CountedIn(m, buf)
  PROVE  CountedIn(m, Append(buf, x)) = OneMore(M, x.ctx)
<1> DEFINE c == x.ctx
           N == CountedIn(m, Append(buf, x))
<1>0. c \in Ctxs
  BY DEF BufferedAccess
<1>1. /\ M \in [Ctxs -> Seq(TXN)]
      /\ \A d \in Ctxs : /\ Len(M[d]) = Len(m[d])
                         /\ \A i \in 1 .. Len(m[d]) :
                              M[d][i] = IF i = Len(m[d]) THEN Bumped(m[d][i], Count(buf, d)) ELSE m[d][i]
  BY CountedInProperties DEF IsCounted
<1>2. /\ N \in [Ctxs -> Seq(TXN)]
      /\ \A d \in Ctxs : /\ Len(N[d]) = Len(m[d])
                         /\ \A i \in 1 .. Len(m[d]) :
                              N[d][i] = IF i = Len(m[d]) THEN Bumped(m[d][i], Count(Append(buf, x), d)) ELSE m[d][i]
  <2>1. Append(buf, x) \in Seq(BufferedAccess)
    BY AppendProperties
  <2>2. IsCounted(N, m, Append(buf, x))
    BY <2>1, CountedInProperties
  <2> QED BY <2>2, Zenon DEF IsCounted
<1> HIDE DEF N, c
<1>3. ASSUME NEW d \in Ctxs, d # c PROVE N[d] = M[d]
  <2>1. Count(Append(buf, x), d) = Count(buf, d)
    BY <1>3, CountAppend DEF c
  <2>2. N[d] \in Seq(TXN) /\ M[d] \in Seq(TXN) /\ Len(N[d]) = Len(M[d])
    BY <1>1, <1>2
  <2>3. \A i \in 1 .. Len(M[d]) : N[d][i] = M[d][i]
    BY <1>1, <1>2, <2>1
  <2> QED BY <2>2, <2>3, SeqEqual
<1>4. CASE M[c] = <<>>
  <2>1. Len(m[c]) = 0
    BY <1>0, <1>1, <1>4
  <2>2. N[c] = M[c]
    BY <1>0, <1>1, <1>2, <1>4, <2>1, EmptySeq
  <2>3. N = M
    BY <1>1, <1>2, <1>3, <2>2
  <2> QED BY <1>4, <2>3 DEF N, c, OneMore
<1>5. CASE M[c] # <<>>
  <2> DEFINE n == Len(m[c])
             k == Count(buf, c)
             t == m[c][n]
             stk == [M[c] EXCEPT ![n] = Bumped(Bumped(t, k), 1)]
  <2>1. n \in Nat /\ n > 0 /\ k \in Nat /\ Len(M[c]) = n /\ M[c] \in Seq(TXN)
    BY <1>0, <1>1, <1>5, CountType
  <2>2. t \in TXN
    BY <1>0, <2>1
  <2>3. Bumped(Bumped(t, k), 1) = Bumped(t, k + 1)
    <3>1. t.memAccessCounter \in Nat
      BY <2>2 DEF TXN
    <3>2. (t.memAccessCounter + k) + 1 = t.memAccessCounter + (k + 1)
      <4>1. \A a, b \in Nat : (a + b) + 1 = a + (b + 1)
        OBVIOUS
      <4> QED BY <2>1, <3>1, <4>1, Zenon
    <3> DEFINE y == t.memAccessCounter + k
               z == y + 1
    <3>3. z = t.memAccessCounter + (k + 1)
      BY <3>2
    <3>4. [[t EXCEPT !.memAccessCounter = y] EXCEPT !.memAccessCounter = @ + 1] = [t EXCEPT !.memAccessCounter = z]
      <4>1. [t EXCEPT !.memAccessCounter = y].memAccessCounter = y
        BY <2>2 DEF TXN
      <4> HIDE DEF y
      <4> QED BY <2>2, <4>1 DEF TXN
    <3> HIDE DEF z
    <3> QED BY <3>3, <3>4 DEF Bumped
  <2>4. Count(Append(buf, x), c) = k + 1
    BY CountAppend DEF c
  <2>5. M[c][n] = Bumped(t, k)
    BY <1>0, <1>1, <2>1
  <2>6. N[c] \in Seq(TXN) /\ Len(N[c]) = n
    BY <1>0, <1>2
  <2>7. N[c][n] = Bumped(Bumped(t, k), 1)
    BY <1>0, <1>2, <2>1, <2>3, <2>4
  <2>8. \A i \in 1 .. n : i # n => N[c][i] = M[c][i]
    BY <1>0, <1>1, <1>2
  <2> HIDE DEF n, k, t
  <2>9. N[c] = stk
    <3> DEFINE b == Bumped(Bumped(t, k), 1)
    <3>1. b \in TXN
      BY <2>1, <2>2, BumpedProperties
    <3> HIDE DEF b
    <3>2. stk \in Seq(TXN) /\ Len(stk) = n /\ stk[n] = b /\ \A i \in 1 .. n : i # n => stk[i] = M[c][i]
      BY <2>1, <3>1 DEF b
    <3> HIDE DEF stk
    <3>3. \A i \in 1 .. n : N[c][i] = stk[i]
      BY <2>7, <2>8, <3>2 DEF b
    <3> QED BY <2>6, <3>2, <3>3, SeqEqual
  <2>10. [M EXCEPT ![c][n].memAccessCounter = @ + 1] = [M EXCEPT ![c] = stk]
    <3>1. [M EXCEPT ![c][n].memAccessCounter = @ + 1] = [M EXCEPT ![c] = [M[c] EXCEPT ![n] = Bumped(M[c][n], 1)]]
      BY Zenon DEF Bumped
    <3> QED BY <2>5, <3>1
  <2> HIDE DEF stk
  <2>11. N = [M EXCEPT ![c] = stk]
    BY <1>0, <1>1, <1>2, <1>3, <2>9
  <2>12. N = [M EXCEPT ![c][Len(M[c])].memAccessCounter = @ + 1]
    BY <2>1, <2>10, <2>11
  <2> QED BY <1>5, <2>12 DEF N, c, OneMore
<1> QED BY <1>4, <1>5

LEMMA WrittenProperties ==
  ASSUME NEW rs \in Seq(WrittenAccess)
  PROVE  /\ Written(rs) \in Seq(AccessRow) /\ Len(Written(rs)) = Len(rs)
         /\ \A i \in 1 .. Len(rs) :
              Written(rs)[i] = [ts |-> rs[i].ts, ctx |-> rs[i].ctx, txn |-> rs[i].txn, held |-> rs[i].held]
<1> DEFINE n == Len(rs)
           e(i) == [ts |-> rs[i].ts, ctx |-> rs[i].ctx, txn |-> rs[i].txn, held |-> rs[i].held]
<1>1. n \in Nat /\ \A i \in 1 .. n : rs[i] \in WrittenAccess
  OBVIOUS
<1>2. \A i \in 1 .. n : e(i) \in AccessRow
  <2> TAKE i \in 1 .. n
  <2>1. rs[i].ts \in Nat /\ rs[i].ctx \in Ctxs /\ rs[i].txn \in Nat /\ rs[i].held \in Seq(Locks \X SubLocks)
    BY <1>1 DEF WrittenAccess
  <2> QED BY <2>1 DEF AccessRow
<1>3. Written(rs) = [i \in 1 .. n |-> e(i)]
  BY Zenon DEF Written
<1> HIDE DEF n, e
<1>4. Written(rs) \in Seq(AccessRow) /\ Len(Written(rs)) = n /\ \A i \in 1 .. n : Written(rs)[i] = e(i)
  BY <1>1, <1>2, <1>3
<1> QED BY <1>4 DEF n, e

LEMMA RowInType ==
  ASSUME NEW m \in [Ctxs -> Seq(TXN)], NEW x \in BufferedAccess
  PROVE  /\ RowIn(m, x) \in WrittenAccess
         /\ RowIn(m, x).ts = x.ts /\ RowIn(m, x).ctx = x.ctx /\ RowIn(m, x).held = x.held
         /\ RowIn(m, x).txn = TxnIn(m, x.ctx)
<1>1. /\ x.ts \in Nat /\ x.ctx \in Ctxs /\ x.held \in Seq(Locks \X SubLocks)
      /\ x.alloc_id \in Nat /\ x.addr \in Nat
  BY DEF BufferedAccess
<1>2. TxnIn(m, x.ctx) \in Nat
  <2>1. CASE m[x.ctx] # <<>>
    <3>1. Top(m[x.ctx]) \in TXN
      BY <1>1, <2>1 DEF Top
    <3> QED BY <2>1, <3>1 DEF TxnIn, TXN
  <2>2. CASE m[x.ctx] = <<>>
    BY <2>2 DEF TxnIn, NULL
  <2> QED BY <2>1, <2>2
<1> QED BY <1>1, <1>2 DEF RowIn, WrittenAccess

LEMMA RowsInProperties ==
  ASSUME NEW m \in [Ctxs -> Seq(TXN)], NEW buf \in Seq(BufferedAccess)
  PROVE  /\ RowsIn(m, buf) \in Seq(WrittenAccess) /\ Len(RowsIn(m, buf)) = Len(buf)
         /\ \A i \in 1 .. Len(buf) : RowsIn(m, buf)[i] = RowIn(m, buf[i])
<1> DEFINE n == Len(buf)
           e(i) == RowIn(m, buf[i])
<1>1. n \in Nat /\ \A i \in 1 .. n : e(i) \in WrittenAccess
  BY RowInType
<1>2. RowsIn(m, buf) = [i \in 1 .. n |-> e(i)]
  BY DEF RowsIn
<1> HIDE DEF n, e
<1>3. RowsIn(m, buf) \in Seq(WrittenAccess) /\ Len(RowsIn(m, buf)) = n /\ \A i \in 1 .. n : RowsIn(m, buf)[i] = e(i)
  BY <1>1, <1>2
<1> QED BY <1>3 DEF n, e

LEMMA RowsAppend ==
  ASSUME NEW m \in [Ctxs -> Seq(TXN)], NEW buf \in Seq(BufferedAccess), NEW x \in BufferedAccess,
         NEW acc \in Seq(WrittenAccess)
  PROVE  Written(acc \o RowsIn(m, Append(buf, x))) =
           Append(Written(acc \o RowsIn(m, buf)),
                  [ts |-> x.ts, ctx |-> x.ctx, txn |-> TxnIn(m, x.ctx), held |-> x.held])
<1> DEFINE R == RowsIn(m, buf)
           Q == RowsIn(m, Append(buf, x))
           row == RowIn(m, x)
           n == Len(buf)
<1>1. row \in WrittenAccess
  BY RowInType
<1>2. R \in Seq(WrittenAccess) /\ Len(R) = n /\ n \in Nat /\ \A i \in 1 .. n : R[i] = RowIn(m, buf[i])
  BY RowsInProperties
<1>3. /\ Append(buf, x) \in Seq(BufferedAccess) /\ Len(Append(buf, x)) = n + 1
      /\ Append(buf, x)[n + 1] = x /\ \A i \in 1 .. n : Append(buf, x)[i] = buf[i]
  BY AppendProperties
<1>4. Q \in Seq(WrittenAccess) /\ Len(Q) = n + 1 /\ \A i \in 1 .. n + 1 : Q[i] = RowIn(m, Append(buf, x)[i])
  BY <1>3, RowsInProperties
<1>5. Q[n + 1] = row /\ \A i \in 1 .. n : Q[i] = R[i]
  BY <1>2, <1>3, <1>4
<1> HIDE DEF R, Q, row, n
<1>6. Q = Append(R, row)
  <2>1. Append(R, row) \in Seq(WrittenAccess) /\ Len(Append(R, row)) = n + 1
        /\ Append(R, row)[n + 1] = row /\ \A i \in 1 .. n : Append(R, row)[i] = R[i]
    BY <1>1, <1>2
  <2>2. \A i \in 1 .. n + 1 : Q[i] = Append(R, row)[i]
    BY <1>2, <1>5, <2>1
  <2> QED BY <1>4, <2>1, <2>2, SeqEqual
<1> DEFINE s == acc \o R
           w == [ts |-> row.ts, ctx |-> row.ctx, txn |-> row.txn, held |-> row.held]
<1>7. s \in Seq(WrittenAccess) /\ acc \o Append(R, row) = Append(s, row)
  <2>1. s \in Seq(WrittenAccess)
    BY <1>2, ConcatProperties
  <2>2. Append(R, row) = R \o <<row>> /\ Append(s, row) = s \o <<row>>
    <3> HIDE DEF s
    <3> QED BY <1>1, <1>2, <2>1, AppendIsConcat
  <2>3. <<row>> \in Seq(WrittenAccess)
    BY <1>1
  <2>4. (acc \o R) \o <<row>> = acc \o (R \o <<row>>)
    BY <1>2, <2>3, ConcatAssociative
  <2> QED BY <2>1, <2>2, <2>4
<1> HIDE DEF s
<1>8. Written(Append(s, row)) = Append(Written(s), w)
  <2> DEFINE A == Append(s, row)
             W == Written(s)
             Z == Written(A)
             k == Len(s)
  <2>1. k \in Nat /\ A \in Seq(WrittenAccess) /\ Len(A) = k + 1 /\ A[k + 1] = row /\ \A i \in 1 .. k : A[i] = s[i]
    BY <1>1, <1>7
  <2>2. /\ W \in Seq(AccessRow) /\ Len(W) = k
        /\ \A i \in 1 .. k : W[i] = [ts |-> s[i].ts, ctx |-> s[i].ctx, txn |-> s[i].txn, held |-> s[i].held]
    BY <1>7, WrittenProperties
  <2>3. /\ Z \in Seq(AccessRow) /\ Len(Z) = k + 1
        /\ \A i \in 1 .. k + 1 : Z[i] = [ts |-> A[i].ts, ctx |-> A[i].ctx, txn |-> A[i].txn, held |-> A[i].held]
    <3> HIDE DEF A, k
    <3> QED BY <2>1, WrittenProperties
  <2>4. k + 1 \in 1 .. k + 1 /\ \A i \in 1 .. k : i \in 1 .. k + 1
    BY <2>1
  <2> HIDE DEF A, W, Z, k
  <2>5. Z[k + 1] = w
    BY <2>1, <2>3, <2>4
  <2>6. \A i \in 1 .. k : Z[i] = W[i]
    BY <2>1, <2>2, <2>3, <2>4
  <2>7. w \in AccessRow
    BY <2>3, <2>4, <2>5
  <2> HIDE DEF w
  <2>8. Append(W, w) \in Seq(AccessRow) /\ Len(Append(W, w)) = k + 1 /\ Append(W, w)[k + 1] = w
        /\ \A i \in 1 .. k : Append(W, w)[i] = W[i]
    BY <2>1, <2>2, <2>7
  <2>9. \A i \in 1 .. k + 1 : Z[i] = Append(W, w)[i]
    BY <2>1, <2>5, <2>6, <2>8
  <2>10. Z = Append(W, w)
    BY <2>3, <2>8, <2>9, SeqEqual
  <2> QED BY <2>10 DEF Z, A, W
<1>9. w = [ts |-> x.ts, ctx |-> x.ctx, txn |-> TxnIn(m, x.ctx), held |-> x.held]
  BY RowInType DEF row
<1> HIDE DEF w
<1>10. Written(acc \o Q) = Append(Written(s), w)
  BY <1>6, <1>7, <1>8
<1> QED BY <1>9, <1>10 DEF Q, s, R

(* What the lock manager sees of a context is the same with the buffer's      *)
(* accesses counted.                                                          *)
LEMMA SameHeld ==
  ASSUME NEW c \in Ctxs, m_activeTXNs \in [Ctxs -> Seq(TXN)], lastMemAccesses \in Seq(BufferedAccess)
  PROVE  /\ LM!HeldIn(c) = HeldIn(c)
         /\ LM!hasActiveTXN(c) <=> hasActiveTXN(c)
         /\ (IF LM!hasActiveTXN(c) THEN LM!getActiveTXN(c).id ELSE LM!NULL) = TxnIn(m_activeTXNs, c)
<1> DEFINE m == m_activeTXNs[c]
           M == TXNsSeen[c]
           n == Len(m)
<1>1. /\ TXNsSeen \in [Ctxs -> Seq(TXN)] /\ Len(M) = n
      /\ \A i \in 1 .. n : M[i] = IF i = n THEN Bumped(m[i], Count(lastMemAccesses, c)) ELSE m[i]
  <2>1. IsCounted(TXNsSeen, m_activeTXNs, lastMemAccesses)
    BY SeenIn, CountedInProperties
  <2> QED BY <2>1, Zenon DEF IsCounted
<1>2. n \in Nat /\ m \in Seq(TXN) /\ M \in Seq(TXN) /\ \A i \in 1 .. n : m[i] \in TXN
  BY <1>1
<1>3. \A i \in 1 .. n : M[i].id = m[i].id /\ M[i].lock = m[i].lock /\ M[i].subLock = m[i].subLock
  <2> TAKE i \in 1 .. n
  <2>1. Count(lastMemAccesses, c) \in Nat
    BY CountType
  <2>2. m[i] \in TXN
    BY <1>2
  <2> HIDE DEF m, M, n
  <2>3. CASE i = n
    <3>1. M[i] = Bumped(m[i], Count(lastMemAccesses, c))
      BY <1>1, <2>3
    <3> DEFINE t == m[i]
               k == Count(lastMemAccesses, c)
    <3>2. t \in TXN /\ k \in Nat /\ M[i] = Bumped(t, k)
      BY <2>1, <2>2, <3>1
    <3> HIDE DEF t, k
    <3>3. M[i].id = t.id /\ M[i].lock = t.lock /\ M[i].subLock = t.subLock
      BY <3>2, BumpedProperties
    <3> QED BY <3>3 DEF t
  <2>4. CASE i # n
    <3>1. M[i] = m[i]
      BY <1>1, <2>4
    <3> QED BY <3>1
  <2> QED BY <2>3, <2>4
<1>4. HeldIn(c) = [i \in 1 .. n |-> <<m[i].lock, m[i].subLock>>]
  BY DEF HeldIn
<1>5. LM!HeldIn(c) = [i \in 1 .. n |-> <<M[i].lock, M[i].subLock>>]
  BY <1>1 DEF LM!HeldIn
<1>6. hasActiveTXN(c) <=> n # 0
  BY <1>2 DEF hasActiveTXN
<1>7. LM!hasActiveTXN(c) <=> n # 0
  BY <1>1, <1>2 DEF LM!hasActiveTXN
<1>8. CASE n # 0
  <2>1. LM!getActiveTXN(c) = M[n]
    BY <1>1 DEF LM!getActiveTXN, LM!Top
  <2>2. TxnIn(m_activeTXNs, c) = m[n].id
    BY <1>2, <1>8 DEF TxnIn, Top
  <2>3. n \in 1 .. n
    BY <1>2, <1>8
  <2> HIDE DEF m, M, n
  <2> QED BY <1>3, <1>4, <1>5, <1>6, <1>7, <1>8, <2>1, <2>2, <2>3
<1>9. CASE n = 0
  <2>1. TxnIn(m_activeTXNs, c) = LM!NULL
    BY <1>2, <1>9 DEF TxnIn, LM!NULL, NULL
  <2> HIDE DEF m, M, n
  <2> QED BY <1>3, <1>4, <1>5, <1>6, <1>7, <1>9, <2>1
<1> QED BY <1>8, <1>9

LEMMA BufferIsSeen ==
  ASSUME ConvertTypeOK, Buffer
  PROVE  LM!Next
<1> DEFINE c == line.ctx
<1>0. /\ m_activeTXNs \in [Ctxs -> Seq(TXN)] /\ lastMemAccesses \in Seq(BufferedAccess)
      /\ accesses \in Seq(WrittenAccess)
  BY CoreTypes DEF ConvertTypeOK
<1>1. /\ UNCHANGED <<m_activeTXNs, m_nextTXNID, lockState, rows, accesses, status>>
      /\ line \in AccessLine
  BY BufferEffect
<1>2. PICK x \in BufferedAccess :
        /\ x.ts = ts + 1 /\ x.ctx = c /\ x.held = HeldIn(c)
        /\ lastMemAccesses' = Append(lastMemAccesses, x)
  <2>1. PICK a \in At(line.base) : \E x \in BufferedAccess :
          /\ x = [ts |-> ts + 1, alloc_id |-> a.id, action |-> line.action, size |-> line.size,
                  addr |-> line.addr, same |-> line.same, ctx |-> line.ctx, held |-> HeldIn(line.ctx)]
          /\ lastMemAccesses' = Append(lastMemAccesses, x)
    BY BufferEffect
  <2> QED BY <2>1
<1>3. c \in Ctxs
  BY <1>1 DEF AccessLine
<1> HIDE DEF c
<1>4. TXNsSeen = CountedIn(m_activeTXNs, lastMemAccesses) /\ TXNsSeen' = CountedIn(m_activeTXNs, Append(lastMemAccesses, x))
  BY <1>1, <1>2, SeenIn
<1>5. TXNsSeen' = OneMore(TXNsSeen, c)
  BY <1>0, <1>2, <1>4, CountedAppend
<1>6. TXNsSeen' = IF LM!hasActiveTXN(c)
                  THEN [TXNsSeen EXCEPT ![c][Len(TXNsSeen[c])].memAccessCounter = @ + 1] ELSE TXNsSeen
  BY <1>5, Zenon DEF LM!hasActiveTXN, OneMore
<1>7. AccessesSeen' = Append(AccessesSeen, [ts |-> x.ts, ctx |-> x.ctx, txn |-> TxnIn(m_activeTXNs, x.ctx), held |-> x.held])
  BY <1>0, <1>1, <1>2, SeenIn, RowsAppend
<1>8. AccessesSeen' = Append(AccessesSeen, LM!AccessRowOf(c))
  <2>1. LM!AccessRowOf(c) = [ts |-> ts + 1, ctx |-> c, txn |-> TxnIn(m_activeTXNs, c), held |-> HeldIn(c)]
    BY <1>0, <1>3, SameHeld DEF LM!AccessRowOf
  <2> QED BY <1>2, <1>7, <2>1
<1>9. LM!Event /\ UNCHANGED <<m_nextTXNID, LM!lockState, LM!rows, status>>
  BY <1>1 DEF Buffer, Event, LM!Event, lockState, LM!lockState, rows, LM!rows
<1>10. LM!Access(c)
  BY <1>6, <1>8, <1>9, Zenon DEF LM!Access
<1> QED BY <1>3, <1>10 DEF LM!Next

(* writeMemAccesses writes what the lock manager has seen, if it discards     *)
(* nothing.                                                                   *)
LEMMA WriteIsSeen ==
  ASSUME ConvertTypeOK, ConvertTypeOK', NEW pAction, NEW pAddress, writeMemAccesses(pAction, pAddress),
         Kept(pAction, pAddress) = lastMemAccesses
  PROVE  TXNsSeen' = TXNsSeen /\ AccessesSeen' = AccessesSeen
<1>0. /\ m_activeTXNs' \in [Ctxs -> Seq(TXN)] /\ accesses' \in Seq(WrittenAccess)
  <2>1. Core!TypeOK' => m_activeTXNs' \in [Ctxs -> Seq(TXN)]
    BY Zenon DEF Core!TypeOK, Core!TXN, TXN, Core!SubLocks, SubLocks
  <2> QED BY <2>1 DEF ConvertTypeOK
<1>1. CASE Not_flushed(pAction)
  BY <1>1, SeenIn DEF writeMemAccesses
<1>2. CASE ~Not_flushed(pAction)
  <2>1. /\ accesses' = accesses \o RowsOfBuffer(lastMemAccesses) /\ m_activeTXNs' = Counted(lastMemAccesses)
        /\ lastMemAccesses' = <<>>
    BY <1>2 DEF writeMemAccesses
  <2>2. CountedIn(m_activeTXNs', <<>>) = m_activeTXNs' /\ RowsIn(m_activeTXNs', <<>>) = <<>>
    BY <1>0, EmptyBuffer
  <2>3. TXNsSeen' = m_activeTXNs'
    BY <2>1, <2>2, SeenIn
  <2>4. AccessesSeen' = Written(accesses')
    <3>1. accesses' \o <<>> = accesses'
      BY <1>0, ConcatEmptySeq
    <3> QED BY <2>1, <2>2, <3>1, SeenIn
  <2> QED BY <2>1, <2>3, <2>4 DEF TXNsSeen, AccessesSeen
<1> QED BY <1>1, <1>2

-----------------------------------------------------------------------------
(* The refinement *)

(* No access of the trace has address 0: no object lies there.  The flush at  *)
(* the end of the trace is called with address 0, and would take accesses     *)
(* there for those of a lock word.                                            *)
NoNullAccess == \A e \in Lines : e.action \in {"r", "w"} => e.addr # 0

(* The buffer is empty whenever a TXN may change.                             *)
BufferFlushed ==
  /\ line # NoLine /\ line.action \notin {"r", "w"} => lastMemAccesses = <<>>
  /\ Over => lastMemAccesses = <<>>
BufferAddrs == \A i \in 1 .. Len(lastMemAccesses) : lastMemAccesses[i].addr # 0
BInv == BufferFlushed /\ BufferAddrs

LEMMA BInvStep ==
  ASSUME NoNullAccess, ConvertTypeOK, BInv, [ConvertNext]_allVars
  PROVE  BInv'
<1>1. ASSUME UNCHANGED lastMemAccesses, line' \in {line, NoLine}, Over' = Over PROVE BInv'
  BY <1>1 DEF BInv, BufferFlushed, BufferAddrs
<1>2. ASSUME NEW e \in Lines, ReadLine(e) PROVE BInv'
  <2>1. status = "tracing" /\ status' = status /\ line' = e /\ writeMemAccesses(e.action, AddressOf(e))
    BY <1>2 DEF ReadLine, Reading
  <2>2. CASE e.action \in {"r", "w"}
    <3>1. lastMemAccesses' = lastMemAccesses
      BY <2>1, <2>2 DEF writeMemAccesses, Not_flushed
    <3> QED BY <2>1, <2>2, <3>1 DEF BInv, BufferFlushed, BufferAddrs, Over
  <2>3. CASE e.action \notin {"r", "w"}
    <3>1. lastMemAccesses' = <<>>
      BY <2>1, <2>3 DEF writeMemAccesses, Not_flushed
    <3> QED BY <3>1 DEF BInv, BufferFlushed, BufferAddrs
  <2> QED BY <2>2, <2>3
<1>3. CASE Finish
  <2>1. lastMemAccesses' = <<>>
    BY <1>3 DEF Finish, writeMemAccesses, Not_flushed
  <2> QED BY <2>1 DEF BInv, BufferFlushed, BufferAddrs
<1>4. CASE Buffer
  <2>1. PICK x : lastMemAccesses' = Append(lastMemAccesses, x) /\ x.addr = line.addr
    BY <1>4 DEF Buffer
  <2>2. line.addr # 0
    <3>1. line \in Lines
      BY <1>4 DEF Buffer, ConvertTypeOK, NoLine
    <3> QED BY <1>4, <3>1 DEF Buffer, NoNullAccess
  <2>3. line' = NoLine /\ ~Over'
    BY <1>4 DEF Buffer, Handled, Event, Over
  <2>4. lastMemAccesses \in Seq(BufferedAccess)
    BY DEF ConvertTypeOK
  <2>5. BufferAddrs'
    <3> DEFINE n == Len(lastMemAccesses)
               s == Append(lastMemAccesses, x)
    <3>1. n \in Nat /\ Len(s) = n + 1 /\ s[n + 1] = x /\ \A i \in 1 .. n : s[i] = lastMemAccesses[i]
      BY <2>4
    <3> HIDE DEF s
    <3>2. \A i \in 1 .. Len(s) : s[i].addr # 0
      BY <2>1, <2>2, <3>1 DEF BInv, BufferAddrs
    <3> QED BY <2>1, <3>2 DEF BufferAddrs, s
  <2> QED BY <2>3, <2>5 DEF BInv, BufferFlushed
<1>5. CASE LockKnown
  <2>1. status = "tracing" /\ status' \in {"tracing", "aborted", "undefined"}
    BY <1>5, TransitionEffect DEF LockKnown
  <2> QED BY <1>1, <1>5, <2>1 DEF LockKnown, Handled, Over
<1>6. CASE LockNew
  <2>1. status = "tracing" /\ status' \in {"tracing", "aborted", "undefined"}
    BY <1>6, TransitionEffect DEF LockNew
  <2> QED BY <1>1, <1>6, <2>1 DEF LockNew, Handled, Over
<1>7. CASE Closing
  <2>1. status = "closing" /\ status' \in {"closing", "done"} /\ UNCHANGED <<line, lastMemAccesses>>
    BY <1>7 DEF Closing, Closed, CloseTXN, convertVars
  <2> QED BY <1>1, <2>1 DEF Over
<1>8. ASSUME (\E e \in Lines : SkipLine(e)) \/ AllocMixedUp \/ LockTypeUnknown \/ AccessOutOfRange \/ Ignore
             \/ Alloc \/ Free \/ UNCHANGED allVars
      PROVE  BInv'
  <2>1. UNCHANGED <<lastMemAccesses, status>> /\ line' \in {line, NoLine}
    BY <1>8 DEF SkipLine, AllocMixedUp, LockTypeUnknown, AccessOutOfRange, Ignore, Ignored, GiveUp, Alloc, Free,
                Handled, allVars, vars, convertVars
  <2> QED BY <1>1, <2>1 DEF Over
<1> QED BY <1>2, <1>3, <1>4, <1>5, <1>6, <1>7, <1>8 DEF ConvertNext

(* Lines that are not lock operations never discard accesses, nor does the    *)
(* end of the trace.                                                          *)
LEMMA NothingDiscarded ==
  ASSUME ConvertTypeOK, BInv
  PROVE  /\ \A e \in Lines : Kept(e.action, AddressOf(e)) = lastMemAccesses
         /\ Kept("v", 0) = lastMemAccesses
<1>0. lastMemAccesses \in Seq(BufferedAccess) /\ \A i \in 1 .. Len(lastMemAccesses) : lastMemAccesses[i].addr \in Nat
  <2>1. lastMemAccesses \in Seq(BufferedAccess) /\ \A r \in BufferedAccess : r.addr \in Nat
    BY DEF ConvertTypeOK, BufferedAccess
  <2> QED BY <2>1
<1>1. \A a : ReadWritePair(lastMemAccesses, a) => a \in Nat /\ a # 0
  <2> TAKE a
  <2> HAVE ReadWritePair(lastMemAccesses, a)
  <2>1. Len(lastMemAccesses) \in 1 .. Len(lastMemAccesses) /\ lastMemAccesses[Len(lastMemAccesses)].addr = a
    BY <1>0 DEF ReadWritePair
  <2> QED BY <1>0, <2>1 DEF BInv, BufferAddrs
<1>2. \A e \in Lines : Kept(e.action, AddressOf(e)) = lastMemAccesses
  <2> TAKE e \in Lines
  <2>1. CASE e.action \in {"p", "v"}
    BY <1>1, <2>1 DEF Kept, AddressOf
  <2>2. CASE e.action \notin {"p", "v"}
    BY <2>2 DEF Kept
  <2> QED BY <2>1, <2>2
<1>3. Kept("v", 0) = lastMemAccesses
  BY <1>1 DEF Kept
<1> QED BY <1>2, <1>3

LEMMA ConvertStepIsSeen ==
  ASSUME ConvertTypeOK, ConvertTypeOK', BInv, BInv', [ConvertNext]_allVars
  PROVE  [LM!Next]_(LM!vars)
<1>0. /\ m_activeTXNs \in [Ctxs -> Seq(TXN)] /\ m_activeTXNs' \in [Ctxs -> Seq(TXN)]
  <2>1. Core!TypeOK' => m_activeTXNs' \in [Ctxs -> Seq(TXN)]
    BY Zenon DEF Core!TypeOK, Core!TXN, TXN, Core!SubLocks, SubLocks
  <2> QED BY <2>1, CoreTypes DEF ConvertTypeOK
<1>1. ASSUME UNCHANGED <<m_activeTXNs, accesses, lastMemAccesses>>
      PROVE  TXNsSeen' = TXNsSeen /\ AccessesSeen' = AccessesSeen
  BY <1>1, SeenIn
<1>2. ASSUME lastMemAccesses = <<>>, lastMemAccesses' = <<>>, accesses' = accesses
      PROVE  /\ TXNsSeen = m_activeTXNs /\ TXNsSeen' = m_activeTXNs' /\ AccessesSeen' = AccessesSeen
  <2>1. CountedIn(m_activeTXNs, <<>>) = m_activeTXNs /\ RowsIn(m_activeTXNs, <<>>) = <<>>
    BY <1>0, EmptyBuffer
  <2>2. CountedIn(m_activeTXNs', <<>>) = m_activeTXNs' /\ RowsIn(m_activeTXNs', <<>>) = <<>>
    BY <1>0, EmptyBuffer
  <2> QED BY <1>2, <2>1, <2>2, SeenIn
<1>3. ASSUME UNCHANGED <<TXNsSeen, AccessesSeen, m_nextTXNID, count, lastNPos, txns, locks_held, ts, status>>
      PROVE  UNCHANGED LM!vars
  BY <1>3 DEF LM!vars
<1>4. ASSUME NEW e \in Lines, ReadLine(e) PROVE UNCHANGED LM!vars
  <2>1. writeMemAccesses(e.action, AddressOf(e)) /\ UNCHANGED <<m_nextTXNID, lockState, rows, ts, status>>
    BY <1>4 DEF ReadLine
  <2>2. TXNsSeen' = TXNsSeen /\ AccessesSeen' = AccessesSeen
    BY <2>1, WriteIsSeen, NothingDiscarded
  <2> QED BY <1>3, <2>1, <2>2 DEF lockState, rows
<1>5. CASE Finish
  <2>1. /\ writeMemAccesses("v", 0) /\ UNCHANGED <<m_nextTXNID, lockState, rows, ts>>
        /\ status = "tracing" /\ status' = "closing"
    BY <1>5 DEF Finish, Reading
  <2>2. TXNsSeen' = TXNsSeen /\ AccessesSeen' = AccessesSeen
    BY <2>1, WriteIsSeen, NothingDiscarded
  <2>3. LM!EndOfTrace
    BY <2>1, <2>2 DEF LM!EndOfTrace, lockState, LM!lockState, rows, LM!rows
  <2> QED BY <2>3 DEF LM!Next
<1>6. ASSUME (\E e \in Lines : SkipLine(e)) \/ Alloc \/ Free \/ Ignore
      PROVE  LM!Next
  <2>1. Event /\ UNCHANGED <<m_activeTXNs, m_nextTXNID, lockState, rows, accesses, status, lastMemAccesses>>
    BY <1>6 DEF SkipLine, Alloc, Free, Ignore, Ignored, convertVars
  <2>2. LM!Ignored
    BY <1>1, <2>1, IgnoredIsSeen
  <2> QED BY <2>2 DEF LM!Next
<1>7. ASSUME AllocMixedUp \/ LockTypeUnknown \/ AccessOutOfRange \/ UNCHANGED allVars
      PROVE  UNCHANGED LM!vars
  <2>1. UNCHANGED <<m_activeTXNs, m_nextTXNID, count, lastNPos, txns, locks_held, accesses, ts, status, lastMemAccesses>>
    BY <1>7 DEF AllocMixedUp, LockTypeUnknown, AccessOutOfRange, GiveUp, allVars, vars, convertVars
  <2> QED BY <1>1, <1>3, <2>1
<1>8. ASSUME NEW l \in Locks, Transition(l), line \in LockLine, UNCHANGED lastMemAccesses PROVE LM!Next
  <2>1. line # NoLine /\ line.action \notin {"r", "w"}
    BY <1>8 DEF LockLine, NoLine
  <2>2. lastMemAccesses = <<>> /\ accesses' = accesses
    BY <1>8, <2>1, TransitionEffect DEF BInv, BufferFlushed
  <2> QED BY <1>2, <1>8, <2>2, TransitionIsSeen
<1>9. CASE LockKnown
  <2>1. PICK k \in findLock(line.addr) : Transition(k.lock)
    BY <1>9 DEF LockKnown
  <2>2. k.lock \in Locks /\ line \in LockLine
    BY <1>9, LineFields DEF LockKnown, Handling, findLock, ConvertTypeOK, AllocationsTyped
  <2> QED BY <1>8, <1>9, <2>1, <2>2 DEF LockKnown
<1>10. CASE LockNew
  <2>1. PICK l \in Unused(line.type) : Transition(l)
    BY <1>10 DEF LockNew
  <2>2. l \in Locks /\ line \in LockLine
    BY <1>10, LineFields DEF LockNew, NewLock, Handling, Unused, ConvertTypeOK
  <2> QED BY <1>8, <1>10, <2>1, <2>2 DEF LockNew
<1>11. CASE Buffer
  BY <1>11, BufferIsSeen
<1>12. CASE Closing
  <2>1. UNCHANGED lastMemAccesses /\ (Closed \/ \E c \in Ctxs : CloseTXN(c))
    BY <1>12 DEF Closing, convertVars
  <2>2. status = "closing" /\ accesses' = accesses
    BY <2>1 DEF Closed, CloseTXN
  <2>3. lastMemAccesses = <<>>
    BY <2>2 DEF BInv, BufferFlushed, Over
  <2>4. TXNsSeen = m_activeTXNs /\ TXNsSeen' = m_activeTXNs' /\ AccessesSeen' = AccessesSeen
    BY <1>2, <2>1, <2>2, <2>3
  <2> QED BY <2>1, <2>4, CloseIsSeen, ClosedIsSeen DEF LM!Next
<1> QED BY <1>4, <1>5, <1>6, <1>7, <1>9, <1>10, <1>11, <1>12 DEF ConvertNext

(* ImplementsLockManager, of run cv_buffer, for any trace whose accesses are  *)
(* not to address 0: every step of convert is a step of the lock manager      *)
(* that gets each access at once, or none.                                    *)
THEOREM LockManagerImplemented ==
  ASSUME NoNullAccess
  PROVE  ConvertSpec => ImplementsLockManager
<1>1. ConvertInit => LM!Init
  <2> SUFFICES ASSUME ConvertInit PROVE LM!Init
    OBVIOUS
  <2>1. m_activeTXNs = [c \in Ctxs |-> <<>>] /\ lastMemAccesses = <<>> /\ accesses = <<>>
    BY DEF ConvertInit, Init
  <2>2. m_activeTXNs \in [Ctxs -> Seq(TXN)]
    BY <2>1
  <2>3. TXNsSeen = m_activeTXNs /\ RowsIn(m_activeTXNs, lastMemAccesses) = <<>>
    BY <2>1, <2>2, EmptyBuffer, SeenIn
  <2>4. AccessesSeen = <<>>
    <3>1. <<>> \o <<>> = <<>> /\ Written(<<>>) = <<>>
      BY DEF Written
    <3> QED BY <2>1, <2>3, <3>1, SeenIn
  <2> QED BY <2>1, <2>3, <2>4 DEF ConvertInit, Init, LM!Init, SubLocks, LM!SubLocks
<1>2. ConvertInit => BInv
  BY DEF ConvertInit, Init, BInv, BufferFlushed, BufferAddrs
<1>3. ConvertTypeOK /\ BInv /\ [ConvertNext]_allVars => (ConvertTypeOK /\ BInv)'
  BY ConvertTypeStep, BInvStep
<1>4. ConvertTypeOK /\ BInv /\ (ConvertTypeOK /\ BInv)' /\ [ConvertNext]_allVars => [LM!Next]_(LM!vars)
  BY ConvertStepIsSeen
<1> QED BY <1>1, <1>2, <1>3, <1>4, ConvertTypeInit, PTL DEF ConvertSpec, ImplementsLockManager, LM!Spec
=============================================================================
