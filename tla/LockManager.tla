---------------------------- MODULE LockManager ----------------------------
(***************************************************************************)
(* The lock manager of convert: the stacks of nested transactions (TXNs),   *)
(* one per execution context, the lock objects whose P and V events drive   *)
(* them, and the rows written to txns.csv, locks_held.csv and accesses.csv. *)
(*                                                                          *)
(* The trace is the environment: any lock operation in any context and any  *)
(* memory access may come next, also sequences no correct kernel produces,  *)
(* because the tracer loses events and convert says it copes with that.     *)
(* Every event carries its own timestamp.  Locks that are freed only become *)
(* unreachable, so a lock here is one lock object, never reused.            *)
(***************************************************************************)
EXTENDS StackOps

CONSTANTS Locks,      \* lock objects, as allocLock creates them
          Kind,       \* the class of each: RLock, WLock or RWLock
          Flags,      \* the values of LOCK_FLAGS_RECURSIVE the trace shows for each
          Ctxs,       \* execution contexts: {0} without -c, tids, -1 and -2 with it
          MaxTs       \* bound on the number of events

SubLocks == {"READER_LOCK", "WRITER_LOCK"}

ASSUME LockAssumption == /\ Kind \in [Locks -> {"RLock", "WLock", "RWLock"}]
                         /\ Flags \in [Locks -> SUBSET BOOLEAN]
ASSUME CtxAssumption == Ctxs \subseteq Int /\ \A c \in Ctxs : c >= -2
ASSUME MaxTsAssumption == MaxTs \in Nat

VARIABLES
  m_activeTXNs,  \* per context: the stack of active TXNs, bottom first
  m_nextTXNID,   \* the id of the next TXN
  count,         \* per lock: reader_count and writer_count
  lastNPos,      \* per lock: the stack of its takes
  txns,          \* rows of txns.csv
  locks_held,    \* rows of locks_held.csv
  accesses,      \* rows of accesses.csv, with what was held at the access (auxiliary)
  ts,            \* timestamp of the last event
  status         \* tracing, closing, done; aborted: uncaught exception or
                 \* fault; undefined: after undefined behaviour

vars == <<m_activeTXNs, m_nextTXNID, count, lastNPos, txns, locks_held,
          accesses, ts, status>>
lockState == <<count, lastNPos>>
rows == <<txns, locks_held>>

NULL == 0             \* no TXN: "\N" in accesses.csv.  TXN ids start at 1.

TXN == [id : Nat, start_ts : Nat, start_ctx : Ctxs, memAccessCounter : Nat,
        lock : Locks, subLock : SubLocks]
LockPos == [subLock : SubLocks, start : Nat]
TxnRow == [id : Nat, start_ts : Nat, start_ctx : Ctxs, end_ts : Nat, end_ctx : Ctxs]
HeldRow == [txn : Nat, lock : Locks, subLock : SubLocks, start : Nat]
AccessRow == [ts : Nat, ctx : Ctxs, txn : Nat, held : Seq(Locks \X SubLocks)]

Init == /\ m_activeTXNs = [c \in Ctxs |-> <<>>]
        /\ m_nextTXNID = 1
        /\ count = [l \in Locks |-> [s \in SubLocks |-> 0]]
        /\ lastNPos = [l \in Locks |-> <<>>]
        /\ txns = {} /\ locks_held = {} /\ accesses = <<>>
        /\ ts = 0 /\ status = "tracing"

-----------------------------------------------------------------------------
(* Lock objects *)

Other(sub) == IF sub = "READER_LOCK" THEN "WRITER_LOCK" ELSE "READER_LOCK"

(* RLock only takes read-side operations, WLock only write-side ones: the    *)
(* transition of the other side throws.                                      *)
Takes(l, sub) == \/ Kind[l] = "RWLock"
                 \/ Kind[l] = "RLock" /\ sub = "READER_LOCK"
                 \/ Kind[l] = "WLock" /\ sub = "WRITER_LOCK"

isHeld(l) == \E sub \in SubLocks : Takes(l, sub) /\ count[l][sub] > 0

(* The state in which writeTransition and readTransition throw on a P.       *)
InvalidState(l) == \A sub \in SubLocks : count[l][sub] > 0

-----------------------------------------------------------------------------
(* Lookups on the TXN stacks *)

hasActiveTXN(c) == m_activeTXNs[c] # <<>>
getActiveTXN(c) == Top(m_activeTXNs[c])

(* The sub locks of the TXNs on a stack, bottom first.                       *)
HeldIn(c) == [i \in 1 .. Len(m_activeTXNs[c]) |->
                <<m_activeTXNs[c][i].lock, m_activeTXNs[c][i].subLock>>]

Matching(stk, l, sub) == {i \in 1 .. Len(stk) : stk[i].lock = l /\ stk[i].subLock = sub}
isOnTXNStack(c, l, sub) == Matching(m_activeTXNs[c], l, sub) # {}

(* m_activeTXNs is a std::map: contexts are searched in ascending order.     *)
findTXN(l, sub, c) ==
  LET on == {d \in Ctxs : isOnTXNStack(d, l, sub)}
  IN  IF on = {} THEN c ELSE CHOOSE d \in on : \A e \in on : d <= e

-----------------------------------------------------------------------------
(* finishTXN(l, t, sub, removeReader, c, cOld), in parts.  The TXNs from the *)
(* topmost one of l's sub lock upwards are closed, all of them if there is   *)
(* none; those above it are restarted.                                       *)

Found(c, l, sub) == Topmost(Matching(m_activeTXNs[c], l, sub))

(* Mutant: only the TXN whose lock is released is recorded.                  *)
RecordedFoundOnly(stk, k) == {i \in 1 .. Len(stk) : i = k /\ stk[i].memAccessCounter > 0}

(* The TXNs to record: closed, and with at least one memory access           *)
(* (SKIP_EMPTY_TXNS).                                                        *)
Recorded(stk, k) == {i \in 1 .. Len(stk) : i >= k /\ stk[i].memAccessCounter > 0}

TxnRows(stk, k, t, cOld) ==
  {[id |-> stk[i].id, start_ts |-> stk[i].start_ts, start_ctx |-> stk[i].start_ctx,
    end_ts |-> t, end_ctx |-> cOld] : i \in Recorded(stk, k)}

(* Mutant: the locks of the TXNs above are listed too.                       *)
HeldAnywhere(stk, i) == {j \in 1 .. Len(stk) : isHeld(stk[j].lock) /\ lastNPos[stk[j].lock] # <<>>}

(* For a recorded TXN, a row for each sub lock held by the TXNs up to it,    *)
(* with the position on top of the lock's own stack.                         *)
HeldBelow(stk, i) == {j \in 1 .. i : isHeld(stk[j].lock) /\ lastNPos[stk[j].lock] # <<>>}

HeldRows(stk, k) ==
  UNION {{[txn |-> stk[i].id, lock |-> stk[j].lock, subLock |-> stk[j].subLock,
           start |-> Top(lastNPos[stk[j].lock]).start] : j \in HeldBelow(stk, i)} :
         i \in Recorded(stk, k)}

(* Mutants: the restarted TXN keeps its id, or its counter, or the order is  *)
(* reversed (push_back for push_front).                                      *)
RestartedSameID(stk, k, t, c) ==
  [m \in 1 .. Len(stk) - k |->
     [id |-> stk[k + m].id, start_ts |-> t, start_ctx |-> c,
      memAccessCounter |-> 0, lock |-> stk[k + m].lock, subLock |-> stk[k + m].subLock]]
RestartedCounting(stk, k, t, c) ==
  [m \in 1 .. Len(stk) - k |->
     [stk[k + m] EXCEPT !.id = m_nextTXNID + (Len(stk) - k - m), !.start_ts = t, !.start_ctx = c]]
RestartedReversed(stk, k, t, c) ==
  [m \in 1 .. Len(stk) - k |->
     [id |-> m_nextTXNID + (m - 1), start_ts |-> t, start_ctx |-> c, memAccessCounter |-> 0,
      lock |-> stk[Len(stk) + 1 - m].lock, subLock |-> stk[Len(stk) + 1 - m].subLock]]

(* The TXNs above position k again, in the same order.  The stack is taken   *)
(* down from the top, so the topmost gets the first new id.                  *)
Restarted(stk, k, t, c) ==
  [m \in 1 .. Len(stk) - k |->
     [id |-> m_nextTXNID + (Len(stk) - k - m), start_ts |-> t, start_ctx |-> c,
      memAccessCounter |-> 0, lock |-> stk[k + m].lock, subLock |-> stk[k + m].subLock]]

(* Mutant: the TXN found is not popped.                                      *)
RemainingFound(stk, k, l, removeReader) == SubSeq(stk, 1, k)

(* What stays below position k.  With removeReader the other reader TXNs of  *)
(* l are erased, not recorded.                                               *)
Remaining(stk, k, l, removeReader) ==
  LET below == SubSeq(stk, 1, k - 1)
  IN  IF removeReader THEN EraseAt(below, Matching(below, l, "READER_LOCK")) ELSE below

StackAfter(c, l, sub, t, removeReader) ==
  LET stk == m_activeTXNs[c]
      k == Found(c, l, sub)
  IN  Remaining(stk, k, l, removeReader) \o Restarted(stk, k, t, c)

NextIDAfter(c, l, sub) == m_nextTXNID + (Len(m_activeTXNs[c]) - Found(c, l, sub))

WriteRows(c, l, sub, t, cOld) ==
  /\ txns' = txns \cup TxnRows(m_activeTXNs[c], Found(c, l, sub), t, cOld)
  /\ locks_held' = locks_held \cup HeldRows(m_activeTXNs[c], Found(c, l, sub))

(* The positions of l after finishTXN returned found.                        *)
PositionsAlwaysPopped(l, found) == Pop(lastNPos[l])       \* mutant
PositionsAfter(l, found) == IF found THEN Pop(lastNPos[l]) ELSE lastNPos[l]

-----------------------------------------------------------------------------
(* Events of the trace *)

Event == /\ status = "tracing" /\ ts < MaxTs
         /\ ts' = ts + 1

(* The end of every successful P: push the position, count the take, start a *)
(* TXN (startTXN) on top of stk; cnt, pos and n are the lock's counters, its *)
(* positions and the next TXN id before that.                                *)
Take(l, sub, c, cnt, pos, stk, n) ==
  /\ count' = [count EXCEPT ![l] = [cnt EXCEPT ![sub] = @ + 1]]
  /\ lastNPos' = [lastNPos EXCEPT ![l] = Append(pos, [subLock |-> sub, start |-> ts + 1])]
  /\ m_activeTXNs' = [m_activeTXNs EXCEPT ![c] =
       Append(stk, [id |-> n, start_ts |-> ts + 1, start_ctx |-> c,
                    memAccessCounter |-> 0, lock |-> l, subLock |-> sub])]
  /\ m_nextTXNID' = n + 1

(* P with nothing to repair: the lock is free, read again, or is a recursive *)
(* lock that is written again.                                               *)
P(l, sub, c, recursive) ==
  /\ Event /\ Takes(l, sub)
  /\ count[l][Other(sub)] = 0
  /\ count[l][sub] = 0 \/ sub = "READER_LOCK" \/ recursive
  /\ Take(l, sub, c, count[l], lastNPos[l], m_activeTXNs[c], m_nextTXNID)
  /\ UNCHANGED <<rows, accesses, status>>

(* P_WRITE on a lock that is already written, not recursive: the V was       *)
(* missed.  The TXN is finished and its position forgotten if it is found in *)
(* this context; writer_count is not decremented.                            *)
P_WRITE_again(l, c) ==
  LET sub == "WRITER_LOCK"
      found == Found(c, l, sub) # 0
  IN  /\ Event /\ Takes(l, sub)
      /\ FALSE \in Flags[l]
      /\ count[l][sub] > 0 /\ count[l][Other(sub)] = 0
      /\ WriteRows(c, l, sub, ts + 1, c)
      /\ Take(l, sub, c, count[l], PositionsAfter(l, found),
              StackAfter(c, l, sub, ts + 1, FALSE), NextIDAfter(c, l, sub))
      /\ status' = IF found /\ lastNPos[l] = <<>> THEN "undefined" ELSE status
      /\ UNCHANGED accesses

(* P of one side while the other is held: flush the other side.  If its TXN  *)
(* is in this context, all positions go and its counter becomes 0, whatever  *)
(* it was; if not, the P goes on all the same.                               *)
P_flush(l, sub, c) ==
  LET other == Other(sub)
      found == Found(c, l, other) # 0
  IN  /\ Event /\ Takes(l, sub)
      /\ count[l][sub] = 0 /\ count[l][other] > 0
      /\ WriteRows(c, l, other, ts + 1, c)
      /\ Take(l, sub, c, IF found THEN [count[l] EXCEPT ![other] = 0] ELSE count[l],
              IF found THEN <<>> ELSE lastNPos[l],
              StackAfter(c, l, other, ts + 1, TRUE), NextIDAfter(c, l, other))
      /\ UNCHANGED <<accesses, status>>

(* The flush meets another writer TXN of l: it++ and then a look at *it for  *)
(* the error message.  If that was the last TXN left on the stack, *it is    *)
(* end(): the build prints what is left there, as in P_flush, or faults.     *)
P_flush_fault(l, sub, c) ==
  LET k == Found(c, l, Other(sub))
  IN  /\ Event /\ Takes(l, sub)
      /\ count[l][sub] = 0 /\ count[l][Other(sub)] > 0
      /\ k - 1 \in Matching(m_activeTXNs[c], l, "WRITER_LOCK")
      /\ status' = "aborted"
      /\ UNCHANGED <<m_activeTXNs, m_nextTXNID, lockState, rows, accesses>>

(* A P or V of a side the class does not have, and a P on a lock with both   *)
(* counters above 0, throw logic_error, which nothing catches.               *)
Throw(l, sub) ==
  /\ Event
  /\ ~Takes(l, sub) \/ InvalidState(l)
  /\ status' = "aborted"
  /\ UNCHANGED <<m_activeTXNs, m_nextTXNID, lockState, rows, accesses>>

(* Mutants: the counter underflows, or a release by one reader counts for    *)
(* all of them.                                                              *)
DecrementedAlways(n) == n - 1
DecrementedToZero(n) == 0
Decremented(n) == IF n = 0 THEN 0 ELSE n - 1

(* V: finish the TXN in this context or, if it is not there, in the first    *)
(* context that has one.  Without a position there is nothing to finish.     *)
(* The counter goes down in any case.                                        *)
V(l, sub, c) ==
  LET d == IF isOnTXNStack(c, l, sub) THEN c ELSE findTXN(l, sub, c)
  IN  /\ Event /\ Takes(l, sub)
      /\ IF lastNPos[l] # <<>>
         THEN /\ WriteRows(d, l, sub, ts + 1, c)
              /\ m_activeTXNs' = [m_activeTXNs EXCEPT ![d] = StackAfter(d, l, sub, ts + 1, FALSE)]
              /\ m_nextTXNID' = NextIDAfter(d, l, sub)
              /\ lastNPos' = [lastNPos EXCEPT ![l] = PositionsAfter(l, Found(d, l, sub) # 0)]
         ELSE UNCHANGED <<rows, m_activeTXNs, m_nextTXNID, lastNPos>>
      /\ count' = [count EXCEPT ![l][sub] = Decremented(@)]
      /\ UNCHANGED <<accesses, status>>

(* A memory access: written with the id of the top TXN of its context, which *)
(* counts it.                                                                *)
AccessRowOf(c) == [ts |-> ts + 1, ctx |-> c,
                   txn |-> IF hasActiveTXN(c) THEN getActiveTXN(c).id ELSE NULL,
                   held |-> HeldIn(c)]

Access(c) ==
  /\ Event
  /\ accesses' = Append(accesses, AccessRowOf(c))
  /\ m_activeTXNs' = IF hasActiveTXN(c)
       THEN [m_activeTXNs EXCEPT ![c][Len(m_activeTXNs[c])].memAccessCounter = @ + 1]
       ELSE m_activeTXNs
  /\ UNCHANGED <<m_nextTXNID, lockState, rows, status>>

(* An event that does not reach the lock manager: an allocation, a free, an  *)
(* operation on a lock convert does not know.                                *)
Ignored == Event /\ UNCHANGED <<m_activeTXNs, m_nextTXNID, lockState, rows, accesses, status>>

-----------------------------------------------------------------------------
(* closeAllTXNs at the end of the trace: context by context, the top TXN is  *)
(* finished as if its lock were released; counters and positions stay.       *)

EndOfTrace == /\ status = "tracing"
              /\ status' = "closing"
              /\ UNCHANGED <<m_activeTXNs, m_nextTXNID, lockState, rows, accesses, ts>>

CloseTXN(c) ==
  LET top == getActiveTXN(c)
  IN  /\ status = "closing"
      /\ hasActiveTXN(c) /\ \A d \in Ctxs : d < c => ~hasActiveTXN(d)
      /\ WriteRows(c, top.lock, top.subLock, ts, c)
      /\ m_activeTXNs' = [m_activeTXNs EXCEPT ![c] =
           StackAfter(c, top.lock, top.subLock, ts, FALSE)]
      /\ m_nextTXNID' = NextIDAfter(c, top.lock, top.subLock)
      /\ UNCHANGED <<lockState, accesses, ts, status>>

Closed == /\ status = "closing"
          /\ \A c \in Ctxs : ~hasActiveTXN(c)
          /\ status' = "done"
          /\ UNCHANGED <<m_activeTXNs, m_nextTXNID, lockState, rows, accesses, ts>>

-----------------------------------------------------------------------------
LockOp(l, sub, c) == \/ \E recursive \in Flags[l] : P(l, sub, c, recursive)
                     \/ sub = "WRITER_LOCK" /\ P_WRITE_again(l, c)
                     \/ P_flush(l, sub, c)
                     \/ P_flush_fault(l, sub, c)
                     \/ V(l, sub, c)

Next == \/ \E l \in Locks, sub \in SubLocks, c \in Ctxs : LockOp(l, sub, c)
        \/ \E l \in Locks, sub \in SubLocks : Throw(l, sub)
        \/ \E c \in Ctxs : Access(c) \/ CloseTXN(c)
        \/ Ignored
        \/ EndOfTrace
        \/ Closed

Spec == Init /\ [][Next]_vars

(* convert is one loop: it takes the next step whenever there is one, and    *)
(* the trace is a finite file.                                               *)
FairSpec == Spec /\ WF_vars(Next)

-----------------------------------------------------------------------------
(* Properties *)

TypeOK == /\ m_activeTXNs \in [Ctxs -> Seq(TXN)]
          /\ m_nextTXNID \in Nat \ {0}
          /\ count \in [Locks -> [SubLocks -> Nat]]
          /\ lastNPos \in [Locks -> Seq(LockPos)]
          /\ txns \subseteq TxnRow /\ locks_held \subseteq HeldRow
          /\ accesses \in Seq(AccessRow)
          /\ ts \in Nat
          /\ status \in {"tracing", "closing", "done", "aborted", "undefined"}

(* Every TXN id names one TXN: no two active TXNs share an id, in one context *)
(* or in two, an id written to txns.csv is not active any more, and ids      *)
(* still to be given are new.                                                *)
ActiveIdsUnique ==
  \A c, d \in Ctxs : \A i \in 1 .. Len(m_activeTXNs[c]), j \in 1 .. Len(m_activeTXNs[d]) :
     m_activeTXNs[c][i].id = m_activeTXNs[d][j].id => c = d /\ i = j
ActiveIdsKnown ==
  \A c \in Ctxs : \A i \in 1 .. Len(m_activeTXNs[c]) :
     m_activeTXNs[c][i].id \in 1 .. m_nextTXNID - 1
WrittenIdsClosed ==
  \A r \in txns : /\ r.id \in 1 .. m_nextTXNID - 1
                  /\ \A c \in Ctxs : \A i \in 1 .. Len(m_activeTXNs[c]) : m_activeTXNs[c][i].id # r.id
TxnPrimaryKey == \A r, q \in txns : r.id = q.id => r = q
TxnIdsUnique == ActiveIdsUnique /\ ActiveIdsKnown /\ WrittenIdsClosed /\ TxnPrimaryKey

(* memAccessCounter of an active TXN is the number of rows of accesses.csv    *)
(* with its id: what decides whether the TXN is written is what was          *)
(* attributed to it, also across restarts and steals.                        *)
AccessesOf(id) == {a \in 1 .. Len(accesses) : accesses[a].txn = id}
AccessesCounted ==
  \A c \in Ctxs : \A i \in 1 .. Len(m_activeTXNs[c]) :
     m_activeTXNs[c][i].memAccessCounter = Cardinality(AccessesOf(m_activeTXNs[c][i].id))

(* Every access names no TXN, an active one, or one written to txns.csv.     *)
Active(id) == \E c \in Ctxs : \E i \in 1 .. Len(m_activeTXNs[c]) : m_activeTXNs[c][i].id = id
AccessesHaveTxn ==
  \A a \in 1 .. Len(accesses) :
     \/ accesses[a].txn = NULL
     \/ Active(accesses[a].txn)
     \/ \E r \in txns : r.id = accesses[a].txn

(* lastNPos and the TXN stacks stay in step, and a lock counts at least the  *)
(* takes that have a TXN.                                                    *)
TxnsOf(l, sub) == UNION {{c} \X Matching(m_activeTXNs[c], l, sub) : c \in Ctxs}
InSync ==
  status = "tracing" =>
    \A l \in Locks :
       /\ Len(lastNPos[l]) = Cardinality(TxnsOf(l, "READER_LOCK")) + Cardinality(TxnsOf(l, "WRITER_LOCK"))
       /\ \A sub \in SubLocks : count[l][sub] >= Cardinality(TxnsOf(l, sub))

(* The rows of locks_held.csv for a TXN are exactly the sub locks held in     *)
(* the context at each of its accesses.                                      *)
RowsOf(id) == {h \in locks_held : h.txn = id}
HeldExactly ==
  \A r \in txns : \A a \in AccessesOf(r.id) :
     {<<h.lock, h.subLock>> : h \in RowsOf(r.id)} = {accesses[a].held[i] : i \in 1 .. Len(accesses[a].held)}

(* Sorted by start, the rows of a TXN give the order in which the locks were *)
(* taken at the access: what the hypothesizer reads as the locking order.    *)
OrderedByStart ==
  \A r \in txns : \A a \in AccessesOf(r.id) : \A h, g \in RowsOf(r.id) :
     h.start < g.start =>
       \A i, j \in 1 .. Len(accesses[a].held) :
          accesses[a].held[i] = <<h.lock, h.subLock>> /\ accesses[a].held[j] = <<g.lock, g.subLock>> => i < j

(* lockmanager.h: if no lock is held, no TXN is active; a TXN stands for a    *)
(* lock that is held.                                                        *)
TxnsAreHeld == \A c \in Ctxs : \A i \in 1 .. Len(m_activeTXNs[c]) : isHeld(m_activeTXNs[c][i].lock)

(* rwlock.cc: a position is only popped if there is one, "otherwise,          *)
(* lastNPos and activeTXNs get out-of-sync".                                 *)
NoUndefinedPop == status # "undefined"

(* The lock manager implements HeldLocks: the stacks, seen as sequences of    *)
(* sub locks, change only as it promises, through all restarts.              *)
HL == INSTANCE HeldLocks WITH held <- [c \in Ctxs |-> HeldIn(c)],
                              closing <- status \in {"closing", "done"}
ImplementsHeldLocks == HL!Spec

(* A trace that ends is converted: no loop of the shutdown runs forever.     *)
Terminates == <>(status \in {"done", "aborted", "undefined"})
=============================================================================
