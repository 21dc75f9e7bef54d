------------------------------ MODULE Convert ------------------------------
(***************************************************************************)
(* The event loop of convert around the lock manager: it reads the trace    *)
(* line by line, keeps the active allocations, the subclasses and the known *)
(* locks, and buffers memory accesses until the next line that is not one.  *)
(*                                                                          *)
(* Handling a line takes two steps: ReadLine (parse it, then                *)
(* writeMemAccesses) and the switch on its action.  Addresses and sizes are *)
(* small numbers, types are names; stack traces, files, line numbers and    *)
(* the variable names of locks are left out.                                *)
(***************************************************************************)
EXTENDS LockManager

CONSTANTS Lines,            \* the lines the trace may contain
          DataTypes,        \* the names in data_types.csv
          Sections,         \* the ELF data sections: [first, size]
          PseudoAddrs,      \* addresses of pseudo locks: rcu, softirq, hardirq
          includeAllLocks,  \* option -u
          processSeqlock    \* option -s

(* A type string is <<data type>> or <<data type, subclass>>.  same: the      *)
(* access has the timestamp of the access before it.                         *)
TypeStr == Seq(STRING)
AllocLine == [action : {"a"}, base : Nat, size : Nat, type : TypeStr]
FreeLine == [action : {"f"}, base : Nat, size : Nat]
LockLine == [action : {"l"}, addr : Nat, op : {"P", "V"}, sub : SubLocks, type : STRING, ctx : Ctxs]
AccessLine == [action : {"r", "w"}, base : Nat, addr : Nat, size : Nat, same : BOOLEAN, ctx : Ctxs]
OtherLine == [action : {"t", "p", "o", "v", "n"}]
NoLine == [action |-> "none"]

ASSUME LinesAssumption ==
  \A e \in Lines : e \in AllocLine \/ e \in FreeLine \/ e \in LockLine \/ e \in AccessLine \/ e \in OtherLine
ASSUME OptionsAssumption == includeAllLocks \in BOOLEAN /\ processSeqlock \in BOOLEAN

VARIABLES
  line,             \* the line being handled, or NoLine
  activeAllocs,     \* the active allocations; the base address is the key
  curAllocID,       \* the id of the next allocation
  subclasses,       \* the subclasses seen, in the order of their ids
  m_locks,          \* the locks known by their address
  lastMemAccesses,  \* the accesses not written yet
  allocations,      \* rows of allocations.csv
  locks,            \* rows of locks.csv
  exit              \* why convert gave up, or "none"

loopVars == <<activeAllocs, curAllocID, subclasses, m_locks, allocations, locks>>
convertVars == <<line, loopVars, lastMemAccesses, exit>>
allVars == <<vars, convertVars>>

pseudoAllocID == IF includeAllLocks THEN 1 ELSE 0

ConvertInit ==
  /\ Init
  /\ line = NoLine /\ exit = "none"
  /\ activeAllocs = {} /\ subclasses = <<>> /\ m_locks = {} /\ locks = {}
  /\ lastMemAccesses = <<>>
  /\ curAllocID = pseudoAllocID + 1
  /\ allocations = IF includeAllLocks
       THEN {[id |-> pseudoAllocID, base |-> 0, size |-> 0, subclass_idx |-> 0, start |-> 0, end |-> NULL]}
       ELSE {}

-----------------------------------------------------------------------------
(* Writing the buffered accesses *)

(* The last two accesses read and write the word at pAddress in one          *)
(* instruction.                                                              *)
ReadWritePair(buf, pAddress) ==
  LET n == Len(buf)
  IN  /\ n >= 2
      /\ buf[n].same /\ buf[n - 1].action = "r" /\ buf[n].action = "w"
      /\ buf[n - 1].addr = buf[n].addr /\ buf[n].addr = pAddress /\ buf[n - 1].size = buf[n].size

Kept(pAction, pAddress) ==
  IF pAction \in {"p", "v"} /\ ReadWritePair(lastMemAccesses, pAddress)
  THEN SubSeq(lastMemAccesses, 1, Len(lastMemAccesses) - 2)
  ELSE lastMemAccesses

(* A row of accesses.csv: the buffered access with the top TXN of its context. *)
RowsOfBuffer(buf) ==
  [i \in 1 .. Len(buf) |->
     [ts |-> buf[i].ts, ctx |-> buf[i].ctx,
      txn |-> IF hasActiveTXN(buf[i].ctx) THEN getActiveTXN(buf[i].ctx).id ELSE NULL,
      held |-> buf[i].held, alloc_id |-> buf[i].alloc_id, addr |-> buf[i].addr]]

(* The stacks after the top TXN of each context counted its accesses in buf. *)
Counted(buf) ==
  [c \in Ctxs |-> [i \in 1 .. Len(m_activeTXNs[c]) |->
     IF i = Len(m_activeTXNs[c])
     THEN [m_activeTXNs[c][i] EXCEPT !.memAccessCounter =
             @ + Cardinality({a \in 1 .. Len(buf) : buf[a].ctx = c})]
     ELSE m_activeTXNs[c][i]]]

(* Mutant: a lock operation does not flush.                                  *)
Not_flushed_by_locks(pAction) == pAction \in {"r", "w", "l"}
Not_flushed(pAction) == pAction \in {"r", "w"}

writeMemAccesses(pAction, pAddress) ==
  LET buf == Kept(pAction, pAddress)
  IN  IF Not_flushed(pAction)
      THEN UNCHANGED <<accesses, m_activeTXNs, lastMemAccesses>>
      ELSE /\ accesses' = accesses \o RowsOfBuffer(buf)
           /\ m_activeTXNs' = Counted(buf)
           /\ lastMemAccesses' = <<>>

-----------------------------------------------------------------------------
(* Reading a line *)

Reading == status = "tracing" /\ exit = "none" /\ line = NoLine

(* Only lock operations have an address here; otherwise it is 0x1337, where  *)
(* no allocation lies.                                                       *)
AddressOf(e) == IF e.action = "l" THEN e.addr ELSE -1

Skipped(e) == e.action = "l" /\ e.type \in {"seqlock_t", "seqcount_t"} /\ ~processSeqlock

(* The class allocLock creates for a lock type; it exits for any other type. *)
ClassOf(type) ==
  CASE type \in {"raw_spinlock_t", "mutex", "softirq", "hardirq", "semaphore", "bit_spin_lock",
                 "sleep mutex", "spin mutex", "kmutex_t"} -> "WLock"
    [] type = "rcu" -> "RLock"
    [] type \in {"rwlock_t", "rw_semaphore", "sx", "rw", "sleepable rm", "rm", "lockmgr", "krwlock_t"} -> "RWLock"
    [] OTHER -> "none"

findLock(addr) == {k \in m_locks : k.addr = addr}

(* Lock objects not used yet.  Locks bounds how many a trace creates: a line  *)
(* that may need one more is not read.                                       *)
Unused(type) == {l \in Locks : Kind[l] = ClassOf(type) /\ \A r \in locks : r.lock # l}
WithinLocks(e) == e.action = "l" /\ ClassOf(e.type) # "none" /\ findLock(e.addr) = {} => Unused(e.type) # {}

ReadLine(e) ==
  /\ Reading /\ ts < MaxTs /\ WithinLocks(e)
  /\ ~Skipped(e)
  /\ e.action \in {"r", "w"} /\ e.same => lastMemAccesses # <<>>
  /\ line' = e
  /\ writeMemAccesses(e.action, AddressOf(e))
  /\ UNCHANGED <<m_nextTXNID, lockState, rows, ts, status, loopVars, exit>>

SkipLine(e) == Reading /\ Skipped(e) /\ Ignored /\ UNCHANGED convertVars

(* The end of every handler, and of the program on an error it cannot handle. *)
Handled == line' = NoLine /\ UNCHANGED exit
GiveUp(why) == exit = "none" /\ exit' = why /\ UNCHANGED <<vars, line, loopVars, lastMemAccesses>>
Handling(action) == line.action = action /\ exit = "none"

-----------------------------------------------------------------------------
(* Allocations *)

At(base) == {a \in activeAllocs : a.base = base}

DataTypeName(type) == type[1]
SubclassName(type) == type[Len(type)]
Named(name) == {i \in 1 .. Len(subclasses) : subclasses[i].name = name}
First(I) == CHOOSE i \in I : \A j \in I : i <= j

(* An allocation that is not taken: the base is in use, or the type unknown. *)
AllocIgnored == \/ At(line.base) # {}
                \/ Named(SubclassName(line.type)) = {} /\ DataTypeName(line.type) \notin DataTypes

(* A new subclass of a data type whose dummy subclass exists.                *)
MixedUp == /\ Named(SubclassName(line.type)) = {}
           /\ Named(DataTypeName(line.type)) # {}

AllocMixedUp == /\ Handling("a") /\ ~AllocIgnored /\ MixedUp
                /\ GiveUp("mixed subclasses")

(* Mutant: an allocation at a base in use is taken too.                      *)
AllocTaken_any == DataTypeName(line.type) \in DataTypes \/ Named(SubclassName(line.type)) # {}
AllocTaken == ~AllocIgnored /\ ~MixedUp

Alloc ==
  LET known == Named(SubclassName(line.type))
  IN  /\ Handling("a") /\ AllocTaken
      /\ Event
      /\ subclasses' = IF known # {} THEN subclasses
           ELSE Append(subclasses, [name |-> SubclassName(line.type),
                                    data_type |-> DataTypeName(line.type), real_subclass |-> Len(line.type) = 2])
      /\ activeAllocs' = (activeAllocs \ At(line.base)) \cup
           {[base |-> line.base, size |-> line.size, id |-> curAllocID, start |-> ts + 1,
             subclass_idx |-> IF known # {} THEN First(known) ELSE Len(subclasses) + 1]}
      /\ curAllocID' = curAllocID + 1
      /\ Handled
      /\ UNCHANGED <<m_activeTXNs, m_nextTXNID, lockState, rows, accesses, status, m_locks, locks, allocations, lastMemAccesses>>

(* Mutant: the area is taken from the line, not from the allocation.         *)
FreedArea_of_line(a) == line.base .. line.base + line.size - 1
FreedArea(a) == a.base .. a.base + a.size - 1

deleteLockByArea(a) == {k \in m_locks : k.addr \notin FreedArea(a)}

AllocationRow(a, size, end) == [id |-> a.id, base |-> a.base, size |-> size,
                                subclass_idx |-> a.subclass_idx, start |-> a.start, end |-> end]

Free ==
  /\ Handling("f") /\ Event
  /\ \E a \in At(line.base) :
       /\ allocations' = allocations \cup {AllocationRow(a, line.size, ts + 1)}
       /\ m_locks' = deleteLockByArea(a)
       /\ activeAllocs' = activeAllocs \ {a}
  /\ Handled
  /\ UNCHANGED <<m_activeTXNs, m_nextTXNID, lockState, rows, accesses, status, curAllocID, subclasses, locks, lastMemAccesses>>

-----------------------------------------------------------------------------
(* Lock operations: handlePV *)

(* The allocation with the greatest base up to addr, if it reaches addr.     *)
Enclosing(addr) ==
  LET below == {a \in activeAllocs : a.base <= addr}
  IN  {a \in below : (\A b \in below : b.base <= a.base) /\ addr < a.base + a.size}

checkLockInSections(addr) == \E s \in Sections : s.first <= addr /\ addr <= s.first + s.size

IsStatic(addr) == checkLockInSections(addr) \/ addr \in PseudoAddrs

Categorized(addr) == Enclosing(addr) # {} \/ IsStatic(addr) \/ includeAllLocks

AllocationOf(addr) ==
  IF Enclosing(addr) # {} THEN (CHOOSE a \in Enclosing(addr) : TRUE).id
  ELSE IF IsStatic(addr) THEN NULL ELSE pseudoAllocID

(* RWLock::transition of lock l for the line.                                *)
Transition(l) ==
  \/ /\ line.op = "P"
     /\ \/ \E recursive \in Flags[l] : P(l, line.sub, line.ctx, recursive)
        \/ line.sub = "WRITER_LOCK" /\ P_WRITE_again(l, line.ctx)
        \/ P_flush(l, line.sub, line.ctx)
        \/ P_flush_fault(l, line.sub, line.ctx)
        \/ Throw(l, line.sub)
  \/ line.op = "V" /\ (V(l, line.sub, line.ctx) \/ (~Takes(l, line.sub) /\ Throw(l, line.sub)))

LockKnown ==
  /\ Handling("l")
  /\ \E k \in findLock(line.addr) : Transition(k.lock)
  /\ Handled /\ UNCHANGED <<loopVars, lastMemAccesses>>

NewLock == Handling("l") /\ findLock(line.addr) = {} /\ Categorized(line.addr) /\ line.op = "P"

(* allocLock, writeLock and the transition of the new lock.                  *)
LockNew ==
  /\ NewLock
  /\ \E l \in Unused(line.type) :
       /\ m_locks' = m_locks \cup {[addr |-> line.addr, lock |-> l, allocation_id |-> AllocationOf(line.addr)]}
       /\ locks' = locks \cup {[lock |-> l, addr |-> line.addr, embedded_in |-> AllocationOf(line.addr)]}
       /\ Transition(l)
  /\ Handled
  /\ UNCHANGED <<activeAllocs, curAllocID, subclasses, allocations, lastMemAccesses>>

LockTypeUnknown == NewLock /\ ClassOf(line.type) = "none" /\ GiveUp("unknown lock type")

-----------------------------------------------------------------------------
(* Memory accesses *)

InRange(a) == /\ line.addr >= a.base /\ line.addr <= a.base + a.size
              /\ line.addr + line.size >= a.base /\ line.addr + line.size <= a.base + a.size

Buffer ==
  /\ Handling(line.action) /\ line.action \in {"r", "w"} /\ Event
  /\ \E a \in At(line.base) :
       /\ InRange(a)
       /\ lastMemAccesses' = Append(lastMemAccesses,
            [ts |-> ts + 1, alloc_id |-> a.id, action |-> line.action, size |-> line.size,
             addr |-> line.addr, same |-> line.same, ctx |-> line.ctx, held |-> HeldIn(line.ctx)])
  /\ Handled
  /\ UNCHANGED <<m_activeTXNs, m_nextTXNID, lockState, rows, accesses, status, loopVars>>

AccessOutOfRange ==
  /\ Handling(line.action) /\ line.action \in {"r", "w"}
  /\ \E a \in At(line.base) : ~InRange(a)
  /\ GiveUp("access out of range")

-----------------------------------------------------------------------------
(* Lines without an effect: what they name is not known.                     *)
Ignore ==
  /\ exit = "none"
  /\ CASE line.action = "a" -> AllocIgnored
       [] line.action \in {"f", "r", "w"} -> At(line.base) = {}
       [] line.action = "l" -> findLock(line.addr) = {} /\ (~Categorized(line.addr) \/ line.op = "V")
       [] OTHER -> line # NoLine
  /\ Ignored
  /\ Handled /\ UNCHANGED <<loopVars, lastMemAccesses>>

(* The end of the trace: allocations never freed are written without an end, *)
(* the accesses left are flushed, then closeAllTXNs runs.                    *)
Finish ==
  /\ Reading
  /\ allocations' = allocations \cup {AllocationRow(a, a.size, NULL) : a \in activeAllocs}
  /\ writeMemAccesses("v", 0)
  /\ status' = "closing"
  /\ UNCHANGED <<m_nextTXNID, lockState, rows, ts, line, activeAllocs, curAllocID, subclasses, m_locks, locks, exit>>

Closing == UNCHANGED convertVars /\ (Closed \/ \E c \in Ctxs : CloseTXN(c))

ConvertNext ==
  \/ \E e \in Lines : ReadLine(e) \/ SkipLine(e)
  \/ Alloc \/ AllocMixedUp \/ Free
  \/ LockKnown \/ LockNew \/ LockTypeUnknown
  \/ Buffer \/ AccessOutOfRange
  \/ Ignore \/ Finish \/ Closing

ConvertSpec == ConvertInit /\ [][ConvertNext]_allVars

(* The loop goes on as long as there is a step, and the trace is finite.     *)
ConvertFairSpec == ConvertSpec /\ WF_allVars(ConvertNext)

-----------------------------------------------------------------------------
(* Properties *)

(* The accesses seen so far, as if each had been written at once.            *)
Written(rs) == [i \in 1 .. Len(rs) |->
                  [ts |-> rs[i].ts, ctx |-> rs[i].ctx, txn |-> rs[i].txn, held |-> rs[i].held]]

AccessesSeen == Written(accesses \o RowsOfBuffer(lastMemAccesses))
TXNsSeen == Counted(lastMemAccesses)

LM == INSTANCE LockManager WITH accesses <- AccessesSeen, m_activeTXNs <- TXNsSeen

(* Buffering is transparent: with writeMemAccesses before every line that    *)
(* may change a TXN, convert behaves as the lock manager that gets each      *)
(* access at once, and no access is lost or moves to another TXN.            *)
ImplementsLockManager == LM!Spec

(* A lock that findLock returns lies in memory that is still allocated, in    *)
(* the allocation locks.csv names: after a free, no P or V of the next user  *)
(* of the address reaches a lock of the old one.                             *)
LocksInLiveMemory ==
  \A k \in m_locks : k.allocation_id > pseudoAllocID =>
     \E a \in activeAllocs : a.id = k.allocation_id /\ a.base <= k.addr /\ k.addr < a.base + a.size

(* Every access names an allocation that has, or will have, exactly one row, *)
(* and that was alive at the access.                                         *)
Alive(a, r, end) == a.id = r.alloc_id /\ a.base <= r.addr /\ a.start < r.ts /\ (end = NULL \/ r.ts < end)
AccessesInLifetime ==
  LET seen == accesses \o RowsOfBuffer(lastMemAccesses)
  IN  \A i \in 1 .. Len(seen) :
        IF status \notin {"closing", "done"}
        THEN \/ \E a \in activeAllocs : Alive(a, seen[i], NULL)
             \/ \E r \in allocations : Alive(r, seen[i], r.end)
        ELSE \E r \in allocations : /\ Alive(r, seen[i], r.end)
                                    /\ \A q \in allocations : q.id = r.id => q = r

(* writeMemAccesses: a read and a write of the lock word by one instruction  *)
(* right before a lock operation on it are not written.                      *)
LockWordDiscarded ==
  [][ line = NoLine /\ line'.action = "l" /\ ReadWritePair(lastMemAccesses, line'.addr)
        => Len(accesses') = Len(accesses) + Len(lastMemAccesses) - 2 ]_allVars

(* Every trace is read to its end or given up with a reason: no line gets    *)
(* stuck between the handlers' conditions.                                   *)
ConvertTerminates == <>(status \in {"done", "aborted", "undefined"} \/ exit # "none")
=============================================================================
