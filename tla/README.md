# A TLA+ model of LockDoc's tools

LockDoc records lock operations and memory accesses of an instrumented kernel
and derives, for each member of a data structure, the locks that protect it.
Two programs carry its logic:

* `convert` (`src/convert/main`) reads the trace and writes the tables of a
  database: which transaction (TXN) an access belongs to and which locks were
  held in it;
* `hypothesizer` (`src/hypothesizer`) reads, per member, how often each
  combination of locks was held, and picks a winning locking hypothesis.

Errors here are silent: a wrong row in `locks_held.csv` becomes a wrong locking
rule. The traces are damaged by nature (lost and doubled events, locks released
in another context), and `convert` repairs its state instead of giving up.
These repairs are the main subject of the models.

Around them are tools with state of their own: the reader of debug information
that tells `convert` the layout of data structures, the tools that measure the
coverage of the traced kernel, and the kernel file `fork.c` that the manuals
install in the traced machine. They are modelled too.

## Inventory

| part | state | operations | interacts with | hard because | modules |
|---|---|---|---|---|---|
| lock manager (`lockmanager.cc`) | one stack of TXNs per context, next ids, known locks | `startTXN`, `finishTXN`, `findTXN`, `closeAllTXNs`, `allocLock`, `deleteLockByArea` | called by lock objects and `convert` | a release in the middle of a stack restarts all TXNs above; steals between contexts | `StackOps`, `LockManager`, `HeldLocks` |
| lock classes (`rwlock.cc`, `rlock.h`, `wlock.h`) | `reader_count`, `writer_count`, `lastNPos` | P and V of each side | call the lock manager | three views of one fact (counter, position stack, TXN stacks) that must agree after repairs | `LockManager` |
| convert event loop (`convert.cc`) | active allocations, subclasses, buffered accesses | one per kind of trace line, shutdown | drives all of the above | accesses are attributed later than they happen; memory and locks are reused | `Convert` |
| hypothesizer (`hypothesizer.cc`) | hypotheses, graph, search queue, list of equal winners | find, search with four strategies, report | reads what the database made of `convert`'s rows | the searches prune, on a graph that lacks edges | `Hypothesizer` |
| hypothesizer input | names and ids of 16 bits, counters | read a line, copy | feeds the hypothesizer | id type at its limit | `HypothesizerInput` |
| reader of debug information (`convert/dwarves`, `binaryread.cc`) | trees, string table, tables of types, tags and functions per unit | enter and erase nodes, load a unit, recode references, size members, find holes, print rows | gives `convert` the data types and their members | references before definitions, types made for bitfields, numbering by position, shared nodes | `Rbtree`, `DwarvesTables`, `DwarfLoader`, `StructLayout` |
| kcov library (`kcov-lib.cc`) | descriptors, mapped buffer, environment, signal handler, per process | start, finish, clean up, fork, handle SIGTERM | preloaded into any program | signals between any two steps; fork and exec inherit half of the state | `Kcov` |
| `sfctool` | image, maps with colours | choose a size, load maps, draw | draws what the other tools counted | sizes at squares and powers of two | `Sfctool` |
| `bb2lines` | basic blocks per file, blocks per address, covered lines, counters; read buffer | read `.gcno` records, look up an address, sum up | reads what kcov wrote | the same block in several files; searches that fall back; a buffer that refills | `Bb2lines`, `GcovIO` |
| task creation (`manuals/files-vm/fork.c`) | tasks, reference counts of their objects, charged memory, the frames of vfork | fork with all stages and their undoing, unshare, exit, release | part of the traced kernel | twenty stages that may fail while other tasks share, copy and drop the objects | `Fork` |
| gzstream, option parsers | - | - | - | vendored | not modelled |
| import scripts, SQL, Python and R processing, coverage scripts | files, database | - | - | pure input and output, joins | not modelled |
| kernel history, other manuals, data | - | - | - | - | not modelled |

What makes the parts correct: a TXN id names one TXN; every access finds its TXN
in `txns.csv`; the rows of `locks_held.csv` are what was held at the accesses,
and their `start` gives the locking order; a lock object never outlives its
memory; the searches find what their strategy promises and end; the rows of a
data type tile its structure; coverage reaches the output whichever way a process
ends, and adds up; a fork that fails leaves no trace.

`PROJECT.json` lists the hazards line by line with the properties that cover them.

## Modules and code

**StackOps** - stacks as sequences: `Top`, `Pop`, `Topmost`, `EraseAt`.

**LockManager** - one step per trace event. `m_activeTXNs`, `m_nextTXNID`,
`count` (`reader_count`, `writer_count`) and `lastNPos` are the program's
variables; `txns`, `locks_held` and `accesses` are the rows written so far.
`finishTXN` is split into what it records (`TxnRows`, `HeldRows`), what stays
(`Remaining`), what is restarted (`Restarted`), and the ids used
(`NextIDAfter`). A P is `P`, `P_WRITE_again` (the V was missed) or `P_flush`
(the other side is held); `Throw` is the uncaught exception, `P_flush_fault` the
fault of an iterator read at the end of the stack; `status = "undefined"` is
reached by popping an empty `lastNPos`. `V` includes the search for the context
to steal from. `Access` writes an access at once; `Ignored` is any line that
does not reach the lock manager; `EndOfTrace`, `CloseTXN` and `Closed` are the
shutdown. `accesses[_].held` is auxiliary: what the stack showed at the access.
Locks are never reused here: `deleteLockByArea` only makes them unreachable.

**HeldLocks** - what the lock manager promises, without ids, times, counters and
restarts: a P adds a take on top and may drop older takes of the same lock; a V
removes at most the latest take, from another context only if its own has none;
other locks and the order of the rest never change. `ImplementsHeldLocks` maps
each stack to its sequence of sub locks.

**Convert** - extends `LockManager` with the event loop. A line is handled in two
steps, `ReadLine` (parse, then `writeMemAccesses`) and one action per case of the
switch with its early returns. Accesses are buffered. `ImplementsLockManager`
shows that with the buffer flushed in mind this is `LockManager` again, so what
is checked and proved of `LockManager` holds of `convert`.

**Hypothesizer** - one member. Finding hypotheses is one step per depth, the
search one step per node taken from the queue. Relative support, a double in the
code, is the numerator over the member's occurrences, thresholds are percent;
comparisons with rounding are not modelled. A combination keeps its locks as
they were taken and a sorted copy (`locks_held_sorted`), as `LockCombination`
does. Members share nothing, so the
parallel loop over members is this module once per member.

**HypothesizerInput** - ids of `Width` bits (16 in the code), the counting of lock
combinations per member, and the copy loop whose counter has the type of an id.

**Fork** - one task per element of `Tasks`, a program counter in `op`. The stages of
`copy_process` are steps of their own where another task can see them; stages
that only the new task sees are run together up to the one that fails.
`ErrorLabels` gives each stage the label it jumps to, and every label is an action
that undoes its part and falls through. `count` holds the reference counts,
`mms` the vmas, `committed` and `file_refs` what the vmas cost. `exit_mm` and the other calls of
`exit.c` are external; `mm_release`, `mmput`, `complete_vfork_done`,
`put_task_struct` and `__cleanup_sighand` are not. Locks are respected by
making what they protect one step (`task_lock` for the completion of a vfork, where
the window matters, is the guard of that name).

**Kcov** - processes with the library loaded, each with its statics, environment,
descriptors and a program counter. Every system call of `start_kcov`,
`finish_kcov` and `cleanup_kcov` is a step or belongs to one; SIGTERM may arrive
in front of each. Programs open and close descriptors, call the kernel, fork (through
the wrapper), spawn (around it), exec, exit and are terminated. The kernel's device
is external: instances with one owner. The last five fields of a process are
history, written for the properties only.

**Sfctool** - the curves as functions from the number of a string to a pixel, and
`main` in five actions. **Bb2lines** - one action per record of a `.gcno` file and
per outcome of an address on stdin; a block is its first file, start line, files and
lines. **GcovIO** - the read buffer: words of a file are named by their position,
so that a result can be compared with what stands there.

**Rbtree** - the algorithms of `rbtree.c` on a tree as a record; left and right cases
are one, with the side as a parameter. **DwarvesTables** - its users: `strlist`,
the functions of a unit by address, and the string table with its growing buffer.
**DwarfLoader** - the two passes over a unit. `Die` is the debug information as
libdw returns it; tags are entered children first, numbers in the tables are
ids, then the tables are recoded in their order and bitfields get types of their
width. **StructLayout** - sizes, holes and padding, then
`cu__find_struct_by_name`, `type__fprintf` and its callees as `convert` calls
them, one data type and unit per step (`extractStructDefs`, `convert_cus_iterator`).

**MCLockManager**, **MCConvert**, **MCHypothesizer** and **MCFork** hold the constants
of the runs; **MCTools** puts the tools side by side (**MCCoverage**, **MCDwarves**):
they share no state, so a behaviour starts one of them and the others stay off.
MCHypothesizer does the same with the two halves of the hypothesizer.
The proofs are in modules of their own: **LockManagerProofs**
and **LockManagerSides** of the lock manager, **ConvertProofs** of the event loop, **CoverageProofs** of
`Kcov`, `Bb2lines` and `GcovIO`, **ForkProofs** of `Fork`, **HypothesizerProofs** of
`Hypothesizer` and **HypothesizerInputProofs** of `HypothesizerInput`. **InductionLemmas** has what they need of recursion, orders and sums.
Definitions marked as mutants are plausible bugs; replacing the definition that
follows by one of them must break a property, which shows that the property
depends on that code.

## Runs

Deadlock is not checked: a finished or aborted program stops.

| run | instance | shows |
|---|---|---|
| `lm_default` | a reader-writer and a writer-only lock, one context (no `-c`), 7 events | `TypeOK`; `InSync`: positions and TXNs of a lock stay equal in number, and its counters are at least that, through all repairs |
| `lm_wild` | a reader-writer and a writer-only lock, recursive or not from event to event, two contexts, 5 events | `TxnIdsUnique`, `AccessesCounted`, `ImplementsHeldLocks` |
| `lm_contexts` | a writer-only and a reader-only lock, two contexts, 6 events | `AccessesHaveTxn`, `HeldExactly`, `TxnsAreHeld`, `Terminates`: without flushing, no access is lost, recorded locks are those held, also when TXNs are stolen, and the shutdown ends |
| `lm_lost_txn` | one reader-writer lock, one context | violates `AccessesHaveTxn` |
| `lm_reader_order` | a reader-only and a writer-only lock, one context | violates `OrderedByStart` |
| `lm_pop_empty` | one reader-writer lock, two contexts | violates `NoUndefinedPop` |
| `cv_buffer` | an object with an embedded reader-writer lock, two contexts, 6 lines | `AccessesInLifetime`, `ImplementsLockManager` |
| `cv_memory` | overlapping objects, unknown types, subclasses, wrong frees, locks of every category, `-u`, 5 lines | `LocksInLiveMemory`, `ConvertTerminates` |
| `cv_lock_word` | an object whose lock word is read and written | violates `LockWordDiscarded` |
| `hy_search` | up to three of eight lock combinations of three locks counted 1 or 2 times, or of five counted 1, 2 or 5 times; thresholds 60/20/30/10 percent; at most 3 locks; and inputs of up to 3 lines, 5 members and 5 locks, ids of 2 bits | `ContainsIsInclusion`, `LocksetComplete`, `TopdownComplete`, `BottomupStops`, `SharpenLossBounded`, `ConflictListEqual`, `WinnerReported`; `MembersComplete`; `HypothesizerEnds` |
| `fk_fork` | three tasks, two of them symmetric; two forks and two calls under way; fork, vfork, threads, an idle task, three combinations of flags that are refused, two kinds of unshare; two vmas | `PointersLive`, `CountsExact` (with `ThreadsShare`), `MemoryAccounted`, `VforkFramesLive` |
| `tools`, kcov | two processes, three instances of the device, descriptors 0 to 3, three calls of the programs; output to a file in unique mode, to a descriptor in order mode, to a descriptor that is not open, to a file in an unknown mode, and none | `DumpComplete`, `OwnFilesOnly`, `FaultsOnlyAtEnds` |
| `tools`, sfctool | all sizes of the domain up to 17, three curves and an unknown one, six sets of maps | `PictureFaithful` (`CurveFits` and `PaintedAsGiven`) |
| `tools`, bb2lines | four blocks of two files and a header, five records, three addresses of seven; a file of 8 words read through a buffer of 2 blocks | `BlocksMerged`, `CoverageAddsUp`; `ReadsTheFile` |
| `tools`, dwarves | lists of up to nine strings, six functions of which two have address 0, names that outgrow a chunk; three units of 85 DIEs, the third in 50 orders of the types that bitfields use and of a function and its copy, the first in two | `TreeSound`, `StringsInterned`; `TypesResolved`, `BitfieldsExact`; `HolesAddUp`, `LayoutTiles`, `TypesFound` |

**Bounds.** `MaxTs` bounds the events of a trace, `Locks` the lock objects,
`MaxLines` the input lines; `CopyCap` merges counts of copies above 2; `MaxForks`
and `MaxCalls` bound the forks and the calls of programs, `MaxRecords`, `MaxInput`
and `MaxReads` the records, addresses and reads, `MaxDomain` the strings of a picture. The
repairs need at most two takes to damage the state, one event to trigger the
repair and one or two accesses to observe it, so 5 to 7 events hold every
repair on top of another. Two contexts suffice for a steal and a flush that
misses the other context; two locks for a stack entry below and above the lock
released. Three locks are
the least for which the hypothesis graph lacks an edge ({1,3} is not a run of
{1,2,3}). Thresholds are coarser than the defaults
(90/5/5/10) so that small counts cross each of them.
Three tasks are a parent, its child and one that shares with either; a second vma
is the least for a memory map that is copied in part. Two processes and three
calls hold a fork or exec, a call of the kernel on either side of it and an end;
three instances let both processes start twice. 17 strings pass the square of 4
and the first power of two above it. Nine strings make a red-black tree in which
every case of the rebalancing occurs. The orders of the third unit put the
bitfields before and after the types of their width, and the copy of an inline
function before and after its origin.

**Fairness.** Both programs are loops in one thread over a finite file: a step is
taken whenever there is one. `FairSpec` and `ConvertFairSpec` say this as weak
fairness of the whole next-state relation, nothing more. The other runs check no
liveness: kernel tasks and traced programs may stop for ever.

## Disagreements between text and code

Four have a run of their own:

* `lm_lost_txn`: reader TXNs below the one found are erased without a row
  (`lockmanager.cc:166`); accesses already written with their ids reference
  nothing, against `db-scheme.sql:36`.
* `lm_reader_order`: the position on top of a lock's stack is written for all of
  its TXNs (`lockmanager.cc:127`). Taking a reader lock (RCU) again while another
  lock is held makes it appear to be taken after that lock, against
  `db-scheme.sql:69`.
* `lm_pop_empty`: with `-c`, a flush in one context drops the positions of all and
  pushes its own. The other context, whose TXN survived, releases it and pops that
  position; the next write in the context that flushed finds its TXN there and pops
  an empty stack (`rwlock.cc:57`).
* `cv_lock_word`: the heuristic that discards accesses to the lock word tests
  actions that are not lock operations (`convert.cc:273`), so it never does.

The models show these as well; they are reachable states or excluded inputs of
the runs above:

* a missed release leaves `writer_count` at 2 (`rwlock.h:72` says 0 or 1), and
  then P_READ reaches the state in which every further P throws;
* TXNs above erased readers are not restarted, so their rows miss a lock that
  was held at their earlier accesses (`lockmanager.h:11-14`): `HeldExactly` is
  checked without reader-writer locks for this reason;
* a flush sets the counter to 0 while another context's reader TXN stays active
  (`rwlock.cc:32`): likewise for `TxnsAreHeld`;
* an allocation without subclass after one with is accepted
  (`convert.cc:777-787`);
* `-s` leads to an exit at the first sequence lock (`lockmanager.cc:254`);
* `bottomup` does not find the accepted hypothesis of lowest support
  (`hypothesizer.cc:836`) when it lies behind one that lost to a sibling;
* 65536 members pass the check of the input and the copy loop wraps for ever
  (`hypothesizer.cc:1283`): the exception `InputEnds` names.

Of the other tools, where the properties name an exception:

* kcov: `DumpComplete` excepts a process whose device got descriptor 0, which
  `finish_kcov` takes for none (`kcov-lib.cc:421`); what a process did before an exec
  is dropped (line 213); `FaultsOnlyAtEnds` leaves two windows for a SIGTERM, while an
  image starts and between unmapping and the end (lines 437 and 457). With
  `KCOV_OUT=fd:N` and N not open (line 231) `cleanup_kcov` runs while `kcov_fd` is
  still 0 and closes descriptor 0 of the program (line 122); a program started by
  exec or a child that finds N open by then, for a file of its own, has it written.
  `OwnFilesOnly` allows these two descriptors and no other, and only in this setting;
  `DumpComplete` says nothing of it;
* sfctool: `PaintedAsGiven` needs all `-0` before all `-1`, because colours are dealt
  out in that order (`sfctool.cc:322`), and a default colour whose green and blue are
  equal, because they are exchanged (line 318); the curve "z" of the usage text
  does not exist (line 37);
* bb2lines: an address that addr2line does not know is not remembered and is
  counted each time (`main.cpp:680`);
* `BitfieldsExact`: the storage of a bitfield is 4 bytes for every enumeration
  (`dwarf_loader.c:2091`, "FIXME: always this size?") and 0 for a base type whose name
  is not in the table of `dwarves.c` (line 2098 says so); the instance has an
  enumeration of one byte, `__int128`, and `long unsigned int`, whose size in the
  table is that of an address;
* `TypesFound` excepts a unit in which a typedef of the name for something that is
  no structure comes before the structure: the search ends there
  (`dwarves.c:652`, `703`);
* `HolesAddUp` and `LayoutTiles` except bitfields that lie in the bytes of another
  member or whose storage has not the size of the declared type, and `LayoutTiles` arrays of structures that are opened: their elements are
  printed from offset 0 on (`dwarves_fprintf.c:207`), although the parameter is
  the "offset of current struct within enclosing struct" (`dwarves_api.h:245`);
* fork: the limit on threads is compared without a lock (`fork.c:1254`), so two
  forks may exceed it; no property says otherwise.

## Proofs

The theorems hold for all constants that satisfy the named assumptions
(`LockAssumption`, `CtxAssumption`, `MaxTsAssumption`, `ForkAssumption` and so on):
whatever the number of locks, contexts, events, processes, tasks or blocks.
Each rests on an inductive invariant that TLC checked on the instance of a run first.

**Lock manager**

* The stack operations: `EraseAt` keeps the entries that are not erased, in order
  (`RankBijection`, `EraseAtProperties`), and `Topmost` is the maximum.
* `TypeCorrect`: `Spec => []TypeOK`. The stacks of a step are built from
  `Remaining` and `Restarted`; `StackAfterProperties` says where each entry of
  the new stack comes from.
* `TxnIdsAreUnique`: `Spec => []TxnIdsUnique`. Any event that changes TXNs gives
  one context a stack in which each entry is an old TXN kept as it was or a new
  one with a fresh id, each id once, while the rows written are of TXNs that
  are gone (`Shape`, `StepShape`). `TxnIdsUnique` itself is the conjunction that
  is inductive: uniqueness alone is not, without ids below `m_nextTXNID` and
  written ids closed.
* `AccessesAreCounted`: `Spec => []AccessesCounted`, from
  `IInv == TypeOK /\ TxnIdsUnique /\ AccessIdsKnown /\ AccessesCounted`. The
  strengthening `AccessIdsKnown` (no access names an id still to be given) is
  needed so that a new TXN starts with no accesses.
* `HeldLocksImplemented`: `Spec => ImplementsHeldLocks`, with all kinds of locks and
  any number of contexts. Each event is traced through `Remaining` and `Restarted` to
  the sequence of held locks: a restart changes ids and times and no lock.
* `LockManagerSides` proves `InSync`, `TxnsAreHeld`, `AccessesHaveTxn`,
  `HeldExactly` and `NoUndefinedPop` under `OneSided`: no lock has both a reader and
  a writer side, the locks of run `lm_contexts`, in any number of contexts. The
  assumption is needed: with two sides, `lm_lost_txn` and `lm_pop_empty` violate two
  of them, and the list above says how `HeldExactly` and `TxnsAreHeld` fail. What the
  repairs damage, they damage through the flush of the other side. The invariant `OInv` adds to `IInv` that counters, positions
  and TXNs agree (`Sync`) and that the locks an access saw are those of the TXNs
  from its own downwards (`WInv`), which restarts and steals must keep.

* The same module proves `InSync`, `TxnsAreHeld` and `NoUndefinedPop` for locks of all
  classes in one context (`convert` without `-c`), as in run `lm_default`
  (`DefaultInSync` and the two after it). `DInv` adds to `Sync`
  that a reader-writer lock has one writer TXN at most (`WritersOnce`). A flush forgets all
  positions of the lock but erases its topmost TXN of the other side and its readers only
  (`StackAfterFinished`): with `WritersOnce` these are all TXNs it has (`FlushErasesAll`).
  Both assumptions are needed. Two contexts break all three, as the list above says. A
  reader-writer lock that is written twice as recursive and then read keeps a writer TXN
  without count or position: `SidesNotRecursive` excludes it, and TLC finds that state after
  three events without it.

**Event loop**

* `LocksStayInLiveMemory` and `AccessesStayInLifetime`: `ConvertSpec` keeps
  `LocksInLiveMemory` and `AccessesInLifetime`. `LInv` adds the keys of allocations
  (ids of active and of written ones are known, unique and apart) and that every
  access, written or buffered, lies in the life of its allocation.
* `LockManagerImplemented`: `ConvertSpec => ImplementsLockManager` under
  `NoNullAccess`: no access of the trace has address 0. The flush at the end of the
  trace passes address 0 and would drop such accesses as those of a lock word.
  `BInv` says that the buffer is empty whenever a TXN may change. With this theorem,
  those of `LockManager` hold of `convert`.

**Coverage tools**

* `GcovReadsTheFile`: `GInv` says that the buffer mirrors the file from its start
  and that the file is read on where the buffer ends.
* `KcovDumpComplete`, `KcovOwnFilesOnly`, `KcovFaultsOnlyAtEnds`, for any number of
  processes, device instances and descriptors. `KInv` says of each process what its
  program counter implies for the mapped buffer (`AreaOK`), for the files behind its descriptors
  and those named in its environment (`FilesOK`), for the instance it owns (`OwnedOK`)
  and for what it recorded (`RanOK`). A signal enters `finish_kcov` anywhere, so each
  stage carries its own clause. Nothing is assumed of `KCOV_OUT`: it may name a
  descriptor that is not open, and the theorems say what is left then.
* `BbBlocksMerged`, `BbCoverageAddsUp`: with the types of blocks and counters the
  properties are inductive.

**Hypothesizer**

All invariants of the search are proved, for every input, strategy and threshold.
`InputsAssumption` says what the input loop leaves: a member has at least one
combination, and each was counted at least once.

* What the recursive helpers compute. The provers cannot instantiate an induction
  theorem that takes a predicate, so `InductionLemmas` takes the least
  counterexample from the well-founded order of the naturals (`SetInduction`) and
  builds the functions step by step (`RecursionExists`, `SumExists`). From this:
  `update_sorted_locks` sorts (`SortedCopy`), the walk of `contains_locks` is set
  inclusion (`ContainsIsInclusionProved`), `lock_order` keeps each lock once and
  the order of fewer locks is the order of more restricted to them
  (`OrderOfOrder`), and so a hypothesis with fewer locks has at least the support
  of one with more (`SupportMonotone`), although each is counted in its most
  frequent order only.
* `HypothesizerInvariant`: `Spec => []HypothesizerInv`. `Graph_is`: every hypothesis
  found is a node and a child of the one without its last lock - edges are missing,
  this one never is (`ParentsAre`). `Queue_is`: the queue is in breadth-first order, which is what
  makes the winners one level. For each strategy one clause says of every
  hypothesis that it is listed, beaten, or still ahead of the queue (`Ahead`: some
  beginning of it is queued). Without the last clause no completeness is
  inductive, and without `SupportMonotone` pruning would lose it.
* `LocksetCompleteProved`, `TopdownCompleteProved`, `BottomupStopsProved`,
  `ConflictListEqualProved`, `SharpenLossProved`: with an empty queue nothing is
  ahead, and the clause of the strategy is the property. The bound of `sharpen` is
  a power (`Power`), proved level by level.
* `WinnerReportedProved`: `Spec => [](CutoffLow => WinnerReported)`. `CutoffLow`:
  the cutoff is not above the acceptance threshold nor, for `sharpen`, above what
  its losses may leave. The defaults satisfy the first (10 and 90 percent). The assumption is needed: a
  higher cutoff drops the line of the winner and the report marks none.

* `MembersCompleteProved`: `InputSpec => []MembersComplete`, for any lines and any
  width of ids; `LinesAssumption` says that names are strings and a line counts at
  least one access. `MembersInv` adds three things. `Names`: the names of a line are added
  to the known ones at their end, each once (`WithNamesExtends`), so old ids stay what they were.
  `Counts`: the combinations of a member are finitely many, and counting a line
  raises their sum by its occurrences whether the combination is new or known
  (`CountedSums`). `Copied`: the copy loop has been at the members below `i` once, or
  there are as many members as ids, and then `i` wraps and the loop is never left.

**Task creation**

* `ForkVforkFramesLive`, from `LinkInv`: types; what a call implies for the caller and the task
  it creates (`CallOK`), a task being created by one call only (`Structure`);
  a pointer to the completion of a vfork leads to a parent that waits for this
  child (`Vforks`); and the usage of a task is what its state and a waiting parent
  account for (`UsageOK`).
* `ForkPointersLive`: `PointersLive` is far from inductive, since a wrong decrement
  shows only later. `CountInv` adds `Counted`: in every state, calls under way included,
  each reference count is the number of visible tasks that point to the object plus the
  number of calls that keep a reference to it, and `Kept` says for each stage and label of
  `copy_process` and of `unshare` which ones those are. This is what makes the goto chain
  correct. Each action moves references between these two sets and the counter
  (`Balance`), which the lemmas on cardinalities turn into the invariant.
* `ForkCountsExact`: `ExactInv` adds to `CountInv` what a half-created task may hold at
  each stage and label (`HeldOK`: every label releases what the labels below it
  do not), the two totals with the calls that are counted in them already
  (`Totals`), and `Groups`: visible tasks with one `signal_struct` share their handlers
  and memory, and one that a call prepares belongs to nobody else, because a fresh
  object is counted for nobody. When no call is under way nothing is kept and nothing
  is half created, and the exact counts of `CountsExact` are what remains.
* `ForkMemoryAccounted`, from `MemInv`, which adds to `CountInv`: the sums over all maps
  are what is charged and referenced (`Sums`), an unused map is empty (`Unused`), the map
  that a call of `dup_mm` fills or drops has one reference, that call's (`Private`), starts as a
  copy without vmas of the caller's own map (`Started`), and is the only one whose
  size may be wrong (`Sizes`). `Private` is what lets `dup_mmap` fill the map and `free_pt`
  drop it while other tasks fork, read maps and exit; it follows from `Counted`, so this
  theorem needs exact counts in every state. A sum changes by what one map changes
  (`SumsChanged`), and what `dup_mmap` linked where it stopped has the size that the
  skipped vmas leave (`LinkedFacts`). `ForkAssumption` says that a vma has its three flags.

**Only model-checked.** Liveness (`Terminates`, `ConvertTerminates`,
`HypothesizerEnds`): out of the prover's reach. What
RECURSIVE operators compute: `Rbtree`, `DwarvesTables`,
`DwarfLoader`, `StructLayout`. `PictureFaithful`: nonlinear arithmetic over curves.

## Plan

1. Blacklists of `convert` (names resolved to subclass ids after the trace: the
   map from subclass names to ids is not keyed by the data type, so two types with
   a subclass of the same name share an entry) and the numbering of stack traces
   and member names.
2. Exact conditions under which `HeldExactly` holds with reader-writer locks and
   `OrderedByStart` with locks taken again, in place of the restriction to other kinds.
3. Lines that fail to parse, and what they leave of the line before.

## Not modelled

* `convert`: stack traces and blacklists (see the plan), options and the writing of
  text.
* hypothesizer: report formats, SQL snippets, options.
* dwarves: libdw; running out of memory while a unit is loaded; what C units do not have
  (namespaces, templates, specifications); the printing of source text, of functions
  and of inline expansions, which `convert` does not use. Numbers keep no
  width: more than 65535 types in a unit would overflow the 16-bit ids
  (`dwarves.h:75`), far beyond any instance TLC can check.
* ELF symbols (libbfd), gzstream, the two copies of the option parser: vendored or
  external, constants of the models.
* kcov: the FreeBSD build. kcovtrace and sortuniq: no state of their own.
* dwarves, errors: a failing `realloc` of the string table (`gobuffer.c:74`), whose
  negative return `strings__add` takes for an index (`strings.c:83`); a list of strings
  that cannot be opened or stored (`dutil.c:94`, `104`); the limit on the depth of
  nested structures (`dwarves_fprintf.c:492`), which the instance does not come near.
* fork.c: slab caches, boot-time initialisation, the accounting of resources other
  than memory and references.
* Shell, SQL, Python and R scripts (input, output and joins); manuals, kernel history
  and data files.
