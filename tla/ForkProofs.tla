----------------------------- MODULE ForkProofs -----------------------------
(***************************************************************************)
(* Theorems about the creation of tasks.                                    *)
(***************************************************************************)
EXTENDS Fork, InductionLemmas, FiniteSetTheorems, TLAPS

-----------------------------------------------------------------------------
(* The states of a call *)

(* Stages of copy_process in the order they are reached, and the labels.     *)
Forward == {"creds", "module", "setup", "files", "fs", "sighand", "signal", "mm", "dup_mmap", "binfmt",
            "free_pt", "context", "publish"}
Undoing == {"bad_fork_free_pid", "bad_fork_cleanup_io", "bad_fork_cleanup_namespaces", "bad_fork_cleanup_mm",
            "bad_fork_cleanup_signal", "bad_fork_cleanup_sighand", "bad_fork_cleanup_fs",
            "bad_fork_cleanup_files", "bad_fork_cleanup_semundo", "bad_fork_cleanup_audit",
            "bad_fork_cleanup_policy", "bad_fork_cleanup_threadgroup_lock", "bad_fork_cleanup_count",
            "bad_fork_free"}
Building == Forward \cup Undoing
Waiting == {"wait_for_vfork_done", "vfork_put"}
Unsharing == {"unshare_fs", "unshare_fd", "unshare_ns", "unshare_install", "bad_unshare_cleanup_fd",
              "bad_unshare_cleanup_fs"}
Released == {"complete", "exit_mm", "exit_files", "exit_fs", "release"}    \* of vfork_done
Own == {"idle", "mm_access", "mm_release", "complete_vfork_done"} \cup Unsharing \cup Released
Pcs == Building \cup Waiting \cup Own \cup {"wake"}

(* Where the new task's reference to an object is counted.                   *)
MmPcs == {"context", "publish", "bad_fork_free_pid", "bad_fork_cleanup_io", "bad_fork_cleanup_namespaces",
          "bad_fork_cleanup_mm"}
SignalPcs == {"mm", "dup_mmap", "binfmt", "free_pt", "bad_fork_cleanup_signal"} \cup MmPcs
SighandPcs == {"signal", "bad_fork_cleanup_sighand"} \cup SignalPcs
FsPcs == {"sighand", "bad_fork_cleanup_fs"} \cup SighandPcs
FilesPcs == {"fs", "bad_fork_cleanup_files"} \cup FsPcs
CountedAt == [mm |-> MmPcs, signal |-> SignalPcs, sighand |-> SighandPcs, fs |-> FsPcs, files |-> FilesPcs]

SharedFlag == [mm |-> "VM", signal |-> "THREAD", sighand |-> "SIGHAND", fs |-> "FS", files |-> "FILES"]

HeldNames == {"stack", "creds", "module", "delayacct", "threadgroup", "policy", "perf", "audit", "semundo",
              "namespaces", "io", "pid"}

-----------------------------------------------------------------------------
Pointer == Objects \cup {0}
States == {"free", "built", "new", "running", "idle", "dead", "switched"}
Alive == {"new", "running", "idle"}

TaskStruct ==
  [st : States, mm : Pointer, files : Pointer, fs : Pointer, sighand : Pointer, signal : Pointer, usage : Nat,
   held : SUBSET HeldNames, vfork_done : Tasks \cup {NoTask}, alloc_lock : Tasks \cup {NoTask}]

FlagSets == {{}} \cup CloneFlags \cup {Closure(f) : f \in UnshareFlags}

Call == [pc : Pcs, p : Tasks \cup {NoTask}, flags : FlagSets, new : Pointer, new_fs : Pointer,
         vfork : Tasks \cup {NoTask}]

ForkTypeOK ==
  /\ task \in [Tasks -> TaskStruct] /\ op \in [Tasks -> Call]
  /\ count \in [Kinds -> [Objects -> Int]]
  /\ vfork \in [Tasks -> {"none", "waiting", "done"}]
  /\ nr_threads \in Int /\ processes \in Int /\ total_forks \in Nat

(* A task that is gone points to nothing but its signal_struct.              *)
TaskOK(r) ==
  /\ r.st \in {"free", "built", "dead", "switched"} => r.vfork_done = NoTask
  /\ r.st \in {"free", "dead", "switched"} => r.mm = 0 /\ r.files = 0 /\ r.fs = 0 /\ r.sighand = 0
  /\ r.st = "free" => r.signal = 0

(* What the call a of task t has in hand, with me the struct of t and q the  *)
(* struct of the task it creates or created.                                 *)
CallOK(t, a, me, q) ==
  /\ a.pc # "idle" => me.st = "running"
  /\ a.pc \in Own => a.p = NoTask
  /\ a.pc \notin Own => a.p \in Tasks
  /\ a.pc \in Building => q.st = "built"
  /\ a.pc = "wake" => q.st = "new"
  /\ a.pc \in Waiting => q.st \in {"running", "idle", "dead", "switched"}
  /\ a.pc # "complete" => a.vfork = NoTask
  /\ a.pc = "complete" => me.alloc_lock = t
  /\ a.pc \in Released => me.vfork_done = NoTask
  /\ a.pc \in {"exit_files", "exit_fs", "release"} => me.mm = 0
  /\ a.pc \in {"exit_fs", "release"} => me.files = 0
  /\ a.pc = "release" => me.fs = 0
  /\ a.new # 0 => a.pc \in {"dup_mmap", "binfmt", "free_pt", "mm_access", "unshare_ns", "unshare_install",
                            "bad_unshare_cleanup_fd"}
  /\ a.new_fs # 0 => a.pc \in {"unshare_fd", "unshare_ns", "unshare_install", "bad_unshare_cleanup_fd",
                               "bad_unshare_cleanup_fs"}
  /\ a.pc \in Forward \cup {"wake"} => ValidFlags(a.flags) /\ ("IDLE" \in a.flags => "THREAD" \notin a.flags)
  /\ a.pc \in {"dup_mmap", "binfmt"} => "VM" \notin a.flags
  /\ a.pc \in Forward => \A k \in Kinds : SharedFlag[k] \in a.flags => q[k] = me[k]

(* The child that will signal the completion of t.                           *)
Awaited(t, c) == op[t].pc = "wait_for_vfork_done" /\ op[t].p = c /\ vfork[t] = "waiting"

Structure ==
  /\ \A t \in Tasks : TaskOK(task[t])
  /\ \A t \in Tasks : CallOK(t, op[t], task[t], task[op[t].p])
  /\ \A t, u \in Tasks : op[t].p # NoTask /\ op[t].p = op[u].p => t = u
  /\ \A x \in Tasks : task[x].st \in {"built", "new"} => \E t \in Tasks : op[t].p = x

Vforks ==
  /\ \A c \in Tasks : task[c].vfork_done # NoTask => Awaited(task[c].vfork_done, c)
  /\ \A c \in Tasks : op[c].vfork # NoTask => Awaited(op[c].vfork, c)

Links == Structure /\ Vforks

(* A task has a reference for itself and one for its parent, another one     *)
(* while a vforking parent waits.                                            *)
Waits(x) == \E t \in Tasks : op[t].pc \in Waiting /\ op[t].p = x
Base(st) == IF st = "free" \/ st = "switched" THEN 0 ELSE IF st = "dead" THEN 1 ELSE 2
UsageOK == \A x \in Tasks :
  /\ task[x].usage = Base(task[x].st) + (IF Waits(x) THEN 1 ELSE 0)
  /\ task[x].st = "switched" => Waits(x)

(* The references of a visible task and those of a call.                     *)
Seen(r, k) == IF r.st \in {"free", "built"} THEN 0 ELSE r[k]
Kept(a, q, k) ==
  IF a.pc \in CountedAt[k] THEN IF k = "signal" /\ "THREAD" \in a.flags THEN 0 ELSE q[k]
  ELSE IF k = "mm" THEN IF a.pc \in {"dup_mmap", "binfmt", "free_pt", "mm_access"} THEN a.new ELSE 0
  ELSE IF k = "files" THEN IF a.pc \in {"unshare_ns", "unshare_install", "bad_unshare_cleanup_fd"} THEN a.new ELSE 0
  ELSE IF k = "fs" THEN a.new_fs
  ELSE 0

SeenBy(k, o) == {t \in Tasks : Seen(task[t], k) = o}
KeptBy(k, o) == {t \in Tasks : Kept(op[t], task[op[t].p], k) = o}

Counted ==
  \A k \in Kinds, o \in Objects : count[k][o] = Cardinality(SeenBy(k, o)) + Cardinality(KeptBy(k, o))

(* Where the new task may hold what is not counted.                          *)
SemundoPcs == {"files", "bad_fork_cleanup_semundo"} \cup FilesPcs
AuditPcs == {"bad_fork_cleanup_audit"} \cup SemundoPcs
PolicyPcs == {"bad_fork_cleanup_policy"} \cup AuditPcs
ModulePcs == {"setup", "bad_fork_cleanup_threadgroup_lock"} \cup PolicyPcs
CredsPcs == {"module", "bad_fork_cleanup_count"} \cup ModulePcs
PidPcs == {"publish", "bad_fork_free_pid"}
IoPcs == {"bad_fork_cleanup_io"} \cup PidPcs
NamespacePcs == {"bad_fork_cleanup_namespaces"} \cup IoPcs
HeldWhile ==
  [stack |-> Building, creds |-> CredsPcs, module |-> ModulePcs, delayacct |-> ModulePcs, threadgroup |-> ModulePcs,
   policy |-> PolicyPcs, perf |-> PolicyPcs, audit |-> AuditPcs, semundo |-> SemundoPcs,
   namespaces |-> NamespacePcs, io |-> IoPcs, pid |-> PidPcs]

HeldOK ==
  /\ \A x \in Tasks : task[x].st \in {"free", "dead", "switched"} => task[x].held = {}
  /\ \A t \in Tasks : op[t].pc \in Building => \A h \in task[op[t].p].held : op[t].pc \in HeldWhile[h]

(* The totals count the tasks that a call has not woken yet, too.            *)
Unwoken(a) == a.pc = "wake" /\ "IDLE" \notin a.flags
Charged(a) == a.pc \in CredsPcs \/ a.pc = "wake"
Totals ==
  /\ nr_threads = Cardinality({t \in Tasks : task[t].st = "running"}) + Cardinality({t \in Tasks : Unwoken(op[t])})
  /\ processes = Cardinality({t \in Tasks : task[t].st \in {"running", "idle"}})
                 + Cardinality({t \in Tasks : Charged(op[t])})

(* A process that is not a thread has a signal_struct of its own until it is *)
(* published.                                                                *)
NewGroup(t) == op[t].pc \in SignalPcs /\ "THREAD" \notin op[t].flags

SameGroup(r, s) == r.sighand = s.sighand /\ (r.mm = s.mm \/ r.mm = 0 \/ s.mm = 0)

Groups ==
  /\ \A x, y \in Tasks : task[x].st \in Alive /\ task[y].st \in Alive /\ task[x].signal = task[y].signal
                         => SameGroup(task[x], task[y])
  /\ \A t, y \in Tasks : NewGroup(t) /\ task[y].st \in Alive => task[y].signal # task[op[t].p].signal
  /\ \A t, u \in Tasks : NewGroup(t) /\ NewGroup(u) /\ t # u => task[op[t].p].signal # task[op[u].p].signal

-----------------------------------------------------------------------------
(* Facts about the tables *)

LEMMA ObjectsAreNumbers == Objects \subseteq Nat \ {0} /\ 1 \in Objects /\ 0 \notin Objects
<1>1. Cardinality(Tasks) \in Nat /\ Cardinality(Tasks) # 0
  BY ForkAssumption, FS_CardinalityType, FS_EmptySet
<1> QED
  BY <1>1 DEF Objects

LEMMA OnErrorUndoes ==
  /\ \A s \in DOMAIN ErrorLabels : OnError(s) \in Undoing
  /\ OnError("creds") = "bad_fork_free" /\ OnError("module") = "bad_fork_cleanup_count"
  /\ OnError("files") = "bad_fork_cleanup_semundo" /\ OnError("fs") = "bad_fork_cleanup_files"
  /\ OnError("sighand") = "bad_fork_cleanup_fs" /\ OnError("signal") = "bad_fork_cleanup_sighand"
  /\ OnError("mm") = "bad_fork_cleanup_signal" /\ OnError("publish") = "bad_fork_free_pid"
BY DEF OnError, ErrorLabels, Undoing

(* A run of stages ends in the next stage or at the label of one of its own. *)
LEMMA RunEnds ==
  ASSUME NEW t \in Tasks, NEW before, NEW next, NEW run, run \in {Setup, Context}, RunOfStages(t, run, before, next)
  PROVE  \E pc \in Undoing \cup {next}, h \in SUBSET (before \cup HeldNames) :
            Hold(t, h) /\ Goto(t, pc)
<1>1. CASE Hold(t, before \cup Left(t, run)) /\ Goto(t, next)
  <2>1. ToSet(run) \ {"sched", "thread"} \subseteq HeldNames
    BY DEF ToSet, Setup, Context, HeldNames
  <2> QED
    BY <1>1, <2>1 DEF Left
<1>2. CASE \E i \in DOMAIN run :
             /\ Hold(t, before \cup Left(t, SubSeq(run, 1, i - 1)))
             /\ Goto(t, OnError(run[i]))
  <2>1. PICK i \in DOMAIN run : Hold(t, before \cup Left(t, SubSeq(run, 1, i - 1))) /\ Goto(t, OnError(run[i]))
    BY <1>2
  <2>2. run[i] \in DOMAIN ErrorLabels
    BY DEF Setup, Context, ErrorLabels
  <2>3. ToSet(SubSeq(run, 1, i - 1)) \ {"sched", "thread"} \subseteq HeldNames
    BY DEF ToSet, Setup, Context, HeldNames
  <2>4. OnError(run[i]) \in Undoing
    BY <2>2, OnErrorUndoes
  <2> QED
    BY <2>1, <2>3, <2>4 DEF Left
<1> QED
  BY <1>1, <1>2 DEF RunOfStages

-----------------------------------------------------------------------------
(* The shape of a step: one task_struct and one call change *)

Frame(t, x) ==
  /\ \A y \in Tasks : y # x => task'[y] = task[y]
  /\ \A u \in Tasks : u # t => op'[u] = op[u]

(* A stage of copy_process or a label, up to the last one.                    *)
BuildFrame(t) ==
  LET p == op[t].p IN
  /\ op[t].pc \in Building /\ op'[t].pc \in Building
  /\ op'[t].p = p /\ op'[t].flags = op[t].flags /\ op'[t].vfork = op[t].vfork /\ op'[t].new_fs = op[t].new_fs
  /\ op'[t].new # 0 => op'[t].pc \in {"dup_mmap", "binfmt", "free_pt"}
  /\ op'[t].pc \in {"dup_mmap", "binfmt"} => "VM" \notin op[t].flags
  /\ Frame(t, p)
  /\ task'[p].st = task[p].st /\ task'[p].usage = task[p].usage
  /\ task'[p].vfork_done = task[p].vfork_done /\ task'[p].alloc_lock = task[p].alloc_lock
  /\ op'[t].pc \in Forward => /\ op[t].pc \in Forward
                              /\ \A k \in Kinds : SharedFlag[k] \in op[t].flags => task'[p][k] = task[p][k]
  /\ UNCHANGED <<vfork, nr_threads, total_forks>>

(* A call is at a stage: what the invariant says of the task it creates.      *)
LEMMA AtBuilding ==
  ASSUME ForkTypeOK, Links, NEW t \in Tasks, NEW pc \in Building, At(t, pc)
  PROVE  /\ op[t] \in Call /\ op[t].pc = pc /\ op[t].p \in Tasks /\ op[t].p # t
         /\ task[op[t].p] \in TaskStruct /\ task[op[t].p].st = "built" /\ task[t] \in TaskStruct
         /\ task[t].st = "running"
         /\ op[t].new # 0 => pc \in {"dup_mmap", "binfmt", "free_pt"}
         /\ op[t].new_fs = 0
         /\ pc \in Forward => \A k \in Kinds : SharedFlag[k] \in op[t].flags => task[op[t].p][k] = task[t][k]
<1>1. CallOK(t, op[t], task[t], task[op[t].p]) /\ op[t].pc = pc /\ task[t].st = "running"
  BY DEF Links, Structure, At
<1>2. op[t].p \in Tasks /\ task[op[t].p].st = "built"
  BY <1>1 DEF CallOK, Building, Forward, Undoing, Own, Unsharing, Released
<1>3. /\ op[t].new # 0 => pc \in {"dup_mmap", "binfmt", "free_pt"}
      /\ op[t].new_fs = 0
  BY <1>1 DEF CallOK, Building, Forward, Undoing
<1>4. pc \in Forward => \A k \in Kinds : SharedFlag[k] \in op[t].flags => task[op[t].p][k] = task[t][k]
  BY <1>1 DEF CallOK
<1> QED
  BY <1>1, <1>2, <1>3, <1>4 DEF ForkTypeOK

(* Only the stage and what the new task holds change.                         *)
LEMMA HoldFrame ==
  ASSUME ForkTypeOK, Links, NEW t \in Tasks, NEW pc \in Building, At(t, pc), NEW next \in Building,
         op[t].new = 0, next \in Forward => pc \in Forward, next \notin {"dup_mmap", "binfmt"},
         Goto(t, next), NEW h \in SUBSET HeldNames, task' = [task EXCEPT ![op[t].p].held = h],
         count' \in [Kinds -> [Objects -> Int]], processes' \in Int, UNCHANGED <<vfork, nr_threads, total_forks>>
  PROVE  ForkTypeOK' /\ BuildFrame(t)
<1> DEFINE p == op[t].p
<1>1. /\ op[t] \in Call /\ op[t].pc = pc /\ p \in Tasks /\ p # t /\ task[p] \in TaskStruct /\ task[p].st = "built"
  BY AtBuilding
<1>2. op' = [op EXCEPT ![t] = [op[t] EXCEPT !.pc = next]]
  BY <1>1 DEF ForkTypeOK, Goto
<1>3. task' = [task EXCEPT ![p] = [task[p] EXCEPT !.held = h]]
  BY <1>1 DEF ForkTypeOK
<1>4. [op[t] EXCEPT !.pc = next] \in Call
  BY <1>1 DEF Call, Pcs
<1>5. [task[p] EXCEPT !.held = h] \in TaskStruct
  BY <1>1 DEF TaskStruct
<1>6. ForkTypeOK'
  BY <1>1, <1>2, <1>3, <1>4, <1>5 DEF ForkTypeOK
<1>7. /\ op'[t] = [op[t] EXCEPT !.pc = next] /\ task'[p] = [task[p] EXCEPT !.held = h]
      /\ Frame(t, p)
  BY <1>1, <1>2, <1>3 DEF ForkTypeOK, Frame
<1>8. /\ op'[t].pc = next /\ op'[t].p = p /\ op'[t].flags = op[t].flags /\ op'[t].vfork = op[t].vfork
      /\ op'[t].new_fs = op[t].new_fs /\ op'[t].new = 0
  BY <1>1, <1>7 DEF Call
<1>9. /\ task'[p].st = task[p].st /\ task'[p].usage = task[p].usage
      /\ task'[p].vfork_done = task[p].vfork_done /\ task'[p].alloc_lock = task[p].alloc_lock
      /\ \A k \in Kinds : task'[p][k] = task[p][k]
  BY <1>1, <1>7 DEF TaskStruct, Kinds
<1> HIDE DEF p
<1>10. BuildFrame(t)
  BY <1>1, <1>7, <1>8, <1>9 DEF BuildFrame, p
<1> QED
  BY <1>6, <1>10

GotoWith(t, pc, n) == op' = [op EXCEPT ![t].pc = pc, ![t].new = n]
Repoint(t, k, o) == task' = [task EXCEPT ![op[t].p][k] = o]

(* Only the stage and one pointer of the new task change.                     *)
LEMMA PointFrame ==
  ASSUME ForkTypeOK, Links, NEW t \in Tasks, NEW pc \in Building, At(t, pc), NEW next \in Building,
         NEW n \in Pointer, n # 0 => next \in {"dup_mmap", "binfmt", "free_pt"},
         next \in {"dup_mmap", "binfmt"} => "VM" \notin op[t].flags,
         NEW k \in Kinds, NEW o \in Pointer,
         next \in Forward => pc \in Forward /\ (SharedFlag[k] \in op[t].flags => o = task[op[t].p][k]),
         GotoWith(t, next, n), Repoint(t, k, o),
         count' \in [Kinds -> [Objects -> Int]], processes' \in Int, UNCHANGED <<vfork, nr_threads, total_forks>>
  PROVE  ForkTypeOK' /\ BuildFrame(t)
<1> DEFINE p == op[t].p
<1>1. /\ op[t] \in Call /\ op[t].pc = pc /\ p \in Tasks /\ p # t /\ task[p] \in TaskStruct /\ task[p].st = "built"
  BY AtBuilding
<1>2. op' = [op EXCEPT ![t] = [op[t] EXCEPT !.pc = next, !.new = n]]
  BY <1>1 DEF ForkTypeOK, GotoWith
<1>3. task' = [task EXCEPT ![p] = [task[p] EXCEPT ![k] = o]]
  BY <1>1 DEF ForkTypeOK, Repoint
<1>4. [op[t] EXCEPT !.pc = next, !.new = n] \in Call
  BY <1>1 DEF Call, Pcs
<1>5. [task[p] EXCEPT ![k] = o] \in TaskStruct
  BY <1>1 DEF TaskStruct, Kinds
<1>6. ForkTypeOK'
  BY <1>1, <1>2, <1>3, <1>4, <1>5 DEF ForkTypeOK
<1>7. /\ op'[t] = [op[t] EXCEPT !.pc = next, !.new = n] /\ task'[p] = [task[p] EXCEPT ![k] = o]
      /\ Frame(t, p)
  BY <1>1, <1>2, <1>3 DEF ForkTypeOK, Frame
<1>8. /\ op'[t].pc = next /\ op'[t].p = p /\ op'[t].flags = op[t].flags /\ op'[t].vfork = op[t].vfork
      /\ op'[t].new_fs = op[t].new_fs /\ op'[t].new = n
  <2> DEFINE b == op'[t]
             a == op[t]
  <2>1. a \in Call /\ next \in Pcs /\ b = [a EXCEPT !.pc = next, !.new = n]
    BY <1>1, <1>7 DEF Pcs
  <2> HIDE DEF a, b
  <2>2. b.pc = next /\ b.p = a.p /\ b.flags = a.flags /\ b.vfork = a.vfork /\ b.new_fs = a.new_fs /\ b.new = n
    BY <2>1 DEF Call
  <2> QED
    BY <2>2 DEF a, b
<1>9. /\ task'[p].st = task[p].st /\ task'[p].usage = task[p].usage
      /\ task'[p].vfork_done = task[p].vfork_done /\ task'[p].alloc_lock = task[p].alloc_lock
      /\ \A j \in Kinds : j # k => task'[p][j] = task[p][j]
      /\ task'[p][k] = o
  BY <1>1, <1>7 DEF TaskStruct, Kinds
<1> HIDE DEF p
<1>10. BuildFrame(t)
  BY <1>1, <1>7, <1>8, <1>9 DEF BuildFrame, p
<1> QED
  BY <1>6, <1>10

-----------------------------------------------------------------------------
(* The steps of copy_process and its labels have that shape *)

Counters == [Kinds -> [Objects -> Int]]

LEMMA TookType ==
  ASSUME NEW c \in Counters, NEW k \in Kinds, NEW o \in Pointer
  PROVE  [c EXCEPT ![k][o] = @ + 1] \in Counters /\ [c EXCEPT ![k][o] = @ - 1] \in Counters
<1>1. CASE o \in Objects
  BY <1>1 DEF Counters
<1>2. CASE o \notin Objects
  BY <1>2 DEF Counters
<1> QED
  BY <1>1, <1>2

LEMMA CountTypes ==
  ASSUME ForkTypeOK, NEW k \in Kinds, NEW o \in Pointer, Took(k, o) \/ Put(k, o)
  PROVE  count' \in [Kinds -> [Objects -> Int]]
BY TookType DEF ForkTypeOK, Took, Put, Counters

LEMMA MmputTypes ==
  ASSUME ForkTypeOK, NEW o \in Pointer, mmput(o)
  PROVE  count' \in [Kinds -> [Objects -> Int]]
<1>1. "mm" \in Kinds
  BY DEF Kinds
<1> QED
  BY <1>1, CountTypes DEF mmput

LEMMA FailFrame ==
  ASSUME ForkTypeOK, Links, NEW t \in Tasks, NEW s \in DOMAIN ErrorLabels, NEW pc \in Building, At(t, pc),
         op[t].new = 0, Fail(t, s)
  PROVE  ForkTypeOK' /\ BuildFrame(t)
<1> DEFINE h == task[op[t].p].held
<1>1. OnError(s) \in Undoing
  BY OnErrorUndoes
<1>2. OnError(s) \in Building /\ OnError(s) \notin Forward /\ OnError(s) \notin {"dup_mmap", "binfmt"}
  BY <1>1 DEF Building, Undoing, Forward
<1>3. op[t].p \in Tasks /\ task[op[t].p] \in TaskStruct
  BY AtBuilding
<1>4. task' = [task EXCEPT ![op[t].p].held = h] /\ h \in SUBSET HeldNames
  BY <1>3 DEF Fail, ForkTypeOK, TaskStruct
<1>5. /\ count' \in [Kinds -> [Objects -> Int]] /\ processes' \in Int /\ Goto(t, OnError(s))
      /\ UNCHANGED <<vfork, nr_threads, total_forks>>
  BY DEF Fail, ForkTypeOK, totals
<1> HIDE DEF h
<1> QED
  BY <1>2, <1>4, <1>5, HoldFrame

LEMMA GainFrame ==
  ASSUME ForkTypeOK, Links, NEW t \in Tasks, NEW pc \in Building, At(t, pc), NEW next \in Building,
         op[t].new = 0, next \in Forward => pc \in Forward, next \notin {"dup_mmap", "binfmt"},
         Goto(t, next), NEW h \in SUBSET HeldNames, Hold(t, h) \/ Release(t, h),
         count' \in [Kinds -> [Objects -> Int]], processes' \in Int, UNCHANGED <<vfork, nr_threads, total_forks>>
  PROVE  ForkTypeOK' /\ BuildFrame(t)
<1>1. op[t].p \in Tasks /\ task[op[t].p] \in TaskStruct
  BY AtBuilding
<1>2. CASE Hold(t, h)
  <2> DEFINE g == task[op[t].p].held \cup h
  <2>1. task' = [task EXCEPT ![op[t].p].held = g] /\ g \in SUBSET HeldNames
    BY <1>1, <1>2 DEF Hold, ForkTypeOK, TaskStruct
  <2> HIDE DEF g
  <2> QED
    BY <2>1, HoldFrame
<1>3. CASE Release(t, h)
  <2> DEFINE g == task[op[t].p].held \ h
  <2>1. task' = [task EXCEPT ![op[t].p].held = g] /\ g \in SUBSET HeldNames
    BY <1>1, <1>3 DEF Release, ForkTypeOK, TaskStruct
  <2> HIDE DEF g
  <2> QED
    BY <2>1, HoldFrame
<1> QED
  BY <1>2, <1>3

(* Nothing of the new task changes.                                           *)
LEMMA StayFrame ==
  ASSUME ForkTypeOK, Links, NEW t \in Tasks, NEW pc \in Building, At(t, pc), NEW next \in Building,
         NEW n \in Pointer, n # 0 => next \in {"dup_mmap", "binfmt", "free_pt"}, next \in Forward => pc \in Forward,
         next \in {"dup_mmap", "binfmt"} => "VM" \notin op[t].flags,
         GotoWith(t, next, n), UNCHANGED task,
         count' \in [Kinds -> [Objects -> Int]], processes' \in Int, UNCHANGED <<vfork, nr_threads, total_forks>>
  PROVE  ForkTypeOK' /\ BuildFrame(t)
<1> DEFINE o == task[op[t].p].mm
<1>1. op[t].p \in Tasks /\ task[op[t].p] \in TaskStruct
  BY AtBuilding
<1>2. "mm" \in Kinds /\ o \in Pointer /\ o = task[op[t].p]["mm"]
  BY <1>1 DEF Kinds, TaskStruct
<1>3. Repoint(t, "mm", o)
  BY <1>1 DEF Repoint, ForkTypeOK, TaskStruct
<1> HIDE DEF o
<1> QED
  BY <1>2, <1>3, PointFrame

LEMMA GotoIsGotoWith ==
  ASSUME ForkTypeOK, NEW t \in Tasks, NEW pc, Goto(t, pc)
  PROVE  GotoWith(t, pc, op[t].new)
BY DEF Goto, GotoWith, ForkTypeOK, Call

LEMMA SetupFrame ==
  ASSUME ForkTypeOK, Links, NEW t \in Tasks, copy_creds(t) \/ check_threads(t) \/ CopySetup(t) \/ CopyContext(t)
  PROVE  ForkTypeOK' /\ BuildFrame(t)
<1> USE DEF Building, Forward, Undoing, HeldNames
<1>1. ASSUME NEW pc \in {"creds", "module", "setup", "context"}, At(t, pc)
      PROVE  op[t].new = 0 /\ pc \in Forward /\ pc \in Building
  BY <1>1, AtBuilding
<1>2. ASSUME NEW pc \in {"creds", "module", "setup", "context"}, At(t, pc),
             NEW next \in Undoing \cup {"module", "setup", "files", "publish"}, Goto(t, next), NEW h \in SUBSET HeldNames, Hold(t, h),
             count' = count, processes' \in Int, UNCHANGED <<vfork, nr_threads, total_forks>>
      PROVE  ForkTypeOK' /\ BuildFrame(t)
  <2>1. count' \in [Kinds -> [Objects -> Int]]
    BY <1>2 DEF ForkTypeOK
  <2>2. next \in Building /\ next \notin {"dup_mmap", "binfmt"}
    BY <1>2
  <2> HIDE DEF Building, Forward, Undoing, HeldNames
  <2> QED
    BY <1>1, <1>2, <2>1, <2>2, GainFrame
<1>3. CASE copy_creds(t)
  <2>1. CASE Fail(t, "creds")
    <3>1. At(t, "creds") /\ "creds" \in DOMAIN ErrorLabels
      BY <1>3 DEF copy_creds, ErrorLabels
    <3> QED
      BY <3>1, <2>1, <1>1, FailFrame
  <2>2. CASE /\ processes' = processes + 1
             /\ Hold(t, {"creds"})
             /\ Goto(t, "module")
             /\ UNCHANGED <<count, memory, vfork, nr_threads, total_forks>>
    <3>1. At(t, "creds") /\ processes' \in Int
      BY <1>3, <2>2 DEF copy_creds, ForkTypeOK
    <3> QED
      BY <3>1, <2>2, <1>2
  <2> QED
    BY <1>3, <2>1, <2>2 DEF copy_creds
<1>4. CASE check_threads(t)
  <2>1. CASE Fail(t, "module")
    <3>1. At(t, "module") /\ "module" \in DOMAIN ErrorLabels
      BY <1>4 DEF check_threads, ErrorLabels
    <3> QED
      BY <3>1, <2>1, <1>1, FailFrame
  <2>2. CASE /\ Hold(t, {"module", "delayacct"})
             /\ Goto(t, "setup")
             /\ UNCHANGED <<count, memory, vfork, totals>>
    <3>1. At(t, "module") /\ processes' \in Int /\ UNCHANGED <<vfork, nr_threads, total_forks, count>>
      BY <1>4, <2>2 DEF check_threads, ForkTypeOK, totals
    <3> QED
      BY <3>1, <2>2, <1>2
  <2> QED
    BY <1>4, <2>1, <2>2 DEF check_threads
<1>5. CASE CopySetup(t)
  <2> DEFINE before == IF "THREAD" \in op[t].flags THEN {"threadgroup"} ELSE {}
  <2>1. At(t, "setup") /\ processes' \in Int /\ UNCHANGED <<vfork, nr_threads, total_forks, count>>
        /\ RunOfStages(t, Setup, before, "files")
    BY <1>5 DEF CopySetup, ForkTypeOK, totals
  <2>2. PICK pc \in Undoing \cup {"files"}, h \in SUBSET (before \cup HeldNames) : Hold(t, h) /\ Goto(t, pc)
    BY <2>1, RunEnds
  <2>3. h \in SUBSET HeldNames
    BY <2>2
  <2> HIDE DEF before
  <2> QED
    BY <2>1, <2>2, <2>3, <1>2
<1>6. CASE CopyContext(t)
  <2>1. At(t, "context") /\ processes' \in Int /\ UNCHANGED <<vfork, nr_threads, total_forks, count>>
        /\ RunOfStages(t, Context, {}, "publish")
    BY <1>6 DEF CopyContext, ForkTypeOK, totals
  <2>2. PICK pc \in Undoing \cup {"publish"}, h \in SUBSET ({} \cup HeldNames) : Hold(t, h) /\ Goto(t, pc)
    BY <2>1, RunEnds
  <2>3. h \in SUBSET HeldNames
    BY <2>2
  <2> QED
    BY <2>1, <2>2, <2>3, <1>2
<1> QED
  BY <1>3, <1>4, <1>5, <1>6

LEMMA CopySharedFrame ==
  ASSUME ForkTypeOK, Links, NEW t \in Tasks, CopyShared(t)
  PROVE  ForkTypeOK' /\ BuildFrame(t)
<1>1. PICK s \in DOMAIN SharedBy :
    /\ At(t, s)
    /\ \/ /\ SharedBy[s] \in op[t].flags
          /\ Took(s, task[t][s])
          /\ Goto(t, AfterShared[s])
          /\ UNCHANGED <<task, memory, vfork, totals>>
       \/ /\ SharedBy[s] \notin op[t].flags
          /\ \E o \in Fresh(s) : Took(s, o) /\ task' = [task EXCEPT ![op[t].p][s] = o]
          /\ Goto(t, AfterShared[s])
          /\ UNCHANGED <<memory, vfork, totals>>
       \/ Fail(t, s)
  BY DEF CopyShared
<1>2. /\ s \in Kinds /\ s \in Building /\ s \in Forward /\ s \in DOMAIN ErrorLabels /\ AfterShared[s] \in Building
      /\ AfterShared[s] \notin {"dup_mmap", "binfmt"} /\ s \notin {"dup_mmap", "binfmt", "free_pt"} /\ SharedBy[s] = SharedFlag[s]
  BY DEF SharedBy, SharedFlag, AfterShared, Building, Forward, Kinds, ErrorLabels
<1>3. op[t].new = 0 /\ task[t] \in TaskStruct
  BY <1>1, <1>2, AtBuilding
<1>4. task[t][s] \in Pointer
  BY <1>2, <1>3 DEF TaskStruct, Kinds
<1>t. UNCHANGED totals => processes' \in Int /\ UNCHANGED <<nr_threads, total_forks>>
  BY DEF ForkTypeOK, totals
<1>5. CASE SharedBy[s] \in op[t].flags /\ Took(s, task[t][s]) /\ Goto(t, AfterShared[s]) /\ UNCHANGED <<task, vfork, totals>>
  <2>1. GotoWith(t, AfterShared[s], 0)
    BY <1>3, <1>5, GotoIsGotoWith
  <2>2. count' \in [Kinds -> [Objects -> Int]]
    BY <1>2, <1>4, <1>5, CountTypes
  <2>3. 0 \in Pointer
    BY DEF Pointer
  <2> QED
    BY <1>1, <1>2, <1>t, <1>5, <2>1, <2>2, <2>3, StayFrame
<1>6. CASE /\ SharedBy[s] \notin op[t].flags
           /\ \E o \in Fresh(s) : Took(s, o) /\ task' = [task EXCEPT ![op[t].p][s] = o]
           /\ Goto(t, AfterShared[s])
           /\ UNCHANGED <<vfork, totals>>
  <2>1. PICK o \in Fresh(s) : Took(s, o) /\ Repoint(t, s, o)
    BY <1>6 DEF Repoint
  <2>2. o \in Pointer
    BY DEF Pointer, Fresh
  <2>3. GotoWith(t, AfterShared[s], 0)
    BY <1>3, <1>6, GotoIsGotoWith
  <2>4. count' \in [Kinds -> [Objects -> Int]]
    BY <1>2, <2>1, <2>2, CountTypes
  <2>5. 0 \in Pointer
    BY DEF Pointer
  <2> QED
    BY <1>1, <1>2, <1>t, <1>6, <2>1, <2>2, <2>3, <2>4, <2>5, PointFrame
<1>7. CASE Fail(t, s)
  BY <1>1, <1>2, <1>3, <1>7, FailFrame
<1> QED
  BY <1>1, <1>5, <1>6, <1>7

LEMMA CopySignalFrame ==
  ASSUME ForkTypeOK, Links, NEW t \in Tasks, copy_signal(t)
  PROVE  ForkTypeOK' /\ BuildFrame(t)
<1>1. At(t, "signal") /\ "signal" \in Kinds /\ "signal" \in Building /\ "signal" \in Forward
      /\ "signal" \in DOMAIN ErrorLabels /\ "mm" \in Building /\ SharedFlag["signal"] = "THREAD"
  BY DEF copy_signal, Kinds, Building, Forward, ErrorLabels, SharedFlag
<1>2. op[t].new = 0 /\ 0 \in Pointer
  BY <1>1, AtBuilding DEF Pointer
<1>t. UNCHANGED totals => processes' \in Int /\ UNCHANGED <<nr_threads, total_forks>>
  BY DEF ForkTypeOK, totals
<1>3. CASE "THREAD" \in op[t].flags /\ Goto(t, "mm") /\ UNCHANGED <<task, count, vfork, totals>>
  <2>1. GotoWith(t, "mm", 0)
    BY <1>2, <1>3, GotoIsGotoWith
  <2>2. count' \in [Kinds -> [Objects -> Int]]
    BY <1>3 DEF ForkTypeOK
  <2> QED
    BY <1>1, <1>2, <1>3, <1>t, <2>1, <2>2, StayFrame
<1>4. CASE /\ "THREAD" \notin op[t].flags
           /\ \E o \in Fresh("signal") : Took("signal", o) /\ task' = [task EXCEPT ![op[t].p].signal = o]
           /\ Goto(t, "mm")
           /\ UNCHANGED <<vfork, totals>>
  <2>1. PICK o \in Fresh("signal") : Took("signal", o) /\ Repoint(t, "signal", o)
    BY <1>4 DEF Repoint
  <2>2. o \in Pointer
    BY DEF Pointer, Fresh
  <2>3. GotoWith(t, "mm", 0)
    BY <1>2, <1>4, GotoIsGotoWith
  <2>4. count' \in [Kinds -> [Objects -> Int]]
    BY <1>1, <2>1, <2>2, CountTypes
  <2> QED
    BY <1>1, <1>2, <1>t, <1>4, <2>1, <2>2, <2>3, <2>4, PointFrame
<1>5. CASE Fail(t, "signal")
  BY <1>1, <1>2, <1>5, FailFrame
<1> QED
  BY <1>3, <1>4, <1>5 DEF copy_signal

LEMMA CopyMmFrame ==
  ASSUME ForkTypeOK, Links, NEW t \in Tasks, copy_mm(t)
  PROVE  ForkTypeOK' /\ BuildFrame(t)
<1>1. At(t, "mm") /\ "mm" \in Kinds /\ "mm" \in Building /\ "mm" \in Forward
      /\ {"context", "dup_mmap", OnError("mm")} \subseteq Building /\ SharedFlag["mm"] = "VM"
      /\ OnError("mm") \notin Forward /\ OnError("mm") \notin {"dup_mmap", "binfmt"}
  BY OnErrorUndoes DEF copy_mm, Kinds, Building, Forward, Undoing, SharedFlag
<1>2. /\ op[t].new = 0 /\ 0 \in Pointer /\ task[t] \in TaskStruct
      /\ "VM" \in op[t].flags => task[op[t].p]["mm"] = task[t]["mm"]
  BY <1>1, AtBuilding DEF Pointer
<1>t. processes' \in Int /\ UNCHANGED <<vfork, nr_threads, total_forks>>
  BY DEF ForkTypeOK, totals, copy_mm
<1>3. CASE task[t].mm = 0 /\ task' = [task EXCEPT ![op[t].p].mm = 0] /\ Goto(t, "context") /\ UNCHANGED count
  <2>1. GotoWith(t, "context", 0) /\ Repoint(t, "mm", 0)
    BY <1>2, <1>3, GotoIsGotoWith DEF Repoint
  <2>2. count' \in [Kinds -> [Objects -> Int]]
    BY <1>3 DEF ForkTypeOK
  <2> QED
    BY <1>1, <1>2, <1>3, <1>t, <2>1, <2>2, PointFrame
<1>4. CASE Took("mm", task[t].mm) /\ Goto(t, "context") /\ UNCHANGED task
  <2>1. GotoWith(t, "context", 0)
    BY <1>2, <1>4, GotoIsGotoWith
  <2>2. task[t].mm \in Pointer
    BY <1>2 DEF TaskStruct
  <2>3. count' \in [Kinds -> [Objects -> Int]]
    BY <1>1, <1>4, <2>2, CountTypes
  <2> QED
    BY <1>1, <1>2, <1>t, <1>4, <2>1, <2>3, StayFrame
<1>5. CASE "VM" \notin op[t].flags /\ task' = [task EXCEPT ![op[t].p].mm = 0]
           /\ \E o \in Fresh("mm") : Took("mm", o) /\ op' = [op EXCEPT ![t].pc = "dup_mmap", ![t].new = o]
  <2>1. PICK o \in Fresh("mm") : Took("mm", o) /\ GotoWith(t, "dup_mmap", o)
    BY <1>5 DEF GotoWith
  <2>2. o \in Pointer /\ Repoint(t, "mm", 0)
    BY <1>5 DEF Pointer, Fresh, Repoint
  <2>3. count' \in [Kinds -> [Objects -> Int]]
    BY <1>1, <2>1, <2>2, CountTypes
  <2> QED
    BY <1>1, <1>2, <1>t, <1>5, <2>1, <2>2, <2>3, PointFrame
<1>6. CASE task' = [task EXCEPT ![op[t].p].mm = 0] /\ Goto(t, OnError("mm")) /\ UNCHANGED count
  <2>1. GotoWith(t, OnError("mm"), 0) /\ Repoint(t, "mm", 0)
    BY <1>2, <1>6, GotoIsGotoWith DEF Repoint
  <2>2. count' \in [Kinds -> [Objects -> Int]]
    BY <1>6 DEF ForkTypeOK
  <2> QED
    BY <1>1, <1>2, <1>t, <2>1, <2>2, PointFrame
<1> QED
  BY <1>3, <1>4, <1>5, <1>6 DEF copy_mm

LEMMA DupMmFrame ==
  ASSUME ForkTypeOK, Links, NEW t \in Tasks, dup_mmap(t) \/ get_binfmt(t) \/ free_pt(t)
  PROVE  ForkTypeOK' /\ BuildFrame(t)
<1>1. /\ {"dup_mmap", "binfmt", "free_pt", "context", OnError("mm")} \subseteq Building
      /\ {"dup_mmap", "binfmt", "free_pt", "context"} \subseteq Forward /\ OnError("mm") \notin Forward
      /\ OnError("mm") \notin {"dup_mmap", "binfmt"}
      /\ "mm" \in Kinds /\ SharedFlag["mm"] = "VM" /\ 0 \in Pointer
  BY OnErrorUndoes DEF Kinds, Building, Forward, Undoing, SharedFlag, Pointer
<1>2. op[t].new \in Pointer
  BY DEF ForkTypeOK, Call
<1>t. processes' \in Int /\ UNCHANGED <<vfork, nr_threads, total_forks>>
  BY DEF ForkTypeOK, totals, dup_mmap, get_binfmt, free_pt
<1>3. CASE dup_mmap(t)
  <2>1. At(t, "dup_mmap") /\ UNCHANGED task /\ count' \in [Kinds -> [Objects -> Int]]
    BY <1>3 DEF dup_mmap, ForkTypeOK
  <2>6. "VM" \notin op[t].flags
    BY <2>1 DEF Links, Structure, CallOK, At
  <2>2. Goto(t, "binfmt") \/ Goto(t, "free_pt")
    BY <1>3 DEF dup_mmap
  <2>3. GotoWith(t, "binfmt", op[t].new) \/ GotoWith(t, "free_pt", op[t].new)
    BY <2>2, GotoIsGotoWith
  <2>4. CASE GotoWith(t, "binfmt", op[t].new)
    BY <1>1, <1>2, <1>t, <2>1, <2>4, <2>6, StayFrame
  <2>5. CASE GotoWith(t, "free_pt", op[t].new)
    BY <1>1, <1>2, <1>t, <2>1, <2>5, <2>6, StayFrame
  <2> QED
    BY <2>3, <2>4, <2>5
<1>4. CASE get_binfmt(t)
  <2>1. At(t, "binfmt") /\ count' \in [Kinds -> [Objects -> Int]]
    BY <1>4 DEF get_binfmt, ForkTypeOK
  <2>2. CASE Goto(t, "free_pt") /\ UNCHANGED task
    <3>1. GotoWith(t, "free_pt", op[t].new)
      BY <2>2, GotoIsGotoWith
    <3> QED
      BY <1>1, <1>2, <1>t, <2>1, <2>2, <3>1, StayFrame
  <2>3. CASE /\ task' = [task EXCEPT ![op[t].p].mm = op[t].new]
             /\ op' = [op EXCEPT ![t].pc = "context", ![t].new = 0]
    <3>1. Repoint(t, "mm", op[t].new) /\ GotoWith(t, "context", 0)
      BY <2>3 DEF Repoint, GotoWith
    <3>2. "VM" \notin op[t].flags
      BY <2>1 DEF Links, Structure, CallOK, At
    <3> QED
      BY <1>1, <1>2, <1>t, <2>1, <3>1, <3>2, PointFrame
  <2> QED
    BY <1>4, <2>2, <2>3 DEF get_binfmt
<1>5. CASE free_pt(t)
  <2>1. At(t, "free_pt") /\ UNCHANGED task /\ mmput(op[t].new) /\ GotoWith(t, OnError("mm"), 0)
    BY <1>5 DEF free_pt, GotoWith
  <2>2. count' \in [Kinds -> [Objects -> Int]]
    BY <1>2, <2>1, MmputTypes
  <2> QED
    BY <1>1, <1>2, <1>t, <2>1, <2>2, StayFrame
<1> QED
  BY <1>3, <1>4, <1>5

LEMMA CleanupFrame ==
  ASSUME ForkTypeOK, Links, NEW t \in Tasks,
         CleanupContext(t) \/ CleanupMm(t) \/ CleanupSignal(t) \/ CleanupShared(t)
  PROVE  ForkTypeOK' /\ BuildFrame(t)
<1>1. /\ \A pc \in Undoing : pc \in Building /\ pc \notin Forward /\ pc \notin {"dup_mmap", "binfmt", "free_pt"}
      /\ {"bad_fork_free_pid", "bad_fork_cleanup_io", "bad_fork_cleanup_namespaces", "bad_fork_cleanup_mm",
          "bad_fork_cleanup_signal", "bad_fork_cleanup_sighand"} \subseteq Undoing
      /\ "mm" \in Kinds /\ "signal" \in Kinds /\ 0 \in Pointer
  BY DEF Kinds, Building, Forward, Undoing, Pointer
<1>2. \A pc \in Undoing : At(t, pc) => op[t].new = 0 /\ op[t].p \in Tasks /\ task[op[t].p] \in TaskStruct
  BY <1>1, AtBuilding
<1>t. processes' \in Int /\ UNCHANGED <<vfork, nr_threads, total_forks>>
  BY DEF ForkTypeOK, totals, CleanupContext, CleanupMm, CleanupSignal, CleanupShared
<1>3. CASE CleanupContext(t)
  <2>1. PICK pc \in Undoing, h \in SUBSET HeldNames : At(t, pc) /\ Release(t, h)
    BY <1>3, <1>1 DEF CleanupContext, HeldNames
  <2>2. Goto(t, "bad_fork_cleanup_mm") /\ count' \in [Kinds -> [Objects -> Int]]
    BY <1>3 DEF CleanupContext, ForkTypeOK
  <2> QED
    BY <1>1, <1>2, <1>t, <2>1, <2>2, GainFrame
<1>4. CASE CleanupMm(t)
  <2>1. At(t, "bad_fork_cleanup_mm") /\ Repoint(t, "mm", 0) /\ Goto(t, "bad_fork_cleanup_signal")
    BY <1>4 DEF CleanupMm, Repoint
  <2>2. op[t].new = 0 /\ task[op[t].p].mm \in Pointer
    BY <1>1, <1>2, <2>1 DEF TaskStruct
  <2>3. count' \in [Kinds -> [Objects -> Int]]
    BY <1>4, <2>2, MmputTypes DEF CleanupMm, ForkTypeOK
  <2>4. GotoWith(t, "bad_fork_cleanup_signal", 0)
    BY <2>1, <2>2, GotoIsGotoWith
  <2> QED
    BY <1>1, <1>t, <2>1, <2>3, <2>4, PointFrame
<1>5. CASE CleanupSignal(t)
  <2>1. At(t, "bad_fork_cleanup_signal") /\ UNCHANGED task /\ Goto(t, "bad_fork_cleanup_sighand")
    BY <1>5 DEF CleanupSignal
  <2>2. op[t].new = 0 /\ task[op[t].p].signal \in Pointer
    BY <1>1, <1>2, <2>1 DEF TaskStruct
  <2>3. count' \in [Kinds -> [Objects -> Int]]
    BY <1>1, <1>5, <2>2, CountTypes DEF CleanupSignal, ForkTypeOK
  <2>4. GotoWith(t, "bad_fork_cleanup_sighand", 0)
    BY <2>1, <2>2, GotoIsGotoWith
  <2> QED
    BY <1>1, <1>t, <2>1, <2>3, <2>4, StayFrame
<1>6. CASE CleanupShared(t)
  <2>1. PICK k \in DOMAIN BelowShared : /\ At(t, CleanupAt[k]) /\ Put(k, task[op[t].p][k]) /\ Repoint(t, k, 0)
                                        /\ Goto(t, BelowShared[k])
    BY <1>6 DEF CleanupShared, Repoint
  <2>2. k \in Kinds /\ CleanupAt[k] \in Undoing /\ BelowShared[k] \in Undoing
    BY DEF CleanupAt, BelowShared, Kinds, Undoing
  <2>3. op[t].new = 0 /\ task[op[t].p][k] \in Pointer
    BY <1>2, <2>1, <2>2 DEF TaskStruct, Kinds
  <2>4. count' \in [Kinds -> [Objects -> Int]]
    BY <2>1, <2>2, <2>3, CountTypes
  <2>5. GotoWith(t, BelowShared[k], 0)
    BY <2>1, <2>3, GotoIsGotoWith
  <2> QED
    BY <1>1, <1>t, <2>1, <2>2, <2>4, <2>5, PointFrame
<1> QED
  BY <1>3, <1>4, <1>5, <1>6

-----------------------------------------------------------------------------
(* Steps of a task that creates no other and does not end *)

OwnCall(pc, f, n, m) == [pc |-> pc, p |-> NoTask, flags |-> f, new |-> n, new_fs |-> m, vfork |-> NoTask]

Becomes(t, a) == op' = [op EXCEPT ![t] = a]
Turns(x, r) == task' = [task EXCEPT ![x] = r]

MayHaveNew == {"mm_access", "unshare_ns", "unshare_install", "bad_unshare_cleanup_fd"}
MayHaveFs == {"unshare_fd", "unshare_ns", "unshare_install", "bad_unshare_cleanup_fd", "bad_unshare_cleanup_fs"}

(* What CallOK says of a task at one of its own stages.                       *)
OwnOK(pc, n, m, me) ==
  /\ pc \in Own \ {"complete"} /\ me.st = "running"
  /\ pc \in Released => me.vfork_done = NoTask
  /\ pc \in {"exit_files", "exit_fs", "release"} => me.mm = 0
  /\ pc \in {"exit_fs", "release"} => me.files = 0
  /\ pc = "release" => me.fs = 0
  /\ n # 0 => pc \in MayHaveNew
  /\ m # 0 => pc \in MayHaveFs

OwnFrame(t) ==
  /\ Frame(t, t) /\ task[t].st = "running" /\ op[t].pc \in Own \ {"complete"}
  /\ op[t] = OwnCall(op[t].pc, op[t].flags, op[t].new, op[t].new_fs)
  /\ op'[t] = OwnCall(op'[t].pc, op'[t].flags, op'[t].new, op'[t].new_fs)
  /\ OwnOK(op'[t].pc, op'[t].new, op'[t].new_fs, task'[t])
  /\ task'[t].usage = task[t].usage /\ task'[t].signal = task[t].signal /\ task'[t].sighand = task[t].sighand
  /\ task'[t].vfork_done = task[t].vfork_done /\ task'[t].alloc_lock = task[t].alloc_lock
  /\ task'[t].mm \in {task[t].mm, 0}
  /\ UNCHANGED <<vfork, totals>>

LEMMA AtOwn ==
  ASSUME ForkTypeOK, Links, NEW t \in Tasks, NEW pc \in Own \ {"complete"}, At(t, pc)
  PROVE  /\ op[t] = OwnCall(pc, op[t].flags, op[t].new, op[t].new_fs) /\ op[t].pc = pc
         /\ op[t].flags \in FlagSets /\ op[t].new \in Pointer /\ op[t].new_fs \in Pointer
         /\ task[t] \in TaskStruct /\ OwnOK(pc, op[t].new, op[t].new_fs, task[t])
<1>1. CallOK(t, op[t], task[t], task[op[t].p]) /\ op[t].pc = pc /\ task[t].st = "running"
  BY DEF Links, Structure, At
<1>2. op[t] \in Call /\ task[t] \in TaskStruct
  BY DEF ForkTypeOK
<1>3. op[t].p = NoTask /\ op[t].vfork = NoTask
  BY <1>1 DEF CallOK
<1>4. OwnOK(pc, op[t].new, op[t].new_fs, task[t])
  BY <1>1 DEF CallOK, OwnOK, Own, MayHaveNew, MayHaveFs, Unsharing, Released
<1>5. op[t] = OwnCall(pc, op[t].flags, op[t].new, op[t].new_fs)
  BY <1>1, <1>2, <1>3 DEF OwnCall, Call
<1> QED
  BY <1>1, <1>2, <1>4, <1>5 DEF Call

LEMMA OwnCallFields ==
  ASSUME NEW pc, NEW f, NEW n, NEW m
  PROVE  /\ OwnCall(pc, f, n, m).pc = pc /\ OwnCall(pc, f, n, m).p = NoTask /\ OwnCall(pc, f, n, m).flags = f
         /\ OwnCall(pc, f, n, m).new = n /\ OwnCall(pc, f, n, m).new_fs = m /\ OwnCall(pc, f, n, m).vfork = NoTask
         /\ pc \in Pcs /\ f \in FlagSets /\ n \in Pointer /\ m \in Pointer => OwnCall(pc, f, n, m) \in Call
BY DEF OwnCall, Call

LEMMA OwnMove ==
  ASSUME ForkTypeOK, Links, NEW t \in Tasks, NEW pc \in Own \ {"complete"}, At(t, pc),
         NEW next, NEW f \in FlagSets, NEW n \in Pointer, NEW m \in Pointer, Becomes(t, OwnCall(next, f, n, m)),
         NEW r \in TaskStruct, Turns(t, r), OwnOK(next, n, m, r),
         r.usage = task[t].usage, r.signal = task[t].signal, r.sighand = task[t].sighand,
         r.vfork_done = task[t].vfork_done, r.alloc_lock = task[t].alloc_lock,
         r.mm \in {task[t].mm, 0},
         count' \in [Kinds -> [Objects -> Int]], UNCHANGED <<vfork, totals>>
  PROVE  ForkTypeOK' /\ OwnFrame(t)
<1> DEFINE a == OwnCall(next, f, n, m)
<1>1. /\ a.pc = next /\ a.flags = f /\ a.new = n /\ a.new_fs = m /\ a \in Call /\ next \in Own \ {"complete"}
  BY OwnCallFields DEF OwnOK, Pcs
<1>2. a = OwnCall(a.pc, a.flags, a.new, a.new_fs)
  BY <1>1
<1>3. /\ op[t] = OwnCall(pc, op[t].flags, op[t].new, op[t].new_fs) /\ op[t].pc = pc /\ task[t].st = "running"
  BY AtOwn DEF OwnOK
<1>4. Becomes(t, a)
  OBVIOUS
<1> HIDE DEF a
<1>5. op'[t] = a /\ task'[t] = r /\ Frame(t, t)
  BY <1>4 DEF Becomes, Turns, Frame, ForkTypeOK
<1>6. ForkTypeOK'
  BY <1>1, <1>4 DEF Becomes, Turns, ForkTypeOK, totals
<1>7. OwnFrame(t)
  BY <1>1, <1>2, <1>3, <1>5 DEF OwnFrame
<1> QED
  BY <1>6, <1>7

(* ... that leave the task_struct alone.                                      *)
LEMMA OwnGoto ==
  ASSUME ForkTypeOK, Links, NEW t \in Tasks, NEW pc \in Own \ {"complete"}, At(t, pc),
         NEW next, NEW f \in FlagSets, NEW n \in Pointer, NEW m \in Pointer, Becomes(t, OwnCall(next, f, n, m)),
         OwnOK(next, n, m, task[t]), UNCHANGED task,
         count' \in [Kinds -> [Objects -> Int]], UNCHANGED <<vfork, totals>>
  PROVE  ForkTypeOK' /\ OwnFrame(t)
<1> DEFINE r == task[t]
<1>1. r \in TaskStruct /\ Turns(t, r) /\ r = task[t]
  BY DEF ForkTypeOK, Turns
<1> HIDE DEF r
<1>2. /\ r.usage = task[t].usage /\ r.signal = task[t].signal /\ r.sighand = task[t].sighand
      /\ r.vfork_done = task[t].vfork_done /\ r.alloc_lock = task[t].alloc_lock
      /\ r.mm \in {task[t].mm, 0} /\ OwnOK(next, n, m, r)
  BY <1>1
<1> QED
  BY <1>1, <1>2, OwnMove

LEMMA EntryIsIdle ==
  ASSUME ForkTypeOK, Links, NEW t \in Tasks, Entry(t)
  PROVE  /\ At(t, "idle") /\ "idle" \in Own \ {"complete"} /\ op[t].new = 0 /\ op[t].new_fs = 0
         /\ op[t] = OwnCall("idle", op[t].flags, 0, 0)
         /\ op[t].flags \in FlagSets /\ task[t] \in TaskStruct /\ task[t].st = "running"
<1>1. At(t, "idle") /\ "idle" \in Own \ {"complete"}
  BY DEF Entry, Own
<1>2. /\ op[t] = OwnCall("idle", op[t].flags, op[t].new, op[t].new_fs)
      /\ OwnOK("idle", op[t].new, op[t].new_fs, task[t]) /\ task[t] \in TaskStruct /\ op[t].flags \in FlagSets
  BY <1>1, AtOwn
<1>3. op[t].new = 0 /\ op[t].new_fs = 0 /\ task[t].st = "running"
  BY <1>2 DEF OwnOK, MayHaveNew, MayHaveFs
<1> QED
  BY <1>1, <1>2, <1>3

(* How the calls are written in the actions.                                  *)
LEMMA OwnNext ==
  ASSUME ForkTypeOK, NEW t \in Tasks, NEW pc, NEW f, NEW n, NEW m, op[t] = OwnCall(pc, f, n, m)
  PROVE  /\ \A x : op' = [op EXCEPT ![t].pc = x] => Becomes(t, OwnCall(x, f, n, m))
         /\ \A x, v : op' = [op EXCEPT ![t].pc = x, ![t].new = v] => Becomes(t, OwnCall(x, f, v, m))
         /\ \A x, v : op' = [op EXCEPT ![t].pc = x, ![t].new_fs = v] => Becomes(t, OwnCall(x, f, n, v))
         /\ \A x, v : op' = [op EXCEPT ![t].pc = x, ![t].flags = v] => Becomes(t, OwnCall(x, v, n, m))
         /\ \A x, v, w : op' = [op EXCEPT ![t].pc = x, ![t].new_fs = v, ![t].new = w]
                            => Becomes(t, OwnCall(x, f, w, v))
         /\ op' = [op EXCEPT ![t] = Idle] => Becomes(t, OwnCall("idle", {}, 0, 0))
<1>0. op \in [Tasks -> Call]
  BY DEF ForkTypeOK
<1> DEFINE a == op[t]
<1>a. a = OwnCall(pc, f, n, m)
  OBVIOUS
<1> HIDE DEF a
<1>e1. ASSUME NEW x PROVE [a EXCEPT !.pc = x] = OwnCall(x, f, n, m)
  <2> DEFINE T == [pc : {pc, x}, p : {NoTask}, flags : {f}, new : {n}, new_fs : {m}, vfork : {NoTask}]
             b == [a EXCEPT !.pc = x]
  <2>1. b \in T /\ b.pc = x /\ b.flags = f /\ b.new = n /\ b.new_fs = m
    BY <1>a DEF OwnCall
  <2>2. \A y \in T : y = OwnCall(y.pc, y.flags, y.new, y.new_fs)
    BY DEF OwnCall
  <2> HIDE DEF b, T
  <2>3. b = OwnCall(b.pc, b.flags, b.new, b.new_fs)
    BY <2>1, <2>2
  <2> QED
    BY <2>1, <2>3 DEF b
<1>e2. ASSUME NEW x, NEW v PROVE [a EXCEPT !.pc = x, !.new = v] = OwnCall(x, f, v, m)
  <2> DEFINE T == [pc : {pc, x}, p : {NoTask}, flags : {f, v}, new : {n, v}, new_fs : {m, v}, vfork : {NoTask}]
             b == [a EXCEPT !.pc = x, !.new = v]
  <2>1. b \in T /\ b.pc = x /\ b.flags = f /\ b.new = v /\ b.new_fs = m
    BY <1>a DEF OwnCall
  <2>2. \A y \in T : y = OwnCall(y.pc, y.flags, y.new, y.new_fs)
    BY DEF OwnCall
  <2> HIDE DEF b, T
  <2>3. b = OwnCall(b.pc, b.flags, b.new, b.new_fs)
    BY <2>1, <2>2
  <2> QED
    BY <2>1, <2>3 DEF b
<1>e3. ASSUME NEW x, NEW v PROVE [a EXCEPT !.pc = x, !.new_fs = v] = OwnCall(x, f, n, v)
  <2> DEFINE T == [pc : {pc, x}, p : {NoTask}, flags : {f, v}, new : {n, v}, new_fs : {m, v}, vfork : {NoTask}]
             b == [a EXCEPT !.pc = x, !.new_fs = v]
  <2>1. b \in T /\ b.pc = x /\ b.flags = f /\ b.new = n /\ b.new_fs = v
    BY <1>a DEF OwnCall
  <2>2. \A y \in T : y = OwnCall(y.pc, y.flags, y.new, y.new_fs)
    BY DEF OwnCall
  <2> HIDE DEF b, T
  <2>3. b = OwnCall(b.pc, b.flags, b.new, b.new_fs)
    BY <2>1, <2>2
  <2> QED
    BY <2>1, <2>3 DEF b
<1>e4. ASSUME NEW x, NEW v PROVE [a EXCEPT !.pc = x, !.flags = v] = OwnCall(x, v, n, m)
  <2> DEFINE T == [pc : {pc, x}, p : {NoTask}, flags : {f, v}, new : {n, v}, new_fs : {m, v}, vfork : {NoTask}]
             b == [a EXCEPT !.pc = x, !.flags = v]
  <2>1. b \in T /\ b.pc = x /\ b.flags = v /\ b.new = n /\ b.new_fs = m
    BY <1>a DEF OwnCall
  <2>2. \A y \in T : y = OwnCall(y.pc, y.flags, y.new, y.new_fs)
    BY DEF OwnCall
  <2> HIDE DEF b, T
  <2>3. b = OwnCall(b.pc, b.flags, b.new, b.new_fs)
    BY <2>1, <2>2
  <2> QED
    BY <2>1, <2>3 DEF b
<1>e5. ASSUME NEW x, NEW v, NEW w PROVE [a EXCEPT !.pc = x, !.new_fs = v, !.new = w] = OwnCall(x, f, w, v)
  <2> DEFINE T == [pc : {pc, x}, p : {NoTask}, flags : {f, v}, new : {n, v, w}, new_fs : {m, v}, vfork : {NoTask}]
             b == [a EXCEPT !.pc = x, !.new_fs = v, !.new = w]
  <2>1. b \in T /\ b.pc = x /\ b.flags = f /\ b.new = w /\ b.new_fs = v
    BY <1>a DEF OwnCall
  <2>2. \A y \in T : y = OwnCall(y.pc, y.flags, y.new, y.new_fs)
    BY DEF OwnCall
  <2> HIDE DEF b, T
  <2>3. b = OwnCall(b.pc, b.flags, b.new, b.new_fs)
    BY <2>1, <2>2
  <2> QED
    BY <2>1, <2>3 DEF b
<1>1. ASSUME NEW x, op' = [op EXCEPT ![t].pc = x] PROVE Becomes(t, OwnCall(x, f, n, m))
  <2>1. op' = [op EXCEPT ![t] = [op[t] EXCEPT !.pc = x]]
    BY <1>0, <1>1
  <2>2. [op[t] EXCEPT !.pc = x] = OwnCall(x, f, n, m)
    BY <1>e1, Zenon DEF a
  <2> QED
    BY <2>1, <2>2 DEF Becomes
<1>2. ASSUME NEW x, NEW v, op' = [op EXCEPT ![t].pc = x, ![t].new = v] PROVE Becomes(t, OwnCall(x, f, v, m))
  <2>1. op' = [op EXCEPT ![t] = [op[t] EXCEPT !.pc = x, !.new = v]]
    BY <1>0, <1>2
  <2>2. [op[t] EXCEPT !.pc = x, !.new = v] = OwnCall(x, f, v, m)
    BY <1>e2, Zenon DEF a
  <2> QED
    BY <2>1, <2>2 DEF Becomes
<1>3. ASSUME NEW x, NEW v, op' = [op EXCEPT ![t].pc = x, ![t].new_fs = v] PROVE Becomes(t, OwnCall(x, f, n, v))
  <2>1. op' = [op EXCEPT ![t] = [op[t] EXCEPT !.pc = x, !.new_fs = v]]
    BY <1>0, <1>3
  <2>2. [op[t] EXCEPT !.pc = x, !.new_fs = v] = OwnCall(x, f, n, v)
    BY <1>e3, Zenon DEF a
  <2> QED
    BY <2>1, <2>2 DEF Becomes
<1>4. ASSUME NEW x, NEW v, op' = [op EXCEPT ![t].pc = x, ![t].flags = v] PROVE Becomes(t, OwnCall(x, v, n, m))
  <2>1. op' = [op EXCEPT ![t] = [op[t] EXCEPT !.pc = x, !.flags = v]]
    BY <1>0, <1>4
  <2>2. [op[t] EXCEPT !.pc = x, !.flags = v] = OwnCall(x, v, n, m)
    BY <1>e4, Zenon DEF a
  <2> QED
    BY <2>1, <2>2 DEF Becomes
<1>5. ASSUME NEW x, NEW v, NEW w, op' = [op EXCEPT ![t].pc = x, ![t].new_fs = v, ![t].new = w] PROVE Becomes(t, OwnCall(x, f, w, v))
  <2>1. op' = [op EXCEPT ![t] = [op[t] EXCEPT !.pc = x, !.new_fs = v, !.new = w]]
    BY <1>0, <1>5
  <2>2. [op[t] EXCEPT !.pc = x, !.new_fs = v, !.new = w] = OwnCall(x, f, w, v)
    BY <1>e5, Zenon DEF a
  <2> QED
    BY <2>1, <2>2 DEF Becomes
<1>6. op' = [op EXCEPT ![t] = Idle] => Becomes(t, OwnCall("idle", {}, 0, 0))
  BY DEF Becomes, Idle, OwnCall
<1> QED
  BY <1>1, <1>2, <1>3, <1>4, <1>5, <1>6, Zenon

LEMMA EmptyFlags == {} \in FlagSets /\ 0 \in Pointer /\ \A f \in UnshareFlags : Closure(f) \in FlagSets
BY DEF FlagSets, Pointer

LEMMA MmAccessFrame ==
  ASSUME ForkTypeOK, Links, NEW t \in Tasks, mm_access(t) \/ mm_access_end(t)
  PROVE  ForkTypeOK' /\ OwnFrame(t)
<1>1. CASE mm_access(t)
  <2>1. Entry(t) /\ UNCHANGED <<task, vfork, totals>>
    BY <1>1 DEF mm_access
  <2>2. PICK u \in Tasks : Took("mm", task[u].mm) /\ op' = [op EXCEPT ![t].pc = "mm_access", ![t].new = task[u].mm]
    BY <1>1 DEF mm_access
  <2> DEFINE o == task[u].mm
  <2>3. o \in Pointer /\ "mm" \in Kinds
    BY DEF ForkTypeOK, TaskStruct, Kinds
  <2>4. Took("mm", o) /\ op' = [op EXCEPT ![t].pc = "mm_access", ![t].new = o]
    BY <2>2
  <2> HIDE DEF o
  <2>5. /\ At(t, "idle") /\ "idle" \in Own \ {"complete"}
        /\ op[t] = OwnCall("idle", op[t].flags, 0, 0)
        /\ op[t].flags \in FlagSets /\ task[t].st = "running"
    BY <2>1, EntryIsIdle
  <2>6. Becomes(t, OwnCall("mm_access", op[t].flags, o, 0))
    BY <2>4, <2>5, OwnNext
  <2>7. OwnOK("mm_access", o, 0, task[t])
    BY <2>5 DEF OwnOK, Own, MayHaveNew, Released, Unsharing
  <2>8. count' \in [Kinds -> [Objects -> Int]]
    BY <2>3, <2>4, CountTypes
  <2> QED
    BY <2>1, <2>3, <2>5, <2>6, <2>7, <2>8, EmptyFlags, OwnGoto
<1>2. CASE mm_access_end(t)
  <2>1. At(t, "mm_access") /\ mmput(op[t].new) /\ op' = [op EXCEPT ![t] = Idle] /\ UNCHANGED <<task, vfork, totals>>
    BY <1>2 DEF mm_access_end
  <2>2. "mm_access" \in Own \ {"complete"}
    BY DEF Own
  <2>3. /\ op[t] = OwnCall("mm_access", op[t].flags, op[t].new, op[t].new_fs) /\ op[t].new \in Pointer
        /\ task[t].st = "running"
    BY <2>1, <2>2, AtOwn DEF OwnOK
  <2>4. Becomes(t, OwnCall("idle", {}, 0, 0))
    BY <2>1, <2>3, OwnNext
  <2>5. OwnOK("idle", 0, 0, task[t])
    BY <2>3 DEF OwnOK, Own, Released
  <2>6. count' \in [Kinds -> [Objects -> Int]]
    BY <2>1, <2>3, MmputTypes
  <2> QED
    BY <2>1, <2>2, <2>4, <2>5, <2>6, EmptyFlags, OwnGoto
<1> QED
  BY <1>1, <1>2

LEMMA UnshareFrame ==
  ASSUME ForkTypeOK, Links, NEW t \in Tasks,
         unshare(t) \/ unshare_fs(t) \/ unshare_fd(t) \/ unshare_namespaces(t)
  PROVE  ForkTypeOK' /\ OwnFrame(t)
<1>u. UNCHANGED <<task, vfork, totals>>
  BY DEF unshare, unshare_fs, unshare_fd, unshare_namespaces
<1>k. "fs" \in Kinds /\ "files" \in Kinds /\ count \in [Kinds -> [Objects -> Int]]
  BY DEF Kinds, ForkTypeOK
<1>p. \A k : Fresh(k) \subseteq Pointer
  BY DEF Fresh, Pointer
<1>1. CASE unshare(t)
  <2>1. PICK f \in UnshareFlags : op' = [op EXCEPT ![t].pc = "unshare_fs", ![t].flags = Closure(f)]
    BY <1>1 DEF unshare
  <2>2. Entry(t) /\ UNCHANGED count
    BY <1>1 DEF unshare
  <2>3. /\ At(t, "idle") /\ "idle" \in Own \ {"complete"} /\ op[t] = OwnCall("idle", op[t].flags, 0, 0)
        /\ task[t].st = "running"
    BY <2>2, EntryIsIdle
  <2>4. Becomes(t, OwnCall("unshare_fs", Closure(f), 0, 0))
    BY <2>1, <2>3, OwnNext
  <2>5. OwnOK("unshare_fs", 0, 0, task[t])
    BY <2>3 DEF OwnOK, Own, Released, Unsharing
  <2> QED
    BY <1>u, <1>k, <2>2, <2>3, <2>4, <2>5, EmptyFlags, OwnGoto
<1>2. CASE unshare_fs(t)
  <2>1. At(t, "unshare_fs") /\ "unshare_fs" \in Own \ {"complete"}
    BY <1>2 DEF unshare_fs, Own, Unsharing
  <2>2. /\ op[t] = OwnCall("unshare_fs", op[t].flags, op[t].new, op[t].new_fs) /\ op[t].flags \in FlagSets
        /\ OwnOK("unshare_fs", op[t].new, op[t].new_fs, task[t])
    BY <2>1, AtOwn
  <2>3. op[t] = OwnCall("unshare_fs", op[t].flags, 0, 0) /\ task[t].st = "running"
    BY <2>2 DEF OwnOK, MayHaveNew, MayHaveFs
  <2>4. CASE \E o \in Fresh("fs") : Took("fs", o) /\ op' = [op EXCEPT ![t].pc = "unshare_fd", ![t].new_fs = o]
    <3>1. PICK o \in Fresh("fs") : Took("fs", o) /\ op' = [op EXCEPT ![t].pc = "unshare_fd", ![t].new_fs = o]
      BY <2>4
    <3>2. Becomes(t, OwnCall("unshare_fd", op[t].flags, 0, o)) /\ o \in Pointer
      BY <3>1, <2>3, <1>p, OwnNext
    <3>3. OwnOK("unshare_fd", 0, o, task[t])
      BY <2>3 DEF OwnOK, Own, Released, Unsharing, MayHaveFs
    <3>4. count' \in [Kinds -> [Objects -> Int]]
      BY <3>1, <3>2, <1>k, CountTypes
    <3> QED
      BY <1>u, <2>1, <2>2, <3>2, <3>3, <3>4, EmptyFlags, OwnGoto
  <2>5. CASE op' = [op EXCEPT ![t] = Idle] /\ UNCHANGED count
    <3>1. Becomes(t, OwnCall("idle", {}, 0, 0))
      BY <2>5, <2>3, OwnNext
    <3>2. OwnOK("idle", 0, 0, task[t])
      BY <2>3 DEF OwnOK, Own, Released
    <3> QED
      BY <1>u, <1>k, <2>1, <2>5, <3>1, <3>2, EmptyFlags, OwnGoto
  <2>6. CASE Goto(t, "unshare_fd") /\ UNCHANGED count
    <3>1. Becomes(t, OwnCall("unshare_fd", op[t].flags, 0, 0))
      BY <2>6, <2>3, OwnNext DEF Goto
    <3>2. OwnOK("unshare_fd", 0, 0, task[t])
      BY <2>3 DEF OwnOK, Own, Released, Unsharing
    <3> QED
      BY <1>u, <1>k, <2>1, <2>2, <2>6, <3>1, <3>2, EmptyFlags, OwnGoto
  <2> QED
    BY <1>2, <2>4, <2>5, <2>6 DEF unshare_fs
<1>3. CASE unshare_fd(t)
  <2>1. At(t, "unshare_fd") /\ "unshare_fd" \in Own \ {"complete"}
    BY <1>3 DEF unshare_fd, Own, Unsharing
  <2> DEFINE m == op[t].new_fs
  <2>2. /\ op[t] = OwnCall("unshare_fd", op[t].flags, op[t].new, m) /\ op[t].flags \in FlagSets /\ m \in Pointer
        /\ OwnOK("unshare_fd", op[t].new, m, task[t])
    BY <2>1, AtOwn
  <2>3. op[t] = OwnCall("unshare_fd", op[t].flags, 0, m) /\ task[t].st = "running"
    BY <2>2 DEF OwnOK, MayHaveNew, MayHaveFs
  <2> HIDE DEF m
  <2>4. CASE \E o \in Fresh("files") : Took("files", o) /\ op' = [op EXCEPT ![t].pc = "unshare_ns", ![t].new = o]
    <3>1. PICK o \in Fresh("files") : Took("files", o) /\ op' = [op EXCEPT ![t].pc = "unshare_ns", ![t].new = o]
      BY <2>4
    <3>2. Becomes(t, OwnCall("unshare_ns", op[t].flags, o, m)) /\ o \in Pointer
      BY <3>1, <2>3, <1>p, OwnNext
    <3>3. OwnOK("unshare_ns", o, m, task[t])
      BY <2>3 DEF OwnOK, Own, Released, Unsharing, MayHaveFs, MayHaveNew
    <3>4. count' \in [Kinds -> [Objects -> Int]]
      BY <3>1, <3>2, <1>k, CountTypes
    <3> QED
      BY <1>u, <2>1, <2>2, <3>2, <3>3, <3>4, EmptyFlags, OwnGoto
  <2>5. ASSUME NEW pc \in {"bad_unshare_cleanup_fs", "unshare_ns"}, Goto(t, pc), UNCHANGED count
        PROVE  ForkTypeOK' /\ OwnFrame(t)
    <3>1. Becomes(t, OwnCall(pc, op[t].flags, 0, m))
      BY <2>5, <2>3, OwnNext DEF Goto
    <3>2. OwnOK(pc, 0, m, task[t])
      BY <2>3 DEF OwnOK, Own, Released, Unsharing, MayHaveFs
    <3> QED
      BY <1>u, <1>k, <2>1, <2>2, <2>5, <3>1, <3>2, EmptyFlags, OwnGoto
  <2> QED
    BY <1>3, <2>4, <2>5 DEF unshare_fd
<1>4. CASE unshare_namespaces(t)
  <2>1. At(t, "unshare_ns") /\ "unshare_ns" \in Own \ {"complete"} /\ UNCHANGED count
    BY <1>4 DEF unshare_namespaces, Own, Unsharing
  <2>2. /\ op[t] = OwnCall("unshare_ns", op[t].flags, op[t].new, op[t].new_fs) /\ op[t].flags \in FlagSets
        /\ op[t].new_fs \in Pointer /\ op[t].new \in Pointer /\ OwnOK("unshare_ns", op[t].new, op[t].new_fs, task[t])
    BY <2>1, AtOwn
  <2>3. PICK pc \in {"unshare_install", "bad_unshare_cleanup_fd"} : Goto(t, pc)
    BY <1>4 DEF unshare_namespaces
  <2>4. Becomes(t, OwnCall(pc, op[t].flags, op[t].new, op[t].new_fs))
    BY <2>2, <2>3, OwnNext DEF Goto
  <2>5. OwnOK(pc, op[t].new, op[t].new_fs, task[t])
    BY <2>2 DEF OwnOK, Own, Released, Unsharing, MayHaveFs, MayHaveNew
  <2> QED
    BY <1>u, <1>k, <2>1, <2>2, <2>4, <2>5, OwnGoto
<1> QED
  BY <1>1, <1>2, <1>3, <1>4

Pointed(q, k, o) == [q EXCEPT ![k] = o]

SameButPointers(r, q) ==
  /\ r.st = q.st /\ r.usage = q.usage /\ r.held = q.held /\ r.vfork_done = q.vfork_done
  /\ r.alloc_lock = q.alloc_lock

LEMMA PointedFields ==
  ASSUME NEW q \in TaskStruct, NEW k \in Kinds, NEW o \in Pointer
  PROVE  /\ Pointed(q, k, o) \in TaskStruct /\ SameButPointers(Pointed(q, k, o), q)
         /\ Pointed(q, k, o)[k] = o /\ \A j \in Kinds : j # k => Pointed(q, k, o)[j] = q[j]
BY DEF Pointed, SameButPointers, TaskStruct, Kinds

LEMMA UnshareInstallFrame ==
  ASSUME ForkTypeOK, Links, NEW t \in Tasks, unshare_install(t)
  PROVE  ForkTypeOK' /\ OwnFrame(t)
<1> DEFINE q == task[t]
           n == op[t].new
           m == op[t].new_fs
           o1 == IF m # 0 THEN m ELSE q.fs
           o2 == IF n # 0 THEN n ELSE q.files
           r1 == Pointed(q, "fs", o1)
           r == Pointed(r1, "files", o2)
           last == count["fs"][q.fs] = 1
           m1 == IF m # 0 /\ last THEN q.fs ELSE 0
           n1 == IF n # 0 THEN q.files ELSE 0
<1>1. At(t, "unshare_install") /\ "unshare_install" \in Own \ {"complete"} /\ UNCHANGED <<vfork, totals>>
  BY DEF unshare_install, Own, Unsharing
<1>2. /\ op[t] = OwnCall("unshare_install", op[t].flags, n, m) /\ op[t].flags \in FlagSets /\ q \in TaskStruct
      /\ n \in Pointer /\ m \in Pointer /\ OwnOK("unshare_install", n, m, q)
  BY <1>1, AtOwn
<1>3. q.fs \in Pointer /\ q.files \in Pointer /\ "fs" \in Kinds /\ "files" \in Kinds /\ n1 \in Pointer /\ m1 \in Pointer
      /\ o1 \in Pointer /\ o2 \in Pointer
  BY <1>2, EmptyFlags DEF TaskStruct, Kinds
<1>4. /\ r1 \in TaskStruct /\ SameButPointers(r1, q) /\ r1["mm"] = q["mm"] /\ r1["signal"] = q["signal"]
      /\ r1["sighand"] = q["sighand"] /\ r1["files"] = q["files"]
  <2> HIDE DEF o1, o2, q
  <2>0. q \in TaskStruct /\ "fs" \in Kinds /\ o1 \in Pointer
    BY <1>2, <1>3
  <2>1. r1 \in TaskStruct /\ SameButPointers(r1, q) /\ \A j \in Kinds : j # "fs" => r1[j] = q[j]
    BY <2>0, PointedFields, Zenon
  <2> HIDE DEF r1
  <2> QED
    BY <2>1 DEF Kinds
<1>5. /\ r \in TaskStruct /\ SameButPointers(r, r1) /\ r["mm"] = r1["mm"] /\ r["signal"] = r1["signal"]
      /\ r["sighand"] = r1["sighand"]
  <2> HIDE DEF r1, o2
  <2>0. r1 \in TaskStruct /\ "files" \in Kinds /\ o2 \in Pointer
    BY <1>3, <1>4
  <2>1. r \in TaskStruct /\ SameButPointers(r, r1) /\ \A j \in Kinds : j # "files" => r[j] = r1[j]
    BY <2>0, PointedFields, Zenon
  <2> HIDE DEF r
  <2> QED
    BY <2>1 DEF Kinds
<1>6. Turns(t, r)
  <2>1. task' = [task EXCEPT ![t].fs = o1, ![t].files = o2]
    BY <1>2 DEF unshare_install, ForkTypeOK, TaskStruct
  <2> HIDE DEF o1, o2
  <2>2. task' = [task EXCEPT ![t] = [q EXCEPT !.fs = o1, !.files = o2]]
    BY <2>1 DEF ForkTypeOK
  <2>3. r = [q EXCEPT !.fs = o1, !.files = o2]
    <3> HIDE DEF q
    <3> QED
      BY DEF Pointed
  <2> HIDE DEF r
  <2> QED
    BY <2>2, <2>3 DEF Turns
<1>7. Becomes(t, OwnCall("bad_unshare_cleanup_fd", op[t].flags, n1, m1))
  <2>1. op' = [op EXCEPT ![t].pc = "bad_unshare_cleanup_fd", ![t].new_fs = m1, ![t].new = n1]
    BY DEF unshare_install, ForkTypeOK, Call
  <2> HIDE DEF n1, m1, n, m
  <2> QED
    BY <1>2, <2>1, OwnNext
<1>8. count' \in [Kinds -> [Objects -> Int]]
  <2> DEFINE o == q.fs
             c == [count EXCEPT !["fs"][o] = @ - 1]
  <2>1. c \in [Kinds -> [Objects -> Int]]
    <3> HIDE DEF o
    <3>1. o \in Pointer
      BY <1>3 DEF o
    <3> QED
      BY <1>3, <3>1, TookType DEF ForkTypeOK, Counters
  <2>2. count' = c \/ count' = count
    BY DEF unshare_install
  <2> HIDE DEF c
  <2> QED
    BY <2>1, <2>2 DEF ForkTypeOK
<1> HIDE DEF r1, n1, m1, o1, o2
<1>9. /\ r.st = q.st /\ r.usage = q.usage /\ r.signal = q.signal /\ r.sighand = q.sighand
      /\ r.vfork_done = q.vfork_done /\ r.alloc_lock = q.alloc_lock /\ r.mm = q.mm
  BY <1>4, <1>5 DEF SameButPointers
<1> HIDE DEF r, n, m
<1>10. OwnOK("bad_unshare_cleanup_fd", n1, m1, r)
  BY <1>2, <1>9 DEF OwnOK, Own, Unsharing, Released, MayHaveNew, MayHaveFs
<1> QED
  BY <1>1, <1>2, <1>3, <1>5, <1>6, <1>7, <1>8, <1>9, <1>10, OwnMove

LEMMA UnshareEndFrame ==
  ASSUME ForkTypeOK, Links, NEW t \in Tasks, unshare_cleanup_fd(t) \/ unshare_cleanup_fs(t)
  PROVE  ForkTypeOK' /\ OwnFrame(t)
<1>k. "fs" \in Kinds /\ "files" \in Kinds /\ count \in [Kinds -> [Objects -> Int]]
  BY DEF Kinds, ForkTypeOK
<1>1. CASE unshare_cleanup_fd(t)
  <2> DEFINE n == op[t].new
             m == op[t].new_fs
  <2>1. At(t, "bad_unshare_cleanup_fd") /\ "bad_unshare_cleanup_fd" \in Own \ {"complete"} /\ UNCHANGED <<task, vfork, totals>>
        /\ op' = [op EXCEPT ![t].pc = "bad_unshare_cleanup_fs", ![t].new = 0]
    BY <1>1 DEF unshare_cleanup_fd, Own, Unsharing
  <2>2. /\ op[t] = OwnCall("bad_unshare_cleanup_fd", op[t].flags, n, m) /\ op[t].flags \in FlagSets
        /\ n \in Pointer /\ m \in Pointer /\ OwnOK("bad_unshare_cleanup_fd", n, m, task[t])
    BY <2>1, AtOwn
  <2>3. count' \in [Kinds -> [Objects -> Int]]
    BY <1>1, <1>k, <2>2, CountTypes DEF unshare_cleanup_fd
  <2> HIDE DEF n, m
  <2>4. Becomes(t, OwnCall("bad_unshare_cleanup_fs", op[t].flags, 0, m))
    BY <2>1, <2>2, OwnNext
  <2>5. OwnOK("bad_unshare_cleanup_fs", 0, m, task[t])
    BY <2>2 DEF OwnOK, Own, Unsharing, Released, MayHaveFs
  <2> QED
    BY <2>1, <2>2, <2>3, <2>4, <2>5, EmptyFlags, OwnGoto
<1>2. CASE unshare_cleanup_fs(t)
  <2> DEFINE n == op[t].new
             m == op[t].new_fs
  <2>1. At(t, "bad_unshare_cleanup_fs") /\ "bad_unshare_cleanup_fs" \in Own \ {"complete"} /\ UNCHANGED <<task, vfork, totals>>
        /\ op' = [op EXCEPT ![t] = Idle]
    BY <1>2 DEF unshare_cleanup_fs, Own, Unsharing
  <2>2. /\ op[t] = OwnCall("bad_unshare_cleanup_fs", op[t].flags, n, m)
        /\ n \in Pointer /\ m \in Pointer /\ OwnOK("bad_unshare_cleanup_fs", n, m, task[t])
    BY <2>1, AtOwn
  <2>3. count' \in [Kinds -> [Objects -> Int]]
    BY <1>2, <1>k, <2>2, CountTypes DEF unshare_cleanup_fs
  <2> HIDE DEF n, m
  <2>4. Becomes(t, OwnCall("idle", {}, 0, 0))
    BY <2>1, <2>2, OwnNext
  <2>5. OwnOK("idle", 0, 0, task[t])
    BY <2>2 DEF OwnOK, Own, Released
  <2> QED
    BY <2>1, <2>3, <2>4, <2>5, EmptyFlags, OwnGoto
<1> QED
  BY <1>1, <1>2

(* A step that moves one pointer of the task itself.                          *)
LEMMA OwnPoint ==
  ASSUME ForkTypeOK, Links, NEW t \in Tasks, NEW pc \in Own \ {"complete"}, At(t, pc),
         NEW next, NEW f \in FlagSets, NEW n \in Pointer, NEW m \in Pointer, Becomes(t, OwnCall(next, f, n, m)),
         NEW k \in {"mm", "files", "fs"}, NEW o \in Pointer, k = "mm" => o = 0,
         Turns(t, Pointed(task[t], k, o)), OwnOK(next, n, m, Pointed(task[t], k, o)),
         count' \in [Kinds -> [Objects -> Int]], UNCHANGED <<vfork, totals>>
  PROVE  ForkTypeOK' /\ OwnFrame(t)
<1> DEFINE q == task[t]
           r == Pointed(q, k, o)
<1>1. q \in TaskStruct /\ k \in Kinds
  BY DEF ForkTypeOK, Kinds
<1>2. r \in TaskStruct /\ SameButPointers(r, q) /\ r[k] = o /\ \A j \in Kinds : j # k => r[j] = q[j]
  <2>1. o \in Pointer
    OBVIOUS
  <2> HIDE DEF q
  <2> QED
    BY <1>1, <2>1, PointedFields
<1>3. Turns(t, r) /\ OwnOK(next, n, m, r)
  OBVIOUS
<1> HIDE DEF r
<1>4. /\ r.usage = task[t].usage /\ r.signal = task[t].signal /\ r.sighand = task[t].sighand
      /\ r.vfork_done = task[t].vfork_done /\ r.alloc_lock = task[t].alloc_lock
      /\ r.mm \in {task[t].mm, 0}
  BY <1>2 DEF SameButPointers, Kinds
<1> QED
  BY <1>2, <1>3, <1>4, OwnMove

LEMMA TurnsPointed ==
  ASSUME ForkTypeOK, NEW x \in Tasks, NEW k, NEW o, task' = [task EXCEPT ![x][k] = o]
  PROVE  Turns(x, Pointed(task[x], k, o))
BY DEF Turns, Pointed, ForkTypeOK

LEMMA UnshareFilesFrame ==
  ASSUME ForkTypeOK, Links, NEW t \in Tasks, unshare_files(t)
  PROVE  ForkTypeOK' /\ OwnFrame(t)
<1> DEFINE n == task[t].files
<1>1. PICK o \in Fresh("files") : /\ Took("files", o) /\ task' = [task EXCEPT ![t].files = o]
                                 /\ op' = [op EXCEPT ![t].pc = "bad_unshare_cleanup_fd", ![t].new = n]
  BY DEF unshare_files
<1>2. Entry(t) /\ UNCHANGED <<vfork, totals>> /\ o \in Pointer /\ "files" \in Kinds
  BY DEF unshare_files, Fresh, Pointer, Kinds
<1>3. /\ At(t, "idle") /\ "idle" \in Own \ {"complete"} /\ op[t] = OwnCall("idle", op[t].flags, 0, 0)
      /\ op[t].flags \in FlagSets /\ task[t] \in TaskStruct /\ task[t].st = "running"
  BY <1>2, EntryIsIdle
<1>4. n \in Pointer
  BY <1>3 DEF TaskStruct
<1>5. Turns(t, Pointed(task[t], "files", o))
  BY <1>1, TurnsPointed
<1> HIDE DEF n
<1>6. Becomes(t, OwnCall("bad_unshare_cleanup_fd", op[t].flags, n, 0))
  BY <1>1, <1>3, OwnNext
<1>7. Pointed(task[t], "files", o).st = "running"
  BY <1>2, <1>3, PointedFields DEF SameButPointers
<1>8. OwnOK("bad_unshare_cleanup_fd", n, 0, Pointed(task[t], "files", o))
  BY <1>7 DEF OwnOK, Own, Unsharing, Released, MayHaveNew
<1>9. count' \in [Kinds -> [Objects -> Int]]
  BY <1>1, <1>2, CountTypes
<1> QED
  BY <1>2, <1>3, <1>4, <1>5, <1>6, <1>8, <1>9, EmptyFlags, OwnPoint

LEMMA ExitFrame ==
  ASSUME ForkTypeOK, Links, NEW t \in Tasks, do_exit(t) \/ mm_release(t) \/ exit_mm(t) \/ ExitShared(t)
  PROVE  ForkTypeOK' /\ OwnFrame(t)
<1>k. "mm" \in Kinds /\ count \in [Kinds -> [Objects -> Int]]
  BY DEF Kinds, ForkTypeOK
<1>u. UNCHANGED <<vfork, totals>>
  BY DEF do_exit, mm_release, exit_mm, ExitShared
<1>1. CASE do_exit(t)
  <2>1. Entry(t) /\ Goto(t, "mm_release") /\ UNCHANGED <<task, count>>
    BY <1>1 DEF do_exit
  <2>2. /\ At(t, "idle") /\ "idle" \in Own \ {"complete"} /\ op[t] = OwnCall("idle", op[t].flags, 0, 0)
        /\ op[t].flags \in FlagSets /\ task[t].st = "running"
    BY <2>1, EntryIsIdle
  <2>3. Becomes(t, OwnCall("mm_release", op[t].flags, 0, 0))
    BY <2>1, <2>2, OwnNext DEF Goto
  <2>4. OwnOK("mm_release", 0, 0, task[t])
    BY <2>2 DEF OwnOK, Own, Unsharing, Released
  <2> QED
    BY <1>k, <1>u, <2>1, <2>2, <2>3, <2>4, EmptyFlags, OwnGoto
<1>2. CASE mm_release(t)
  <2>1. At(t, "mm_release") /\ "mm_release" \in Own \ {"complete"} /\ UNCHANGED <<task, count>>
    BY <1>2 DEF mm_release, Own
  <2>2. PICK pc \in {"complete_vfork_done", "exit_mm"} : Goto(t, pc) /\ (pc = "exit_mm" => task[t].vfork_done = NoTask)
    BY <1>2 DEF mm_release
  <2>3. /\ op[t] = OwnCall("mm_release", op[t].flags, op[t].new, op[t].new_fs) /\ op[t].flags \in FlagSets
        /\ OwnOK("mm_release", op[t].new, op[t].new_fs, task[t])
    BY <2>1, AtOwn
  <2>4. op[t] = OwnCall("mm_release", op[t].flags, 0, 0) /\ task[t].st = "running"
    BY <2>3 DEF OwnOK, MayHaveNew, MayHaveFs
  <2>5. Becomes(t, OwnCall(pc, op[t].flags, 0, 0))
    BY <2>2, <2>4, OwnNext DEF Goto
  <2>6. OwnOK(pc, 0, 0, task[t])
    BY <2>2, <2>4 DEF OwnOK, Own, Unsharing, Released
  <2> QED
    BY <1>k, <1>u, <2>1, <2>3, <2>5, <2>6, EmptyFlags, OwnGoto
<1>3. CASE exit_mm(t)
  <2>1. At(t, "exit_mm") /\ "exit_mm" \in Own \ {"complete"} /\ Goto(t, "exit_files")
        /\ task' = [task EXCEPT ![t].mm = 0]
    BY <1>3 DEF exit_mm, Own, Released
  <2>2. /\ op[t] = OwnCall("exit_mm", op[t].flags, op[t].new, op[t].new_fs) /\ op[t].flags \in FlagSets
        /\ OwnOK("exit_mm", op[t].new, op[t].new_fs, task[t]) /\ task[t] \in TaskStruct
    BY <2>1, AtOwn
  <2>3. op[t] = OwnCall("exit_mm", op[t].flags, 0, 0) /\ task[t].st = "running" /\ task[t].vfork_done = NoTask
    BY <2>2 DEF OwnOK, MayHaveNew, MayHaveFs, Released
  <2>4. Becomes(t, OwnCall("exit_files", op[t].flags, 0, 0))
    BY <2>1, <2>3, OwnNext DEF Goto
  <2>5. Turns(t, Pointed(task[t], "mm", 0))
    BY <2>1, TurnsPointed
  <2> DEFINE r == Pointed(task[t], "mm", 0)
  <2>6. r.st = "running" /\ r.vfork_done = NoTask /\ r["mm"] = 0
    BY <1>k, <2>2, <2>3, PointedFields, EmptyFlags DEF SameButPointers
  <2> HIDE DEF r
  <2>7. OwnOK("exit_files", 0, 0, r)
    BY <2>6 DEF OwnOK, Own, Released
  <2>8. task[t].mm \in Pointer
    BY <2>2 DEF TaskStruct
  <2>9. count' \in [Kinds -> [Objects -> Int]]
    BY <1>3, <1>k, <2>8, MmputTypes DEF exit_mm
  <2> QED
    BY <1>u, <2>1, <2>2, <2>4, <2>5, <2>7, <2>9, EmptyFlags, OwnPoint DEF r
<1>4. CASE ExitShared(t)
  <2>1. PICK k \in DOMAIN ExitAt : /\ At(t, ExitAt[k]) /\ Put(k, task[t][k]) /\ task' = [task EXCEPT ![t][k] = 0]
                                   /\ Goto(t, IF k = "files" THEN "exit_fs" ELSE "release")
    BY <1>4 DEF ExitShared
  <2> DEFINE pc == ExitAt[k]
             next == IF k = "files" THEN "exit_fs" ELSE "release"
             r == Pointed(task[t], k, 0)
  <2>2. /\ pc \in Own \ {"complete"} /\ k \in Kinds /\ k \in {"files", "fs"}
        /\ (k = "files" /\ pc = "exit_files") \/ (k = "fs" /\ pc = "exit_fs")
    BY DEF ExitAt, Kinds, Own, Released
  <2>a. At(t, pc) /\ Goto(t, next)
    BY <2>1
  <2> HIDE DEF pc
  <2>3. /\ op[t] = OwnCall(pc, op[t].flags, op[t].new, op[t].new_fs) /\ op[t].flags \in FlagSets
        /\ OwnOK(pc, op[t].new, op[t].new_fs, task[t]) /\ task[t] \in TaskStruct
    BY <2>a, <2>2, AtOwn
  <2>4. /\ op[t] = OwnCall(pc, op[t].flags, 0, 0) /\ task[t].st = "running" /\ task[t].vfork_done = NoTask
        /\ task[t].mm = 0 /\ (k = "fs" => task[t].files = 0)
    BY <2>2, <2>3 DEF OwnOK, MayHaveNew, MayHaveFs, Released
  <2>5. Becomes(t, OwnCall(next, op[t].flags, 0, 0))
    <3> HIDE DEF next
    <3> QED
      BY <2>a, <2>4, OwnNext DEF Goto
  <2>6. Turns(t, r)
    BY <2>1, TurnsPointed
  <2>7. r.st = "running" /\ r.vfork_done = NoTask /\ r[k] = 0 /\ (\A j \in Kinds : j # k => r[j] = task[t][j])
    BY <2>2, <2>3, <2>4, PointedFields, EmptyFlags DEF SameButPointers
  <2> HIDE DEF r
  <2>8. r.mm = 0 /\ r.files = 0 /\ (k = "fs" => r.fs = 0)
    BY <2>2, <2>4, <2>7 DEF Kinds
  <2>9. OwnOK(next, 0, 0, r)
    BY <2>2, <2>7, <2>8 DEF OwnOK, Own, Released
  <2>10. task[t][k] \in Pointer
    BY <2>2, <2>3 DEF TaskStruct
  <2>11. count' \in [Kinds -> [Objects -> Int]]
    BY <2>1, <2>2, <2>10, CountTypes
  <2> HIDE DEF next
  <2> QED
    BY <1>u, <2>a, <2>2, <2>3, <2>5, <2>6, <2>9, <2>11, EmptyFlags, OwnPoint DEF r
<1> QED
  BY <1>1, <1>2, <1>3, <1>4

-----------------------------------------------------------------------------
(* What keeps the calls and the tasks linked *)

Parents == {"running", "idle", "dead", "switched"}

(* A change of the caller's struct that a call does not see.                  *)
Agree(r, s) ==
  /\ r.st = s.st /\ r.alloc_lock = s.alloc_lock /\ (s.vfork_done = NoTask => r.vfork_done = NoTask)
  /\ \A k \in Kinds : r[k] = s[k]

LEMMA CallSees ==
  ASSUME NEW u, NEW a, NEW me, NEW q, CallOK(u, a, me, q),
         NEW me2, a.pc = "idle" \/ Agree(me2, me),
         NEW q2, a.pc \in Own \/ q2 = q \/ (a.pc \in Waiting /\ q2.st \in Parents)
  PROVE  CallOK(u, a, me2, q2)
<1>1. CallOK(u, a, me2, q)
  <2>1. CASE a.pc = "idle"
    BY <2>1 DEF CallOK, Released, Forward
  <2>2. CASE Agree(me2, me)
    <3>1. me2.mm = me.mm /\ me2.files = me.files /\ me2.fs = me.fs
      BY <2>2 DEF Agree, Kinds
    <3> QED
      BY <2>2, <3>1 DEF CallOK, Agree
  <2> QED
    BY <2>1, <2>2
<1>2. CASE q2 = q
  BY <1>1, <1>2
<1>3. CASE a.pc \in Own
  <2>1. a.pc \notin Building /\ a.pc # "wake" /\ a.pc \notin Waiting /\ a.pc \notin Forward
    BY <1>3 DEF Own, Unsharing, Released, Building, Forward, Undoing, Waiting
  <2> QED
    BY <1>1, <2>1 DEF CallOK
<1>4. CASE a.pc \in Waiting /\ q2.st \in Parents
  <2>1. a.pc \notin Building /\ a.pc # "wake" /\ a.pc \notin Forward
    BY <1>4 DEF Building, Forward, Undoing, Waiting
  <2> QED
    BY <1>1, <1>4, <2>1 DEF CallOK, Parents
<1> QED
  BY <1>2, <1>3, <1>4

LEMMA StructureStep ==
  ASSUME ForkTypeOK, Structure, NEW t \in Tasks, NEW x \in Tasks, Frame(t, x), ForkTypeOK',
         TaskOK(task'[x]), CallOK(t, op'[t], task'[t], task'[op'[t].p]),
         x # t => op[x].pc = "idle" \/ Agree(task'[x], task[x]),
         \A u \in Tasks : u # t /\ op[u].p = x => op[u].pc \in Waiting /\ task'[x].st \in Parents,
         op'[t].p # NoTask => \A u \in Tasks : u # t => op[u].p # op'[t].p,
         task'[x].st \in {"built", "new"} => op'[t].p = x,
         op[t].p \in Tasks /\ op'[t].p # op[t].p => task'[op[t].p].st \notin {"built", "new"}
  PROVE  Structure'
<1>f. /\ \A y \in Tasks : y # x => task'[y] = task[y]
      /\ \A u \in Tasks : u # t => op'[u] = op[u]
  BY DEF Frame
<1>1. \A y \in Tasks : TaskOK(task'[y])
  BY <1>f DEF Structure
<1>2. ASSUME NEW u \in Tasks PROVE CallOK(u, op'[u], task'[u], task'[op'[u].p])
  <2>1. CASE u = t
    BY <2>1
  <2>2. CASE u # t
    <3>1. CallOK(u, op[u], task[u], task[op[u].p]) /\ op'[u] = op[u]
      BY <2>2, <1>f DEF Structure
    <3>2. op[u].pc = "idle" \/ Agree(task'[u], task[u])
      <4>1. CASE u = x
        BY <4>1, <2>2
      <4>2. CASE u # x
        <5>1. task'[u] = task[u]
          BY <4>2, <1>f
        <5> QED
          BY <5>1 DEF Agree
      <4> QED
        BY <4>1, <4>2
    <3>3. op[u].pc \in Own \/ task'[op[u].p] = task[op[u].p] \/ (op[u].pc \in Waiting /\ task'[op[u].p].st \in Parents)
      <4>1. CASE op[u].p = x
        BY <4>1, <2>2
      <4>2. CASE op[u].p # x
        <5>1. op[u].pc \in Own \/ op[u].p \in Tasks
          BY <3>1 DEF CallOK
        <5> QED
          BY <4>2, <5>1, <1>f
      <4> QED
        BY <4>1, <4>2
    <3> DEFINE a == op[u]  q == task[op[u].p]  q2 == task'[op[u].p]  me == task[u]  me2 == task'[u]
    <3>4. /\ CallOK(u, a, me, q) /\ (a.pc = "idle" \/ Agree(me2, me))
          /\ (a.pc \in Own \/ q2 = q \/ (a.pc \in Waiting /\ q2.st \in Parents))
      BY <3>1, <3>2, <3>3
    <3> HIDE DEF a, q, q2, me, me2
    <3>5. CallOK(u, a, me2, q2)
      BY <3>4, CallSees
    <3> QED
      BY <3>1, <3>5 DEF a, q2, me2
  <2> QED
    BY <2>1, <2>2
<1>3. ASSUME NEW v \in Tasks, NEW u \in Tasks, op'[v].p # NoTask, op'[v].p = op'[u].p PROVE v = u
  BY <1>3, <1>f DEF Structure
<1>4. ASSUME NEW y \in Tasks, task'[y].st \in {"built", "new"} PROVE \E v \in Tasks : op'[v].p = y
  <2>1. CASE y = x
    BY <1>4, <2>1
  <2>2. CASE y # x
    <3>1. PICK v \in Tasks : op[v].p = y
      BY <1>4, <2>2, <1>f DEF Structure
    <3>2. v = t => op'[t].p = y
      BY <1>4, <3>1
    <3> QED
      BY <3>1, <3>2, <1>f
  <2> QED
    BY <2>1, <2>2
<1> QED
  BY <1>1, <1>2, <1>3, <1>4 DEF Structure

(* Steps that do not concern a vfork.                                         *)
LEMMA VforksStep ==
  ASSUME ForkTypeOK, Vforks, NEW t \in Tasks, NEW x \in Tasks, Frame(t, x), UNCHANGED vfork,
         op[t].pc # "wait_for_vfork_done",
         task'[x].vfork_done \in {NoTask, task[x].vfork_done}, op'[t].vfork \in {NoTask, op[t].vfork}
  PROVE  Vforks'
<1>1. ASSUME NEW w, NEW c, w \in Tasks, Awaited(w, c) PROVE Awaited(w, c)'
  BY <1>1 DEF Awaited, Frame
<1>2. \A c \in Tasks : task[c].vfork_done \in Tasks \cup {NoTask} /\ op[c].vfork \in Tasks \cup {NoTask}
  BY DEF ForkTypeOK, TaskStruct, Call
<1>3. ASSUME NEW c \in Tasks, task'[c].vfork_done # NoTask PROVE Awaited(task[c].vfork_done, c)'
  <2>1. task'[c].vfork_done = task[c].vfork_done
    BY <1>3 DEF Frame
  <2> DEFINE w == task[c].vfork_done
  <2>2. w \in Tasks /\ Awaited(w, c)
    BY <1>2, <1>3, <2>1 DEF Vforks
  <2>3. w = task'[c].vfork_done
    BY <2>1
  <2>4. op'[w].pc = "wait_for_vfork_done" /\ op'[w].p = c /\ vfork'[w] = "waiting"
    <3> HIDE DEF w
    <3> QED
      BY <1>1, <2>2 DEF Awaited
  <2> QED
    BY <2>3, <2>4 DEF Awaited
<1>4. ASSUME NEW c \in Tasks, op'[c].vfork # NoTask PROVE Awaited(op[c].vfork, c)'
  <2>1. op'[c].vfork = op[c].vfork
    BY <1>4 DEF Frame
  <2> DEFINE w == op[c].vfork
  <2>2. w \in Tasks /\ Awaited(w, c)
    BY <1>2, <1>4, <2>1 DEF Vforks
  <2>3. w = op'[c].vfork
    BY <2>1
  <2>4. op'[w].pc = "wait_for_vfork_done" /\ op'[w].p = c /\ vfork'[w] = "waiting"
    <3> HIDE DEF w
    <3> QED
      BY <1>1, <2>2 DEF Awaited
  <2> QED
    BY <2>3, <2>4 DEF Awaited
<1> QED
  BY <1>3, <1>4 DEF Vforks

LEMMA UsageStep ==
  ASSUME UsageOK, NEW t \in Tasks, NEW x \in Tasks, Frame(t, x),
         op[t].pc \notin Waiting, op'[t].pc \notin Waiting,
         task'[x].usage - Base(task'[x].st) = task[x].usage - Base(task[x].st),
         task[x].usage \in Nat, task'[x].usage \in Nat, task'[x].st = "switched" => Waits(x)
  PROVE  UsageOK'
<1>1. ASSUME NEW y \in Tasks PROVE Waits(y)' <=> Waits(y)
  BY DEF Waits, Frame
<1>2. ASSUME NEW y \in Tasks
      PROVE  /\ task'[y].usage = Base(task'[y].st) + (IF Waits(y)' THEN 1 ELSE 0)
             /\ task'[y].st = "switched" => Waits(y)'
  <2>1. CASE y # x
    <3>1. task'[y] = task[y]
      BY <2>1 DEF Frame
    <3> QED
      BY <3>1, <1>1 DEF UsageOK
  <2>2. CASE y = x
    <3>1. task[x].usage = Base(task[x].st) + (IF Waits(x) THEN 1 ELSE 0)
      BY DEF UsageOK
    <3>2. Base(task[x].st) \in Nat /\ Base(task'[x].st) \in Nat
      BY DEF Base
    <3>3. task'[x].usage = Base(task'[x].st) + (IF Waits(x) THEN 1 ELSE 0)
      <4> DEFINE b == Base(task[x].st)  bb == Base(task'[x].st)  us == task[x].usage  vs == task'[x].usage
      <4>1. /\ us \in Nat /\ vs \in Nat /\ b \in Nat /\ bb \in Nat /\ vs - bb = us - b
            /\ us = b + (IF Waits(x) THEN 1 ELSE 0)
        BY <3>1, <3>2
      <4> HIDE DEF us, vs, b, bb
      <4>2. vs = bb + (IF Waits(x) THEN 1 ELSE 0)
        BY <4>1
      <4> QED
        BY <4>2 DEF vs, bb
    <3> QED
      BY <2>2, <3>3, <1>1
  <2> QED
    BY <2>1, <2>2
<1> QED
  BY <1>2 DEF UsageOK

LinkInv == ForkTypeOK /\ Links /\ UsageOK

LEMMA NotOwn ==
  /\ \A pc \in Building : pc \notin Own /\ pc \notin Waiting /\ pc # "wake" /\ pc # "idle" /\ pc # "complete"
                          /\ pc \notin Released /\ pc \in Pcs /\ pc # "wait_for_vfork_done"
                          /\ pc \notin {"exit_files", "exit_fs", "release"}
  /\ \A pc \in Waiting : pc \notin Own /\ pc \notin Building /\ pc # "wake" /\ pc # "idle" /\ pc # "complete" /\ pc \notin Forward
  /\ \A pc \in Own : pc \notin Waiting /\ pc \notin Building /\ pc # "wake" /\ pc \in Pcs /\ pc \notin Forward
                     /\ pc # "wait_for_vfork_done"
  /\ "idle" \in Own /\ Released \subseteq Own /\ Forward \subseteq Building
  /\ "wake" \notin Own /\ "wake" \notin Building /\ "wake" \notin Waiting /\ "wake" \notin Forward
BY DEF Building, Forward, Undoing, Own, Unsharing, Released, Waiting, Pcs

(* Nobody else's call concerns the task t creates, and that task does not     *)
(* run yet.                                                                   *)
LEMMA OthersElsewhere ==
  ASSUME Structure, NEW t \in Tasks, op[t].p # NoTask
  PROVE  /\ \A u \in Tasks : u # t => op[u].p # op[t].p
         /\ op[t].p \in Tasks /\ task[op[t].p].st # "running" => op[op[t].p].pc = "idle"
BY DEF Structure, CallOK

LEMMA BuildLinks ==
  ASSUME LinkInv, ForkTypeOK', NEW t \in Tasks, BuildFrame(t)
  PROVE  LinkInv'
<1> DEFINE p == op[t].p
<1>1. op[t].pc \in Building /\ op'[t].pc \in Building /\ op'[t].p = p /\ UNCHANGED vfork /\ Frame(t, p)
  BY DEF BuildFrame
<1>2. CallOK(t, op[t], task[t], task[p])
  BY DEF LinkInv, Links, Structure
<1>3. p \in Tasks /\ p # NoTask /\ task[p].st = "built" /\ task[t].st = "running" /\ op[t].vfork = NoTask
  BY <1>1, <1>2, NotOwn, ForkAssumption DEF CallOK
<1>4. TaskOK(task'[p])
  <2>1. task[p].vfork_done = NoTask
    BY <1>3 DEF LinkInv, Links, Structure, TaskOK
  <2> QED
    BY <1>3, <2>1 DEF BuildFrame, TaskOK
<1>5. t # p /\ task'[t] = task[t]
  BY <1>1, <1>3 DEF Frame
<1>6. CallOK(t, op'[t], task'[t], task'[op'[t].p])
  <2> DEFINE a == op'[t]  q == task'[p]  b == op[t]  me == task[t]
  <2>1. /\ a.pc \in Building /\ b.pc \in Building /\ a.p = p /\ a.flags = b.flags /\ a.vfork = NoTask /\ a.new_fs = b.new_fs
        /\ a.new # 0 => a.pc \in {"dup_mmap", "binfmt", "free_pt"}
        /\ a.pc \in {"dup_mmap", "binfmt"} => "VM" \notin a.flags
        /\ q.st = "built"
        /\ a.pc \in Forward => /\ b.pc \in Forward
                               /\ \A k \in Kinds : SharedFlag[k] \in b.flags => q[k] = task[p][k]
    BY <1>1, <1>3 DEF BuildFrame
  <2>2. b.new_fs = 0
    BY <1>1, <1>2 DEF CallOK, Building, Forward, Undoing
  <2>3. a.pc \in Forward => /\ ValidFlags(a.flags) /\ ("IDLE" \in a.flags => "THREAD" \notin a.flags)
                            /\ \A k \in Kinds : SharedFlag[k] \in a.flags => q[k] = me[k]
    <3> HIDE DEF a, q, me
    <3> SUFFICES ASSUME a.pc \in Forward
                 PROVE  /\ ValidFlags(a.flags) /\ ("IDLE" \in a.flags => "THREAD" \notin a.flags)
                        /\ \A k \in Kinds : SharedFlag[k] \in a.flags => q[k] = me[k]
      OBVIOUS
    <3>1. ValidFlags(b.flags) /\ ("IDLE" \in b.flags => "THREAD" \notin b.flags)
      BY <1>2, <2>1 DEF CallOK
    <3>2. \A k \in Kinds : SharedFlag[k] \in b.flags => task[p][k] = me[k]
      BY <1>2, <2>1 DEF CallOK, me
    <3> QED
      BY <2>1, <3>1, <3>2
  <2> HIDE DEF a, b, q, me
  <2>4. CallOK(t, a, me, q)
    BY <1>3, <2>1, <2>2, <2>3, NotOwn DEF CallOK, me
  <2> QED
    BY <1>1, <1>5, <2>4 DEF a, q, me
<1>7. (\A u \in Tasks : u # t => op[u].p # p) /\ op[p].pc = "idle"
  BY <1>3, OthersElsewhere DEF LinkInv, Links
<1> HIDE DEF p
<1>8. Structure'
  BY <1>1, <1>3, <1>4, <1>6, <1>7, StructureStep DEF LinkInv, Links, p
<1>9. Vforks'
  BY <1>1, <1>3, NotOwn, VforksStep DEF LinkInv, Links, BuildFrame, p
<1>10. UsageOK'
  <2>1. /\ task'[p].usage = task[p].usage /\ task'[p].st = task[p].st /\ task[p].usage \in Nat
        /\ op[t].pc \notin Waiting /\ op'[t].pc \notin Waiting
    BY <1>1, <1>3, NotOwn DEF BuildFrame, LinkInv, ForkTypeOK, TaskStruct, p
  <2> QED
    BY <1>1, <1>3, <2>1, UsageStep DEF LinkInv
<1> QED
  BY <1>8, <1>9, <1>10 DEF LinkInv, Links

LEMMA OwnLinks ==
  ASSUME LinkInv, ForkTypeOK', NEW t \in Tasks, OwnFrame(t)
  PROVE  LinkInv'
<1> DEFINE a == op'[t]  r == task'[t]
<1>1. /\ Frame(t, t) /\ task[t].st = "running" /\ op[t].pc \in Own /\ op[t].p = NoTask /\ op[t].vfork = NoTask
      /\ a.p = NoTask /\ a.vfork = NoTask /\ OwnOK(a.pc, a.new, a.new_fs, r)
      /\ r.usage = task[t].usage /\ r.vfork_done = task[t].vfork_done /\ UNCHANGED vfork
  <2>1. op[t].p = NoTask /\ op[t].vfork = NoTask
    BY DEF OwnFrame, OwnCall
  <2>2. a.p = NoTask /\ a.vfork = NoTask
    BY DEF OwnFrame, OwnCall
  <2> QED
    BY <2>1, <2>2 DEF OwnFrame
<1>2. TaskOK(r)
  BY <1>1 DEF TaskOK, OwnOK
<1>3. ASSUME NEW q PROVE CallOK(t, a, r, q)
  <2> HIDE DEF a, r
  <2>1. a.pc \in Own \ {"complete"} /\ r.st = "running" /\ a.p = NoTask /\ a.vfork = NoTask
    BY <1>1 DEF OwnOK
  <2>2. a.pc \notin Waiting /\ a.pc \notin Building /\ a.pc # "wake" /\ a.pc \notin Forward
    BY <2>1, NotOwn
  <2>3. /\ a.pc \notin {"dup_mmap", "binfmt"}
        /\ a.new # 0 => a.pc \in {"dup_mmap", "binfmt", "free_pt", "mm_access", "unshare_ns", "unshare_install",
                                  "bad_unshare_cleanup_fd"}
        /\ a.new_fs # 0 => a.pc \in {"unshare_fd", "unshare_ns", "unshare_install", "bad_unshare_cleanup_fd",
                                     "bad_unshare_cleanup_fs"}
    BY <1>1, <2>2 DEF OwnOK, MayHaveNew, MayHaveFs, Forward
  <2>4. /\ a.pc \in Released => r.vfork_done = NoTask
        /\ a.pc \in {"exit_files", "exit_fs", "release"} => r.mm = 0
        /\ a.pc \in {"exit_fs", "release"} => r.files = 0
        /\ a.pc = "release" => r.fs = 0
    BY <1>1 DEF OwnOK
  <2> QED
    BY <2>1, <2>2, <2>3, <2>4 DEF CallOK
<1>4. \A u \in Tasks : u # t /\ op[u].p = t => op[u].pc \in Waiting /\ r.st \in Parents
  <2> SUFFICES ASSUME NEW u \in Tasks, op[u].p = t PROVE op[u].pc \in Waiting /\ r.st \in Parents
    OBVIOUS
  <2>1. CallOK(u, op[u], task[u], task[t]) /\ op[u] \in Call
    BY DEF LinkInv, Links, Structure, ForkTypeOK
  <2>2. op[u].pc \in Waiting
    BY <1>1, <2>1, ForkAssumption DEF CallOK, Call, Pcs
  <2>3. r.st = "running"
    BY <1>1 DEF OwnOK
  <2> QED
    BY <2>2, <2>3 DEF Parents
<1>5. r.st = "running" /\ task[t].usage \in Nat /\ a.pc \notin Waiting /\ op[t].pc \notin Waiting
      /\ op[t].pc # "wait_for_vfork_done"
  BY <1>1, NotOwn DEF OwnOK, LinkInv, ForkTypeOK, TaskStruct
<1>6. Structure'
  <2>1. CallOK(t, op'[t], task'[t], task'[op'[t].p])
    BY <1>3
  <2>2. op[t].p \notin Tasks
    BY <1>1, ForkAssumption
  <2> QED
    BY <1>1, <1>2, <1>4, <1>5, <2>1, <2>2, StructureStep DEF LinkInv, Links
<1>7. Vforks'
  BY <1>1, <1>5, VforksStep DEF LinkInv, Links
<1>8. UsageOK'
  BY <1>1, <1>5, UsageStep DEF LinkInv
<1> QED
  BY <1>6, <1>7, <1>8 DEF LinkInv, Links

-----------------------------------------------------------------------------
(* The steps that begin and end a task *)

SamePointers(r, q) == \A k \in Kinds : r[k] = q[k]

IsIdle(a) == a = OwnCall("idle", {}, 0, 0)

LEMMA IdleFields ==
  /\ Idle \in Call /\ IsIdle(Idle)
  /\ \A a : IsIdle(a) => a.pc = "idle" /\ a.p = NoTask /\ a.flags = {} /\ a.new = 0 /\ a.new_fs = 0 /\ a.vfork = NoTask
<1>1. IsIdle(Idle)
  BY DEF Idle, IsIdle, OwnCall
<1>2. OwnCall("idle", {}, 0, 0) \in Call
  BY NotOwn, EmptyFlags, OwnCallFields
<1> QED
  BY <1>1, <1>2, OwnCallFields DEF IsIdle

LEMMA TypeStep ==
  ASSUME ForkTypeOK, NEW t \in Tasks, NEW x \in Tasks, NEW a \in Call, NEW r \in TaskStruct,
         Becomes(t, a), Turns(x, r),
         count' \in [Kinds -> [Objects -> Int]], vfork' \in [Tasks -> {"none", "waiting", "done"}],
         nr_threads' \in Int, processes' \in Int, total_forks' \in Nat
  PROVE  ForkTypeOK' /\ Frame(t, x) /\ op'[t] = a /\ task'[x] = r
BY DEF ForkTypeOK, Becomes, Turns, Frame

DupFrame(t) ==
  LET p == op'[t].p IN
  /\ Frame(t, p) /\ op[t].pc = "idle" /\ task[t].st = "running" /\ p \in Tasks /\ task[p].st = "free"
  /\ op[t].new = 0 /\ op[t].new_fs = 0 /\ op[t].p = NoTask
  /\ op'[t].pc = "creds" /\ op'[t].new = 0 /\ op'[t].new_fs = 0 /\ op'[t].vfork = NoTask
  /\ ValidFlags(op'[t].flags) /\ op'[t].flags \in CloneFlags
  /\ task'[p].st = "built" /\ task'[p].usage = 2 /\ task'[p].held = {"stack"} /\ task'[p].vfork_done = NoTask
  /\ SamePointers(task'[p], task[t])
  /\ UNCHANGED <<count, vfork, nr_threads, processes, total_forks>>

LEMMA DupShape ==
  ASSUME LinkInv, NEW t \in Tasks, dup_task_struct(t)
  PROVE  ForkTypeOK' /\ DupFrame(t)
<1>1. PICK f \in CloneFlags, p \in Tasks :
       /\ ValidFlags(f) /\ task[p].st = "free"
       /\ task' = [task EXCEPT ![p] = [task[t] EXCEPT !.st = "built", !.usage = 2, !.held = {"stack"},
                                        !.vfork_done = NoTask, !.alloc_lock = NoTask]]
       /\ op' = [op EXCEPT ![t] = [Idle EXCEPT !.pc = "creds", !.p = p, !.flags = f]]
  BY DEF dup_task_struct
<1> DEFINE r == [task[t] EXCEPT !.st = "built", !.usage = 2, !.held = {"stack"}, !.vfork_done = NoTask,
                                !.alloc_lock = NoTask]
           a == [Idle EXCEPT !.pc = "creds", !.p = p, !.flags = f]
<1>2. Entry(t) /\ UNCHANGED <<count, vfork, totals>>
  BY DEF dup_task_struct
<1>3. At(t, "idle") /\ task[t] \in TaskStruct /\ op[t].new = 0 /\ op[t].new_fs = 0 /\ op[t].p = NoTask /\ op[t].pc = "idle"
      /\ task[t].st = "running"
  BY <1>2, EntryIsIdle, OwnCallFields DEF LinkInv, At
<1>4. /\ r \in TaskStruct /\ r.st = "built" /\ r.usage = 2 /\ r.held = {"stack"} /\ r.vfork_done = NoTask
      /\ SamePointers(r, task[t])
  BY <1>3 DEF TaskStruct, States, HeldNames, SamePointers, Kinds
<1>5. /\ a \in Call /\ a.pc = "creds" /\ a.p = p /\ a.flags = f /\ a.new = 0 /\ a.new_fs = 0 /\ a.vfork = NoTask
  BY IdleFields DEF Call, Pcs, Building, Forward, FlagSets, IsIdle
<1>6. Becomes(t, a) /\ Turns(p, r)
  BY <1>1 DEF Becomes, Turns
<1> HIDE DEF a, r
<1>7. ForkTypeOK' /\ Frame(t, p) /\ op'[t] = a /\ task'[p] = r
  BY <1>2, <1>4, <1>5, <1>6, TypeStep DEF LinkInv, ForkTypeOK, totals
<1> QED
  BY <1>1, <1>2, <1>3, <1>4, <1>5, <1>7 DEF DupFrame, totals

PublishFrame(t) ==
  LET p == op[t].p IN
  /\ Frame(t, p) /\ op[t].pc = "publish" /\ task[t].st = "running" /\ p \in Tasks /\ task[p].st = "built"
  /\ op'[t].pc = "wake" /\ op'[t].p = p /\ op'[t].flags = op[t].flags /\ op'[t].new = op[t].new
  /\ op'[t].new_fs = op[t].new_fs /\ op'[t].vfork = op[t].vfork
  /\ task'[p].st = "new" /\ task'[p].usage = task[p].usage /\ task'[p].vfork_done = task[p].vfork_done
  /\ SamePointers(task'[p], task[p])
  /\ count' = (IF "THREAD" \in op[t].flags /\ "IDLE" \notin op[t].flags
               THEN [count EXCEPT !["signal"][task[t].signal] = @ + 1] ELSE count)
  /\ nr_threads' = (IF "IDLE" \in op[t].flags THEN nr_threads ELSE nr_threads + 1)
  /\ UNCHANGED <<vfork, processes>>

LEMMA PublishShape ==
  ASSUME LinkInv, NEW t \in Tasks, Publish(t)
  PROVE  ForkTypeOK' /\ (BuildFrame(t) \/ PublishFrame(t))
<1>1. At(t, "publish") /\ "publish" \in Building /\ "publish" \in DOMAIN ErrorLabels
  BY DEF Publish, Building, Forward, ErrorLabels
<1>2. /\ op[t] \in Call /\ op[t].pc = "publish" /\ op[t].p \in Tasks /\ op[t].new = 0 /\ task[op[t].p] \in TaskStruct
      /\ task[op[t].p].st = "built" /\ task[t] \in TaskStruct /\ task[t].st = "running"
  BY <1>1, AtBuilding DEF LinkInv
<1>3. CASE Fail(t, "publish")
  BY <1>1, <1>2, <1>3, FailFrame DEF LinkInv
<1>4. CASE ~Fail(t, "publish")
  <2> DEFINE p == op[t].p
             r == [task[p] EXCEPT !.st = "new", !.held = task[p].held \ {"threadgroup"}]
             a == [op[t] EXCEPT !.pc = "wake"]
  <2>1. /\ task' = [task EXCEPT ![p].st = "new", ![p].held = @ \ {"threadgroup"}]
        /\ IF "THREAD" \in op[t].flags /\ "IDLE" \notin op[t].flags THEN Took("signal", task[t].signal) ELSE UNCHANGED count
        /\ nr_threads' = IF "IDLE" \in op[t].flags THEN nr_threads ELSE nr_threads + 1
        /\ Goto(t, "wake")
        /\ UNCHANGED <<vfork, processes>> /\ total_forks' = total_forks + 1
    BY <1>4 DEF Publish
  <2>2. /\ r \in TaskStruct /\ r.st = "new" /\ r.usage = task[p].usage /\ r.vfork_done = task[p].vfork_done
        /\ SamePointers(r, task[p])
    BY <1>2 DEF TaskStruct, States, SamePointers, Kinds
  <2>3. /\ a \in Call /\ a.pc = "wake" /\ a.p = p /\ a.flags = op[t].flags /\ a.new = op[t].new /\ a.new_fs = op[t].new_fs
        /\ a.vfork = op[t].vfork
    BY <1>2 DEF Call, Pcs
  <2>4. Becomes(t, a) /\ Turns(p, r)
    BY <1>2, <2>1 DEF Becomes, Turns, Goto, LinkInv, ForkTypeOK, Call, TaskStruct
  <2>5. task[t].signal \in Pointer /\ "signal" \in Kinds
    BY <1>2 DEF TaskStruct, Kinds
  <2>6. count' \in [Kinds -> [Objects -> Int]]
    BY <2>1, <2>5, CountTypes DEF LinkInv, ForkTypeOK
  <2>7. vfork' \in [Tasks -> {"none", "waiting", "done"}] /\ nr_threads' \in Int /\ processes' \in Int /\ total_forks' \in Nat
    BY <2>1 DEF LinkInv, ForkTypeOK
  <2> HIDE DEF a, r
  <2>8. ForkTypeOK' /\ Frame(t, p) /\ op'[t] = a /\ task'[p] = r
    BY <1>2, <2>2, <2>3, <2>4, <2>6, <2>7, TypeStep DEF LinkInv
  <2> QED
    BY <1>2, <2>1, <2>2, <2>3, <2>8 DEF PublishFrame, Took
<1> QED
  BY <1>3, <1>4

WakeFrame(t) ==
  LET p == op[t].p IN
  /\ Frame(t, p) /\ op[t].pc = "wake" /\ task[t].st = "running" /\ p \in Tasks /\ task[p].st = "new" /\ p # t
  /\ task'[p].st = (IF "IDLE" \in op[t].flags THEN "idle" ELSE "running")
  /\ SamePointers(task'[p], task[p])
  /\ \/ /\ IsIdle(op'[t]) /\ UNCHANGED vfork
        /\ task'[p].usage = task[p].usage /\ task'[p].vfork_done = NoTask
     \/ /\ op'[t].pc = "wait_for_vfork_done" /\ op'[t].p = p /\ op'[t].flags = op[t].flags /\ op'[t].new = op[t].new
        /\ op'[t].new_fs = op[t].new_fs /\ op'[t].vfork = op[t].vfork
        /\ task'[p].usage = task[p].usage + 1 /\ task'[p].vfork_done = t
        /\ vfork'[t] = "waiting" /\ \A u \in Tasks : u # t => vfork'[u] = vfork[u]
  /\ UNCHANGED <<count, totals>>

LEMMA WakeShape ==
  ASSUME LinkInv, NEW t \in Tasks, wake_up_new_task(t)
  PROVE  ForkTypeOK' /\ WakeFrame(t)
<1> DEFINE p == op[t].p
           st1 == IF "IDLE" \in op[t].flags THEN "idle" ELSE "running"
           wait == "VFORK" \in op[t].flags
<1>1. op[t].pc = "wake" /\ task[t].st = "running" /\ UNCHANGED <<count, totals>>
  BY DEF wake_up_new_task, At
<1>2. op[t] \in Call /\ CallOK(t, op[t], task[t], task[p])
  BY DEF LinkInv, Links, Structure, ForkTypeOK
<1>3. p \in Tasks /\ task[p].st = "new"
  BY <1>1, <1>2, NotOwn DEF CallOK
<1>4. task[p] \in TaskStruct
  BY <1>3 DEF LinkInv, ForkTypeOK
<1>5. CASE wait
  <2> DEFINE n == task[p].usage + 1
             r == [task[p] EXCEPT !.st = st1, !.vfork_done = t, !.usage = n]
             a == [op[t] EXCEPT !.pc = "wait_for_vfork_done"]
  <2>1. Turns(p, r) /\ Becomes(t, a)
    BY <1>2, <1>3, <1>4, <1>5 DEF wake_up_new_task, Turns, Becomes, LinkInv, ForkTypeOK, TaskStruct, Call
  <2>2. /\ vfork' \in [Tasks -> {"none", "waiting", "done"}] /\ vfork'[t] = "waiting"
        /\ \A u \in Tasks : u # t => vfork'[u] = vfork[u]
    BY <1>5 DEF wake_up_new_task, LinkInv, ForkTypeOK
  <2>3. st1 \in States /\ n \in Nat
    BY <1>4 DEF States, TaskStruct
  <2> HIDE DEF st1, n
  <2>4. r \in TaskStruct /\ r.st = st1 /\ r.usage = n /\ r.vfork_done = t /\ SamePointers(r, task[p])
    BY <1>4, <2>3 DEF TaskStruct, SamePointers, Kinds
  <2>5. /\ a \in Call /\ a.pc = "wait_for_vfork_done" /\ a.p = p /\ a.flags = op[t].flags /\ a.new = op[t].new
        /\ a.new_fs = op[t].new_fs /\ a.vfork = op[t].vfork
    BY <1>2 DEF Call, Pcs, Waiting
  <2> HIDE DEF r, a
  <2>6. ForkTypeOK' /\ Frame(t, p) /\ op'[t] = a /\ task'[p] = r
    BY <1>1, <1>3, <2>1, <2>2, <2>4, <2>5, TypeStep DEF LinkInv, ForkTypeOK, totals
  <2> QED
    BY <1>1, <1>3, <2>2, <2>4, <2>5, <2>6 DEF WakeFrame, st1, n
<1>6. CASE ~wait
  <2> DEFINE n == task[p].usage
             r == [task[p] EXCEPT !.st = st1, !.vfork_done = NoTask, !.usage = n]
  <2>1. Turns(p, r) /\ Becomes(t, Idle)
    BY <1>2, <1>3, <1>4, <1>6 DEF wake_up_new_task, Turns, Becomes, LinkInv, ForkTypeOK, TaskStruct, Call
  <2>2. UNCHANGED vfork
    BY <1>6 DEF wake_up_new_task, LinkInv, ForkTypeOK
  <2>3. st1 \in States /\ n \in Nat
    BY <1>4 DEF States, TaskStruct
  <2> HIDE DEF st1, n
  <2>4. r \in TaskStruct /\ r.st = st1 /\ r.usage = n /\ r.vfork_done = NoTask /\ SamePointers(r, task[p])
    BY <1>4, <2>3 DEF TaskStruct, SamePointers, Kinds
  <2> HIDE DEF r
  <2>6. ForkTypeOK' /\ Frame(t, p) /\ op'[t] = Idle /\ task'[p] = r
    BY <1>1, <1>3, <2>1, <2>2, <2>4, IdleFields, TypeStep DEF LinkInv, ForkTypeOK, totals
  <2> QED
    BY <1>1, <1>3, <2>2, <2>4, <2>6, IdleFields DEF WakeFrame, st1, n
<1> QED
  BY <1>5, <1>6

(* The call t makes is at pc: what the invariant says of it.                  *)
LEMMA AtCall ==
  ASSUME LinkInv, NEW t \in Tasks, NEW pc, At(t, pc)
  PROVE  /\ op[t].pc = pc /\ task[t].st = "running" /\ op[t] \in Call /\ task[t] \in TaskStruct
         /\ CallOK(t, op[t], task[t], task[op[t].p])
         /\ pc \notin Own => op[t].p \in Tasks /\ op[t].p # NoTask /\ task[op[t].p] \in TaskStruct
<1>1. op[t].pc = pc /\ task[t].st = "running" /\ op[t] \in Call /\ task[t] \in TaskStruct
      /\ CallOK(t, op[t], task[t], task[op[t].p])
  BY DEF LinkInv, Links, Structure, ForkTypeOK, At
<1>2. pc \notin Own => op[t].p \in Tasks
  BY <1>1 DEF CallOK
<1> QED
  BY <1>1, <1>2, ForkAssumption DEF LinkInv, ForkTypeOK

WaitedFrame(t) ==
  /\ Frame(t, op[t].p) /\ op[t].pc = "wait_for_vfork_done" /\ vfork[t] = "done" /\ task[t].st = "running"
  /\ op'[t].pc = "vfork_put" /\ op'[t].p = op[t].p /\ op'[t].new = op[t].new
  /\ op'[t].new_fs = op[t].new_fs /\ op'[t].vfork = op[t].vfork /\ op'[t].flags = op[t].flags
  /\ UNCHANGED <<task, vfork, count, totals>>

LEMMA WaitedShape ==
  ASSUME LinkInv, NEW t \in Tasks, wait_for_vfork_done(t)
  PROVE  ForkTypeOK' /\ WaitedFrame(t)
<1> DEFINE p == op[t].p  a == [op[t] EXCEPT !.pc = "vfork_put"]  r == task[p]
<1>1. At(t, "wait_for_vfork_done") /\ "wait_for_vfork_done" \notin Own
  BY NotOwn DEF wait_for_vfork_done, Waiting
<1>2. op[t].pc = "wait_for_vfork_done" /\ task[t].st = "running" /\ op[t] \in Call /\ p \in Tasks /\ r \in TaskStruct
  BY <1>1, AtCall
<1>3. Becomes(t, a) /\ Turns(p, r) /\ vfork[t] = "done" /\ UNCHANGED <<task, vfork, count, totals>>
  BY <1>2 DEF wait_for_vfork_done, Goto, Becomes, Turns, LinkInv, ForkTypeOK
<1>4. /\ a \in Call /\ a.pc = "vfork_put" /\ a.p = p /\ a.new = op[t].new /\ a.new_fs = op[t].new_fs
      /\ a.vfork = op[t].vfork /\ a.flags = op[t].flags
  BY <1>2 DEF Call, Pcs, Waiting
<1> HIDE DEF a, r
<1>5. ForkTypeOK' /\ Frame(t, p) /\ op'[t] = a
  BY <1>2, <1>3, <1>4, TypeStep DEF LinkInv, ForkTypeOK, totals
<1> QED
  BY <1>2, <1>3, <1>4, <1>5 DEF WaitedFrame

KilledFrame(t) ==
  LET p == op[t].p IN
  /\ Frame(t, p) /\ op[t].pc = "wait_for_vfork_done" /\ task[t].st = "running" /\ task[p].alloc_lock = NoTask
  /\ op'[t].pc = "vfork_put" /\ op'[t].p = op[t].p /\ op'[t].new = op[t].new
  /\ op'[t].new_fs = op[t].new_fs /\ op'[t].vfork = op[t].vfork /\ op'[t].flags = op[t].flags
  /\ task'[p].st = task[p].st /\ task'[p].usage = task[p].usage /\ task'[p].held = task[p].held
  /\ task'[p].alloc_lock = task[p].alloc_lock /\ task'[p].vfork_done = NoTask /\ SamePointers(task'[p], task[p])
  /\ UNCHANGED <<vfork, count, totals>>

LEMMA KilledShape ==
  ASSUME LinkInv, NEW t \in Tasks, vfork_killed(t)
  PROVE  ForkTypeOK' /\ KilledFrame(t)
<1> DEFINE p == op[t].p  a == [op[t] EXCEPT !.pc = "vfork_put"]  r == [task[p] EXCEPT !.vfork_done = NoTask]
<1>1. At(t, "wait_for_vfork_done") /\ "wait_for_vfork_done" \notin Own
  BY NotOwn DEF vfork_killed, Waiting
<1>2. op[t].pc = "wait_for_vfork_done" /\ task[t].st = "running" /\ op[t] \in Call /\ p \in Tasks /\ task[p] \in TaskStruct
  BY <1>1, AtCall
<1>3. Becomes(t, a) /\ Turns(p, r) /\ task[p].alloc_lock = NoTask /\ UNCHANGED <<vfork, count, totals>>
  BY <1>2 DEF vfork_killed, task_lock, Goto, Becomes, Turns, LinkInv, ForkTypeOK
<1>4. /\ a \in Call /\ a.pc = "vfork_put" /\ a.p = p /\ a.new = op[t].new /\ a.new_fs = op[t].new_fs
      /\ a.vfork = op[t].vfork /\ a.flags = op[t].flags
  BY <1>2 DEF Call, Pcs, Waiting
<1>5. /\ r \in TaskStruct /\ r.st = task[p].st /\ r.usage = task[p].usage /\ r.held = task[p].held
      /\ r.alloc_lock = task[p].alloc_lock /\ r.vfork_done = NoTask /\ SamePointers(r, task[p])
  BY <1>2 DEF TaskStruct, SamePointers, Kinds
<1> HIDE DEF a, r
<1>6. ForkTypeOK' /\ Frame(t, p) /\ op'[t] = a /\ task'[p] = r
  BY <1>2, <1>3, <1>4, <1>5, TypeStep DEF LinkInv, ForkTypeOK, totals
<1> QED
  BY <1>2, <1>3, <1>4, <1>5, <1>6 DEF KilledFrame

(* One reference less: the struct stays with one count less or is freed.      *)
PutFrame(x, st) ==
  \/ /\ task[x].usage > 1 /\ task'[x].usage = task[x].usage - 1 /\ task'[x].st = st
     /\ task'[x].held = task[x].held /\ task'[x].alloc_lock = task[x].alloc_lock
     /\ task'[x].vfork_done = task[x].vfork_done /\ SamePointers(task'[x], task[x]) /\ UNCHANGED count
  \/ task[x].usage <= 1 /\ task'[x] = NoStruct /\ Put("signal", task[x].signal)

LEMMA PutShape ==
  ASSUME ForkTypeOK, NEW x \in Tasks, NEW st \in States, put_task_struct(x, st)
  PROVE  /\ \E r \in TaskStruct : Turns(x, r)
         /\ count' \in [Kinds -> [Objects -> Int]] /\ PutFrame(x, st)
<1>1. task[x] \in TaskStruct
  BY DEF ForkTypeOK
<1>2. CASE task[x].usage > 1
  <2> DEFINE n == task[x].usage - 1
             r == [task[x] EXCEPT !.usage = n, !.st = st]
  <2>1. Turns(x, r) /\ UNCHANGED count
    BY <1>1, <1>2 DEF put_task_struct, Turns, ForkTypeOK
  <2>2. n \in Nat
    BY <1>1, <1>2 DEF TaskStruct
  <2> HIDE DEF n
  <2>3. /\ r \in TaskStruct /\ r.st = st /\ r.usage = n /\ r.held = task[x].held
        /\ r.alloc_lock = task[x].alloc_lock /\ r.vfork_done = task[x].vfork_done /\ SamePointers(r, task[x])
    BY <1>1, <2>2 DEF TaskStruct, SamePointers, Kinds
  <2> HIDE DEF r
  <2>4. task'[x] = r
    BY <2>1 DEF Turns, ForkTypeOK
  <2> QED
    BY <1>2, <2>1, <2>3, <2>4 DEF PutFrame, ForkTypeOK, n
<1>3. CASE ~(task[x].usage > 1)
  <2>1. Turns(x, NoStruct) /\ Put("signal", task[x].signal)
    BY <1>3 DEF put_task_struct, Turns
  <2>2. NoStruct \in TaskStruct
    BY DEF NoStruct, TaskStruct, States, Pointer
  <2>3. task'[x] = NoStruct
    BY <2>1 DEF Turns, ForkTypeOK
  <2>4. count' \in [Kinds -> [Objects -> Int]]
    <3>1. task[x].signal \in Pointer /\ "signal" \in Kinds
      BY <1>1 DEF TaskStruct, Kinds
    <3> QED
      BY <2>1, <3>1, CountTypes
  <2>5. task[x].usage <= 1
    BY <1>1, <1>3 DEF TaskStruct
  <2> QED
    BY <2>1, <2>2, <2>3, <2>4, <2>5 DEF PutFrame
<1> QED
  BY <1>2, <1>3

VforkPutFrame(t) ==
  LET p == op[t].p IN
  /\ Frame(t, p) /\ op[t].pc = "vfork_put" /\ task[t].st = "running" /\ IsIdle(op'[t]) /\ PutFrame(p, task[p].st)
  /\ \A u \in Tasks : u # t => vfork'[u] = vfork[u]
  /\ UNCHANGED totals

LEMMA VforkPutShape ==
  ASSUME LinkInv, NEW t \in Tasks, vfork_put(t)
  PROVE  ForkTypeOK' /\ VforkPutFrame(t)
<1> DEFINE p == op[t].p
<1>1. At(t, "vfork_put") /\ "vfork_put" \notin Own
  BY NotOwn DEF vfork_put, Waiting
<1>2. op[t].pc = "vfork_put" /\ task[t].st = "running" /\ p \in Tasks /\ task[p] \in TaskStruct
  BY <1>1, AtCall
<1>3. /\ Becomes(t, Idle) /\ UNCHANGED totals /\ put_task_struct(p, task[p].st)
      /\ vfork' \in [Tasks -> {"none", "waiting", "done"}] /\ \A u \in Tasks : u # t => vfork'[u] = vfork[u]
  BY <1>2 DEF vfork_put, Becomes, LinkInv, ForkTypeOK
<1>4. task[p].st \in States
  BY <1>2 DEF TaskStruct
<1> HIDE DEF p
<1>5. (\E r \in TaskStruct : Turns(p, r)) /\ count' \in [Kinds -> [Objects -> Int]] /\ PutFrame(p, task[p].st)
  BY <1>2, <1>3, <1>4, PutShape DEF LinkInv
<1>6. PICK r \in TaskStruct : Turns(p, r)
  BY <1>5
<1>7. ForkTypeOK' /\ Frame(t, p) /\ op'[t] = Idle
  BY <1>2, <1>3, <1>5, <1>6, IdleFields, TypeStep DEF LinkInv, ForkTypeOK, totals
<1> QED
  BY <1>2, <1>3, <1>5, <1>7, IdleFields DEF VforkPutFrame, p

SwitchFrame(t) ==
  /\ Frame(t, t) /\ task[t].st = "dead" /\ PutFrame(t, "switched") /\ UNCHANGED <<op, vfork, totals>>

LEMMA SwitchShape ==
  ASSUME LinkInv, NEW t \in Tasks, finish_task_switch(t)
  PROVE  ForkTypeOK' /\ SwitchFrame(t)
<1>1. task[t].st = "dead" /\ put_task_struct(t, "switched") /\ UNCHANGED <<op, vfork, totals>> /\ "switched" \in States
  BY DEF finish_task_switch, States
<1>2. (\E r \in TaskStruct : Turns(t, r)) /\ count' \in [Kinds -> [Objects -> Int]] /\ PutFrame(t, "switched")
  BY <1>1, PutShape DEF LinkInv
<1>3. PICK r \in TaskStruct : Turns(t, r)
  BY <1>2
<1>4. op[t] \in Call /\ Becomes(t, op[t])
  BY <1>1 DEF Becomes, LinkInv, ForkTypeOK
<1>5. ForkTypeOK' /\ Frame(t, t)
  BY <1>1, <1>2, <1>3, <1>4, TypeStep DEF LinkInv, ForkTypeOK, totals
<1> QED
  BY <1>1, <1>2, <1>5 DEF SwitchFrame

(* The last labels: the new task is free again.                               *)
FreeFrame(t) ==
  LET p == op[t].p IN
  /\ Frame(t, p) /\ op[t].pc \in Undoing /\ op[t].pc \notin FilesPcs /\ task[t].st = "running" /\ p \in Tasks
  /\ task[p].st = "built" /\ IsIdle(op'[t])
  /\ task'[p].st = "free" /\ task'[p].usage = 0 /\ task'[p].vfork_done = NoTask
  /\ \A k \in Kinds : task'[p][k] = 0
  /\ processes' = (IF op[t].pc = "bad_fork_free" THEN processes ELSE processes - 1)
  /\ UNCHANGED <<count, vfork, nr_threads, total_forks>>

LEMMA LastLabelsEnd ==
  ASSUME NEW i \in DOMAIN LastLabels
  PROVE  /\ LastLabels[i] \in Undoing /\ LastLabels[i] \notin FilesPcs
         /\ "creds" \in UNION {ReleasedAt[LastLabels[j]] : j \in i .. Len(LastLabels)} <=> LastLabels[i] # "bad_fork_free"
<1>1. Len(LastLabels) = 6 /\ DOMAIN LastLabels = 1 .. 6
  BY DEF LastLabels
<1>2. /\ LastLabels[1] = "bad_fork_cleanup_semundo" /\ LastLabels[2] = "bad_fork_cleanup_audit"
      /\ LastLabels[3] = "bad_fork_cleanup_policy" /\ LastLabels[4] = "bad_fork_cleanup_threadgroup_lock"
      /\ LastLabels[5] = "bad_fork_cleanup_count" /\ LastLabels[6] = "bad_fork_free"
  BY DEF LastLabels
<1>3. i \in 1 .. 6 /\ (i = 1 \/ i = 2 \/ i = 3 \/ i = 4 \/ i = 5 \/ i = 6)
  BY <1>1
<1>4. LastLabels[i] \in Undoing /\ LastLabels[i] \notin FilesPcs
  BY <1>2, <1>3 DEF Undoing, FilesPcs, FsPcs, SighandPcs, SignalPcs, MmPcs
<1>5. "creds" \in ReleasedAt[LastLabels[5]] /\ ReleasedAt[LastLabels[6]] = {"stack"}
  BY <1>2 DEF ReleasedAt
<1> DEFINE has(j) == "creds" \in ReleasedAt[LastLabels[j]]
<1>u. "creds" \in UNION {ReleasedAt[LastLabels[j]] : j \in i .. Len(LastLabels)} <=> \E j \in i .. 6 : has(j)
  BY <1>1, Zenon
<1>h. has(5) /\ ~has(6)
  BY <1>5
<1> HIDE DEF has
<1>6. ASSUME i = 6 PROVE ~(\E j \in i .. 6 : has(j)) /\ LastLabels[i] = "bad_fork_free"
  <2>1. \A j \in i .. 6 : j = 6
    BY <1>6
  <2> QED
    BY <1>2, <1>6, <1>h, <2>1
<1>7. ASSUME i # 6 PROVE (\E j \in i .. 6 : has(j)) /\ LastLabels[i] # "bad_fork_free"
  <2>1. 5 \in i .. 6
    BY <1>3, <1>7
  <2>2. LastLabels[i] # "bad_fork_free"
    BY <1>2, <1>3, <1>7
  <2> QED
    BY <1>h, <2>1, <2>2
<1> QED
  BY <1>4, <1>u, <1>6, <1>7

LEMMA FreeShape ==
  ASSUME LinkInv, NEW t \in Tasks, FreeTask(t)
  PROVE  ForkTypeOK' /\ FreeFrame(t)
<1> DEFINE p == op[t].p
<1>1. PICK i \in DOMAIN LastLabels :
       LET released == UNION {ReleasedAt[LastLabels[j]] : j \in i .. Len(LastLabels)} IN
       /\ At(t, LastLabels[i])
       /\ processes' = IF "creds" \in released THEN processes - 1 ELSE processes
       /\ task' = [task EXCEPT ![p] = [NoStruct EXCEPT !.held = task[p].held \ released]]
       /\ op' = [op EXCEPT ![t] = Idle]
       /\ UNCHANGED <<count, memory, vfork, nr_threads, total_forks>>
  BY DEF FreeTask
<1> DEFINE released == UNION {ReleasedAt[LastLabels[j]] : j \in i .. Len(LastLabels)}
           h == task[p].held \ released
           r == [NoStruct EXCEPT !.held = h]
<1>2. LastLabels[i] \in Undoing /\ LastLabels[i] \notin FilesPcs /\ ("creds" \in released <=> LastLabels[i] # "bad_fork_free")
  BY LastLabelsEnd
<1>3. LastLabels[i] \in Building
  BY <1>2 DEF Building
<1>4. op[t].pc = LastLabels[i] /\ p \in Tasks /\ task[p] \in TaskStruct /\ task[p].st = "built" /\ task[t].st = "running"
  BY <1>1, <1>3, AtBuilding DEF LinkInv
<1>5. Turns(p, r) /\ Becomes(t, Idle) /\ UNCHANGED <<count, vfork, nr_threads, total_forks>>
  BY <1>1 DEF Turns, Becomes
<1>6. processes' = (IF op[t].pc = "bad_fork_free" THEN processes ELSE processes - 1)
  <2> HIDE DEF released
  <2> QED
    BY <1>1, <1>2, <1>4 DEF released
<1>7. h \in SUBSET HeldNames
  <2> HIDE DEF released
  <2> QED
    BY <1>4 DEF TaskStruct
<1> HIDE DEF released, h
<1>8. /\ r \in TaskStruct /\ r.st = "free" /\ r.usage = 0 /\ r.vfork_done = NoTask /\ \A k \in Kinds : r[k] = 0
  BY <1>7 DEF NoStruct, TaskStruct, States, Pointer, Kinds
<1>9. processes' \in Int
  BY <1>6 DEF LinkInv, ForkTypeOK
<1> HIDE DEF r
<1>10. ForkTypeOK' /\ Frame(t, p) /\ op'[t] = Idle /\ task'[p] = r
  BY <1>4, <1>5, <1>8, <1>9, IdleFields, TypeStep DEF LinkInv, ForkTypeOK
<1> QED
  BY <1>2, <1>4, <1>5, <1>6, <1>8, <1>10, IdleFields DEF FreeFrame

(* The completion is taken out of the task_struct under its lock.             *)
ReleaseFrame(t) ==
  /\ Frame(t, t) /\ op[t].pc = "complete_vfork_done" /\ task[t].st = "running"
  /\ op'[t].pc = "complete" /\ op'[t].p = NoTask /\ op'[t].new = 0 /\ op'[t].new_fs = 0
  /\ op'[t].vfork = task[t].vfork_done
  /\ task'[t].st = "running" /\ task'[t].usage = task[t].usage /\ task'[t].held = task[t].held
  /\ task'[t].vfork_done = NoTask /\ task'[t].alloc_lock = t /\ SamePointers(task'[t], task[t])
  /\ UNCHANGED <<vfork, count, totals>>

LEMMA ReleaseShape ==
  ASSUME LinkInv, NEW t \in Tasks, complete_vfork_done(t)
  PROVE  ForkTypeOK' /\ ReleaseFrame(t)
<1> DEFINE v == task[t].vfork_done
           a == [op[t] EXCEPT !.pc = "complete", !.vfork = v]
           r == [task[t] EXCEPT !.alloc_lock = t, !.vfork_done = NoTask]
<1>1. At(t, "complete_vfork_done") /\ "complete_vfork_done" \in Own
  BY DEF complete_vfork_done, Own
<1>2. op[t].pc = "complete_vfork_done" /\ task[t].st = "running" /\ op[t] \in Call /\ task[t] \in TaskStruct
      /\ CallOK(t, op[t], task[t], task[op[t].p])
  BY <1>1, AtCall
<1>3. op[t].p = NoTask /\ op[t].new = 0 /\ op[t].new_fs = 0
  BY <1>1, <1>2 DEF CallOK
<1>4. Becomes(t, a) /\ Turns(t, r) /\ UNCHANGED <<vfork, count, totals>>
  BY <1>2 DEF complete_vfork_done, Becomes, Turns, LinkInv, ForkTypeOK
<1>5. v \in Tasks \cup {NoTask}
  BY <1>2 DEF TaskStruct
<1> HIDE DEF v
<1>6. /\ a \in Call /\ a.pc = "complete" /\ a.p = op[t].p /\ a.new = op[t].new /\ a.new_fs = op[t].new_fs /\ a.vfork = v
  BY <1>2, <1>5 DEF Call, Pcs, Own, Released
<1>7. /\ r \in TaskStruct /\ r.st = task[t].st /\ r.usage = task[t].usage /\ r.held = task[t].held /\ r.vfork_done = NoTask
      /\ r.alloc_lock = t /\ SamePointers(r, task[t])
  BY <1>2 DEF TaskStruct, SamePointers, Kinds
<1> HIDE DEF a, r
<1>8. ForkTypeOK' /\ Frame(t, t) /\ op'[t] = a /\ task'[t] = r
  BY <1>4, <1>6, <1>7, TypeStep DEF LinkInv, ForkTypeOK, totals
<1> QED
  BY <1>2, <1>3, <1>4, <1>6, <1>7, <1>8 DEF ReleaseFrame, v

CompleteFrame(t) ==
  /\ Frame(t, t) /\ op[t].pc = "complete" /\ task[t].st = "running" /\ task[t].vfork_done = NoTask
  /\ op'[t].pc = "exit_mm" /\ op'[t].p = NoTask /\ op'[t].new = 0 /\ op'[t].new_fs = 0 /\ op'[t].vfork = NoTask
  /\ task'[t].st = "running" /\ task'[t].usage = task[t].usage /\ task'[t].held = task[t].held
  /\ task'[t].vfork_done = NoTask /\ SamePointers(task'[t], task[t])
  /\ \A u \in Tasks : u # op[t].vfork => vfork'[u] = vfork[u]
  /\ UNCHANGED <<count, totals>>

LEMMA CompleteShape ==
  ASSUME LinkInv, NEW t \in Tasks, complete(t)
  PROVE  ForkTypeOK' /\ CompleteFrame(t)
<1> DEFINE a == [op[t] EXCEPT !.pc = "exit_mm", !.vfork = NoTask]
           r == [task[t] EXCEPT !.alloc_lock = NoTask]
<1>1. At(t, "complete") /\ "complete" \in Own /\ "complete" \in Released
  BY DEF complete, Own, Released
<1>2. op[t].pc = "complete" /\ task[t].st = "running" /\ op[t] \in Call /\ task[t] \in TaskStruct
      /\ CallOK(t, op[t], task[t], task[op[t].p])
  BY <1>1, AtCall
<1>3. op[t].p = NoTask /\ op[t].new = 0 /\ op[t].new_fs = 0 /\ task[t].vfork_done = NoTask
  BY <1>1, <1>2 DEF CallOK
<1>4. Becomes(t, a) /\ Turns(t, r) /\ UNCHANGED <<count, totals>>
  BY <1>2 DEF complete, Becomes, Turns, LinkInv, ForkTypeOK
<1>5. /\ vfork' \in [Tasks -> {"none", "waiting", "done"}]
      /\ \A u \in Tasks : u # op[t].vfork => vfork'[u] = vfork[u]
  BY DEF complete, LinkInv, ForkTypeOK
<1>6. /\ a \in Call /\ a.pc = "exit_mm" /\ a.p = op[t].p /\ a.new = op[t].new /\ a.new_fs = op[t].new_fs /\ a.vfork = NoTask
  BY <1>2 DEF Call, Pcs, Own, Released
<1>7. /\ r \in TaskStruct /\ r.st = task[t].st /\ r.usage = task[t].usage /\ r.held = task[t].held
      /\ r.vfork_done = task[t].vfork_done /\ SamePointers(r, task[t])
  BY <1>2 DEF TaskStruct, SamePointers, Kinds
<1> HIDE DEF a, r
<1>8. ForkTypeOK' /\ Frame(t, t) /\ op'[t] = a /\ task'[t] = r
  BY <1>4, <1>5, <1>6, <1>7, TypeStep DEF LinkInv, ForkTypeOK, totals
<1> QED
  BY <1>2, <1>3, <1>4, <1>5, <1>6, <1>7, <1>8 DEF CompleteFrame

DeadFrame(t) ==
  /\ Frame(t, t) /\ op[t].pc = "release" /\ task[t].st = "running" /\ IsIdle(op'[t])
  /\ task'[t].st = "dead" /\ task'[t].usage = task[t].usage - 1 /\ task'[t].held = {}
  /\ task'[t].vfork_done = NoTask /\ task'[t].signal = task[t].signal
  /\ task'[t].mm = 0 /\ task'[t].files = 0 /\ task'[t].fs = 0 /\ task'[t].sighand = 0
  /\ task[t].mm = 0 /\ task[t].files = 0 /\ task[t].fs = 0
  /\ Put("sighand", task[t].sighand)
  /\ nr_threads' = nr_threads - 1 /\ processes' = processes - 1
  /\ UNCHANGED <<vfork, total_forks>>

LEMMA DeadShape ==
  ASSUME LinkInv, NEW t \in Tasks, release_task(t)
  PROVE  ForkTypeOK' /\ DeadFrame(t)
<1> DEFINE n == task[t].usage - 1
           r == [task[t] EXCEPT !.sighand = 0, !.usage = n, !.st = "dead", !.held = {}]
<1>1. At(t, "release") /\ "release" \in Own /\ "release" \in Released
  BY DEF release_task, Own, Released
<1>2. op[t].pc = "release" /\ task[t].st = "running" /\ op[t] \in Call /\ task[t] \in TaskStruct
      /\ CallOK(t, op[t], task[t], task[op[t].p])
  BY <1>1, AtCall
<1>3. task[t].mm = 0 /\ task[t].files = 0 /\ task[t].fs = 0 /\ task[t].vfork_done = NoTask
  BY <1>1, <1>2 DEF CallOK
<1>4. /\ Becomes(t, Idle) /\ Turns(t, r) /\ UNCHANGED <<vfork, total_forks>> /\ Put("sighand", task[t].sighand)
      /\ nr_threads' = nr_threads - 1 /\ processes' = processes - 1
  BY <1>2 DEF release_task, Becomes, Turns, LinkInv, ForkTypeOK
<1>5. n \in Nat
  <2> DEFINE us == task[t].usage  b == IF Waits(t) THEN 1 ELSE 0
  <2>1. us = 2 + b /\ b \in {0, 1}
    BY <1>2 DEF LinkInv, UsageOK, Base
  <2> HIDE DEF us, b
  <2>2. us - 1 \in Nat
    BY <2>1
  <2> QED
    BY <2>2 DEF us
<1>6. count' \in [Kinds -> [Objects -> Int]]
  <2>1. task[t].sighand \in Pointer /\ "sighand" \in Kinds
    BY <1>2 DEF TaskStruct, Kinds
  <2> QED
    BY <1>4, <2>1, CountTypes DEF LinkInv
<1> HIDE DEF n
<1>7. /\ r \in TaskStruct /\ r.st = "dead" /\ r.usage = n /\ r.held = {} /\ r.vfork_done = task[t].vfork_done
      /\ r.signal = task[t].signal /\ r.mm = task[t].mm /\ r.files = task[t].files /\ r.fs = task[t].fs /\ r.sighand = 0
  BY <1>2, <1>5 DEF TaskStruct, States, Pointer
<1>8. nr_threads' \in Int /\ processes' \in Int
  BY <1>4 DEF LinkInv, ForkTypeOK
<1> HIDE DEF r
<1>9. ForkTypeOK' /\ Frame(t, t) /\ op'[t] = Idle /\ task'[t] = r
  BY <1>4, <1>6, <1>7, <1>8, IdleFields, TypeStep DEF LinkInv, ForkTypeOK
<1> QED
  BY <1>2, <1>3, <1>4, <1>7, <1>9, IdleFields DEF DeadFrame, n

-----------------------------------------------------------------------------
(* The steps that begin and end a task keep calls and tasks linked *)

Stays(w) == op'[w] = op[w] /\ vfork'[w] = vfork[w]

Signals(c, w) == w # NoTask /\ (task[c].vfork_done = w \/ op[c].vfork = w)

LEMMA SignalsAwaited ==
  ASSUME ForkTypeOK, Vforks
  PROVE  \A c \in Tasks : \A w : Signals(c, w) => w \in Tasks /\ Awaited(w, c)
<1>1. \A c \in Tasks : task[c].vfork_done \in Tasks \cup {NoTask} /\ op[c].vfork \in Tasks \cup {NoTask}
  BY DEF ForkTypeOK, TaskStruct, Call
<1> QED
  BY <1>1 DEF Vforks, Signals

LEMMA VforksKept ==
  ASSUME ForkTypeOK, Vforks,
         \A c \in Tasks : \A w : Signals(c, w)' => (Signals(c, w) /\ Stays(w)) \/ Awaited(w, c)'
  PROVE  Vforks'
<1>1. ASSUME NEW c \in Tasks, NEW w, Signals(c, w)' PROVE Awaited(w, c)'
  <2>1. CASE Signals(c, w) /\ Stays(w)
    <3>1. Awaited(w, c)
      BY <2>1, SignalsAwaited
    <3> QED
      BY <2>1, <3>1 DEF Awaited, Stays
  <2>2. CASE Awaited(w, c)'
    BY <2>2
  <2> QED
    BY <1>1, <2>1, <2>2
<1>2. ASSUME NEW c \in Tasks, task'[c].vfork_done # NoTask PROVE Awaited(task[c].vfork_done, c)'
  <2>w. PICK w : w = task'[c].vfork_done
    OBVIOUS
  <2>1. Signals(c, w)'
    BY <1>2, <2>w DEF Signals
  <2>2. Awaited(w, c)'
    BY <1>1, <2>1
  <2> QED
    BY <2>w, <2>2 DEF Awaited
<1>3. ASSUME NEW c \in Tasks, op'[c].vfork # NoTask PROVE Awaited(op[c].vfork, c)'
  <2>w. PICK w : w = op'[c].vfork
    OBVIOUS
  <2>1. Signals(c, w)'
    BY <1>3, <2>w DEF Signals
  <2>2. Awaited(w, c)'
    BY <1>1, <2>1
  <2> QED
    BY <2>w, <2>2 DEF Awaited
<1> QED
  BY <1>2, <1>3 DEF Vforks

LEMMA DupLinks ==
  ASSUME LinkInv, ForkTypeOK', NEW t \in Tasks, DupFrame(t)
  PROVE  LinkInv'
<1> DEFINE p == op'[t].p  a == op'[t]  r == task'[p]
<1>1. /\ Frame(t, p) /\ op[t].pc = "idle" /\ task[t].st = "running" /\ p \in Tasks /\ task[p].st = "free" /\ op[t].p = NoTask
      /\ a.pc = "creds" /\ a.p = p /\ a.new = 0 /\ a.new_fs = 0 /\ a.vfork = NoTask
      /\ ValidFlags(a.flags) /\ a.flags \in CloneFlags
      /\ r.st = "built" /\ r.usage = 2 /\ r.vfork_done = NoTask /\ SamePointers(r, task[t]) /\ UNCHANGED vfork
  BY DEF DupFrame
<1>2. p # t /\ task'[t] = task[t] /\ op[p].pc = "idle" /\ op[t].p \notin Tasks /\ p # NoTask
  BY <1>1, ForkAssumption DEF Frame, LinkInv, Links, Structure, CallOK
<1>3. \A u \in Tasks : op[u].p # p
  <2> SUFFICES ASSUME NEW u \in Tasks, op[u].p = p PROVE FALSE
    OBVIOUS
  <2>1. CallOK(u, op[u], task[u], task[p]) /\ op[u] \in Call
    BY DEF LinkInv, Links, Structure, ForkTypeOK
  <2>2. op[u].pc \in Building \/ op[u].pc = "wake" \/ op[u].pc \in Waiting
    BY <1>2, <2>1 DEF CallOK, Call, Pcs
  <2> QED
    BY <1>1, <2>1, <2>2 DEF CallOK
<1>4. TaskOK(r)
  BY <1>1 DEF TaskOK
<1>5. CallOK(t, a, task'[t], r)
  <2>1. "IDLE" \in a.flags => "THREAD" \notin a.flags
    BY <1>1, ForkAssumption
  <2>2. a.pc \in Building /\ a.pc \in Forward
    BY <1>1 DEF Building, Forward
  <2>3. \A k \in Kinds : r[k] = task'[t][k]
    BY <1>1, <1>2 DEF SamePointers
  <2> HIDE DEF a, r, p
  <2> QED
    BY <1>1, <1>2, <2>1, <2>2, <2>3, NotOwn DEF CallOK
<1>6. a.pc \notin Waiting /\ op[t].pc \notin Waiting /\ r.usage \in Nat
  BY <1>1, NotOwn DEF Waiting
<1> HIDE DEF r
<1>7. Structure'
  BY <1>1, <1>2, <1>3, <1>4, <1>5, StructureStep DEF LinkInv, Links, r
<1>8. Vforks'
  BY <1>1, VforksStep DEF LinkInv, Links, r
<1>9. UsageOK'
  <2>1. task[p].usage \in Nat
    BY <1>1 DEF LinkInv, ForkTypeOK, TaskStruct
  <2>2. ~Waits(p)
    BY <1>3 DEF Waits
  <2>3. task[p].usage = 0
    BY <1>1, <2>2 DEF LinkInv, UsageOK, Base
  <2>4. r.usage - Base(r.st) = task[p].usage - Base(task[p].st) /\ r.st # "switched"
    BY <1>1, <2>3 DEF Base
  <2> QED
    BY <1>1, <1>6, <2>1, <2>4, UsageStep DEF LinkInv, r
<1> QED
  BY <1>7, <1>8, <1>9 DEF LinkInv, Links

LEMMA PublishLinks ==
  ASSUME LinkInv, ForkTypeOK', NEW t \in Tasks, PublishFrame(t)
  PROVE  LinkInv'
<1> DEFINE p == op[t].p  a == op'[t]  r == task'[p]
<1>1. /\ Frame(t, p) /\ op[t].pc = "publish" /\ task[t].st = "running" /\ p \in Tasks /\ task[p].st = "built"
      /\ a.pc = "wake" /\ a.p = p /\ a.flags = op[t].flags /\ a.new = op[t].new /\ a.new_fs = op[t].new_fs
      /\ a.vfork = op[t].vfork /\ r.st = "new" /\ r.usage = task[p].usage /\ r.vfork_done = task[p].vfork_done
      /\ UNCHANGED vfork
  BY DEF PublishFrame
<1>2. p # t /\ task'[t] = task[t] /\ op[p].pc = "idle" /\ p # NoTask
  BY <1>1, ForkAssumption DEF Frame, LinkInv, Links, Structure, CallOK
<1>3. \A u \in Tasks : u # t => op[u].p # p
  BY <1>2, OthersElsewhere DEF LinkInv, Links
<1>4. TaskOK(r) /\ CallOK(t, op[t], task[t], task[p])
  BY <1>1 DEF TaskOK, LinkInv, Links, Structure
<1>5. CallOK(t, a, task'[t], r)
  <2>1. op[t].vfork = NoTask /\ op[t].new = 0 /\ op[t].new_fs = 0
    BY <1>1, <1>4 DEF CallOK
  <2>2. ValidFlags(op[t].flags) /\ ("IDLE" \in op[t].flags => "THREAD" \notin op[t].flags)
    BY <1>1, <1>4 DEF CallOK, Forward
  <2>3. a.pc \notin Own /\ a.pc \notin Building /\ a.pc \notin Waiting /\ a.pc \notin Released /\ a.pc \notin Forward
    BY <1>1, NotOwn
  <2> HIDE DEF a, r, p
  <2> QED
    BY <1>1, <1>2, <2>1, <2>2, <2>3 DEF CallOK
<1>6. a.pc \notin Waiting /\ op[t].pc \notin Waiting /\ r.usage \in Nat
  BY <1>1, NotOwn DEF Waiting, LinkInv, ForkTypeOK, TaskStruct
<1>7. Structure'
  BY <1>1, <1>2, <1>3, <1>4, <1>5, StructureStep DEF LinkInv, Links
<1>8. Vforks'
  BY <1>1, VforksStep DEF LinkInv, Links
<1>9. UsageOK'
  <2>1. Base(r.st) = Base(task[p].st) /\ r.st # "switched"
    BY <1>1 DEF Base
  <2> HIDE DEF r
  <2> QED
    BY <1>1, <1>6, <2>1, UsageStep DEF LinkInv, r
<1> QED
  BY <1>7, <1>8, <1>9 DEF LinkInv, Links

(* The references of a task whose parent's call changes.                      *)
LEMMA UsageOfChild ==
  ASSUME UsageOK, NEW t \in Tasks, NEW x \in Tasks, Frame(t, x), \A u \in Tasks : u # t => op[u].p # x,
         op[t].p = x, op'[t].p = x \/ op'[t].pc \notin Waiting,
         task'[x].usage = Base(task'[x].st) + (IF op'[t].pc \in Waiting THEN 1 ELSE 0),
         task'[x].st = "switched" => op'[t].pc \in Waiting
  PROVE  UsageOK'
<1>1. ASSUME NEW y \in Tasks, y # x PROVE Waits(y)' <=> Waits(y)
  BY <1>1 DEF Waits, Frame
<1>2. Waits(x)' <=> op'[t].pc \in Waiting
  BY DEF Waits, Frame
<1>3. ASSUME NEW y \in Tasks
      PROVE  /\ task'[y].usage = Base(task'[y].st) + (IF Waits(y)' THEN 1 ELSE 0)
             /\ task'[y].st = "switched" => Waits(y)'
  <2>1. CASE y # x
    <3>1. task'[y] = task[y]
      BY <2>1 DEF Frame
    <3> QED
      BY <2>1, <3>1, <1>1 DEF UsageOK
  <2>2. CASE y = x
    BY <2>2, <1>2
  <2> QED
    BY <2>1, <2>2
<1> QED
  BY <1>3 DEF UsageOK

(* ... and what they are before.                                              *)
LEMMA UsageBefore ==
  ASSUME LinkInv, NEW t \in Tasks, op[t].p \in Tasks
  PROVE  /\ task[op[t].p].usage = Base(task[op[t].p].st) + (IF op[t].pc \in Waiting THEN 1 ELSE 0)
         /\ \A u \in Tasks : u # t => op[u].p # op[t].p
         /\ task[op[t].p].usage \in Nat
<1>1. \A u \in Tasks : u # t => op[u].p # op[t].p
  BY ForkAssumption, OthersElsewhere DEF LinkInv, Links
<1>2. Waits(op[t].p) <=> op[t].pc \in Waiting
  BY <1>1 DEF Waits
<1> QED
  BY <1>1, <1>2 DEF LinkInv, UsageOK, ForkTypeOK, TaskStruct

(* A call that ends leaves nothing behind.                                    *)
LEMMA IdleCallOK ==
  ASSUME NEW t, NEW a, IsIdle(a), NEW me, NEW q
  PROVE  CallOK(t, a, me, q)
<1>1. a.pc = "idle" /\ a.p = NoTask /\ a.new = 0 /\ a.new_fs = 0 /\ a.vfork = NoTask
  BY IdleFields
<1>2. a.pc \notin Waiting /\ a.pc \notin Building /\ a.pc \notin Released /\ a.pc \notin Forward /\ a.pc \in Own
  BY <1>1, NotOwn DEF Released, Own
<1> QED
  BY <1>1, <1>2 DEF CallOK

LEMMA WakeLinks ==
  ASSUME LinkInv, ForkTypeOK', NEW t \in Tasks, WakeFrame(t)
  PROVE  LinkInv'
<1> DEFINE p == op[t].p  a == op'[t]  r == task'[p]
<1>1. /\ Frame(t, p) /\ op[t].pc = "wake" /\ task[t].st = "running" /\ p \in Tasks /\ task[p].st = "new" /\ p # t
      /\ r.st \in {"idle", "running"}
  BY DEF WakeFrame
<1>2. task'[t] = task[t] /\ op[p].pc = "idle" /\ p # NoTask
  BY <1>1, ForkAssumption DEF Frame, LinkInv, Links, Structure, CallOK
<1>3. \A u \in Tasks : u # t => op[u].p # p
  BY <1>2, OthersElsewhere DEF LinkInv, Links
<1>4. task[p].usage = 2 /\ op[t].pc \notin Waiting
  BY <1>1, UsageBefore DEF Base, Waiting
<1>5. TaskOK(r) /\ CallOK(t, op[t], task[t], task[p])
  BY <1>1 DEF TaskOK, LinkInv, Links, Structure
<1>6. \A c \in Tasks : \A w : Signals(c, w) => w # t
  <2>1. \A c \in Tasks : \A w : Signals(c, w) => Awaited(w, c)
    BY SignalsAwaited DEF LinkInv, Links
  <2> QED
    BY <1>1, <2>1 DEF Awaited
<1>7. CASE IsIdle(a) /\ UNCHANGED vfork /\ r.usage = task[p].usage /\ r.vfork_done = NoTask
  <2>1. a.pc = "idle" /\ a.p = NoTask /\ a.vfork = NoTask /\ a.pc \notin Waiting
    BY <1>7, IdleFields, NotOwn DEF Waiting
  <2>2. CallOK(t, a, task'[t], task'[a.p])
    BY <1>7, IdleCallOK
  <2>3. Structure'
    BY <1>1, <1>2, <1>3, <1>5, <2>1, <2>2, StructureStep DEF LinkInv, Links
  <2>4. Vforks'
    BY <1>1, <1>7, <2>1, VforksStep DEF LinkInv, Links
  <2>5. UsageOK'
    <3>1. r.usage = Base(r.st) + (IF a.pc \in Waiting THEN 1 ELSE 0) /\ r.st # "switched"
      BY <1>1, <1>4, <1>7, <2>1 DEF Base
    <3> QED
      BY <1>1, <1>3, <2>1, <3>1, UsageOfChild DEF LinkInv
  <2> QED
    BY <2>3, <2>4, <2>5 DEF LinkInv, Links
<1>8. CASE /\ a.pc = "wait_for_vfork_done" /\ a.p = p /\ a.flags = op[t].flags /\ a.new = op[t].new
           /\ a.new_fs = op[t].new_fs /\ a.vfork = op[t].vfork
           /\ r.usage = task[p].usage + 1 /\ r.vfork_done = t
           /\ vfork'[t] = "waiting" /\ \A u \in Tasks : u # t => vfork'[u] = vfork[u]
  <2>1. op[t].new = 0 /\ op[t].new_fs = 0 /\ op[t].vfork = NoTask
    BY <1>1, <1>5 DEF CallOK
  <2>2. a.pc \in Waiting /\ a.pc \notin Own /\ a.pc \notin Building /\ a.pc \notin Forward /\ a.pc \notin Released
    BY <1>8, NotOwn DEF Waiting, Released
  <2>3. CallOK(t, a, task'[t], r)
    <3> HIDE DEF a, r, p
    <3> QED
      BY <1>1, <1>2, <1>8, <2>1, <2>2 DEF CallOK
  <2>4. Structure'
    BY <1>1, <1>2, <1>3, <1>5, <1>8, <2>3, StructureStep DEF LinkInv, Links
  <2>5. Vforks'
    <3>1. ASSUME NEW c \in Tasks, NEW w, Signals(c, w)' PROVE (Signals(c, w) /\ Stays(w)) \/ Awaited(w, c)'
      <4>1. CASE c = p /\ w = t
        BY <1>8, <4>1 DEF Awaited
      <4>2. CASE ~(c = p /\ w = t)
        <5>1. Signals(c, w)
          BY <1>1, <1>8, <2>1, <3>1, <4>2 DEF Signals, Frame
        <5>2. w \in Tasks /\ w # t
          BY <1>6, <5>1, SignalsAwaited DEF LinkInv, Links
        <5> QED
          BY <1>1, <1>8, <5>1, <5>2 DEF Stays, Frame
      <4> QED
        BY <4>1, <4>2
    <3> QED
      BY <3>1, VforksKept DEF LinkInv, Links
  <2>6. UsageOK'
    <3>1. r.usage = Base(r.st) + (IF a.pc \in Waiting THEN 1 ELSE 0) /\ r.st # "switched"
      BY <1>1, <1>4, <1>8, <2>2 DEF Base
    <3> QED
      BY <1>1, <1>3, <1>8, <3>1, UsageOfChild DEF LinkInv
  <2> QED
    BY <2>4, <2>5, <2>6 DEF LinkInv, Links
<1> QED
  BY <1>7, <1>8 DEF WakeFrame

LEMMA WaitedLinks ==
  ASSUME LinkInv, ForkTypeOK', NEW t \in Tasks, WaitedFrame(t) \/ KilledFrame(t)
  PROVE  LinkInv'
<1> DEFINE p == op[t].p  a == op'[t]  r == task'[p]
<1>1. /\ Frame(t, p) /\ op[t].pc = "wait_for_vfork_done" /\ task[t].st = "running"
      /\ a.pc = "vfork_put" /\ a.p = p /\ a.new = op[t].new /\ a.new_fs = op[t].new_fs /\ a.vfork = op[t].vfork
      /\ UNCHANGED vfork
  BY DEF WaitedFrame, KilledFrame
<1>2. CallOK(t, op[t], task[t], task[p]) /\ op[t].pc \in Waiting /\ op[t].pc \notin Own
  BY <1>1, NotOwn DEF LinkInv, Links, Structure, Waiting
<1>3. p \in Tasks /\ p # NoTask /\ op[t].new = 0 /\ op[t].new_fs = 0 /\ op[t].vfork = NoTask
      /\ task[p].st \in Parents
  BY <1>1, <1>2, ForkAssumption DEF CallOK, Parents
<1>4. /\ r.st = task[p].st /\ r.usage = task[p].usage /\ r.alloc_lock = task[p].alloc_lock /\ SamePointers(r, task[p])
      /\ r.vfork_done \in {NoTask, task[p].vfork_done}
  BY DEF WaitedFrame, KilledFrame, SamePointers
<1>5. \A u \in Tasks : u # t => op[u].p # p
  BY <1>3, OthersElsewhere DEF LinkInv, Links
<1>6. Agree(r, task[p])
  BY <1>4 DEF Agree, SamePointers
<1>7. TaskOK(r)
  <2>1. TaskOK(task[p]) /\ r.mm = task[p].mm /\ r.files = task[p].files /\ r.fs = task[p].fs /\ r.sighand = task[p].sighand
        /\ r.signal = task[p].signal
    BY <1>3, <1>4 DEF LinkInv, Links, Structure, SamePointers, Kinds
  <2> QED
    BY <1>4, <2>1 DEF TaskOK
<1>8. a.pc \in Waiting /\ a.pc \notin Own /\ a.pc \notin Building /\ a.pc \notin Forward /\ a.pc \notin Released
  BY <1>1, NotOwn DEF Waiting, Released
<1>9. CallOK(t, a, task'[t], r)
  <2>1. task'[t].st = "running"
    BY <1>1, <1>4 DEF Frame
  <2> HIDE DEF a, r, p
  <2> QED
    BY <1>1, <1>3, <1>4, <1>8, <2>1 DEF CallOK, Parents
<1>10. r.st \notin {"built", "new"}
  BY <1>3, <1>4 DEF Parents
<1>11. Structure'
  BY <1>1, <1>3, <1>5, <1>6, <1>7, <1>9, <1>10, StructureStep DEF LinkInv, Links
<1>12. Vforks'
  <2>1. ASSUME NEW c \in Tasks, NEW w, Signals(c, w)' PROVE Signals(c, w) /\ Stays(w)
    <3>1. Signals(c, w)
      BY <1>1, <1>4, <2>1 DEF Signals, Frame
    <3>2. w \in Tasks /\ Awaited(w, c)
      BY <3>1, SignalsAwaited DEF LinkInv, Links
    <3>3. w # t
      <4>1. CASE WaitedFrame(t)
        BY <4>1, <3>2 DEF WaitedFrame, Awaited
      <4>2. CASE KilledFrame(t)
        <5> SUFFICES ASSUME w = t PROVE FALSE
          OBVIOUS
        <5>1. c = p
          BY <3>2 DEF Awaited
        <5>2. task'[p].vfork_done = NoTask /\ task[p].alloc_lock = NoTask
          BY <4>2 DEF KilledFrame
        <5>3. op'[p].vfork = w /\ w # NoTask
          BY <2>1, <5>1, <5>2 DEF Signals
        <5>4. op[p].vfork # NoTask
          BY <1>1, <1>3, <5>3 DEF Frame
        <5>5. CallOK(p, op[p], task[p], task[op[p].p])
          BY <1>3 DEF LinkInv, Links, Structure
        <5>6. task[p].alloc_lock = p
          BY <5>4, <5>5 DEF CallOK
        <5> QED
          BY <1>3, <5>2, <5>6
      <4> QED
        BY <4>1, <4>2
    <3> QED
      BY <1>1, <3>1, <3>2, <3>3 DEF Stays, Frame
  <2> QED
    BY <2>1, VforksKept DEF LinkInv, Links
<1>13. UsageOK'
  <2>1. task[p].usage = Base(task[p].st) + 1
    BY <1>2, <1>3, UsageBefore
  <2>2. r.usage = Base(r.st) + (IF a.pc \in Waiting THEN 1 ELSE 0)
    BY <1>4, <1>8, <2>1
  <2> QED
    BY <1>1, <1>3, <1>5, <1>8, <2>2, UsageOfChild DEF LinkInv
<1> QED
  BY <1>11, <1>12, <1>13 DEF LinkInv, Links

LEMMA VforkPutLinks ==
  ASSUME LinkInv, ForkTypeOK', NEW t \in Tasks, VforkPutFrame(t)
  PROVE  LinkInv'
<1> DEFINE p == op[t].p  a == op'[t]  r == task'[p]
<1>1. /\ Frame(t, p) /\ op[t].pc = "vfork_put" /\ task[t].st = "running" /\ IsIdle(a) /\ PutFrame(p, task[p].st)
      /\ \A u \in Tasks : u # t => vfork'[u] = vfork[u]
  BY DEF VforkPutFrame
<1>2. CallOK(t, op[t], task[t], task[p]) /\ op[t].pc \in Waiting /\ op[t].pc \notin Own
  BY <1>1, NotOwn DEF LinkInv, Links, Structure, Waiting
<1>3. p \in Tasks /\ p # NoTask /\ op[t].vfork = NoTask /\ task[p].st \in Parents
  BY <1>1, <1>2, ForkAssumption DEF CallOK, Parents
<1>4. a.pc = "idle" /\ a.p = NoTask /\ a.vfork = NoTask /\ a.pc \notin Waiting
  BY <1>1, IdleFields, NotOwn DEF Waiting
<1>5. \A u \in Tasks : u # t => op[u].p # p
  BY <1>3, OthersElsewhere DEF LinkInv, Links
<1>6. task[p].usage = Base(task[p].st) + 1 /\ task[p].usage \in Nat /\ TaskOK(task[p])
  BY <1>2, <1>3, UsageBefore DEF LinkInv, Links, Structure
<1>7. CallOK(t, a, task'[t], task'[a.p])
  BY <1>1, IdleCallOK
<1>8. ASSUME task[p].usage > 1
      PROVE  Structure' /\ UsageOK' /\ r.vfork_done \in {NoTask, task[p].vfork_done}
  <2>1. /\ r.usage = task[p].usage - 1 /\ r.st = task[p].st /\ r.alloc_lock = task[p].alloc_lock
        /\ r.vfork_done = task[p].vfork_done /\ SamePointers(r, task[p])
    BY <1>1, <1>6, <1>8 DEF PutFrame
  <2>2. Base(task[p].st) \in Nat \ {0}
    BY <1>6, <1>8 DEF Base
  <2>3. task[p].st # "switched"
    BY <2>2 DEF Base
  <2>4. TaskOK(r)
    <3>1. r.mm = task[p].mm /\ r.files = task[p].files /\ r.fs = task[p].fs /\ r.sighand = task[p].sighand
          /\ r.signal = task[p].signal
      BY <2>1 DEF SamePointers, Kinds
    <3> QED
      BY <1>6, <2>1, <3>1 DEF TaskOK
  <2>5. Agree(r, task[p])
    BY <2>1 DEF Agree, SamePointers
  <2>6. r.st \notin {"built", "new"}
    BY <1>3, <2>1 DEF Parents
  <2>7. Structure'
    BY <1>1, <1>3, <1>4, <1>5, <1>7, <2>4, <2>5, <2>6, StructureStep DEF LinkInv, Links
  <2>8. UsageOK'
    <3>1. r.usage = Base(r.st) + (IF a.pc \in Waiting THEN 1 ELSE 0)
      BY <1>4, <1>6, <2>1, <2>2
    <3> QED
      BY <1>1, <1>3, <1>4, <1>5, <2>1, <2>3, <3>1, UsageOfChild DEF LinkInv
  <2>9. r.vfork_done = task[p].vfork_done
    BY <2>1
  <2> QED
    BY <2>7, <2>8, <2>9
<1>9. ASSUME ~(task[p].usage > 1)
      PROVE  Structure' /\ UsageOK' /\ r.vfork_done \in {NoTask, task[p].vfork_done}
  <2>1. r = NoStruct
    BY <1>1, <1>6, <1>9 DEF PutFrame
  <2>2. r.st = "free" /\ r.usage = 0 /\ r.vfork_done = NoTask /\ TaskOK(r)
    BY <2>1 DEF NoStruct, TaskOK
  <2>3. task[p].st = "switched"
    BY <1>3, <1>6, <1>9 DEF Base, Parents
  <2>4. op[p].pc = "idle"
    BY <1>3, <2>3 DEF LinkInv, Links, Structure, CallOK
  <2>5. Structure'
    BY <1>1, <1>3, <1>4, <1>5, <1>7, <2>2, <2>4, StructureStep DEF LinkInv, Links
  <2>6. UsageOK'
    <3>1. r.usage = Base(r.st) + (IF a.pc \in Waiting THEN 1 ELSE 0)
      BY <1>4, <2>2 DEF Base
    <3> QED
      BY <1>1, <1>3, <1>4, <1>5, <2>2, <3>1, UsageOfChild DEF LinkInv
  <2> QED
    BY <2>2, <2>5, <2>6
<1>10. Structure' /\ UsageOK' /\ r.vfork_done \in {NoTask, task[p].vfork_done}
  BY <1>8, <1>9
<1>11. Vforks'
  <2>1. ASSUME NEW c \in Tasks, NEW w, Signals(c, w)' PROVE Signals(c, w) /\ Stays(w)
    <3>1. Signals(c, w)
      BY <1>1, <1>3, <1>4, <1>10, <2>1 DEF Signals, Frame
    <3>2. w \in Tasks /\ Awaited(w, c)
      BY <3>1, SignalsAwaited DEF LinkInv, Links
    <3>3. w # t
      BY <1>1, <3>2 DEF Awaited
    <3> QED
      BY <1>1, <3>1, <3>2, <3>3 DEF Stays, Frame
  <2> QED
    BY <2>1, VforksKept DEF LinkInv, Links
<1> QED
  BY <1>10, <1>11 DEF LinkInv, Links

(* No call but that of a waiting parent concerns a task that runs or is gone. *)
LEMMA OnlyWaiters ==
  ASSUME LinkInv, NEW x \in Tasks, task[x].st \notin {"built", "new"}
  PROVE  \A u \in Tasks : op[u].p = x => op[u].pc \in Waiting
<1> SUFFICES ASSUME NEW u \in Tasks, op[u].p = x PROVE op[u].pc \in Waiting
  OBVIOUS
<1>1. CallOK(u, op[u], task[u], task[x]) /\ op[u] \in Call
  BY DEF LinkInv, Links, Structure, ForkTypeOK
<1> QED
  BY <1>1, ForkAssumption DEF CallOK, Call, Pcs

LEMMA SwitchLinks ==
  ASSUME LinkInv, ForkTypeOK', NEW t \in Tasks, SwitchFrame(t)
  PROVE  LinkInv'
<1> DEFINE r == task'[t]
<1>1. Frame(t, t) /\ task[t].st = "dead" /\ PutFrame(t, "switched") /\ UNCHANGED <<op, vfork>>
  BY DEF SwitchFrame
<1>2. TaskOK(task[t]) /\ CallOK(t, op[t], task[t], task[op[t].p]) /\ op[t] \in Call
  BY DEF LinkInv, Links, Structure, ForkTypeOK
<1>3. op[t].pc = "idle"
  BY <1>1, <1>2 DEF CallOK
<1>4. op[t].p = NoTask /\ op[t].pc \notin Waiting /\ op[t].p \notin Tasks
  BY <1>2, <1>3, NotOwn, ForkAssumption DEF CallOK, Waiting
<1>5. \A u \in Tasks : op[u].p = t => op[u].pc \in Waiting
  BY <1>1, OnlyWaiters
<1>6. task[t].usage = 1 + (IF Waits(t) THEN 1 ELSE 0)
  BY <1>1 DEF LinkInv, UsageOK, Base
<1>7. ASSUME NEW q PROVE CallOK(t, op[t], r, q)
  <2>1. op[t].pc \notin Building /\ op[t].pc \notin Released /\ op[t].pc \notin Forward /\ op[t].pc \in Own
    BY <1>3, NotOwn DEF Released
  <2> QED
    BY <1>2, <1>3, <1>4, <2>1 DEF CallOK
<1>8. /\ TaskOK(r) /\ r.st \notin {"built", "new"} /\ r.vfork_done = NoTask
      /\ Waits(t) => r.st = "switched" /\ r.usage = 1
      /\ ~Waits(t) => r.st = "free" /\ r.usage = 0
  <2>1. CASE Waits(t)
    <3>1. task[t].usage > 1 /\ r.usage = task[t].usage - 1 /\ r.st = "switched" /\ r.vfork_done = task[t].vfork_done
          /\ SamePointers(r, task[t])
      BY <1>1, <1>6, <2>1 DEF PutFrame
    <3>2. r.mm = task[t].mm /\ r.files = task[t].files /\ r.fs = task[t].fs /\ r.sighand = task[t].sighand
      BY <3>1 DEF SamePointers, Kinds
    <3> QED
      BY <1>1, <1>2, <1>6, <2>1, <3>1, <3>2 DEF TaskOK
  <2>2. CASE ~Waits(t)
    <3>1. r = NoStruct
      BY <1>1, <1>6, <2>2 DEF PutFrame
    <3> QED
      BY <2>2, <3>1 DEF NoStruct, TaskOK
  <2> QED
    BY <2>1, <2>2
<1>9. \A u \in Tasks : u # t /\ op[u].p = t => op[u].pc \in Waiting /\ r.st \in Parents
  BY <1>5, <1>8 DEF Waits, Parents
<1>10. op'[t] = op[t]
  BY <1>1
<1>11. Structure'
  BY <1>1, <1>4, <1>7, <1>8, <1>9, <1>10, StructureStep DEF LinkInv, Links
<1>12. Vforks'
  BY <1>1, <1>3, <1>8, <1>10, VforksStep DEF LinkInv, Links
<1>13. UsageOK'
  <2>1. r.usage - Base(r.st) = task[t].usage - Base(task[t].st) /\ task[t].usage \in Nat /\ r.usage \in Nat
    BY <1>1, <1>6, <1>8 DEF Base
  <2>2. r.st = "switched" => Waits(t)
    BY <1>8
  <2> HIDE DEF r
  <2> QED
    BY <1>1, <1>4, <1>10, <2>1, <2>2, UsageStep DEF LinkInv, r
<1> QED
  BY <1>11, <1>12, <1>13 DEF LinkInv, Links

LEMMA FreeLinks ==
  ASSUME LinkInv, ForkTypeOK', NEW t \in Tasks, FreeFrame(t)
  PROVE  LinkInv'
<1> DEFINE p == op[t].p  a == op'[t]  r == task'[p]
<1>1. /\ Frame(t, p) /\ op[t].pc \in Building /\ task[t].st = "running" /\ p \in Tasks /\ task[p].st = "built"
      /\ IsIdle(a) /\ r.st = "free" /\ r.usage = 0 /\ r.vfork_done = NoTask /\ UNCHANGED vfork
      /\ \A k \in Kinds : r[k] = 0
  BY DEF FreeFrame, Building
<1>2. /\ a.pc = "idle" /\ a.p = NoTask /\ a.vfork = NoTask /\ a.pc \notin Waiting
      /\ op[t].pc \notin Waiting /\ op[t].pc # "wait_for_vfork_done"
  BY <1>1, IdleFields, NotOwn DEF Waiting
<1>3. p # t /\ p # NoTask /\ op[p].pc = "idle"
  BY <1>1, ForkAssumption DEF LinkInv, Links, Structure, CallOK
<1>4. \A u \in Tasks : u # t => op[u].p # p
  BY <1>3, OthersElsewhere DEF LinkInv, Links
<1>5. TaskOK(r)
  BY <1>1 DEF TaskOK, Kinds
<1>6. CallOK(t, a, task'[t], task'[a.p])
  BY <1>1, IdleCallOK
<1>7. Structure'
  BY <1>1, <1>2, <1>3, <1>4, <1>5, <1>6, StructureStep DEF LinkInv, Links
<1>8. Vforks'
  BY <1>1, <1>2, VforksStep DEF LinkInv, Links
<1>9. UsageOK'
  <2>1. task[p].usage = 2
    BY <1>1, <1>2, UsageBefore DEF Base
  <2>2. r.usage - Base(r.st) = task[p].usage - Base(task[p].st) /\ r.usage \in Nat /\ task[p].usage \in Nat
    BY <1>1, <2>1 DEF Base
  <2> HIDE DEF r
  <2> QED
    BY <1>1, <1>2, <2>2, UsageStep DEF LinkInv, r
<1> QED
  BY <1>7, <1>8, <1>9 DEF LinkInv, Links

LEMMA ReleaseLinks ==
  ASSUME LinkInv, ForkTypeOK', NEW t \in Tasks, ReleaseFrame(t) \/ CompleteFrame(t)
  PROVE  LinkInv'
<1> DEFINE a == op'[t]  r == task'[t]
<1>1. /\ Frame(t, t) /\ op[t].pc \in {"complete_vfork_done", "complete"} /\ task[t].st = "running"
      /\ a.pc \in {"complete", "exit_mm"} /\ a.p = NoTask /\ a.new = 0 /\ a.new_fs = 0
      /\ a.pc = "complete" => r.alloc_lock = t
      /\ a.pc # "complete" => a.vfork = NoTask
      /\ r.st = "running" /\ r.usage = task[t].usage /\ r.vfork_done = NoTask
  BY DEF ReleaseFrame, CompleteFrame
<1>2. op[t].pc \in Own /\ a.pc \in Own /\ op[t].pc \notin Waiting /\ a.pc \notin Waiting
  BY <1>1, NotOwn DEF Own, Released
<1>3. op[t].p = NoTask /\ op[t].p \notin Tasks
  BY <1>2, ForkAssumption DEF LinkInv, Links, Structure, CallOK
<1>4. TaskOK(r)
  BY <1>1 DEF TaskOK
<1>5. ASSUME NEW q PROVE CallOK(t, a, r, q)
  <2>1. a.pc \notin Building /\ a.pc \notin Forward /\ a.pc # "wake"
    BY <1>2, NotOwn
  <2> HIDE DEF a, r
  <2> QED
    BY <1>1, <1>2, <2>1 DEF CallOK
<1>6. \A u \in Tasks : u # t /\ op[u].p = t => op[u].pc \in Waiting /\ r.st \in Parents
  BY <1>1, OnlyWaiters DEF Parents
<1>7. Structure'
  BY <1>1, <1>3, <1>4, <1>5, <1>6, StructureStep DEF LinkInv, Links
<1>8. Vforks'
  <2>1. ASSUME NEW c \in Tasks, NEW w, Signals(c, w)' PROVE Signals(c, w) /\ Stays(w)
    <3>1. CASE ReleaseFrame(t)
      <4>1. Signals(c, w)
        BY <2>1, <3>1 DEF Signals, Frame, ReleaseFrame
      <4>2. w \in Tasks /\ w # t
        BY <1>1, <4>1, SignalsAwaited DEF LinkInv, Links, Awaited
      <4> QED
        BY <3>1, <4>1, <4>2 DEF Stays, Frame, ReleaseFrame
    <3>2. CASE CompleteFrame(t)
      <4>1. Signals(c, w) /\ c # t
        BY <2>1, <3>2 DEF Signals, Frame, CompleteFrame
      <4>2. w \in Tasks /\ Awaited(w, c)
        BY <4>1, SignalsAwaited DEF LinkInv, Links
      <4>3. w # op[t].vfork
        <5> SUFFICES ASSUME w = op[t].vfork PROVE FALSE
          OBVIOUS
        <5>1. Signals(t, w)
          BY <4>1 DEF Signals
        <5>2. Awaited(w, t)
          BY <5>1, SignalsAwaited DEF LinkInv, Links
        <5> QED
          BY <4>1, <4>2, <5>2 DEF Awaited
      <4>4. w # t
        BY <1>1, <4>2 DEF Awaited
      <4> QED
        BY <3>2, <4>1, <4>2, <4>3, <4>4 DEF Stays, Frame, CompleteFrame
    <3> QED
      BY <3>1, <3>2
  <2> QED
    BY <2>1, VforksKept DEF LinkInv, Links
<1>9. UsageOK'
  <2>1. task[t].usage \in Nat
    BY DEF LinkInv, ForkTypeOK, TaskStruct
  <2> QED
    BY <1>1, <1>2, <2>1, UsageStep DEF LinkInv
<1> QED
  BY <1>7, <1>8, <1>9 DEF LinkInv, Links

LEMMA DeadLinks ==
  ASSUME LinkInv, ForkTypeOK', NEW t \in Tasks, DeadFrame(t)
  PROVE  LinkInv'
<1> DEFINE a == op'[t]  r == task'[t]
<1>1. /\ Frame(t, t) /\ op[t].pc = "release" /\ task[t].st = "running" /\ IsIdle(a)
      /\ r.st = "dead" /\ r.usage = task[t].usage - 1 /\ r.vfork_done = NoTask
      /\ r.mm = 0 /\ r.files = 0 /\ r.fs = 0 /\ r.sighand = 0 /\ UNCHANGED vfork
  BY DEF DeadFrame
<1>2. a.pc = "idle" /\ a.p = NoTask /\ a.vfork = NoTask
  BY <1>1, IdleFields
<1>3. op[t].pc \in Own /\ op[t].pc \notin Waiting /\ a.pc \notin Waiting
  BY <1>1, <1>2, NotOwn DEF Own, Released
<1>4. op[t].p = NoTask /\ op[t].p \notin Tasks
  BY <1>3, ForkAssumption DEF LinkInv, Links, Structure, CallOK
<1>5. TaskOK(r)
  BY <1>1 DEF TaskOK
<1>6. CallOK(t, a, r, task'[a.p])
  BY <1>1, IdleCallOK
<1>7. \A u \in Tasks : u # t /\ op[u].p = t => op[u].pc \in Waiting /\ r.st \in Parents
  BY <1>1, OnlyWaiters DEF Parents
<1>8. Structure'
  BY <1>1, <1>2, <1>4, <1>5, <1>6, <1>7, StructureStep DEF LinkInv, Links
<1>9. Vforks'
  BY <1>1, <1>2, VforksStep DEF LinkInv, Links
<1>10. UsageOK'
  <2>1. task[t].usage \in Nat /\ r.usage \in Nat
    BY DEF LinkInv, ForkTypeOK, TaskStruct
  <2>2. r.usage - Base(r.st) = task[t].usage - Base(task[t].st)
    BY <1>1, <2>1 DEF Base
  <2> HIDE DEF r
  <2> QED
    BY <1>1, <1>3, <2>1, <2>2, UsageStep DEF LinkInv, r
<1> QED
  BY <1>8, <1>9, <1>10 DEF LinkInv, Links

-----------------------------------------------------------------------------
(* The invariant of every behaviour *)

LEMMA LinkInit == ASSUME Init PROVE LinkInv
<1>1. PICK m \in {0, 1} :
        /\ task = [t \in Tasks |->
             IF t = InitTask
             THEN [NoStruct EXCEPT !.st = "running", !.mm = m, !.files = 1, !.fs = 1, !.sighand = 1,
                                   !.signal = 1, !.usage = 2]
             ELSE NoStruct]
        /\ count = [k \in Kinds |-> [o \in Objects |-> IF o = 1 /\ (k = "mm" => m = 1) THEN 1 ELSE 0]]
  BY DEF Init
<1> DEFINE first == [NoStruct EXCEPT !.st = "running", !.mm = m, !.files = 1, !.fs = 1, !.sighand = 1,
                                     !.signal = 1, !.usage = 2]
<1>2. 1 \in Objects
  BY ObjectsAreNumbers
<1>3. first \in TaskStruct /\ first.st = "running" /\ first.usage = 2 /\ first.vfork_done = NoTask
  BY <1>2 DEF NoStruct, TaskStruct, States, Pointer
<1>4. NoStruct \in TaskStruct /\ NoStruct.st = "free" /\ NoStruct.usage = 0 /\ NoStruct.vfork_done = NoTask /\ TaskOK(NoStruct)
  BY DEF NoStruct, TaskStruct, States, Pointer, TaskOK
<1>5. \A t \in Tasks : task[t] = IF t = InitTask THEN first ELSE NoStruct
  BY <1>1
<1> HIDE DEF first
<1>6. /\ op = [t \in Tasks |-> Idle] /\ vfork = [t \in Tasks |-> "none"] /\ nr_threads = 1 /\ processes = 1
      /\ total_forks = 0
  BY DEF Init
<1>7. count \in [Kinds -> [Objects -> Int]]
  BY <1>1
<1>8. task \in [Tasks -> TaskStruct]
  BY <1>1, <1>3, <1>4 DEF first
<1>9. ForkTypeOK
  BY <1>6, <1>7, <1>8, IdleFields DEF ForkTypeOK
<1>10. \A t \in Tasks : IsIdle(op[t]) /\ op[t].p = NoTask /\ op[t].vfork = NoTask /\ op[t].pc = "idle"
  BY <1>6, IdleFields
<1>11. Structure
  <2>1. \A t \in Tasks : TaskOK(task[t])
    BY <1>3, <1>4, <1>5 DEF TaskOK
  <2>2. \A t \in Tasks : CallOK(t, op[t], task[t], task[op[t].p])
    BY <1>10, IdleCallOK
  <2>3. \A x \in Tasks : task[x].st \notin {"built", "new"}
    BY <1>3, <1>4, <1>5
  <2> QED
    BY <1>10, <2>1, <2>2, <2>3 DEF Structure
<1>12. Vforks
  <2>1. \A t \in Tasks : task[t].vfork_done = NoTask
    BY <1>3, <1>4, <1>5
  <2> QED
    BY <1>10, <2>1 DEF Vforks
<1>13. UsageOK
  <2>1. \A x \in Tasks : ~Waits(x)
    BY <1>10, NotOwn DEF Waits, Waiting
  <2>2. \A x \in Tasks : task[x].usage = Base(task[x].st) + 0 /\ task[x].st # "switched"
    BY <1>3, <1>4, <1>5 DEF Base
  <2> QED
    BY <2>1, <2>2 DEF UsageOK
<1> QED
  BY <1>9, <1>11, <1>12, <1>13 DEF LinkInv, Links

LEMMA LinkStep == ASSUME LinkInv, NEW t \in Tasks, Step(t) PROVE LinkInv'
<1>l. ForkTypeOK /\ Links
  BY DEF LinkInv
<1>1. CASE copy_creds(t) \/ check_threads(t) \/ CopySetup(t) \/ CopyContext(t)
  BY <1>l, <1>1, SetupFrame, BuildLinks
<1>2. CASE CopyShared(t) \/ copy_signal(t)
  BY <1>l, <1>2, CopySharedFrame, CopySignalFrame, BuildLinks
<1>3. CASE copy_mm(t) \/ dup_mmap(t) \/ get_binfmt(t) \/ free_pt(t)
  BY <1>l, <1>3, CopyMmFrame, DupMmFrame, BuildLinks
<1>4. CASE CleanupContext(t) \/ CleanupMm(t) \/ CleanupSignal(t) \/ CleanupShared(t)
  BY <1>l, <1>4, CleanupFrame, BuildLinks
<1>5. CASE mm_access(t) \/ mm_access_end(t)
  BY <1>l, <1>5, MmAccessFrame, OwnLinks
<1>6. CASE unshare(t) \/ unshare_fs(t) \/ unshare_fd(t) \/ unshare_namespaces(t)
  BY <1>l, <1>6, UnshareFrame, OwnLinks
<1>7. CASE unshare_install(t)
  BY <1>l, <1>7, UnshareInstallFrame, OwnLinks
<1>8. CASE unshare_cleanup_fd(t) \/ unshare_cleanup_fs(t)
  BY <1>l, <1>8, UnshareEndFrame, OwnLinks
<1>9. CASE unshare_files(t)
  BY <1>l, <1>9, UnshareFilesFrame, OwnLinks
<1>10. CASE do_exit(t) \/ mm_release(t) \/ exit_mm(t) \/ ExitShared(t)
  BY <1>l, <1>10, ExitFrame, OwnLinks
<1>11. CASE dup_task_struct(t)
  BY <1>11, DupShape, DupLinks
<1>12. CASE Publish(t)
  BY <1>12, PublishShape, PublishLinks, BuildLinks
<1>13. CASE FreeTask(t)
  BY <1>13, FreeShape, FreeLinks
<1>14. CASE wake_up_new_task(t)
  BY <1>14, WakeShape, WakeLinks
<1>15. CASE wait_for_vfork_done(t) \/ vfork_killed(t)
  BY <1>15, WaitedShape, KilledShape, WaitedLinks
<1>16. CASE vfork_put(t)
  BY <1>16, VforkPutShape, VforkPutLinks
<1>17. CASE complete_vfork_done(t) \/ complete(t)
  BY <1>17, ReleaseShape, CompleteShape, ReleaseLinks
<1>18. CASE release_task(t)
  BY <1>18, DeadShape, DeadLinks
<1>19. CASE finish_task_switch(t)
  BY <1>19, SwitchShape, SwitchLinks
<1> QED
  BY <1>1, <1>2, <1>3, <1>4, <1>5, <1>6, <1>7, <1>8, <1>9, <1>10, <1>11, <1>12, <1>13, <1>14, <1>15, <1>16,
     <1>17, <1>18, <1>19 DEF Step

LEMMA LinkNext == ASSUME LinkInv, [Next]_vars PROVE LinkInv'
<1>1. CASE Next
  BY <1>1, LinkStep DEF Next
<1>2. CASE UNCHANGED vars
  <2>1. UNCHANGED <<task, op, count, vfork, nr_threads, processes, total_forks>>
    BY <1>2 DEF vars
  <2>2. ForkTypeOK' /\ UsageOK'
    BY <2>1 DEF LinkInv, ForkTypeOK, UsageOK, Waits
  <2>3. Links'
    BY <2>1 DEF LinkInv, Links, Structure, Vforks, Awaited
  <2> QED
    BY <2>2, <2>3 DEF LinkInv
<1> QED
  BY <1>1, <1>2

(* A completion that a child is about to signal, or that its task_struct      *)
(* still points to, belongs to a parent that waits in do_fork, and the child  *)
(* a parent waits for or puts is not freed: a parent that is killed takes the *)
(* pointer back under the child's alloc_lock, which the child holds from      *)
(* reading it until complete returns (mm_release, complete_vfork_done and     *)
(* wait_for_vfork_done of fork.c).                                            *)
THEOREM ForkVforkFramesLive == Spec => []VforkFramesLive
<1>1. LinkInv => VforkFramesLive
  <2> SUFFICES ASSUME LinkInv, NEW t \in Tasks
               PROVE  /\ op[t].vfork # NoTask => vfork[op[t].vfork] = "waiting"
                      /\ task[t].vfork_done # NoTask => vfork[task[t].vfork_done] = "waiting"
                      /\ op[t].pc \in {"wait_for_vfork_done", "vfork_put"} => task[op[t].p].st # "free"
    BY DEF VforkFramesLive
  <2>1. Awaited(op[t].vfork, t) \/ op[t].vfork = NoTask
    BY DEF LinkInv, Links, Vforks
  <2>2. Awaited(task[t].vfork_done, t) \/ task[t].vfork_done = NoTask
    BY DEF LinkInv, Links, Vforks
  <2>3. op[t].pc \in Waiting => task[op[t].p].st \in Parents
    BY DEF LinkInv, Links, Structure, CallOK, Parents
  <2> QED
    BY <2>1, <2>2, <2>3 DEF Awaited, Waiting, Parents
<1>2. Init => LinkInv
  BY LinkInit
<1>3. LinkInv /\ [Next]_vars => LinkInv'
  BY LinkNext
<1> QED
  BY <1>1, <1>2, <1>3, PTL DEF Spec

-----------------------------------------------------------------------------
(* Reference counts: a step changes the references of one task and one call *)

Ind(b) == IF b THEN 1 ELSE 0

SeenNow(x, k) == Seen(task[x], k)
KeptNow(t, k) == Kept(op[t], task[op[t].p], k)

LEMMA CardStep ==
  ASSUME NEW S, NEW T, S \subseteq Tasks, T \subseteq Tasks, NEW x \in Tasks,
         \A y \in Tasks : y # x => (y \in S <=> y \in T)
  PROVE  /\ Cardinality(S) \in Nat /\ Cardinality(T) \in Nat
         /\ Cardinality(T) = Cardinality(S) + (Ind(x \in T) - Ind(x \in S))
<1>1. IsFiniteSet(S) /\ IsFiniteSet(T)
  BY ForkAssumption, FS_Subset
<1>2. Cardinality(S) \in Nat /\ Cardinality(T) \in Nat
  BY <1>1, FS_CardinalityType
<1>3. CASE x \in S <=> x \in T
  <2>1. S = T
    BY <1>3
  <2>2. Ind(x \in T) - Ind(x \in S) = 0
    BY <1>3 DEF Ind
  <2> QED
    BY <1>2, <2>1, <2>2
<1>4. CASE x \in S /\ x \notin T
  <2>1. T = S \ {x}
    BY <1>4
  <2>2. Cardinality(T) = Cardinality(S) - 1
    BY <1>1, <1>4, <2>1, FS_RemoveElement
  <2> QED
    BY <1>2, <1>4, <2>2 DEF Ind
<1>5. CASE x \notin S /\ x \in T
  <2>1. T = S \cup {x}
    BY <1>5
  <2>2. Cardinality(T) = Cardinality(S) + 1
    BY <1>1, <1>5, <2>1, FS_AddElement
  <2> QED
    BY <1>2, <1>5, <2>2 DEF Ind
<1> QED
  BY <1>3, <1>4, <1>5

(* The counts follow the references of task x and of the call of t.           *)
Balanced(t, x) ==
  \A k \in Kinds, o \in Objects :
    count'[k][o] = count[k][o] + (Ind(SeenNow(x, k)' = o) - Ind(SeenNow(x, k) = o))
                               + (Ind(KeptNow(t, k)' = o) - Ind(KeptNow(t, k) = o))

LEMMA CountedStep ==
  ASSUME Counted, NEW t \in Tasks, NEW x \in Tasks, Frame(t, x),
         \A u \in Tasks, k \in Kinds : u # t => KeptNow(u, k)' = KeptNow(u, k),
         Balanced(t, x)
  PROVE  Counted'
<1> SUFFICES ASSUME NEW k \in Kinds, NEW o \in Objects
             PROVE  count'[k][o] = Cardinality(SeenBy(k, o)') + Cardinality(KeptBy(k, o)')
  BY DEF Counted
<1> DEFINE S == SeenBy(k, o)  S2 == SeenBy(k, o)'  K == KeptBy(k, o)  K2 == KeptBy(k, o)'
<1>1. /\ S \subseteq Tasks /\ S2 \subseteq Tasks /\ K \subseteq Tasks /\ K2 \subseteq Tasks
      /\ \A y \in Tasks : /\ y \in S <=> SeenNow(y, k) = o
                          /\ y \in S2 <=> SeenNow(y, k)' = o
                          /\ y \in K <=> KeptNow(y, k) = o
                          /\ y \in K2 <=> KeptNow(y, k)' = o
  BY DEF SeenBy, KeptBy, SeenNow, KeptNow
<1>2. \A y \in Tasks : y # x => SeenNow(y, k)' = SeenNow(y, k)
  BY DEF SeenNow, Frame
<1>3. count[k][o] = Cardinality(S) + Cardinality(K)
  BY DEF Counted
<1>4. count'[k][o] = count[k][o] + (Ind(x \in S2) - Ind(x \in S)) + (Ind(t \in K2) - Ind(t \in K))
  BY <1>1 DEF Balanced
<1> HIDE DEF S, S2, K, K2
<1>5. /\ Cardinality(S) \in Nat /\ Cardinality(S2) = Cardinality(S) + (Ind(x \in S2) - Ind(x \in S))
  <2>1. \A y \in Tasks : y # x => (y \in S <=> y \in S2)
    BY <1>1, <1>2
  <2> QED
    BY <1>1, <2>1, CardStep
<1>6. /\ Cardinality(K) \in Nat /\ Cardinality(K2) = Cardinality(K) + (Ind(t \in K2) - Ind(t \in K))
  <2>1. \A y \in Tasks : y # t => (y \in K <=> y \in K2)
    BY <1>1
  <2> QED
    BY <1>1, <2>1, CardStep
<1>7. count'[k][o] = Cardinality(S2) + Cardinality(K2)
  <2> DEFINE a == Ind(x \in S2) - Ind(x \in S)  b == Ind(t \in K2) - Ind(t \in K)
  <2>1. a \in Int /\ b \in Int
    BY DEF Ind
  <2> HIDE DEF a, b
  <2> QED
    BY <1>3, <1>4, <1>5, <1>6, <2>1 DEF a, b
<1> QED
  BY <1>7 DEF S2, K2

(* What a call keeps, away from the stages of copy_process.                   *)
OwnKept(pc, n, m, k) ==
  IF k = "mm" THEN IF pc = "mm_access" THEN n ELSE 0
  ELSE IF k = "files" THEN IF pc \in {"unshare_ns", "unshare_install", "bad_unshare_cleanup_fd"} THEN n ELSE 0
  ELSE IF k = "fs" THEN m
  ELSE 0

(* ... and at them.                                                           *)
BuildKept(pc, n, f, o, k) ==
  IF pc \in CountedAt[k] THEN IF k = "signal" /\ "THREAD" \in f THEN 0 ELSE o
  ELSE IF k = "mm" THEN n ELSE 0

LEMMA CountedWhileBuilding == \A k \in Kinds : CountedAt[k] \subseteq Building
BY DEF Kinds, CountedAt, Building, Forward, Undoing, FilesPcs, FsPcs, SighandPcs, SignalPcs, MmPcs

LEMMA KeptOwn ==
  ASSUME NEW a, NEW q, NEW k \in Kinds, a.pc \notin Building
  PROVE  Kept(a, q, k) = OwnKept(a.pc, a.new, a.new_fs, k)
<1>1. a.pc \notin CountedAt[k]
  BY CountedWhileBuilding
<1>2. a.pc \notin {"dup_mmap", "binfmt", "free_pt"}
  BY DEF Building, Forward
<1> QED
  BY <1>1, <1>2 DEF Kept, OwnKept

LEMMA KeptBuild ==
  ASSUME NEW a, NEW q, NEW k \in Kinds, a.pc \in Building, a.new_fs = 0,
         a.new # 0 => a.pc \in {"dup_mmap", "binfmt", "free_pt"}
  PROVE  Kept(a, q, k) = BuildKept(a.pc, a.new, a.flags, q[k], k)
<1>1. a.pc \notin {"mm_access", "unshare_ns", "unshare_install", "bad_unshare_cleanup_fd"}
  BY DEF Building, Forward, Undoing
<1>2. CASE a.pc \in CountedAt[k]
  BY <1>2 DEF Kept, BuildKept
<1>3. CASE a.pc \notin CountedAt[k]
  BY <1>1, <1>3 DEF Kept, BuildKept
<1> QED
  BY <1>2, <1>3

(* The calls of the other tasks keep what they kept.                          *)
LEMMA OthersKeep ==
  ASSUME LinkInv, NEW t \in Tasks, NEW x, Frame(t, x),
         \A u \in Tasks : u # t /\ op[u].p = x => op[u].pc \in Waiting
  PROVE  \A u \in Tasks, k \in Kinds : u # t => KeptNow(u, k)' = KeptNow(u, k)
<1> SUFFICES ASSUME NEW u \in Tasks, NEW k \in Kinds, u # t PROVE KeptNow(u, k)' = KeptNow(u, k)
  OBVIOUS
<1>1. op'[u] = op[u]
  BY DEF Frame
<1>2. CASE op[u].pc \notin Building
  <2>1. KeptNow(u, k) = OwnKept(op[u].pc, op[u].new, op[u].new_fs, k)
    BY <1>2, KeptOwn DEF KeptNow
  <2> DEFINE a == op'[u]  q == task'[op'[u].p]
  <2>2. a.pc \notin Building
    BY <1>1, <1>2
  <2>3. Kept(a, q, k) = OwnKept(a.pc, a.new, a.new_fs, k)
    <3> HIDE DEF a, q
    <3> QED
      BY <2>2, KeptOwn
  <2> QED
    BY <1>1, <2>1, <2>3 DEF KeptNow
<1>3. CASE op[u].pc \in Building
  <2>1. op[u].p \in Tasks
    BY <1>3, NotOwn DEF LinkInv, Links, Structure, CallOK
  <2>2. op[u].p # x
    BY <1>3, NotOwn
  <2>3. task'[op[u].p] = task[op[u].p]
    BY <2>1, <2>2 DEF Frame
  <2> QED
    BY <1>1, <2>3 DEF KeptNow
<1> QED
  BY <1>2, <1>3

-----------------------------------------------------------------------------
(* Reference counts during copy_process *)

Keeps(k) == \A o \in Objects : count'[k][o] = count[k][o]
Adds(k, v) == \A o \in Objects : count'[k][o] = count[k][o] + Ind(v = o)
Drops(k, v) == \A o \in Objects : count'[k][o] = count[k][o] - Ind(v = o)

(* A reference of kind k turns from v into w (0 for none).                    *)
Moved(k, v, w) == (v = w /\ Keeps(k)) \/ (v = 0 /\ Adds(k, w)) \/ (w = 0 /\ Drops(k, v))

LEMMA TookAdds ==
  ASSUME ForkTypeOK, NEW k \in Kinds, NEW v \in Pointer, Took(k, v)
  PROVE  Adds(k, v) /\ \A j \in Kinds : j # k => Keeps(j)
<1>1. count \in [Kinds -> [Objects -> Int]]
  BY DEF ForkTypeOK
<1>2. CASE v \in Objects
  BY <1>1, <1>2 DEF Took, Adds, Keeps, Ind
<1>3. CASE v \notin Objects
  <2>1. \A j \in Kinds, o \in Objects : count'[j][o] = count[j][o]
    BY <1>1, <1>3 DEF Took
  <2>2. \A o \in Objects : count[k][o] + Ind(v = o) = count[k][o]
    BY <1>1, <1>3 DEF Ind
  <2> QED
    BY <2>1, <2>2 DEF Adds, Keeps
<1> QED
  BY <1>2, <1>3

LEMMA PutDrops ==
  ASSUME ForkTypeOK, NEW k \in Kinds, NEW v \in Pointer, Put(k, v)
  PROVE  Drops(k, v) /\ \A j \in Kinds : j # k => Keeps(j)
<1>1. count \in [Kinds -> [Objects -> Int]]
  BY DEF ForkTypeOK
<1>2. CASE v \in Objects
  BY <1>1, <1>2 DEF Put, Drops, Keeps, Ind
<1>3. CASE v \notin Objects
  <2>1. \A j \in Kinds, o \in Objects : count'[j][o] = count[j][o]
    BY <1>1, <1>3 DEF Put
  <2>2. \A o \in Objects : count[k][o] - Ind(v = o) = count[k][o]
    BY <1>1, <1>3 DEF Ind
  <2> QED
    BY <2>1, <2>2 DEF Drops, Keeps
<1> QED
  BY <1>2, <1>3

LEMMA SameKeeps == ASSUME UNCHANGED count PROVE \A k \in Kinds : Keeps(k)
BY DEF Keeps

(* The two ways a step balances: the call's reference or the task's moves.    *)
LEMMA MovedBalances ==
  ASSUME ForkTypeOK, ForkTypeOK', NEW k \in Kinds, NEW o \in Objects, NEW v, NEW w, NEW s, NEW z,
         (s = z /\ Moved(k, v, w)) \/ (v = w /\ Moved(k, s, z))
  PROVE  count'[k][o] = count[k][o] + (Ind(z = o) - Ind(s = o)) + (Ind(w = o) - Ind(v = o))
<1>1. count[k][o] \in Int /\ count'[k][o] \in Int /\ o # 0
  BY ObjectsAreNumbers DEF ForkTypeOK
<1>2. ASSUME NEW a, NEW b, Moved(k, a, b) PROVE count'[k][o] = count[k][o] + (Ind(b = o) - Ind(a = o))
  BY <1>1, <1>2 DEF Moved, Keeps, Adds, Drops, Ind
<1>3. \A a : Ind(a = o) \in {0, 1}
  BY DEF Ind
<1>4. CASE s = z /\ Moved(k, v, w)
  <2> DEFINE c == count[k][o]  d == count'[k][o]  i == Ind(z = o)  j == Ind(w = o)  l == Ind(v = o)
  <2>1. d = c + (j - l) /\ c \in Int /\ i \in {0, 1} /\ j \in {0, 1} /\ l \in {0, 1} /\ Ind(s = o) = i
    BY <1>1, <1>2, <1>3, <1>4
  <2> HIDE DEF c, d, i, j, l
  <2>2. d = c + (i - i) + (j - l)
    BY <2>1
  <2> QED
    BY <2>1, <2>2 DEF c, d, i, j, l
<1>5. CASE v = w /\ Moved(k, s, z)
  <2> DEFINE c == count[k][o]  d == count'[k][o]  i == Ind(w = o)  j == Ind(z = o)  l == Ind(s = o)
  <2>1. d = c + (j - l) /\ c \in Int /\ i \in {0, 1} /\ j \in {0, 1} /\ l \in {0, 1} /\ Ind(v = o) = i
    BY <1>1, <1>2, <1>3, <1>5
  <2> HIDE DEF c, d, i, j, l
  <2>2. d = c + (j - l) + (i - i)
    BY <2>1
  <2> QED
    BY <2>1, <2>2 DEF c, d, i, j, l
<1> QED
  BY <1>4, <1>5

BuildMoved(t) ==
  \A k \in Kinds : Moved(k, BuildKept(op[t].pc, op[t].new, op[t].flags, task[op[t].p][k], k),
                            BuildKept(op'[t].pc, op'[t].new, op[t].flags, task'[op[t].p][k], k))

LEMMA BuildCounted ==
  ASSUME LinkInv, Counted, ForkTypeOK', NEW t \in Tasks, BuildFrame(t), BuildMoved(t)
  PROVE  Counted'
<1> DEFINE p == op[t].p
<1>1. /\ op[t].pc \in Building /\ op'[t].pc \in Building /\ op'[t].p = p /\ op'[t].flags = op[t].flags
      /\ op'[t].new_fs = op[t].new_fs
      /\ op'[t].new # 0 => op'[t].pc \in {"dup_mmap", "binfmt", "free_pt"}
      /\ Frame(t, p) /\ task'[p].st = task[p].st
  BY DEF BuildFrame
<1>2. /\ p \in Tasks /\ task[p].st = "built" /\ op[t].new_fs = 0
      /\ op[t].new # 0 => op[t].pc \in {"dup_mmap", "binfmt", "free_pt"}
      /\ \A u \in Tasks : u # t => op[u].p # p
  <2>1. CallOK(t, op[t], task[t], task[p])
    BY DEF LinkInv, Links, Structure
  <2>2. p \in Tasks /\ task[p].st = "built"
    BY <1>1, <2>1, NotOwn DEF CallOK
  <2>3. op[t].new_fs = 0 /\ (op[t].new # 0 => op[t].pc \in {"dup_mmap", "binfmt", "free_pt"})
    BY <1>1, <2>1 DEF CallOK, Building, Forward, Undoing
  <2> QED
    BY <2>2, <2>3, ForkAssumption, OthersElsewhere DEF LinkInv, Links
<1>3. \A u \in Tasks, k \in Kinds : u # t => KeptNow(u, k)' = KeptNow(u, k)
  BY <1>1, <1>2, OthersKeep
<1>4. Balanced(t, p)
  <2> SUFFICES ASSUME NEW k \in Kinds, NEW o \in Objects
               PROVE  count'[k][o] = count[k][o] + (Ind(SeenNow(p, k)' = o) - Ind(SeenNow(p, k) = o))
                                       + (Ind(KeptNow(t, k)' = o) - Ind(KeptNow(t, k) = o))
    BY DEF Balanced
  <2>1. SeenNow(p, k) = 0 /\ SeenNow(p, k)' = 0
    BY <1>1, <1>2 DEF SeenNow, Seen
  <2>2. KeptNow(t, k) = BuildKept(op[t].pc, op[t].new, op[t].flags, task[p][k], k)
    BY <1>1, <1>2, KeptBuild DEF KeptNow
  <2>3. KeptNow(t, k)' = BuildKept(op'[t].pc, op'[t].new, op[t].flags, task'[p][k], k)
    <3> DEFINE a == op'[t]  q == task'[p]
    <3>1. a.pc \in Building /\ a.new_fs = 0 /\ (a.new # 0 => a.pc \in {"dup_mmap", "binfmt", "free_pt"})
      BY <1>1, <1>2
    <3>2. Kept(a, q, k) = BuildKept(a.pc, a.new, a.flags, q[k], k)
      <4> HIDE DEF a, q
      <4> QED
        BY <3>1, KeptBuild
    <3> QED
      BY <1>1, <3>2 DEF KeptNow
  <2>4. Moved(k, KeptNow(t, k), KeptNow(t, k)')
    BY <2>2, <2>3 DEF BuildMoved
  <2> DEFINE v == KeptNow(t, k)  w == KeptNow(t, k)'  s == SeenNow(p, k)  z == SeenNow(p, k)'
  <2>5. s = z /\ Moved(k, v, w)
    BY <2>1, <2>4
  <2> HIDE DEF v, w, s, z
  <2>6. count'[k][o] = count[k][o] + (Ind(z = o) - Ind(s = o)) + (Ind(w = o) - Ind(v = o))
    BY <2>5, MovedBalances DEF LinkInv
  <2> QED
    BY <2>6 DEF v, w, s, z
<1> QED
  BY <1>1, <1>2, <1>3, <1>4, CountedStep

(* What the assignments to a call and to the new task leave alone.            *)
LEMMA GotoFields ==
  ASSUME ForkTypeOK, NEW t \in Tasks, NEW pc, NEW n, GotoWith(t, pc, n)
  PROVE  /\ op'[t].pc = pc /\ op'[t].new = n /\ op'[t].p = op[t].p /\ op'[t].flags = op[t].flags
         /\ op'[t].new_fs = op[t].new_fs /\ op'[t].vfork = op[t].vfork
<1> DEFINE a == op[t]  b == op'[t]
<1>1. a \in Call /\ b = [a EXCEPT !.pc = pc, !.new = n]
  BY DEF ForkTypeOK, GotoWith
<1> HIDE DEF a, b
<1>2. b.pc = pc /\ b.new = n /\ b.p = a.p /\ b.flags = a.flags /\ b.new_fs = a.new_fs /\ b.vfork = a.vfork
  BY <1>1 DEF Call
<1> QED
  BY <1>2 DEF a, b

LEMMA HoldFields ==
  ASSUME ForkTypeOK, NEW t \in Tasks, op[t].p \in Tasks, NEW h, Hold(t, h) \/ Release(t, h)
  PROVE  \A k \in Kinds : task'[op[t].p][k] = task[op[t].p][k]
BY DEF ForkTypeOK, TaskStruct, Hold, Release, Kinds

LEMMA RepointFields ==
  ASSUME ForkTypeOK, NEW t \in Tasks, op[t].p \in Tasks, NEW k \in Kinds, NEW o, Repoint(t, k, o)
  PROVE  task'[op[t].p][k] = o /\ \A j \in Kinds : j # k => task'[op[t].p][j] = task[op[t].p][j]
BY DEF ForkTypeOK, TaskStruct, Repoint, Kinds

(* The new task is counted for the same objects at pc and at next.            *)
SameCounts(pc, next) == \A k \in Kinds : pc \in CountedAt[k] <=> next \in CountedAt[k]

LEMMA SameMoves ==
  ASSUME NEW t \in Tasks, UNCHANGED count, SameCounts(op[t].pc, op'[t].pc), op'[t].new = op[t].new,
         \A k \in Kinds : task'[op[t].p][k] = task[op[t].p][k]
  PROVE  BuildMoved(t)
BY SameKeeps DEF BuildMoved, Moved, BuildKept, SameCounts

(* ... but for those of kind j.                                               *)
LEMMA OneMoves ==
  ASSUME NEW t \in Tasks, NEW j \in Kinds,
         \A k \in Kinds : k # j => /\ op[t].pc \in CountedAt[k] <=> op'[t].pc \in CountedAt[k]
                                   /\ task'[op[t].p][k] = task[op[t].p][k] /\ Keeps(k)
                                   /\ k = "mm" => op'[t].new = op[t].new,
         Moved(j, BuildKept(op[t].pc, op[t].new, op[t].flags, task[op[t].p][j], j),
                  BuildKept(op'[t].pc, op'[t].new, op[t].flags, task'[op[t].p][j], j))
  PROVE  BuildMoved(t)
<1> SUFFICES ASSUME NEW k \in Kinds, k # j
             PROVE  Moved(k, BuildKept(op[t].pc, op[t].new, op[t].flags, task[op[t].p][k], k),
                            BuildKept(op'[t].pc, op'[t].new, op[t].flags, task'[op[t].p][k], k))
  BY DEF BuildMoved
<1> QED
  BY DEF Moved, BuildKept

LEMMA StageCounts ==
  /\ SameCounts("creds", "module") /\ SameCounts("creds", "bad_fork_free")
  /\ SameCounts("module", "setup") /\ SameCounts("module", "bad_fork_cleanup_count")
  /\ \A pc \in {"files", "bad_fork_cleanup_threadgroup_lock", "bad_fork_cleanup_policy", "bad_fork_cleanup_audit"} :
       SameCounts("setup", pc)
  /\ \A pc \in {"publish", "bad_fork_cleanup_io", "bad_fork_cleanup_namespaces", "bad_fork_cleanup_mm"} :
       SameCounts("context", pc)
  /\ SameCounts("publish", "bad_fork_free_pid")
  /\ \A pc \in {"bad_fork_free_pid", "bad_fork_cleanup_io", "bad_fork_cleanup_namespaces"} :
       SameCounts(pc, "bad_fork_cleanup_mm")
  /\ SameCounts("dup_mmap", "binfmt") /\ SameCounts("dup_mmap", "free_pt") /\ SameCounts("binfmt", "free_pt")
  /\ SameCounts("files", "bad_fork_cleanup_semundo") /\ SameCounts("fs", "bad_fork_cleanup_files")
  /\ SameCounts("sighand", "bad_fork_cleanup_fs") /\ SameCounts("signal", "bad_fork_cleanup_sighand")
  /\ SameCounts("mm", "bad_fork_cleanup_signal") /\ SameCounts("mm", "dup_mmap")
  /\ SameCounts("free_pt", "bad_fork_cleanup_signal")
<1> USE DEF CountedAt, FilesPcs, FsPcs, SighandPcs, SignalPcs, MmPcs
<1>1. ASSUME NEW k \in Kinds PROVE k = "mm" \/ k = "files" \/ k = "fs" \/ k = "sighand" \/ k = "signal"
  BY DEF Kinds
<1> HIDE DEF CountedAt, FilesPcs, FsPcs, SighandPcs, SignalPcs, MmPcs
<1>2. CountedAt["mm"] = MmPcs /\ CountedAt["signal"] = SignalPcs /\ CountedAt["sighand"] = SighandPcs
      /\ CountedAt["fs"] = FsPcs /\ CountedAt["files"] = FilesPcs
  BY DEF CountedAt
<1>3. ASSUME NEW pc, NEW next,
             pc \in MmPcs <=> next \in MmPcs, pc \in SignalPcs <=> next \in SignalPcs,
             pc \in SighandPcs <=> next \in SighandPcs, pc \in FsPcs <=> next \in FsPcs,
             pc \in FilesPcs <=> next \in FilesPcs
      PROVE  SameCounts(pc, next)
  <2> SUFFICES ASSUME NEW k \in Kinds PROVE pc \in CountedAt[k] <=> next \in CountedAt[k]
    BY DEF SameCounts
  <2> QED
    BY <1>1, <1>2, <1>3
<1> USE DEF FilesPcs, FsPcs, SighandPcs, SignalPcs, MmPcs
<1>4. SameCounts("creds", "module") /\ SameCounts("creds", "bad_fork_free")
      /\ SameCounts("module", "setup") /\ SameCounts("module", "bad_fork_cleanup_count")
  BY <1>3
<1>5. \A pc \in {"files", "bad_fork_cleanup_threadgroup_lock", "bad_fork_cleanup_policy", "bad_fork_cleanup_audit"} :
       SameCounts("setup", pc)
  BY <1>3
<1>6. \A pc \in {"publish", "bad_fork_cleanup_io", "bad_fork_cleanup_namespaces", "bad_fork_cleanup_mm"} :
       SameCounts("context", pc)
  BY <1>3
<1>7. /\ SameCounts("publish", "bad_fork_free_pid")
      /\ \A pc \in {"bad_fork_free_pid", "bad_fork_cleanup_io", "bad_fork_cleanup_namespaces"} :
           SameCounts(pc, "bad_fork_cleanup_mm")
  BY <1>3
<1>8. SameCounts("dup_mmap", "binfmt") /\ SameCounts("dup_mmap", "free_pt") /\ SameCounts("binfmt", "free_pt")
  BY <1>3
<1>9. SameCounts("files", "bad_fork_cleanup_semundo") /\ SameCounts("fs", "bad_fork_cleanup_files")
  BY <1>3
<1>10. SameCounts("sighand", "bad_fork_cleanup_fs") /\ SameCounts("signal", "bad_fork_cleanup_sighand")
  BY <1>3
<1>11. SameCounts("mm", "bad_fork_cleanup_signal") /\ SameCounts("mm", "dup_mmap") /\ SameCounts("free_pt", "bad_fork_cleanup_signal")
  BY <1>3
<1> QED
  BY <1>4, <1>5, <1>6, <1>7, <1>8, <1>9, <1>10, <1>11

(* What a run of stages leaves to its end or to the label of a failure.       *)
SetupHeld ==
  [files |-> {"policy", "perf", "audit", "semundo"}, bad_fork_cleanup_threadgroup_lock |-> {},
   bad_fork_cleanup_policy |-> {"policy", "perf"}, bad_fork_cleanup_audit |-> {"policy", "perf", "audit"}]
ContextHeld ==
  [publish |-> {"namespaces", "io", "pid"}, bad_fork_cleanup_io |-> {"namespaces", "io"},
   bad_fork_cleanup_namespaces |-> {"namespaces"}, bad_fork_cleanup_mm |-> {}]

LEMMA SetupRuns ==
  ASSUME NEW t \in Tasks, NEW before, RunOfStages(t, Setup, before, "files")
  PROVE  \E pc \in DOMAIN SetupHeld : \E h \in SUBSET (before \cup SetupHeld[pc]) : Hold(t, h) /\ Goto(t, pc)
<1>0. /\ ErrorLabels["policy"] = "bad_fork_cleanup_threadgroup_lock" /\ ErrorLabels["sched"] = "bad_fork_cleanup_policy"
      /\ ErrorLabels["perf"] = "bad_fork_cleanup_policy" /\ ErrorLabels["audit"] = "bad_fork_cleanup_policy"
      /\ ErrorLabels["semundo"] = "bad_fork_cleanup_audit"
  BY DEF ErrorLabels
<1>1. CASE Hold(t, before \cup Left(t, Setup)) /\ Goto(t, "files")
  <2>1. Left(t, Setup) \subseteq SetupHeld["files"]
    BY DEF Left, ToSet, Setup, SetupHeld
  <2>2. "files" \in DOMAIN SetupHeld
    BY DEF SetupHeld
  <2> QED
    BY <1>1, <2>1, <2>2
<1>2. CASE \E i \in DOMAIN Setup : Hold(t, before \cup Left(t, SubSeq(Setup, 1, i - 1))) /\ Goto(t, OnError(Setup[i]))
  <2>1. PICK i \in DOMAIN Setup : Hold(t, before \cup Left(t, SubSeq(Setup, 1, i - 1))) /\ Goto(t, OnError(Setup[i]))
    BY <1>2
  <2>2. i = 1 \/ i = 2 \/ i = 3 \/ i = 4 \/ i = 5
    BY DEF Setup
  <2>3. OnError(Setup[i]) \in DOMAIN SetupHeld
    BY <1>0, <2>2 DEF OnError, Setup, SetupHeld
  <2>4. Left(t, SubSeq(Setup, 1, i - 1)) \subseteq SetupHeld[OnError(Setup[i])]
    <3>1. CASE i = 1
      BY <1>0, <3>1 DEF OnError, Setup, SetupHeld, Left, ToSet
    <3>2. CASE i = 2
      BY <1>0, <3>2 DEF OnError, Setup, SetupHeld, Left, ToSet
    <3>3. CASE i = 3
      BY <1>0, <3>3 DEF OnError, Setup, SetupHeld, Left, ToSet
    <3>4. CASE i = 4
      BY <1>0, <3>4 DEF OnError, Setup, SetupHeld, Left, ToSet
    <3>5. CASE i = 5
      BY <1>0, <3>5 DEF OnError, Setup, SetupHeld, Left, ToSet
    <3> QED
      BY <2>2, <3>1, <3>2, <3>3, <3>4, <3>5
  <2> QED
    BY <2>1, <2>3, <2>4
<1> QED
  BY <1>1, <1>2 DEF RunOfStages

LEMMA ContextRuns ==
  ASSUME NEW t \in Tasks, RunOfStages(t, Context, {}, "publish")
  PROVE  \E pc \in DOMAIN ContextHeld : \E h \in SUBSET ContextHeld[pc] : Hold(t, h) /\ Goto(t, pc)
<1>0. /\ ErrorLabels["namespaces"] = "bad_fork_cleanup_mm" /\ ErrorLabels["io"] = "bad_fork_cleanup_namespaces"
      /\ ErrorLabels["thread"] = "bad_fork_cleanup_io" /\ ErrorLabels["pid"] = "bad_fork_cleanup_io"
  BY DEF ErrorLabels
<1>1. CASE Hold(t, {} \cup Left(t, Context)) /\ Goto(t, "publish")
  <2>1. {} \cup Left(t, Context) \subseteq ContextHeld["publish"]
    BY DEF Left, ToSet, Context, ContextHeld
  <2>2. "publish" \in DOMAIN ContextHeld
    BY DEF ContextHeld
  <2> QED
    BY <1>1, <2>1, <2>2
<1>2. CASE \E i \in DOMAIN Context : Hold(t, {} \cup Left(t, SubSeq(Context, 1, i - 1))) /\ Goto(t, OnError(Context[i]))
  <2>1. PICK i \in DOMAIN Context : Hold(t, {} \cup Left(t, SubSeq(Context, 1, i - 1))) /\ Goto(t, OnError(Context[i]))
    BY <1>2
  <2>2. i = 1 \/ i = 2 \/ i = 3 \/ i = 4
    BY DEF Context
  <2>3. OnError(Context[i]) \in DOMAIN ContextHeld
    BY <1>0, <2>2 DEF OnError, Context, ContextHeld
  <2>4. {} \cup Left(t, SubSeq(Context, 1, i - 1)) \subseteq ContextHeld[OnError(Context[i])]
    <3>1. CASE i = 1
      BY <1>0, <3>1 DEF OnError, Context, ContextHeld, Left, ToSet
    <3>2. CASE i = 2
      BY <1>0, <3>2 DEF OnError, Context, ContextHeld, Left, ToSet
    <3>3. CASE i = 3
      BY <1>0, <3>3 DEF OnError, Context, ContextHeld, Left, ToSet
    <3>4. CASE i = 4
      BY <1>0, <3>4 DEF OnError, Context, ContextHeld, Left, ToSet
    <3> QED
      BY <2>2, <3>1, <3>2, <3>3, <3>4
  <2> QED
    BY <2>1, <2>3, <2>4
<1> QED
  BY <1>1, <1>2 DEF RunOfStages

(* A failing stage, and the stages that count nothing.                        *)
LEMMA FailMoves ==
  ASSUME LinkInv, NEW t \in Tasks, NEW pc \in Building, At(t, pc), NEW s, Fail(t, s), SameCounts(pc, OnError(s))
  PROVE  BuildMoved(t)
<1>1. op[t].pc = pc
  BY DEF At
<1>2. GotoWith(t, OnError(s), op[t].new) /\ UNCHANGED <<task, count>>
  BY GotoIsGotoWith DEF Fail, LinkInv
<1>3. op'[t].pc = OnError(s) /\ op'[t].new = op[t].new
  BY <1>2, GotoFields DEF LinkInv
<1> QED
  BY <1>1, <1>2, <1>3, SameMoves

LEMMA HoldMoves ==
  ASSUME LinkInv, NEW t \in Tasks, NEW pc \in Building, At(t, pc), NEW next, Goto(t, next), SameCounts(pc, next),
         NEW h, Hold(t, h) \/ Release(t, h), UNCHANGED count
  PROVE  BuildMoved(t)
<1>1. op[t].pc = pc /\ op[t].p \in Tasks
  BY AtBuilding DEF At, LinkInv
<1>2. GotoWith(t, next, op[t].new)
  BY GotoIsGotoWith DEF LinkInv
<1>3. op'[t].pc = next /\ op'[t].new = op[t].new
  BY <1>2, GotoFields DEF LinkInv
<1>4. \A k \in Kinds : task'[op[t].p][k] = task[op[t].p][k]
  BY <1>1, HoldFields DEF LinkInv
<1> QED
  BY <1>1, <1>3, <1>4, SameMoves

LEMMA SetupMoves ==
  ASSUME LinkInv, NEW t \in Tasks, copy_creds(t) \/ check_threads(t) \/ CopySetup(t) \/ CopyContext(t)
  PROVE  BuildMoved(t)
<1>0. {"creds", "module", "setup", "context"} \subseteq Building
  BY DEF Building, Forward
<1>1. CASE copy_creds(t)
  <2>1. At(t, "creds")
    BY <1>1 DEF copy_creds
  <2>2. CASE Fail(t, "creds")
    BY <1>0, <2>1, <2>2, OnErrorUndoes, StageCounts, FailMoves
  <2>3. CASE Hold(t, {"creds"}) /\ Goto(t, "module") /\ UNCHANGED count
    BY <1>0, <2>1, <2>3, StageCounts, HoldMoves
  <2> QED
    BY <1>1, <2>2, <2>3 DEF copy_creds
<1>2. CASE check_threads(t)
  <2>1. At(t, "module")
    BY <1>2 DEF check_threads
  <2>2. CASE Fail(t, "module")
    BY <1>0, <2>1, <2>2, OnErrorUndoes, StageCounts, FailMoves
  <2>3. CASE Hold(t, {"module", "delayacct"}) /\ Goto(t, "setup") /\ UNCHANGED count
    BY <1>0, <2>1, <2>3, StageCounts, HoldMoves
  <2> QED
    BY <1>2, <2>2, <2>3 DEF check_threads
<1>3. CASE CopySetup(t)
  <2> DEFINE before == IF "THREAD" \in op[t].flags THEN {"threadgroup"} ELSE {}
  <2>1. At(t, "setup") /\ RunOfStages(t, Setup, before, "files") /\ UNCHANGED count
    BY <1>3 DEF CopySetup
  <2> HIDE DEF before
  <2>2. PICK pc \in DOMAIN SetupHeld : \E h : Hold(t, h) /\ Goto(t, pc)
    BY <2>1, SetupRuns
  <2>3. SameCounts("setup", pc)
    BY StageCounts DEF SetupHeld
  <2> QED
    BY <1>0, <2>1, <2>2, <2>3, HoldMoves
<1>4. CASE CopyContext(t)
  <2>1. At(t, "context") /\ RunOfStages(t, Context, {}, "publish") /\ UNCHANGED count
    BY <1>4 DEF CopyContext
  <2>2. PICK pc \in DOMAIN ContextHeld : \E h : Hold(t, h) /\ Goto(t, pc)
    BY <2>1, ContextRuns
  <2>3. SameCounts("context", pc)
    BY StageCounts DEF ContextHeld
  <2> QED
    BY <1>0, <2>1, <2>2, <2>3, HoldMoves
<1> QED
  BY <1>1, <1>2, <1>3, <1>4

(* A stage after which the new task is counted for its object of kind k.      *)
CountsMore(pc, next, k) ==
  /\ pc \notin CountedAt[k] /\ next \in CountedAt[k]
  /\ \A j \in Kinds : j # k => (pc \in CountedAt[j] <=> next \in CountedAt[j])

LEMMA StageCountsMore ==
  /\ \A s \in DOMAIN AfterShared : CountsMore(s, AfterShared[s], s)
  /\ CountsMore("signal", "mm", "signal") /\ CountsMore("mm", "context", "mm") /\ CountsMore("binfmt", "context", "mm")
  /\ CountsMore("bad_fork_cleanup_signal", "bad_fork_cleanup_mm", "mm")
  /\ CountsMore("bad_fork_cleanup_sighand", "bad_fork_cleanup_signal", "signal")
  /\ \A k \in DOMAIN BelowShared : CountsMore(BelowShared[k], CleanupAt[k], k)
<1>1. ASSUME NEW pc, NEW next, NEW k \in Kinds,
             pc \notin CountedAt[k], next \in CountedAt[k],
             k # "mm" => (pc \in MmPcs <=> next \in MmPcs),
             k # "signal" => (pc \in SignalPcs <=> next \in SignalPcs),
             k # "sighand" => (pc \in SighandPcs <=> next \in SighandPcs),
             k # "fs" => (pc \in FsPcs <=> next \in FsPcs),
             k # "files" => (pc \in FilesPcs <=> next \in FilesPcs)
      PROVE  CountsMore(pc, next, k)
  <2>1. CountedAt["mm"] = MmPcs /\ CountedAt["signal"] = SignalPcs /\ CountedAt["sighand"] = SighandPcs
        /\ CountedAt["fs"] = FsPcs /\ CountedAt["files"] = FilesPcs
    BY DEF CountedAt
  <2> SUFFICES ASSUME NEW j \in Kinds, j # k PROVE pc \in CountedAt[j] <=> next \in CountedAt[j]
    BY <1>1 DEF CountsMore
  <2>2. j = "mm" \/ j = "files" \/ j = "fs" \/ j = "sighand" \/ j = "signal"
    BY DEF Kinds
  <2> QED
    BY <1>1, <2>1, <2>2
<1>2. ASSUME NEW s \in DOMAIN AfterShared PROVE CountsMore(s, AfterShared[s], s)
  <2>1. s = "files" \/ s = "fs" \/ s = "sighand"
    BY DEF AfterShared
  <2> QED
    BY <1>1, <2>1 DEF AfterShared, Kinds, CountedAt, FilesPcs, FsPcs, SighandPcs, SignalPcs, MmPcs
<1>3. CountsMore("signal", "mm", "signal")
  BY <1>1 DEF Kinds, CountedAt, FilesPcs, FsPcs, SighandPcs, SignalPcs, MmPcs
<1>4. CountsMore("mm", "context", "mm") /\ CountsMore("binfmt", "context", "mm")
  BY <1>1 DEF Kinds, CountedAt, FilesPcs, FsPcs, SighandPcs, SignalPcs, MmPcs
<1>5. CountsMore("bad_fork_cleanup_signal", "bad_fork_cleanup_mm", "mm")
  BY <1>1 DEF Kinds, CountedAt, FilesPcs, FsPcs, SighandPcs, SignalPcs, MmPcs
<1>6. CountsMore("bad_fork_cleanup_sighand", "bad_fork_cleanup_signal", "signal")
  BY <1>1 DEF Kinds, CountedAt, FilesPcs, FsPcs, SighandPcs, SignalPcs, MmPcs
<1>7. ASSUME NEW k \in DOMAIN BelowShared PROVE CountsMore(BelowShared[k], CleanupAt[k], k)
  <2>1. k = "files" \/ k = "fs" \/ k = "sighand"
    BY DEF BelowShared
  <2> QED
    BY <1>1, <2>1 DEF BelowShared, CleanupAt, Kinds, CountedAt, FilesPcs, FsPcs, SighandPcs, SignalPcs, MmPcs
<1> QED
  BY <1>2, <1>3, <1>4, <1>5, <1>6, <1>7

(* The new task comes to count its object o of kind k ...                     *)
LEMMA CountMoves ==
  ASSUME LinkInv, NEW t \in Tasks, op[t].new = 0, NEW next, NEW k \in Kinds, CountsMore(op[t].pc, next, k),
         GotoWith(t, next, 0), NEW o \in Pointer, task'[op[t].p][k] = o,
         \A j \in Kinds : j # k => task'[op[t].p][j] = task[op[t].p][j],
         IF k = "signal" /\ "THREAD" \in op[t].flags THEN UNCHANGED count ELSE Took(k, o)
  PROVE  BuildMoved(t)
<1>1. op'[t].pc = next /\ op'[t].new = 0
  BY GotoFields DEF LinkInv
<1>2. BuildKept(op[t].pc, op[t].new, op[t].flags, task[op[t].p][k], k) = 0
  BY DEF BuildKept, CountsMore
<1>3. BuildKept(op'[t].pc, op'[t].new, op[t].flags, task'[op[t].p][k], k)
      = IF k = "signal" /\ "THREAD" \in op[t].flags THEN 0 ELSE o
  BY <1>1 DEF BuildKept, CountsMore
<1>4. CASE k = "signal" /\ "THREAD" \in op[t].flags
  <2>1. \A j \in Kinds : Keeps(j)
    BY <1>4, SameKeeps
  <2>2. Moved(k, BuildKept(op[t].pc, op[t].new, op[t].flags, task[op[t].p][k], k),
                 BuildKept(op'[t].pc, op'[t].new, op[t].flags, task'[op[t].p][k], k))
    BY <1>2, <1>3, <1>4, <2>1 DEF Moved
  <2> QED
    BY <1>1, <2>1, <2>2, OneMoves DEF CountsMore
<1>5. CASE ~(k = "signal" /\ "THREAD" \in op[t].flags)
  <2>1. Adds(k, o) /\ \A j \in Kinds : j # k => Keeps(j)
    BY <1>5, TookAdds DEF LinkInv
  <2>2. Moved(k, BuildKept(op[t].pc, op[t].new, op[t].flags, task[op[t].p][k], k),
                 BuildKept(op'[t].pc, op'[t].new, op[t].flags, task'[op[t].p][k], k))
    BY <1>2, <1>3, <1>5, <2>1 DEF Moved
  <2> QED
    BY <1>1, <2>1, <2>2, OneMoves DEF CountsMore
<1> QED
  BY <1>4, <1>5

(* ... or the reference it was counted for is put.                            *)
LEMMA UncountMoves ==
  ASSUME LinkInv, NEW t \in Tasks, op[t].new = 0, NEW next, NEW k \in Kinds, CountsMore(next, op[t].pc, k),
         GotoWith(t, next, 0), task[op[t].p][k] \in Pointer,
         \A j \in Kinds : j # k => task'[op[t].p][j] = task[op[t].p][j],
         IF (k = "signal" /\ "THREAD" \in op[t].flags) \/ (k = "mm" /\ task[op[t].p][k] = 0) THEN UNCHANGED count
         ELSE Put(k, task[op[t].p][k])
  PROVE  BuildMoved(t)
<1>1. op'[t].pc = next /\ op'[t].new = 0
  BY GotoFields DEF LinkInv
<1> DEFINE o == task[op[t].p][k]
<1>2. BuildKept(op'[t].pc, op'[t].new, op[t].flags, task'[op[t].p][k], k) = 0
  BY <1>1 DEF BuildKept, CountsMore
<1>3. BuildKept(op[t].pc, op[t].new, op[t].flags, o, k)
      = IF k = "signal" /\ "THREAD" \in op[t].flags THEN 0 ELSE o
  BY DEF BuildKept, CountsMore
<1> HIDE DEF o
<1>4. CASE (k = "signal" /\ "THREAD" \in op[t].flags) \/ (k = "mm" /\ o = 0)
  <2>1. \A j \in Kinds : Keeps(j)
    BY <1>4, SameKeeps DEF o
  <2>2. Moved(k, BuildKept(op[t].pc, op[t].new, op[t].flags, o, k),
                 BuildKept(op'[t].pc, op'[t].new, op[t].flags, task'[op[t].p][k], k))
    BY <1>2, <1>3, <1>4, <2>1 DEF Moved
  <2> QED
    BY <1>1, <2>1, <2>2, OneMoves DEF CountsMore, o
<1>5. CASE ~((k = "signal" /\ "THREAD" \in op[t].flags) \/ (k = "mm" /\ o = 0))
  <2>1. Drops(k, o) /\ \A j \in Kinds : j # k => Keeps(j)
    <3>1. Put(k, o) /\ o \in Pointer
      BY <1>5 DEF o
    <3> QED
      BY <3>1, PutDrops DEF LinkInv
  <2>2. Moved(k, BuildKept(op[t].pc, op[t].new, op[t].flags, o, k),
                 BuildKept(op'[t].pc, op'[t].new, op[t].flags, task'[op[t].p][k], k))
    BY <1>2, <1>3, <1>5, <2>1 DEF Moved
  <2> QED
    BY <1>1, <2>1, <2>2, OneMoves DEF CountsMore, o
<1> QED
  BY <1>4, <1>5

LEMMA CopySharedMoves ==
  ASSUME LinkInv, NEW t \in Tasks, CopyShared(t)
  PROVE  BuildMoved(t)
<1>1. PICK s \in DOMAIN SharedBy :
    /\ At(t, s)
    /\ \/ SharedBy[s] \in op[t].flags /\ Took(s, task[t][s]) /\ Goto(t, AfterShared[s]) /\ UNCHANGED task
       \/ /\ SharedBy[s] \notin op[t].flags
          /\ \E o \in Fresh(s) : Took(s, o) /\ task' = [task EXCEPT ![op[t].p][s] = o]
          /\ Goto(t, AfterShared[s])
       \/ Fail(t, s)
  BY DEF CopyShared
<1>2. /\ s \in Kinds /\ s \in Building /\ s \in Forward /\ SharedBy[s] = SharedFlag[s] /\ s # "signal"
      /\ s \notin {"dup_mmap", "binfmt", "free_pt"} /\ s \in DOMAIN AfterShared /\ s \in {"files", "fs", "sighand"}
  BY DEF SharedBy, SharedFlag, AfterShared, Building, Forward, Kinds
<1>3. /\ op[t].new = 0 /\ op[t].pc = s /\ op[t].p \in Tasks /\ task[t] \in TaskStruct
      /\ SharedFlag[s] \in op[t].flags => task[op[t].p][s] = task[t][s]
  BY <1>1, <1>2, AtBuilding DEF LinkInv
<1>4. CountsMore(op[t].pc, AfterShared[s], s)
  BY <1>2, <1>3, StageCountsMore
<1>5. CASE SharedBy[s] \in op[t].flags /\ Took(s, task[t][s]) /\ Goto(t, AfterShared[s]) /\ UNCHANGED task
  <2> DEFINE o == task[t][s]
  <2>1. o \in Pointer /\ Took(s, o)
    BY <1>2, <1>3, <1>5 DEF TaskStruct, Kinds
  <2>2. task'[op[t].p][s] = o /\ \A j \in Kinds : j # s => task'[op[t].p][j] = task[op[t].p][j]
    BY <1>2, <1>3, <1>5
  <2>3. GotoWith(t, AfterShared[s], 0)
    BY <1>3, <1>5, GotoIsGotoWith DEF LinkInv
  <2> HIDE DEF o
  <2> QED
    BY <1>2, <1>3, <1>4, <2>1, <2>2, <2>3, CountMoves
<1>6. CASE /\ \E o \in Fresh(s) : Took(s, o) /\ task' = [task EXCEPT ![op[t].p][s] = o]
           /\ Goto(t, AfterShared[s])
  <2>1. PICK o \in Fresh(s) : Took(s, o) /\ Repoint(t, s, o)
    BY <1>6 DEF Repoint
  <2>2. o \in Pointer
    BY DEF Pointer, Fresh
  <2>3. GotoWith(t, AfterShared[s], 0)
    BY <1>3, <1>6, GotoIsGotoWith DEF LinkInv
  <2>4. task'[op[t].p][s] = o /\ \A j \in Kinds : j # s => task'[op[t].p][j] = task[op[t].p][j]
    BY <1>2, <1>3, <2>1, RepointFields DEF LinkInv
  <2> QED
    BY <1>2, <1>3, <1>4, <2>1, <2>2, <2>3, <2>4, CountMoves
<1>7. CASE Fail(t, s)
  <2>1. SameCounts(s, OnError(s))
    BY <1>2, OnErrorUndoes, StageCounts
  <2> QED
    BY <1>1, <1>2, <1>7, <2>1, FailMoves
<1> QED
  BY <1>1, <1>5, <1>6, <1>7

LEMMA CopySignalMoves ==
  ASSUME LinkInv, NEW t \in Tasks, copy_signal(t)
  PROVE  BuildMoved(t)
<1>1. At(t, "signal") /\ "signal" \in Kinds /\ "signal" \in Building /\ "signal" \in Forward
  BY DEF copy_signal, Kinds, Building, Forward
<1>2. op[t].new = 0 /\ op[t].pc = "signal" /\ op[t].p \in Tasks /\ task[op[t].p] \in TaskStruct
  BY <1>1, AtBuilding DEF LinkInv
<1>3. CountsMore(op[t].pc, "mm", "signal")
  BY <1>2, StageCountsMore
<1>4. CASE "THREAD" \in op[t].flags /\ Goto(t, "mm") /\ UNCHANGED <<task, count>>
  <2> DEFINE o == task[op[t].p]["signal"]
  <2>1. o \in Pointer /\ task'[op[t].p]["signal"] = o /\ \A j \in Kinds : task'[op[t].p][j] = task[op[t].p][j]
    BY <1>2, <1>4 DEF TaskStruct
  <2>2. GotoWith(t, "mm", 0)
    BY <1>2, <1>4, GotoIsGotoWith DEF LinkInv
  <2> HIDE DEF o
  <2> QED
    BY <1>1, <1>2, <1>3, <1>4, <2>1, <2>2, CountMoves
<1>5. CASE /\ "THREAD" \notin op[t].flags
           /\ \E o \in Fresh("signal") : Took("signal", o) /\ task' = [task EXCEPT ![op[t].p].signal = o]
           /\ Goto(t, "mm")
  <2>1. PICK o \in Fresh("signal") : Took("signal", o) /\ Repoint(t, "signal", o)
    BY <1>5 DEF Repoint
  <2>2. o \in Pointer
    BY DEF Pointer, Fresh
  <2>3. GotoWith(t, "mm", 0)
    BY <1>2, <1>5, GotoIsGotoWith DEF LinkInv
  <2>4. task'[op[t].p]["signal"] = o /\ \A j \in Kinds : j # "signal" => task'[op[t].p][j] = task[op[t].p][j]
    BY <1>1, <1>2, <2>1, RepointFields DEF LinkInv
  <2> QED
    BY <1>1, <1>2, <1>3, <1>5, <2>1, <2>2, <2>3, <2>4, CountMoves
<1>6. CASE Fail(t, "signal")
  BY <1>1, <1>6, OnErrorUndoes, StageCounts, FailMoves
<1> QED
  BY <1>4, <1>5, <1>6 DEF copy_signal

(* Steps that concern the mm alone, with n before and after for the new mm.   *)
LEMMA MmMoves ==
  ASSUME LinkInv, NEW t \in Tasks, NEW pc \in Building, At(t, pc), NEW next, NEW n, GotoWith(t, next, n),
         \A j \in Kinds : j # "mm" => /\ pc \in CountedAt[j] <=> next \in CountedAt[j]
                                      /\ task'[op[t].p][j] = task[op[t].p][j] /\ Keeps(j),
         Moved("mm", IF pc \in MmPcs THEN task[op[t].p].mm ELSE op[t].new, IF next \in MmPcs THEN task'[op[t].p].mm ELSE n)
  PROVE  BuildMoved(t)
<1>1. op[t].pc = pc /\ op'[t].pc = next /\ op'[t].new = n /\ "mm" \in Kinds
  BY GotoFields DEF At, LinkInv, Kinds
<1>2. /\ BuildKept(op[t].pc, op[t].new, op[t].flags, task[op[t].p]["mm"], "mm")
           = IF pc \in MmPcs THEN task[op[t].p].mm ELSE op[t].new
      /\ BuildKept(op'[t].pc, op'[t].new, op[t].flags, task'[op[t].p]["mm"], "mm")
           = IF next \in MmPcs THEN task'[op[t].p].mm ELSE n
  BY <1>1 DEF BuildKept, CountedAt
<1>3. Moved("mm", BuildKept(op[t].pc, op[t].new, op[t].flags, task[op[t].p]["mm"], "mm"),
                  BuildKept(op'[t].pc, op'[t].new, op[t].flags, task'[op[t].p]["mm"], "mm"))
  BY <1>2
<1> QED
  BY <1>1, <1>3, OneMoves

LEMMA CopyMmMoves ==
  ASSUME LinkInv, NEW t \in Tasks, copy_mm(t)
  PROVE  BuildMoved(t)
<1>1. At(t, "mm") /\ "mm" \in Kinds /\ "mm" \in Building /\ "mm" \in Forward /\ SharedFlag["mm"] = "VM"
  BY DEF copy_mm, Kinds, Building, Forward, SharedFlag
<1>2. /\ op[t].new = 0 /\ op[t].pc = "mm" /\ op[t].p \in Tasks /\ task[op[t].p] \in TaskStruct /\ task[t] \in TaskStruct
      /\ "VM" \in op[t].flags => task[op[t].p]["mm"] = task[t]["mm"]
  BY <1>1, AtBuilding DEF LinkInv
<1>3. /\ "mm" \notin MmPcs /\ "context" \in MmPcs /\ "dup_mmap" \notin MmPcs /\ OnError("mm") \notin MmPcs
      /\ \A next \in {"context", "dup_mmap", OnError("mm")}, j \in Kinds :
            j # "mm" => ("mm" \in CountedAt[j] <=> next \in CountedAt[j])
  <2>1. CountsMore("mm", "context", "mm") /\ SameCounts("mm", "dup_mmap") /\ SameCounts("mm", OnError("mm"))
    BY StageCountsMore, StageCounts, OnErrorUndoes
  <2>2. "mm" \notin MmPcs /\ "context" \in MmPcs /\ "dup_mmap" \notin MmPcs /\ OnError("mm") \notin MmPcs
    BY OnErrorUndoes DEF MmPcs
  <2> QED
    BY <2>1, <2>2 DEF CountsMore, SameCounts
<1>4. CASE task[t].mm = 0 /\ task' = [task EXCEPT ![op[t].p].mm = 0] /\ Goto(t, "context") /\ UNCHANGED count
  <2>1. GotoWith(t, "context", 0) /\ Repoint(t, "mm", 0)
    BY <1>2, <1>4, GotoIsGotoWith DEF Repoint, LinkInv
  <2>2. task'[op[t].p]["mm"] = 0 /\ \A j \in Kinds : j # "mm" => task'[op[t].p][j] = task[op[t].p][j]
    BY <1>1, <1>2, <2>1, RepointFields DEF LinkInv
  <2>3. \A j \in Kinds : Keeps(j)
    BY <1>4, SameKeeps
  <2>4. Moved("mm", IF "mm" \in MmPcs THEN task[op[t].p].mm ELSE op[t].new, IF "context" \in MmPcs THEN task'[op[t].p].mm ELSE 0)
    BY <1>1, <1>2, <1>3, <2>2, <2>3 DEF Moved
  <2> QED
    BY <1>1, <1>3, <2>1, <2>2, <2>3, <2>4, MmMoves
<1>5. CASE "VM" \in op[t].flags /\ Took("mm", task[t].mm) /\ Goto(t, "context") /\ UNCHANGED task
  <2> DEFINE o == task[t].mm
  <2>1. GotoWith(t, "context", 0)
    BY <1>2, <1>5, GotoIsGotoWith DEF LinkInv
  <2>2. o \in Pointer /\ Took("mm", o) /\ task'[op[t].p]["mm"] = o /\ \A j \in Kinds : task'[op[t].p][j] = task[op[t].p][j]
    BY <1>2, <1>5 DEF TaskStruct
  <2>3. CountsMore(op[t].pc, "context", "mm")
    BY <1>2, StageCountsMore
  <2> HIDE DEF o
  <2> QED
    BY <1>1, <1>2, <2>1, <2>2, <2>3, CountMoves
<1>6. CASE task' = [task EXCEPT ![op[t].p].mm = 0]
           /\ \E o \in Fresh("mm") : Took("mm", o) /\ op' = [op EXCEPT ![t].pc = "dup_mmap", ![t].new = o]
  <2>1. PICK o \in Fresh("mm") : Took("mm", o) /\ GotoWith(t, "dup_mmap", o)
    BY <1>6 DEF GotoWith
  <2>2. o \in Pointer /\ Repoint(t, "mm", 0)
    BY <1>6 DEF Pointer, Fresh, Repoint
  <2>3. \A j \in Kinds : j # "mm" => task'[op[t].p][j] = task[op[t].p][j]
    BY <1>1, <1>2, <2>2, RepointFields DEF LinkInv
  <2>4. Adds("mm", o) /\ \A j \in Kinds : j # "mm" => Keeps(j)
    BY <1>1, <2>1, <2>2, TookAdds DEF LinkInv
  <2>5. Moved("mm", IF "mm" \in MmPcs THEN task[op[t].p].mm ELSE op[t].new, IF "dup_mmap" \in MmPcs THEN task'[op[t].p].mm ELSE o)
    BY <1>2, <1>3, <2>4 DEF Moved
  <2> QED
    BY <1>1, <1>3, <2>1, <2>3, <2>4, <2>5, MmMoves
<1>7. CASE task' = [task EXCEPT ![op[t].p].mm = 0] /\ Goto(t, OnError("mm")) /\ UNCHANGED count
  <2> DEFINE next == OnError("mm")
  <2>1. GotoWith(t, next, 0) /\ Repoint(t, "mm", 0)
    BY <1>2, <1>7, GotoIsGotoWith DEF Repoint, LinkInv
  <2>2. \A j \in Kinds : j # "mm" => task'[op[t].p][j] = task[op[t].p][j]
    BY <1>1, <1>2, <2>1, RepointFields DEF LinkInv
  <2>3. \A j \in Kinds : Keeps(j)
    BY <1>7, SameKeeps
  <2>4. Moved("mm", IF "mm" \in MmPcs THEN task[op[t].p].mm ELSE op[t].new, IF next \in MmPcs THEN task'[op[t].p].mm ELSE 0)
    BY <1>1, <1>2, <1>3, <2>3 DEF Moved
  <2>5. \A j \in Kinds : j # "mm" => ("mm" \in CountedAt[j] <=> next \in CountedAt[j])
    BY <1>3
  <2> HIDE DEF next
  <2> QED
    BY <1>1, <2>1, <2>2, <2>3, <2>4, <2>5, MmMoves
<1> QED
  BY <1>4, <1>5, <1>6, <1>7 DEF copy_mm

LEMMA DupMmMoves ==
  ASSUME LinkInv, NEW t \in Tasks, dup_mmap(t) \/ get_binfmt(t) \/ free_pt(t)
  PROVE  BuildMoved(t)
<1>1. {"dup_mmap", "binfmt", "free_pt"} \subseteq Building /\ "mm" \in Kinds
  BY DEF Building, Forward, Kinds
<1>2. ASSUME NEW pc \in {"dup_mmap", "binfmt"}, At(t, pc), NEW next \in {"binfmt", "free_pt"}, pc # next,
             Goto(t, next), UNCHANGED <<task, count>>
      PROVE  BuildMoved(t)
  <2>1. GotoWith(t, next, op[t].new)
    BY <1>2, GotoIsGotoWith DEF LinkInv
  <2>2. op[t].pc = pc /\ op'[t].pc = next /\ op'[t].new = op[t].new
    BY <1>2, <2>1, GotoFields DEF LinkInv, At
  <2>3. SameCounts(op[t].pc, op'[t].pc)
    BY <1>2, <2>2, StageCounts
  <2> QED
    BY <1>2, <2>2, <2>3, SameMoves
<1>3. CASE dup_mmap(t)
  <2>1. At(t, "dup_mmap") /\ UNCHANGED <<task, count>> /\ (Goto(t, "binfmt") \/ Goto(t, "free_pt"))
    BY <1>3 DEF dup_mmap
  <2> QED
    BY <1>2, <2>1
<1>4. CASE get_binfmt(t)
  <2>1. At(t, "binfmt") /\ UNCHANGED count
    BY <1>4 DEF get_binfmt
  <2>2. CASE Goto(t, "free_pt") /\ UNCHANGED task
    BY <1>2, <2>1, <2>2
  <2>3. CASE /\ task' = [task EXCEPT ![op[t].p].mm = op[t].new]
             /\ op' = [op EXCEPT ![t].pc = "context", ![t].new = 0]
    <3>1. Repoint(t, "mm", op[t].new) /\ GotoWith(t, "context", 0)
      BY <2>3 DEF Repoint, GotoWith
    <3>2. op[t].p \in Tasks
      BY <1>1, <2>1, AtBuilding DEF LinkInv
    <3>3. task'[op[t].p]["mm"] = op[t].new /\ \A j \in Kinds : j # "mm" => task'[op[t].p][j] = task[op[t].p][j]
      BY <1>1, <3>1, <3>2, RepointFields DEF LinkInv
    <3>4. \A j \in Kinds : Keeps(j)
      BY <2>1, SameKeeps
    <3>5. "binfmt" \notin MmPcs /\ "context" \in MmPcs
      BY DEF MmPcs
    <3>6. Moved("mm", IF "binfmt" \in MmPcs THEN task[op[t].p].mm ELSE op[t].new, IF "context" \in MmPcs THEN task'[op[t].p].mm ELSE 0)
      BY <1>1, <3>3, <3>4, <3>5 DEF Moved
    <3>7. CountsMore("binfmt", "context", "mm")
      BY StageCountsMore
    <3> QED
      BY <1>1, <2>1, <3>1, <3>3, <3>4, <3>6, <3>7, MmMoves DEF CountsMore
  <2> QED
    BY <1>4, <2>2, <2>3 DEF get_binfmt
<1>5. CASE free_pt(t)
  <2> DEFINE next == OnError("mm")  n == op[t].new
  <2>1. At(t, "free_pt") /\ UNCHANGED task /\ Put("mm", n) /\ GotoWith(t, next, 0)
    BY <1>5 DEF free_pt, GotoWith, mmput
  <2>2. n \in Pointer
    BY DEF LinkInv, ForkTypeOK, Call
  <2>3. Drops("mm", n) /\ \A j \in Kinds : j # "mm" => Keeps(j)
    <3> HIDE DEF n
    <3> QED
      BY <1>1, <2>1, <2>2, PutDrops DEF LinkInv
  <2>4. next \notin MmPcs /\ "free_pt" \notin MmPcs /\ SameCounts("free_pt", next)
    BY OnErrorUndoes, StageCounts DEF MmPcs
  <2> HIDE DEF next
  <2>5. Moved("mm", IF "free_pt" \in MmPcs THEN task[op[t].p].mm ELSE op[t].new, IF next \in MmPcs THEN task'[op[t].p].mm ELSE 0)
    BY <2>3, <2>4 DEF Moved
  <2> QED
    BY <1>1, <2>1, <2>3, <2>4, <2>5, MmMoves DEF SameCounts
<1> QED
  BY <1>3, <1>4, <1>5

LEMMA CleanupMoves ==
  ASSUME LinkInv, NEW t \in Tasks, CleanupContext(t) \/ CleanupMm(t) \/ CleanupSignal(t) \/ CleanupShared(t)
  PROVE  BuildMoved(t)
<1>1. /\ \A pc \in Undoing : pc \in Building /\ pc \notin {"dup_mmap", "binfmt", "free_pt"}
      /\ {"bad_fork_free_pid", "bad_fork_cleanup_io", "bad_fork_cleanup_namespaces", "bad_fork_cleanup_mm",
          "bad_fork_cleanup_signal", "bad_fork_cleanup_sighand"} \subseteq Undoing
      /\ "mm" \in Kinds /\ "signal" \in Kinds /\ 0 \in Pointer
  BY DEF Kinds, Building, Forward, Undoing, Pointer
<1>2. \A pc \in Undoing : At(t, pc) => op[t].pc = pc /\ op[t].new = 0 /\ op[t].p \in Tasks /\ task[op[t].p] \in TaskStruct
  BY <1>1, AtBuilding DEF LinkInv
<1>3. CASE CleanupContext(t)
  <2>1. PICK pc \in {"bad_fork_free_pid", "bad_fork_cleanup_io", "bad_fork_cleanup_namespaces"} :
          At(t, pc) /\ \E h : Release(t, h)
    BY <1>3 DEF CleanupContext
  <2>2. Goto(t, "bad_fork_cleanup_mm") /\ UNCHANGED count /\ pc \in Building /\ SameCounts(pc, "bad_fork_cleanup_mm")
    BY <1>1, <1>3, StageCounts DEF CleanupContext
  <2> QED
    BY <2>1, <2>2, HoldMoves
<1>4. CASE CleanupMm(t)
  <2>1. /\ At(t, "bad_fork_cleanup_mm") /\ Repoint(t, "mm", 0) /\ Goto(t, "bad_fork_cleanup_signal")
        /\ IF task[op[t].p].mm = 0 THEN UNCHANGED count ELSE Put("mm", task[op[t].p].mm)
    BY <1>4 DEF CleanupMm, Repoint, mmput
  <2>2. op[t].new = 0 /\ task[op[t].p]["mm"] \in Pointer /\ op[t].p \in Tasks
    BY <1>1, <1>2, <2>1 DEF TaskStruct
  <2>3. GotoWith(t, "bad_fork_cleanup_signal", 0) /\ CountsMore("bad_fork_cleanup_signal", op[t].pc, "mm")
    BY <1>1, <1>2, <2>1, <2>2, GotoIsGotoWith, StageCountsMore DEF LinkInv
  <2>4. \A j \in Kinds : j # "mm" => task'[op[t].p][j] = task[op[t].p][j]
    BY <1>1, <2>1, <2>2, RepointFields DEF LinkInv
  <2> QED
    BY <1>1, <2>1, <2>2, <2>3, <2>4, UncountMoves
<1>5. CASE CleanupSignal(t)
  <2>1. /\ At(t, "bad_fork_cleanup_signal") /\ UNCHANGED task /\ Goto(t, "bad_fork_cleanup_sighand")
        /\ IF "THREAD" \in op[t].flags THEN UNCHANGED count ELSE Put("signal", task[op[t].p].signal)
    BY <1>5 DEF CleanupSignal
  <2>2. op[t].new = 0 /\ task[op[t].p]["signal"] \in Pointer
    BY <1>1, <1>2, <2>1 DEF TaskStruct
  <2>3. GotoWith(t, "bad_fork_cleanup_sighand", 0) /\ CountsMore("bad_fork_cleanup_sighand", op[t].pc, "signal")
    BY <1>1, <1>2, <2>1, <2>2, GotoIsGotoWith, StageCountsMore DEF LinkInv
  <2> QED
    BY <1>1, <2>1, <2>2, <2>3, UncountMoves
<1>6. CASE CleanupShared(t)
  <2>1. PICK k \in DOMAIN BelowShared : /\ At(t, CleanupAt[k]) /\ Put(k, task[op[t].p][k]) /\ Repoint(t, k, 0)
                                        /\ Goto(t, BelowShared[k])
    BY <1>6 DEF CleanupShared, Repoint
  <2>2. k \in Kinds /\ CleanupAt[k] \in Undoing /\ k # "signal" /\ k # "mm"
    BY DEF CleanupAt, BelowShared, Kinds, Undoing
  <2>3. op[t].new = 0 /\ task[op[t].p][k] \in Pointer /\ op[t].p \in Tasks /\ op[t].pc = CleanupAt[k]
    BY <1>2, <2>1, <2>2 DEF TaskStruct, Kinds
  <2>4. GotoWith(t, BelowShared[k], 0) /\ CountsMore(BelowShared[k], op[t].pc, k)
    BY <2>1, <2>3, GotoIsGotoWith, StageCountsMore DEF LinkInv
  <2>5. \A j \in Kinds : j # k => task'[op[t].p][j] = task[op[t].p][j]
    BY <2>1, <2>2, <2>3, RepointFields DEF LinkInv
  <2> QED
    BY <2>1, <2>2, <2>3, <2>4, <2>5, UncountMoves
<1> QED
  BY <1>3, <1>4, <1>5, <1>6

-----------------------------------------------------------------------------
(* Reference counts in the steps of a task of its own *)

(* The counts follow a pointer that turns from s into z and a reference of    *)
(* the call that turns from v into w.                                         *)
Balance(k, s, z, v, w) ==
  \A o \in Objects : count'[k][o] = count[k][o] + (Ind(z = o) - Ind(s = o)) + (Ind(w = o) - Ind(v = o))

LEMMA MovedBalance ==
  ASSUME ForkTypeOK, ForkTypeOK', NEW k \in Kinds, NEW v, NEW w, NEW s, NEW z,
         (s = z /\ Moved(k, v, w)) \/ (v = w /\ Moved(k, s, z))
  PROVE  Balance(k, s, z, v, w)
BY MovedBalances DEF Balance

LEMMA ExchangeBalance ==
  ASSUME ForkTypeOK, ForkTypeOK', NEW k \in Kinds, NEW s, NEW z
  PROVE  /\ Keeps(k) => Balance(k, s, z, z, s)
         /\ Drops(k, s) => Balance(k, s, z, z, 0)
         /\ Adds(k, z) => Balance(k, s, z, 0, s)
<1> SUFFICES ASSUME NEW o \in Objects
             PROVE  /\ Keeps(k) => count'[k][o] = count[k][o] + (Ind(z = o) - Ind(s = o)) + (Ind(s = o) - Ind(z = o))
                    /\ Drops(k, s) => count'[k][o] = count[k][o] + (Ind(z = o) - Ind(s = o)) + (Ind(0 = o) - Ind(z = o))
                    /\ Adds(k, z) => count'[k][o] = count[k][o] + (Ind(z = o) - Ind(s = o)) + (Ind(s = o) - Ind(0 = o))
  BY DEF Balance
<1> DEFINE c == count[k][o]  d == count'[k][o]  i == Ind(z = o)  j == Ind(s = o)  l == Ind(0 = o)
<1>1. c \in Int /\ d \in Int /\ i \in {0, 1} /\ j \in {0, 1} /\ l = 0
  BY ObjectsAreNumbers DEF ForkTypeOK, Ind
<1>2. (Keeps(k) => d = c) /\ (Drops(k, s) => d = c - j) /\ (Adds(k, z) => d = c + i)
  BY DEF Keeps, Drops, Adds
<1> HIDE DEF c, d, i, j, l
<1>3. /\ Keeps(k) => d = c + (i - j) + (j - i)
      /\ Drops(k, s) => d = c + (i - j) + (l - i)
      /\ Adds(k, z) => d = c + (i - j) + (j - l)
  BY <1>1, <1>2
<1> QED
  BY <1>3 DEF c, d, i, j, l

OwnMoved(t) ==
  \A k \in Kinds : Balance(k, task[t][k], task'[t][k], OwnKept(op[t].pc, op[t].new, op[t].new_fs, k),
                           OwnKept(op'[t].pc, op'[t].new, op'[t].new_fs, k))

(* A running task's pointers are seen, and its call keeps no new task.        *)
LEMMA OwnCounted ==
  ASSUME LinkInv, Counted, ForkTypeOK', NEW t \in Tasks, OwnFrame(t), OwnMoved(t)
  PROVE  Counted'
<1>1. /\ Frame(t, t) /\ task[t].st = "running" /\ op[t].pc \in Own /\ op'[t].pc \in Own /\ task'[t].st = "running"
  BY DEF OwnFrame, OwnOK
<1>2. \A u \in Tasks : u # t /\ op[u].p = t => op[u].pc \in Waiting
  BY <1>1, OnlyWaiters
<1>3. \A u \in Tasks, k \in Kinds : u # t => KeptNow(u, k)' = KeptNow(u, k)
  BY <1>1, <1>2, OthersKeep
<1>4. Balanced(t, t)
  <2> SUFFICES ASSUME NEW k \in Kinds, NEW o \in Objects
               PROVE  count'[k][o] = count[k][o] + (Ind(SeenNow(t, k)' = o) - Ind(SeenNow(t, k) = o))
                                       + (Ind(KeptNow(t, k)' = o) - Ind(KeptNow(t, k) = o))
    BY DEF Balanced
  <2>1. SeenNow(t, k) = task[t][k] /\ SeenNow(t, k)' = task'[t][k]
    BY <1>1 DEF SeenNow, Seen
  <2>2. KeptNow(t, k) = OwnKept(op[t].pc, op[t].new, op[t].new_fs, k)
    BY <1>1, NotOwn, KeptOwn DEF KeptNow
  <2>3. KeptNow(t, k)' = OwnKept(op'[t].pc, op'[t].new, op'[t].new_fs, k)
    <3> DEFINE a == op'[t]  q == task'[op'[t].p]
    <3>1. a.pc \notin Building
      BY <1>1, NotOwn
    <3>2. Kept(a, q, k) = OwnKept(a.pc, a.new, a.new_fs, k)
      <4> HIDE DEF a, q
      <4> QED
        BY <3>1, KeptOwn
    <3> QED
      BY <3>2 DEF KeptNow
  <2> QED
    BY <2>1, <2>2, <2>3 DEF OwnMoved, Balance
<1> QED
  BY <1>1, <1>3, <1>4, CountedStep

LEMMA OwnFields ==
  ASSUME ForkTypeOK, NEW t \in Tasks, NEW pc, NEW f, NEW n, NEW m, op[t] = OwnCall(pc, f, n, m),
         NEW next, NEW f2, NEW n2, NEW m2, Becomes(t, OwnCall(next, f2, n2, m2))
  PROVE  /\ op[t].pc = pc /\ op[t].new = n /\ op[t].new_fs = m
         /\ op'[t].pc = next /\ op'[t].new = n2 /\ op'[t].new_fs = m2
<1>1. op'[t] = OwnCall(next, f2, n2, m2)
  BY DEF ForkTypeOK, Becomes
<1> QED
  BY <1>1, OwnCallFields

(* Only a reference of kind j moves.                                          *)
LEMMA OwnOne ==
  ASSUME ForkTypeOK, ForkTypeOK', NEW t \in Tasks,
         NEW pc, NEW f, NEW n, NEW m, op[t] = OwnCall(pc, f, n, m),
         NEW next, NEW f2, NEW n2, NEW m2, Becomes(t, OwnCall(next, f2, n2, m2)), NEW j \in Kinds,
         \A k \in Kinds : k # j => /\ task'[t][k] = task[t][k] /\ Keeps(k)
                                   /\ OwnKept(pc, n, m, k) = OwnKept(next, n2, m2, k),
         \/ task'[t][j] = task[t][j] /\ Moved(j, OwnKept(pc, n, m, j), OwnKept(next, n2, m2, j))
         \/ OwnKept(pc, n, m, j) = OwnKept(next, n2, m2, j) /\ Moved(j, task[t][j], task'[t][j])
  PROVE  OwnMoved(t)
<1>1. /\ op[t].pc = pc /\ op[t].new = n /\ op[t].new_fs = m
      /\ op'[t].pc = next /\ op'[t].new = n2 /\ op'[t].new_fs = m2
  BY OwnFields
<1>2. ASSUME NEW k \in Kinds
      PROVE  Balance(k, task[t][k], task'[t][k], OwnKept(pc, n, m, k), OwnKept(next, n2, m2, k))
  <2> DEFINE s == task[t][k]  z == task'[t][k]  v == OwnKept(pc, n, m, k)  w == OwnKept(next, n2, m2, k)
  <2>1. (s = z /\ Moved(k, v, w)) \/ (v = w /\ Moved(k, s, z))
    <3>1. CASE k = j
      BY <3>1
    <3>2. CASE k # j
      <4>1. s = z /\ v = w /\ Keeps(k)
        BY <3>2
      <4> HIDE DEF s, z, v, w
      <4> QED
        BY <4>1 DEF Moved
    <3> QED
      BY <3>1, <3>2
  <2> HIDE DEF s, z, v, w
  <2>2. Balance(k, s, z, v, w)
    BY <2>1, MovedBalance
  <2> QED
    BY <2>2 DEF s, z, v, w
<1> QED
  BY <1>1, <1>2 DEF OwnMoved

(* What the stages of a call keep.                                            *)
LEMMA StageKeeps ==
  ASSUME NEW n, NEW m
  PROVE  /\ \A pc \in {"idle", "unshare_fs", "mm_release", "complete_vfork_done", "exit_mm", "exit_files", "exit_fs",
                       "release", "unshare_fd", "bad_unshare_cleanup_fs"} :
              /\ OwnKept(pc, n, m, "mm") = 0 /\ OwnKept(pc, n, m, "files") = 0 /\ OwnKept(pc, n, m, "fs") = m
              /\ OwnKept(pc, n, m, "sighand") = 0 /\ OwnKept(pc, n, m, "signal") = 0
         /\ \A pc \in {"unshare_ns", "unshare_install", "bad_unshare_cleanup_fd"} :
              /\ OwnKept(pc, n, m, "mm") = 0 /\ OwnKept(pc, n, m, "files") = n /\ OwnKept(pc, n, m, "fs") = m
              /\ OwnKept(pc, n, m, "sighand") = 0 /\ OwnKept(pc, n, m, "signal") = 0
         /\ /\ OwnKept("mm_access", n, m, "mm") = n /\ OwnKept("mm_access", n, m, "files") = 0
            /\ OwnKept("mm_access", n, m, "fs") = m
            /\ OwnKept("mm_access", n, m, "sighand") = 0 /\ OwnKept("mm_access", n, m, "signal") = 0
BY DEF OwnKept

(* ... that the call takes, gives back, or leaves as it is.                   *)
LEMMA OwnTakes ==
  ASSUME ForkTypeOK, ForkTypeOK', NEW t \in Tasks, UNCHANGED task,
         NEW pc, NEW f, NEW n, NEW m, op[t] = OwnCall(pc, f, n, m),
         NEW next, NEW f2, NEW n2, NEW m2, Becomes(t, OwnCall(next, f2, n2, m2)), NEW j \in Kinds,
         \A k \in Kinds : k # j => OwnKept(pc, n, m, k) = OwnKept(next, n2, m2, k),
         NEW o \in Pointer,
         \/ UNCHANGED count /\ OwnKept(pc, n, m, j) = OwnKept(next, n2, m2, j)
         \/ Took(j, o) /\ OwnKept(pc, n, m, j) = 0 /\ OwnKept(next, n2, m2, j) = o
         \/ Put(j, o) /\ OwnKept(pc, n, m, j) = o /\ OwnKept(next, n2, m2, j) = 0
  PROVE  OwnMoved(t)
<1> DEFINE v == OwnKept(pc, n, m, j)  w == OwnKept(next, n2, m2, j)
<1>1. Moved(j, v, w) /\ \A k \in Kinds : k # j => Keeps(k)
  <2> HIDE DEF v, w
  <2>1. CASE UNCHANGED count /\ v = w
    BY <2>1, SameKeeps DEF Moved
  <2>2. CASE Took(j, o) /\ v = 0 /\ w = o
    BY <2>2, TookAdds DEF Moved
  <2>3. CASE Put(j, o) /\ v = o /\ w = 0
    BY <2>3, PutDrops DEF Moved
  <2> QED
    BY <2>1, <2>2, <2>3 DEF v, w
<1> QED
  BY <1>1, OwnOne

LEMMA OwnStays ==
  ASSUME ForkTypeOK, ForkTypeOK', NEW t \in Tasks, UNCHANGED <<task, count>>,
         NEW pc, NEW f, NEW n, NEW m, op[t] = OwnCall(pc, f, n, m),
         NEW next, NEW f2, NEW n2, NEW m2, Becomes(t, OwnCall(next, f2, n2, m2)),
         \A k \in Kinds : OwnKept(pc, n, m, k) = OwnKept(next, n2, m2, k)
  PROVE  OwnMoved(t)
<1>1. "mm" \in Kinds /\ 0 \in Pointer
  BY DEF Kinds, Pointer
<1> QED
  BY <1>1, OwnTakes

LEMMA MmAccessMoves ==
  ASSUME LinkInv, ForkTypeOK', NEW t \in Tasks, mm_access(t) \/ mm_access_end(t)
  PROVE  OwnMoved(t)
<1>l. ForkTypeOK /\ Links /\ "mm" \in Kinds
  BY DEF LinkInv, Kinds
<1>1. CASE mm_access(t)
  <2>1. Entry(t) /\ UNCHANGED task
    BY <1>1 DEF mm_access
  <2>2. PICK u \in Tasks : Took("mm", task[u].mm) /\ op' = [op EXCEPT ![t].pc = "mm_access", ![t].new = task[u].mm]
    BY <1>1 DEF mm_access
  <2> DEFINE o == task[u].mm
  <2>3. o \in Pointer /\ Took("mm", o) /\ op' = [op EXCEPT ![t].pc = "mm_access", ![t].new = o]
    BY <2>2, <1>l DEF ForkTypeOK, TaskStruct
  <2> HIDE DEF o
  <2>4. op[t] = OwnCall("idle", op[t].flags, 0, 0)
    BY <1>l, <2>1, EntryIsIdle
  <2>5. Becomes(t, OwnCall("mm_access", op[t].flags, o, 0))
    BY <1>l, <2>3, <2>4, OwnNext
  <2>6. /\ OwnKept("idle", 0, 0, "mm") = 0 /\ OwnKept("mm_access", o, 0, "mm") = o
        /\ \A k \in Kinds : k # "mm" => OwnKept("idle", 0, 0, k) = OwnKept("mm_access", o, 0, k)
    BY StageKeeps DEF Kinds
  <2> QED
    BY <1>l, <2>1, <2>3, <2>4, <2>5, <2>6, OwnTakes
<1>2. CASE mm_access_end(t)
  <2> DEFINE n == op[t].new
  <2>1. At(t, "mm_access") /\ Put("mm", n) /\ op' = [op EXCEPT ![t] = Idle] /\ UNCHANGED task
    BY <1>2 DEF mm_access_end, mmput
  <2>2. "mm_access" \in Own \ {"complete"}
    BY DEF Own
  <2>3. /\ op[t] = OwnCall("mm_access", op[t].flags, n, op[t].new_fs) /\ n \in Pointer
        /\ OwnOK("mm_access", n, op[t].new_fs, task[t])
    BY <1>l, <2>1, <2>2, AtOwn
  <2>4. op[t] = OwnCall("mm_access", op[t].flags, n, 0)
    BY <2>3 DEF OwnOK, MayHaveFs
  <2> HIDE DEF n
  <2>5. Becomes(t, OwnCall("idle", {}, 0, 0))
    BY <1>l, <2>1, <2>4, OwnNext
  <2>6. /\ OwnKept("idle", 0, 0, "mm") = 0 /\ OwnKept("mm_access", n, 0, "mm") = n
        /\ \A k \in Kinds : k # "mm" => OwnKept("mm_access", n, 0, k) = OwnKept("idle", 0, 0, k)
    BY StageKeeps DEF Kinds
  <2> QED
    BY <1>l, <2>1, <2>3, <2>4, <2>5, <2>6, OwnTakes
<1> QED
  BY <1>1, <1>2

LEMMA UnshareMoves ==
  ASSUME LinkInv, ForkTypeOK', NEW t \in Tasks,
         unshare(t) \/ unshare_fs(t) \/ unshare_fd(t) \/ unshare_namespaces(t)
  PROVE  OwnMoved(t)
<1>l. ForkTypeOK /\ Links /\ "fs" \in Kinds /\ "files" \in Kinds
  BY DEF LinkInv, Kinds
<1>u. UNCHANGED task
  BY DEF unshare, unshare_fs, unshare_fd, unshare_namespaces
<1>p. \A k : Fresh(k) \subseteq Pointer
  BY DEF Fresh, Pointer
<1>1. CASE unshare(t)
  <2>1. PICK f \in UnshareFlags : op' = [op EXCEPT ![t].pc = "unshare_fs", ![t].flags = Closure(f)]
    BY <1>1 DEF unshare
  <2>2. Entry(t) /\ UNCHANGED count
    BY <1>1 DEF unshare
  <2>3. op[t] = OwnCall("idle", op[t].flags, 0, 0)
    BY <1>l, <2>2, EntryIsIdle
  <2>4. Becomes(t, OwnCall("unshare_fs", Closure(f), 0, 0))
    BY <1>l, <2>1, <2>3, OwnNext
  <2>5. \A k \in Kinds : OwnKept("idle", 0, 0, k) = OwnKept("unshare_fs", 0, 0, k)
    BY StageKeeps DEF Kinds
  <2> QED
    BY <1>l, <1>u, <2>2, <2>3, <2>4, <2>5, OwnStays
<1>2. CASE unshare_fs(t)
  <2>1. At(t, "unshare_fs") /\ "unshare_fs" \in Own \ {"complete"}
    BY <1>2 DEF unshare_fs, Own, Unsharing
  <2>2. /\ op[t] = OwnCall("unshare_fs", op[t].flags, op[t].new, op[t].new_fs)
        /\ OwnOK("unshare_fs", op[t].new, op[t].new_fs, task[t])
    BY <1>l, <2>1, AtOwn
  <2>3. op[t] = OwnCall("unshare_fs", op[t].flags, 0, 0)
    BY <2>2 DEF OwnOK, MayHaveNew, MayHaveFs
  <2>4. CASE \E o \in Fresh("fs") : Took("fs", o) /\ op' = [op EXCEPT ![t].pc = "unshare_fd", ![t].new_fs = o]
    <3>1. PICK o \in Fresh("fs") : Took("fs", o) /\ op' = [op EXCEPT ![t].pc = "unshare_fd", ![t].new_fs = o]
      BY <2>4
    <3>2. Becomes(t, OwnCall("unshare_fd", op[t].flags, 0, o)) /\ o \in Pointer
      BY <1>l, <3>1, <2>3, <1>p, OwnNext
    <3>3. /\ OwnKept("unshare_fs", 0, 0, "fs") = 0 /\ OwnKept("unshare_fd", 0, o, "fs") = o
          /\ \A k \in Kinds : k # "fs" => OwnKept("unshare_fs", 0, 0, k) = OwnKept("unshare_fd", 0, o, k)
      BY StageKeeps DEF Kinds
    <3> QED
      BY <1>l, <1>u, <2>3, <3>1, <3>2, <3>3, OwnTakes
  <2>5. CASE op' = [op EXCEPT ![t] = Idle] /\ UNCHANGED count
    <3>1. Becomes(t, OwnCall("idle", {}, 0, 0))
      BY <1>l, <2>5, <2>3, OwnNext
    <3>2. \A k \in Kinds : OwnKept("unshare_fs", 0, 0, k) = OwnKept("idle", 0, 0, k)
      BY StageKeeps DEF Kinds
    <3> QED
      BY <1>l, <1>u, <2>3, <2>5, <3>1, <3>2, OwnStays
  <2>6. CASE Goto(t, "unshare_fd") /\ UNCHANGED count
    <3>1. Becomes(t, OwnCall("unshare_fd", op[t].flags, 0, 0))
      BY <1>l, <2>6, <2>3, OwnNext DEF Goto
    <3>2. \A k \in Kinds : OwnKept("unshare_fs", 0, 0, k) = OwnKept("unshare_fd", 0, 0, k)
      BY StageKeeps DEF Kinds
    <3> QED
      BY <1>l, <1>u, <2>3, <2>6, <3>1, <3>2, OwnStays
  <2> QED
    BY <1>2, <2>4, <2>5, <2>6 DEF unshare_fs
<1>3. CASE unshare_fd(t)
  <2>1. At(t, "unshare_fd") /\ "unshare_fd" \in Own \ {"complete"}
    BY <1>3 DEF unshare_fd, Own, Unsharing
  <2> DEFINE m == op[t].new_fs
  <2>2. /\ op[t] = OwnCall("unshare_fd", op[t].flags, op[t].new, m) /\ OwnOK("unshare_fd", op[t].new, m, task[t])
    BY <1>l, <2>1, AtOwn
  <2>3. op[t] = OwnCall("unshare_fd", op[t].flags, 0, m)
    BY <2>2 DEF OwnOK, MayHaveNew
  <2> HIDE DEF m
  <2>4. CASE \E o \in Fresh("files") : Took("files", o) /\ op' = [op EXCEPT ![t].pc = "unshare_ns", ![t].new = o]
    <3>1. PICK o \in Fresh("files") : Took("files", o) /\ op' = [op EXCEPT ![t].pc = "unshare_ns", ![t].new = o]
      BY <2>4
    <3>2. Becomes(t, OwnCall("unshare_ns", op[t].flags, o, m)) /\ o \in Pointer
      BY <1>l, <3>1, <2>3, <1>p, OwnNext
    <3>3. /\ OwnKept("unshare_fd", 0, m, "files") = 0 /\ OwnKept("unshare_ns", o, m, "files") = o
          /\ \A k \in Kinds : k # "files" => OwnKept("unshare_fd", 0, m, k) = OwnKept("unshare_ns", o, m, k)
      BY StageKeeps DEF Kinds
    <3> QED
      BY <1>l, <1>u, <2>3, <3>1, <3>2, <3>3, OwnTakes
  <2>5. ASSUME NEW pc \in {"bad_unshare_cleanup_fs", "unshare_ns"}, Goto(t, pc), UNCHANGED count
        PROVE  OwnMoved(t)
    <3>1. Becomes(t, OwnCall(pc, op[t].flags, 0, m))
      BY <1>l, <2>5, <2>3, OwnNext DEF Goto
    <3>2. \A k \in Kinds : OwnKept("unshare_fd", 0, m, k) = OwnKept(pc, 0, m, k)
      BY StageKeeps DEF Kinds
    <3> QED
      BY <1>l, <1>u, <2>3, <2>5, <3>1, <3>2, OwnStays
  <2> QED
    BY <1>3, <2>4, <2>5 DEF unshare_fd
<1>4. CASE unshare_namespaces(t)
  <2>1. At(t, "unshare_ns") /\ "unshare_ns" \in Own \ {"complete"} /\ UNCHANGED count
    BY <1>4 DEF unshare_namespaces, Own, Unsharing
  <2> DEFINE n == op[t].new  m == op[t].new_fs
  <2>2. op[t] = OwnCall("unshare_ns", op[t].flags, n, m)
    BY <1>l, <2>1, AtOwn
  <2>3. PICK pc \in {"unshare_install", "bad_unshare_cleanup_fd"} : Goto(t, pc)
    BY <1>4 DEF unshare_namespaces
  <2> HIDE DEF n, m
  <2>4. Becomes(t, OwnCall(pc, op[t].flags, n, m))
    BY <1>l, <2>2, <2>3, OwnNext DEF Goto
  <2>5. \A k \in Kinds : OwnKept("unshare_ns", n, m, k) = OwnKept(pc, n, m, k)
    BY StageKeeps DEF Kinds
  <2> QED
    BY <1>l, <1>u, <2>1, <2>2, <2>4, <2>5, OwnStays
<1> QED
  BY <1>1, <1>2, <1>3, <1>4

LEMMA UnshareEndMoves ==
  ASSUME LinkInv, ForkTypeOK', NEW t \in Tasks, unshare_cleanup_fd(t) \/ unshare_cleanup_fs(t)
  PROVE  OwnMoved(t)
<1>l. ForkTypeOK /\ Links /\ "fs" \in Kinds /\ "files" \in Kinds
  BY DEF LinkInv, Kinds
<1> DEFINE n == op[t].new
           m == op[t].new_fs
<1>1. CASE unshare_cleanup_fd(t)
  <2>1. /\ At(t, "bad_unshare_cleanup_fd") /\ "bad_unshare_cleanup_fd" \in Own \ {"complete"} /\ UNCHANGED task
        /\ op' = [op EXCEPT ![t].pc = "bad_unshare_cleanup_fs", ![t].new = 0]
        /\ (n = 0 /\ UNCHANGED count) \/ Put("files", n)
    BY <1>1 DEF unshare_cleanup_fd, Own, Unsharing
  <2>2. op[t] = OwnCall("bad_unshare_cleanup_fd", op[t].flags, n, m) /\ n \in Pointer
    BY <1>l, <2>1, AtOwn
  <2> HIDE DEF n, m
  <2>3. Becomes(t, OwnCall("bad_unshare_cleanup_fs", op[t].flags, 0, m))
    BY <1>l, <2>1, <2>2, OwnNext
  <2>4. /\ OwnKept("bad_unshare_cleanup_fd", n, m, "files") = n /\ OwnKept("bad_unshare_cleanup_fs", 0, m, "files") = 0
        /\ \A k \in Kinds : k # "files" => OwnKept("bad_unshare_cleanup_fd", n, m, k) = OwnKept("bad_unshare_cleanup_fs", 0, m, k)
    BY StageKeeps DEF Kinds
  <2> QED
    BY <1>l, <2>1, <2>2, <2>3, <2>4, OwnTakes
<1>2. CASE unshare_cleanup_fs(t)
  <2>1. /\ At(t, "bad_unshare_cleanup_fs") /\ "bad_unshare_cleanup_fs" \in Own \ {"complete"} /\ UNCHANGED task
        /\ op' = [op EXCEPT ![t] = Idle]
        /\ (m = 0 /\ UNCHANGED count) \/ Put("fs", m)
    BY <1>2 DEF unshare_cleanup_fs, Own, Unsharing
  <2>2. op[t] = OwnCall("bad_unshare_cleanup_fs", op[t].flags, n, m) /\ m \in Pointer
    BY <1>l, <2>1, AtOwn
  <2> HIDE DEF n, m
  <2>3. Becomes(t, OwnCall("idle", {}, 0, 0))
    BY <1>l, <2>1, <2>2, OwnNext
  <2>4. /\ OwnKept("bad_unshare_cleanup_fs", n, m, "fs") = m /\ OwnKept("idle", 0, 0, "fs") = 0
        /\ \A k \in Kinds : k # "fs" => OwnKept("bad_unshare_cleanup_fs", n, m, k) = OwnKept("idle", 0, 0, k)
    BY StageKeeps DEF Kinds
  <2> QED
    BY <1>l, <2>1, <2>2, <2>3, <2>4, OwnTakes
<1> QED
  BY <1>1, <1>2

(* A step balances for every kind.                                            *)
LEMMA OwnBalances ==
  ASSUME ForkTypeOK, NEW t \in Tasks, NEW pc, NEW f, NEW n, NEW m, op[t] = OwnCall(pc, f, n, m),
         NEW next, NEW f2, NEW n2, NEW m2, Becomes(t, OwnCall(next, f2, n2, m2)),
         \A k \in Kinds : Balance(k, task[t][k], task'[t][k], OwnKept(pc, n, m, k), OwnKept(next, n2, m2, k))
  PROVE  OwnMoved(t)
BY OwnFields DEF OwnMoved

(* The installed objects and the displaced ones change places; the fs_struct  *)
(* that others still use is dropped on the spot.                              *)
LEMMA UnshareInstallMoves ==
  ASSUME LinkInv, ForkTypeOK', NEW t \in Tasks, unshare_install(t)
  PROVE  OwnMoved(t)
<1> DEFINE q == task[t]
           n == op[t].new
           m == op[t].new_fs
           last == count["fs"][q.fs] = 1
           m1 == IF m # 0 /\ last THEN q.fs ELSE 0
           n1 == IF n # 0 THEN q.files ELSE 0
           o1 == IF m # 0 THEN m ELSE q.fs
           o2 == IF n # 0 THEN n ELSE q.files
<1>l. ForkTypeOK /\ Links /\ Kinds = {"mm", "files", "fs", "sighand", "signal"}
  BY DEF LinkInv, Kinds
<1>1. At(t, "unshare_install") /\ "unshare_install" \in Own \ {"complete"}
  BY DEF unshare_install, Own, Unsharing
<1>2. /\ op[t] = OwnCall("unshare_install", op[t].flags, n, m) /\ q \in TaskStruct
  BY <1>l, <1>1, AtOwn
<1>3. Becomes(t, OwnCall("bad_unshare_cleanup_fd", op[t].flags, n1, m1))
  <2>1. op' = [op EXCEPT ![t].pc = "bad_unshare_cleanup_fd", ![t].new_fs = m1, ![t].new = n1]
    BY <1>l DEF unshare_install, ForkTypeOK, Call
  <2> HIDE DEF n1, m1, n, m
  <2> QED
    BY <1>l, <1>2, <2>1, OwnNext
<1>4. /\ task'[t].fs = o1 /\ task'[t].files = o2 /\ task'[t].mm = q.mm /\ task'[t].sighand = q.sighand
      /\ task'[t].signal = q.signal
  <2>1. task' = [task EXCEPT ![t].fs = o1, ![t].files = o2]
    BY <1>2 DEF unshare_install, ForkTypeOK, TaskStruct
  <2> HIDE DEF o1, o2
  <2>2. task'[t] = [q EXCEPT !.fs = o1, !.files = o2]
    BY <1>l, <2>1 DEF ForkTypeOK
  <2> DEFINE r == task'[t]
  <2>3. r = [q EXCEPT !.fs = o1, !.files = o2]
    BY <2>2
  <2> HIDE DEF r, q
  <2>4. r.fs = o1 /\ r.files = o2 /\ r.mm = q.mm /\ r.sighand = q.sighand /\ r.signal = q.signal
    BY <1>2, <2>3 DEF TaskStruct
  <2> QED
    BY <2>4 DEF r
<1>5. IF m # 0 /\ ~last THEN Put("fs", q.fs) ELSE UNCHANGED count
  BY DEF unshare_install, Put
<1>6. q.fs \in Pointer /\ q.files \in Pointer
  BY <1>2 DEF TaskStruct
<1>7. /\ \A k \in Kinds : k # "fs" => Keeps(k)
      /\ IF m # 0 /\ ~last THEN Drops("fs", q.fs) ELSE Keeps("fs")
  <2>1. CASE m # 0 /\ ~last
    <3> DEFINE o == q.fs
    <3>1. Put("fs", o) /\ o \in Pointer
      BY <1>5, <1>6, <2>1
    <3> HIDE DEF o
    <3>2. Drops("fs", o) /\ \A k \in Kinds : k # "fs" => Keeps(k)
      BY <1>l, <3>1, PutDrops
    <3> QED
      BY <2>1, <3>2 DEF o
  <2>2. CASE ~(m # 0 /\ ~last)
    <3>1. UNCHANGED count
      BY <1>5, <2>2
    <3>2. \A k \in Kinds : Keeps(k)
      BY <3>1, SameKeeps
    <3> QED
      BY <1>l, <2>2, <3>2
  <2> QED
    BY <2>1, <2>2
<1>8. Balance("files", q.files, o2, n, n1)
  <2> DEFINE s == q.files
  <2> HIDE DEF s
  <2>1. CASE n # 0
    <3>1. o2 = n /\ n1 = s
      BY <2>1 DEF s
    <3>2. Balance("files", s, n, n, s)
      BY <1>l, <1>7, ExchangeBalance
    <3> QED
      BY <3>1, <3>2 DEF s
  <2>2. CASE n = 0
    <3>1. o2 = s /\ n1 = 0
      BY <2>2 DEF s
    <3>2. Moved("files", 0, 0)
      BY <1>l, <1>7 DEF Moved
    <3>3. Balance("files", s, s, 0, 0)
      BY <1>l, <3>2, MovedBalance
    <3> QED
      BY <2>2, <3>1, <3>3 DEF s
  <2> QED
    BY <2>1, <2>2
<1>9. Balance("fs", q.fs, o1, m, m1)
  <2> DEFINE s == q.fs
  <2>1. CASE m # 0 /\ last
    <3>1. o1 = m /\ m1 = s /\ Keeps("fs")
      BY <1>7, <2>1
    <3> HIDE DEF s
    <3>2. Balance("fs", s, m, m, s)
      BY <1>l, <3>1, ExchangeBalance
    <3> QED
      BY <3>1, <3>2 DEF s
  <2>2. CASE m # 0 /\ ~last
    <3>1. o1 = m /\ m1 = 0 /\ Drops("fs", s)
      BY <1>7, <2>2
    <3> HIDE DEF s
    <3>2. Balance("fs", s, m, m, 0)
      BY <1>l, <3>1, ExchangeBalance
    <3> QED
      BY <3>1, <3>2 DEF s
  <2>3. CASE m = 0
    <3>1. o1 = s /\ m1 = 0 /\ Keeps("fs")
      BY <1>7, <2>3
    <3> HIDE DEF s
    <3>2. Moved("fs", 0, 0)
      BY <3>1 DEF Moved
    <3>3. Balance("fs", s, s, 0, 0)
      BY <1>l, <3>2, MovedBalance
    <3> QED
      BY <2>3, <3>1, <3>3 DEF s
  <2> QED
    BY <2>1, <2>2, <2>3
<1>10. ASSUME NEW k \in {"mm", "sighand", "signal"} PROVE Balance(k, q[k], q[k], 0, 0)
  <2>1. Moved(k, 0, 0) /\ k \in Kinds
    BY <1>l, <1>7 DEF Moved
  <2> HIDE DEF q
  <2> QED
    BY <1>l, <2>1, MovedBalance
<1> HIDE DEF n, m, o1, o2, n1, m1
<1>11. ASSUME NEW k \in Kinds
       PROVE  Balance(k, task[t][k], task'[t][k], OwnKept("unshare_install", n, m, k),
                      OwnKept("bad_unshare_cleanup_fd", n1, m1, k))
  <2>1. CASE k = "files"
    BY <1>4, <1>8, <2>1, StageKeeps
  <2>2. CASE k = "fs"
    BY <1>4, <1>9, <2>2, StageKeeps
  <2>3. CASE k \in {"mm", "sighand", "signal"}
    BY <1>4, <1>10, <2>3, StageKeeps
  <2> QED
    BY <1>l, <2>1, <2>2, <2>3
<1> QED
  BY <1>l, <1>2, <1>3, <1>11, OwnBalances

LEMMA UnshareFilesMoves ==
  ASSUME LinkInv, ForkTypeOK', NEW t \in Tasks, unshare_files(t)
  PROVE  OwnMoved(t)
<1> DEFINE s == task[t].files
<1>l. ForkTypeOK /\ Links /\ Kinds = {"mm", "files", "fs", "sighand", "signal"}
  BY DEF LinkInv, Kinds
<1>1. PICK o \in Fresh("files") : /\ Took("files", o) /\ task' = [task EXCEPT ![t].files = o]
                                 /\ op' = [op EXCEPT ![t].pc = "bad_unshare_cleanup_fd", ![t].new = s]
  BY DEF unshare_files
<1>2. Entry(t) /\ o \in Pointer
  BY DEF unshare_files, Fresh, Pointer
<1>3. op[t] = OwnCall("idle", op[t].flags, 0, 0) /\ task[t] \in TaskStruct
  BY <1>l, <1>2, EntryIsIdle
<1>4. /\ task'[t].files = o /\ task'[t].mm = task[t].mm /\ task'[t].fs = task[t].fs
      /\ task'[t].sighand = task[t].sighand /\ task'[t].signal = task[t].signal
  BY <1>l, <1>1, <1>3 DEF ForkTypeOK, TaskStruct
<1> HIDE DEF s
<1>5. Becomes(t, OwnCall("bad_unshare_cleanup_fd", op[t].flags, s, 0))
  BY <1>l, <1>1, <1>3, OwnNext
<1>6. Adds("files", o) /\ \A k \in Kinds : k # "files" => Keeps(k)
  BY <1>l, <1>1, <1>2, TookAdds
<1>7. Balance("files", s, o, 0, s)
  BY <1>l, <1>6, ExchangeBalance
<1>8. ASSUME NEW k \in {"mm", "fs", "sighand", "signal"} PROVE Balance(k, task[t][k], task[t][k], 0, 0)
  <2> DEFINE v == task[t][k]
  <2>1. Moved(k, 0, 0) /\ k \in Kinds
    BY <1>l, <1>6 DEF Moved
  <2> HIDE DEF v
  <2>2. Balance(k, v, v, 0, 0)
    BY <1>l, <2>1, MovedBalance
  <2> QED
    BY <2>2 DEF v
<1>9. ASSUME NEW k \in Kinds
      PROVE  Balance(k, task[t][k], task'[t][k], OwnKept("idle", 0, 0, k),
                      OwnKept("bad_unshare_cleanup_fd", s, 0, k))
  <2>1. CASE k = "files"
    BY <1>4, <1>7, <2>1, StageKeeps DEF s
  <2>2. CASE k \in {"mm", "fs", "sighand", "signal"}
    BY <1>4, <1>8, <2>2, StageKeeps
  <2> QED
    BY <1>l, <2>1, <2>2
<1> QED
  BY <1>l, <1>3, <1>5, <1>9, OwnBalances

(* A pointer of the task itself is cleared.                                   *)
Clears(t, j) == task' = [task EXCEPT ![t][j] = 0]

LEMMA OwnClears ==
  ASSUME ForkTypeOK, ForkTypeOK', NEW t \in Tasks, task[t] \in TaskStruct,
         NEW pc, NEW f, NEW n, NEW m, op[t] = OwnCall(pc, f, n, m),
         NEW next, NEW f2, NEW n2, NEW m2, Becomes(t, OwnCall(next, f2, n2, m2)), NEW j \in Kinds,
         \A k \in Kinds : OwnKept(pc, n, m, k) = OwnKept(next, n2, m2, k),
         Clears(t, j), Put(j, task[t][j]) \/ (UNCHANGED count /\ task[t][j] = 0)
  PROVE  OwnMoved(t)
<1> DEFINE s == task[t][j]
<1>1. s \in Pointer
  BY DEF TaskStruct, Kinds
<1>2. task'[t][j] = 0 /\ \A k \in Kinds : k # j => task'[t][k] = task[t][k]
  BY DEF ForkTypeOK, TaskStruct, Kinds, Clears
<1> HIDE DEF s
<1>3. Moved(j, s, 0) /\ \A k \in Kinds : k # j => Keeps(k)
  <2>1. CASE Put(j, s)
    BY <1>1, <2>1, PutDrops DEF Moved
  <2>2. CASE UNCHANGED count /\ s = 0
    BY <2>2, SameKeeps DEF Moved
  <2> QED
    BY <2>1, <2>2 DEF s
<1>4. Moved(j, task[t][j], task'[t][j])
  BY <1>2, <1>3 DEF s
<1> QED
  BY <1>2, <1>3, <1>4, OwnOne

LEMMA ExitMoves ==
  ASSUME LinkInv, ForkTypeOK', NEW t \in Tasks, do_exit(t) \/ mm_release(t) \/ exit_mm(t) \/ ExitShared(t)
  PROVE  OwnMoved(t)
<1>l. ForkTypeOK /\ Links /\ "mm" \in Kinds
  BY DEF LinkInv, Kinds
<1>k. \A pc, next \in {"idle", "mm_release", "complete_vfork_done", "exit_mm", "exit_files", "exit_fs", "release"}, k \in Kinds :
        OwnKept(pc, 0, 0, k) = OwnKept(next, 0, 0, k)
  BY StageKeeps DEF Kinds
<1>1. CASE do_exit(t)
  <2>1. Entry(t) /\ Goto(t, "mm_release") /\ UNCHANGED <<task, count>>
    BY <1>1 DEF do_exit
  <2>2. op[t] = OwnCall("idle", op[t].flags, 0, 0)
    BY <1>l, <2>1, EntryIsIdle
  <2>3. Becomes(t, OwnCall("mm_release", op[t].flags, 0, 0))
    BY <1>l, <2>1, <2>2, OwnNext DEF Goto
  <2> QED
    BY <1>l, <1>k, <2>1, <2>2, <2>3, OwnStays
<1>2. CASE mm_release(t)
  <2>1. At(t, "mm_release") /\ "mm_release" \in Own \ {"complete"} /\ UNCHANGED <<task, count>>
    BY <1>2 DEF mm_release, Own
  <2>2. PICK pc \in {"complete_vfork_done", "exit_mm"} : Goto(t, pc)
    BY <1>2 DEF mm_release
  <2>3. /\ op[t] = OwnCall("mm_release", op[t].flags, op[t].new, op[t].new_fs)
        /\ OwnOK("mm_release", op[t].new, op[t].new_fs, task[t])
    BY <1>l, <2>1, AtOwn
  <2>4. op[t] = OwnCall("mm_release", op[t].flags, 0, 0)
    BY <2>3 DEF OwnOK, MayHaveNew, MayHaveFs
  <2>5. Becomes(t, OwnCall(pc, op[t].flags, 0, 0))
    BY <1>l, <2>2, <2>4, OwnNext DEF Goto
  <2> QED
    BY <1>l, <1>k, <2>1, <2>4, <2>5, OwnStays
<1>3. CASE exit_mm(t)
  <2>1. /\ At(t, "exit_mm") /\ "exit_mm" \in Own \ {"complete"} /\ Goto(t, "exit_files")
        /\ Clears(t, "mm")
        /\ Put("mm", task[t]["mm"]) \/ (UNCHANGED count /\ task[t]["mm"] = 0)
    BY <1>3 DEF exit_mm, Own, Released, mmput, Clears
  <2>2. /\ op[t] = OwnCall("exit_mm", op[t].flags, op[t].new, op[t].new_fs)
        /\ OwnOK("exit_mm", op[t].new, op[t].new_fs, task[t]) /\ task[t] \in TaskStruct
    BY <1>l, <2>1, AtOwn
  <2>3. op[t] = OwnCall("exit_mm", op[t].flags, 0, 0)
    BY <2>2 DEF OwnOK, MayHaveNew, MayHaveFs
  <2>4. Becomes(t, OwnCall("exit_files", op[t].flags, 0, 0))
    BY <1>l, <2>1, <2>3, OwnNext DEF Goto
  <2> QED
    BY <1>l, <1>k, <2>1, <2>2, <2>3, <2>4, OwnClears
<1>4. CASE ExitShared(t)
  <2>1. PICK k \in DOMAIN ExitAt : /\ At(t, ExitAt[k]) /\ Put(k, task[t][k]) /\ Clears(t, k)
                                   /\ Goto(t, IF k = "files" THEN "exit_fs" ELSE "release")
    BY <1>4 DEF ExitShared, Clears
  <2>2. PICK pc \in {"exit_files", "exit_fs"}, next \in {"exit_fs", "release"} : At(t, pc) /\ Goto(t, next)
    BY <2>1 DEF ExitAt
  <2>3. pc \in Own \ {"complete"} /\ k \in Kinds
    BY DEF ExitAt, Kinds, Own, Released
  <2>4. /\ op[t] = OwnCall(pc, op[t].flags, op[t].new, op[t].new_fs)
        /\ OwnOK(pc, op[t].new, op[t].new_fs, task[t]) /\ task[t] \in TaskStruct
    BY <1>l, <2>2, <2>3, AtOwn
  <2>5. op[t] = OwnCall(pc, op[t].flags, 0, 0)
    BY <2>4 DEF OwnOK, MayHaveNew, MayHaveFs
  <2>6. Becomes(t, OwnCall(next, op[t].flags, 0, 0))
    BY <1>l, <2>2, <2>5, OwnNext DEF Goto
  <2>7. \A j \in Kinds : OwnKept(pc, 0, 0, j) = OwnKept(next, 0, 0, j)
    BY <1>k
  <2> QED
    BY <1>l, <2>1, <2>3, <2>4, <2>5, <2>6, <2>7, OwnClears
<1> QED
  BY <1>1, <1>2, <1>3, <1>4

-----------------------------------------------------------------------------
(* Reference counts when tasks begin and end *)

LEMMA NothingKept ==
  ASSUME NEW a, NEW q, a.pc \notin FilesPcs, a.new = 0, a.new_fs = 0
  PROVE  \A k \in Kinds : Kept(a, q, k) = 0
<1>1. \A k \in Kinds : CountedAt[k] \subseteq FilesPcs
  BY DEF Kinds, CountedAt, FilesPcs, FsPcs, SighandPcs, SignalPcs, MmPcs
<1> QED
  BY <1>1 DEF Kept, Kinds

LEMMA OutsideFiles ==
  /\ \A pc \in Waiting \cup Own \cup {"wake", "creds"} : pc \notin FilesPcs
  /\ FilesPcs \subseteq Building
BY DEF Waiting, Own, Unsharing, Released, FilesPcs, FsPcs, SighandPcs, SignalPcs, MmPcs, Building, Forward, Undoing

(* A step of a call that keeps nothing, before and after.                     *)
LEMMA PlainCounted ==
  ASSUME LinkInv, Counted, ForkTypeOK', NEW t \in Tasks, NEW x \in Tasks, Frame(t, x),
         \A u \in Tasks : u # t /\ op[u].p = x => op[u].pc \in Waiting,
         op[t].pc \notin FilesPcs, op[t].new = 0, op[t].new_fs = 0,
         op'[t].pc \notin FilesPcs, op'[t].new = 0, op'[t].new_fs = 0,
         \A k \in Kinds : Moved(k, Seen(task[x], k), Seen(task'[x], k))
  PROVE  Counted'
<1>1. \A u \in Tasks, k \in Kinds : u # t => KeptNow(u, k)' = KeptNow(u, k)
  BY OthersKeep
<1>2. ASSUME NEW k \in Kinds, NEW o \in Objects
      PROVE  count'[k][o] = count[k][o] + (Ind(SeenNow(x, k)' = o) - Ind(SeenNow(x, k) = o))
                                        + (Ind(KeptNow(t, k)' = o) - Ind(KeptNow(t, k) = o))
  <2> DEFINE v == KeptNow(t, k)  w == KeptNow(t, k)'  s == SeenNow(x, k)  z == SeenNow(x, k)'
             a == op'[t]  q == task'[op'[t].p]
  <2>1. v = 0
    BY NothingKept DEF KeptNow
  <2>2. w = Kept(a, q, k) /\ a.pc \notin FilesPcs /\ a.new = 0 /\ a.new_fs = 0
    BY DEF KeptNow
  <2>3. Moved(k, s, z)
    BY DEF SeenNow
  <2> HIDE DEF v, w, s, z, a, q
  <2>4. v = w
    BY <2>1, <2>2, NothingKept
  <2>5. count'[k][o] = count[k][o] + (Ind(z = o) - Ind(s = o)) + (Ind(w = o) - Ind(v = o))
    <3>1. ForkTypeOK /\ ((s = z /\ Moved(k, v, w)) \/ (v = w /\ Moved(k, s, z)))
      BY <2>3, <2>4 DEF LinkInv
    <3>2. Balance(k, s, z, v, w)
      BY <3>1, MovedBalance
    <3> QED
      BY <3>2 DEF Balance
  <2> QED
    BY <2>5 DEF v, w, s, z
<1>3. Balanced(t, x)
  BY <1>2 DEF Balanced
<1> QED
  BY <1>1, <1>3, CountedStep

LEMMA SameSeen ==
  ASSUME NEW r, NEW q, SamePointers(r, q), r.st \notin {"free", "built"}, q.st \notin {"free", "built"}, UNCHANGED count
  PROVE  \A k \in Kinds : Moved(k, Seen(q, k), Seen(r, k))
BY SameKeeps DEF Seen, SamePointers, Moved

LEMMA DupCounted ==
  ASSUME LinkInv, Counted, ForkTypeOK', NEW t \in Tasks, DupFrame(t)
  PROVE  Counted'
<1> DEFINE p == op'[t].p
<1>1. /\ Frame(t, p) /\ op[t].pc = "idle" /\ p \in Tasks /\ task[p].st = "free" /\ op[t].new = 0 /\ op[t].new_fs = 0
      /\ op'[t].pc = "creds" /\ op'[t].new = 0 /\ op'[t].new_fs = 0 /\ task'[p].st = "built" /\ UNCHANGED count
  BY DEF DupFrame
<1>2. \A u \in Tasks : u # t /\ op[u].p = p => op[u].pc \in Waiting
  BY <1>1, OnlyWaiters
<1>3. op[t].pc \notin FilesPcs /\ op'[t].pc \notin FilesPcs
  BY <1>1, NotOwn, OutsideFiles
<1>4. \A k \in Kinds : Moved(k, Seen(task[p], k), Seen(task'[p], k))
  BY <1>1, SameKeeps DEF Seen, Moved
<1> HIDE DEF p
<1> QED
  BY <1>1, <1>2, <1>3, <1>4, PlainCounted

LEMMA FreeCounted ==
  ASSUME LinkInv, Counted, ForkTypeOK', NEW t \in Tasks, FreeFrame(t)
  PROVE  Counted'
<1> DEFINE p == op[t].p
<1>1. /\ Frame(t, p) /\ op[t].pc \in Undoing /\ op[t].pc \notin FilesPcs /\ p \in Tasks /\ task[p].st = "built"
      /\ IsIdle(op'[t]) /\ task'[p].st = "free" /\ UNCHANGED count
  BY DEF FreeFrame
<1>2. \A u \in Tasks : u # t => op[u].p # p
  BY <1>1, UsageBefore
<1>3. op[t].new = 0 /\ op[t].new_fs = 0
  BY <1>1 DEF LinkInv, Links, Structure, CallOK, Undoing
<1>4. op'[t].pc \notin FilesPcs /\ op'[t].new = 0 /\ op'[t].new_fs = 0
  BY <1>1, IdleFields, NotOwn, OutsideFiles
<1>5. \A k \in Kinds : Moved(k, Seen(task[p], k), Seen(task'[p], k))
  BY <1>1, SameKeeps DEF Seen, Moved
<1> HIDE DEF p
<1> QED
  BY <1>1, <1>2, <1>3, <1>4, <1>5, PlainCounted

(* A call that waits, wakes or is about to return keeps nothing.              *)
LEMMA WaitingKeeps ==
  ASSUME LinkInv, NEW t \in Tasks,
         op[t].pc \in Waiting \cup {"wake", "idle", "complete", "complete_vfork_done", "release"}
  PROVE  op[t].pc \notin FilesPcs /\ op[t].new = 0 /\ op[t].new_fs = 0
<1>1. CallOK(t, op[t], task[t], task[op[t].p])
  BY DEF LinkInv, Links, Structure
<1>2. op[t].new = 0 /\ op[t].new_fs = 0
  BY <1>1 DEF CallOK, Waiting
<1> QED
  BY <1>2, OutsideFiles DEF Own, Released

LEMMA WakeCounted ==
  ASSUME LinkInv, Counted, ForkTypeOK', NEW t \in Tasks, WakeFrame(t)
  PROVE  Counted'
<1> DEFINE p == op[t].p
<1>1. /\ Frame(t, p) /\ op[t].pc = "wake" /\ p \in Tasks /\ task[p].st = "new"
      /\ task'[p].st \in {"idle", "running"} /\ SamePointers(task'[p], task[p]) /\ UNCHANGED count
      /\ \/ IsIdle(op'[t])
         \/ op'[t].pc = "wait_for_vfork_done" /\ op'[t].new = op[t].new /\ op'[t].new_fs = op[t].new_fs
  BY DEF WakeFrame
<1>2. \A u \in Tasks : u # t => op[u].p # p
  BY <1>1, UsageBefore
<1>3. op[t].pc \notin FilesPcs /\ op[t].new = 0 /\ op[t].new_fs = 0
  BY <1>1, WaitingKeeps
<1>4. op'[t].pc \notin FilesPcs /\ op'[t].new = 0 /\ op'[t].new_fs = 0
  BY <1>1, <1>3, IdleFields, NotOwn, OutsideFiles DEF Waiting
<1>5. \A k \in Kinds : Moved(k, Seen(task[p], k), Seen(task'[p], k))
  <2> DEFINE r == task'[p]  q == task[p]
  <2>1. SamePointers(r, q) /\ r.st \notin {"free", "built"} /\ q.st \notin {"free", "built"}
    BY <1>1
  <2> HIDE DEF r, q
  <2>2. \A k \in Kinds : Moved(k, Seen(q, k), Seen(r, k))
    BY <1>1, <2>1, SameSeen
  <2> QED
    BY <2>2 DEF r, q
<1> HIDE DEF p
<1> QED
  BY <1>1, <1>2, <1>3, <1>4, <1>5, PlainCounted

LEMMA WaitedCounted ==
  ASSUME LinkInv, Counted, ForkTypeOK', NEW t \in Tasks, WaitedFrame(t) \/ KilledFrame(t)
  PROVE  Counted'
<1> DEFINE p == op[t].p
<1>1. /\ Frame(t, p) /\ op[t].pc = "wait_for_vfork_done" /\ UNCHANGED count
      /\ op'[t].pc = "vfork_put" /\ op'[t].new = op[t].new /\ op'[t].new_fs = op[t].new_fs
      /\ task'[p].st = task[p].st /\ SamePointers(task'[p], task[p])
  BY DEF WaitedFrame, KilledFrame, SamePointers
<1>2. p \in Tasks /\ task[p].st \in Parents
  BY <1>1, NotOwn DEF LinkInv, Links, Structure, CallOK, Waiting, Parents
<1>3. \A u \in Tasks : u # t => op[u].p # p
  BY <1>2, UsageBefore
<1>4. op[t].pc \notin FilesPcs /\ op[t].new = 0 /\ op[t].new_fs = 0
  BY <1>1, WaitingKeeps DEF Waiting
<1>5. op'[t].pc \notin FilesPcs /\ op'[t].new = 0 /\ op'[t].new_fs = 0
  BY <1>1, <1>4, OutsideFiles DEF Waiting
<1>6. \A k \in Kinds : Moved(k, Seen(task[p], k), Seen(task'[p], k))
  <2> DEFINE r == task'[p]  q == task[p]
  <2>1. SamePointers(r, q) /\ r.st \notin {"free", "built"} /\ q.st \notin {"free", "built"}
    BY <1>1, <1>2 DEF Parents
  <2> HIDE DEF r, q
  <2>2. \A k \in Kinds : Moved(k, Seen(q, k), Seen(r, k))
    BY <1>1, <2>1, SameSeen
  <2> QED
    BY <2>2 DEF r, q
<1> HIDE DEF p
<1> QED
  BY <1>1, <1>2, <1>3, <1>4, <1>5, <1>6, PlainCounted

LEMMA ReleaseCounted ==
  ASSUME LinkInv, Counted, ForkTypeOK', NEW t \in Tasks, ReleaseFrame(t) \/ CompleteFrame(t)
  PROVE  Counted'
<1>1. /\ Frame(t, t) /\ op[t].pc \in {"complete_vfork_done", "complete"} /\ UNCHANGED count /\ task[t].st = "running"
      /\ op'[t].pc \in {"complete", "exit_mm"} /\ op'[t].new = 0 /\ op'[t].new_fs = 0
      /\ task'[t].st = "running" /\ SamePointers(task'[t], task[t])
  BY DEF ReleaseFrame, CompleteFrame
<1>2. \A u \in Tasks : u # t /\ op[u].p = t => op[u].pc \in Waiting
  BY <1>1, OnlyWaiters
<1>3. op[t].pc \notin FilesPcs /\ op[t].new = 0 /\ op[t].new_fs = 0
  BY <1>1, WaitingKeeps
<1>4. op'[t].pc \notin FilesPcs
  BY <1>1, OutsideFiles DEF Own, Released
<1>5. \A k \in Kinds : Moved(k, Seen(task[t], k), Seen(task'[t], k))
  <2> DEFINE r == task'[t]  q == task[t]
  <2>1. SamePointers(r, q) /\ r.st \notin {"free", "built"} /\ q.st \notin {"free", "built"}
    BY <1>1
  <2> HIDE DEF r, q
  <2>2. \A k \in Kinds : Moved(k, Seen(q, k), Seen(r, k))
    BY <1>1, <2>1, SameSeen
  <2> QED
    BY <2>2 DEF r, q
<1> QED
  BY <1>1, <1>2, <1>3, <1>4, <1>5, PlainCounted

LEMMA DeadCounted ==
  ASSUME LinkInv, Counted, ForkTypeOK', NEW t \in Tasks, DeadFrame(t)
  PROVE  Counted'
<1>1. /\ Frame(t, t) /\ op[t].pc = "release" /\ task[t].st = "running" /\ IsIdle(op'[t]) /\ task'[t].st = "dead"
      /\ Put("sighand", task[t].sighand)
      /\ task'[t].signal = task[t].signal
      /\ task'[t].mm = 0 /\ task'[t].files = 0 /\ task'[t].fs = 0 /\ task'[t].sighand = 0
      /\ task[t].mm = 0 /\ task[t].files = 0 /\ task[t].fs = 0
  BY DEF DeadFrame
<1>2. \A u \in Tasks : u # t /\ op[u].p = t => op[u].pc \in Waiting
  BY <1>1, OnlyWaiters
<1>3. op[t].pc \notin FilesPcs /\ op[t].new = 0 /\ op[t].new_fs = 0
  BY <1>1, WaitingKeeps
<1>4. op'[t].pc \notin FilesPcs /\ op'[t].new = 0 /\ op'[t].new_fs = 0
  BY <1>1, IdleFields, NotOwn, OutsideFiles
<1>5. \A k \in Kinds : Moved(k, Seen(task[t], k), Seen(task'[t], k))
  <2> DEFINE s == task[t].sighand
  <2>1. s \in Pointer /\ Put("sighand", s) /\ "sighand" \in Kinds
    BY <1>1 DEF LinkInv, ForkTypeOK, TaskStruct, Kinds
  <2> HIDE DEF s
  <2>2. Drops("sighand", s) /\ \A k \in Kinds : k # "sighand" => Keeps(k)
    BY <2>1, PutDrops DEF LinkInv
  <2>3. \A k \in Kinds : Seen(task[t], k) = task[t][k] /\ Seen(task'[t], k) = task'[t][k]
    BY <1>1 DEF Seen
  <2>4. \A k \in Kinds : Moved(k, task[t][k], task'[t][k])
    BY <1>1, <2>2 DEF Moved, Kinds, s
  <2> QED
    BY <2>3, <2>4
<1> QED
  BY <1>1, <1>2, <1>3, <1>4, <1>5, PlainCounted

(* put_task_struct drops the signal_struct with the last reference.           *)
LEMMA PutSeen ==
  ASSUME LinkInv, NEW x \in Tasks, NEW st, st \notin {"free", "built"}, PutFrame(x, st), task[x].st \notin {"free", "built"},
         task[x].usage <= 1 => task[x].st \in {"dead", "switched"}
  PROVE  \A k \in Kinds : Moved(k, Seen(task[x], k), Seen(task'[x], k))
<1>1. CASE task'[x].st = st /\ SamePointers(task'[x], task[x]) /\ UNCHANGED count
  <2> DEFINE r == task'[x]  q == task[x]
  <2>1. SamePointers(r, q) /\ r.st \notin {"free", "built"} /\ q.st \notin {"free", "built"}
    BY <1>1
  <2> HIDE DEF r, q
  <2>2. \A k \in Kinds : Moved(k, Seen(q, k), Seen(r, k))
    BY <1>1, <2>1, SameSeen
  <2> QED
    BY <2>2 DEF r, q
<1>2. CASE task[x].usage <= 1 /\ task'[x] = NoStruct /\ Put("signal", task[x].signal)
  <2> DEFINE s == task[x].signal
  <2>1. s \in Pointer /\ Put("signal", s) /\ "signal" \in Kinds
    BY <1>2 DEF LinkInv, ForkTypeOK, TaskStruct, Kinds
  <2>2. TaskOK(task[x]) /\ task[x].st \in {"dead", "switched"}
    BY <1>2 DEF LinkInv, Links, Structure
  <2>3. task[x].mm = 0 /\ task[x].files = 0 /\ task[x].fs = 0 /\ task[x].sighand = 0
    BY <2>2 DEF TaskOK
  <2>4. NoStruct.st = "free"
    BY DEF NoStruct
  <2> HIDE DEF s
  <2>5. Drops("signal", s) /\ \A k \in Kinds : k # "signal" => Keeps(k)
    BY <2>1, PutDrops DEF LinkInv
  <2>6. \A k \in Kinds : Seen(task[x], k) = task[x][k] /\ Seen(task'[x], k) = 0
    BY <1>2, <2>4 DEF Seen
  <2>7. \A k \in Kinds : Moved(k, task[x][k], 0)
    BY <2>3, <2>5 DEF Moved, Kinds, s
  <2> QED
    BY <2>6, <2>7
<1> QED
  BY <1>1, <1>2 DEF PutFrame

LEMMA VforkPutCounted ==
  ASSUME LinkInv, Counted, ForkTypeOK', NEW t \in Tasks, VforkPutFrame(t)
  PROVE  Counted'
<1> DEFINE p == op[t].p
<1>1. Frame(t, p) /\ op[t].pc = "vfork_put" /\ IsIdle(op'[t]) /\ PutFrame(p, task[p].st)
  BY DEF VforkPutFrame
<1>2. p \in Tasks /\ task[p].st \in Parents
  BY <1>1, NotOwn DEF LinkInv, Links, Structure, CallOK, Waiting, Parents
<1>3. (\A u \in Tasks : u # t => op[u].p # p) /\ task[p].usage = Base(task[p].st) + 1
  BY <1>1, <1>2, UsageBefore DEF Waiting
<1>4. op[t].pc \notin FilesPcs /\ op[t].new = 0 /\ op[t].new_fs = 0
  BY <1>1, WaitingKeeps DEF Waiting
<1>5. op'[t].pc \notin FilesPcs /\ op'[t].new = 0 /\ op'[t].new_fs = 0
  BY <1>1, IdleFields, NotOwn, OutsideFiles
<1>6. task[p].usage <= 1 => task[p].st \in {"dead", "switched"}
  BY <1>2, <1>3 DEF Parents, Base
<1>7. task[p].st \notin {"free", "built"}
  BY <1>2 DEF Parents
<1> DEFINE st == task[p].st
<1> HIDE DEF p, st
<1>8. \A k \in Kinds : Moved(k, Seen(task[p], k), Seen(task'[p], k))
  BY <1>1, <1>2, <1>6, <1>7, PutSeen DEF st
<1> QED
  BY <1>1, <1>2, <1>3, <1>4, <1>5, <1>8, PlainCounted

LEMMA SwitchCounted ==
  ASSUME LinkInv, Counted, ForkTypeOK', NEW t \in Tasks, SwitchFrame(t)
  PROVE  Counted'
<1>1. Frame(t, t) /\ task[t].st = "dead" /\ PutFrame(t, "switched") /\ UNCHANGED op
  BY DEF SwitchFrame
<1>2. \A u \in Tasks : u # t /\ op[u].p = t => op[u].pc \in Waiting
  BY <1>1, OnlyWaiters
<1>3. op[t].pc = "idle"
  BY <1>1 DEF LinkInv, Links, Structure, CallOK
<1>4. op[t].pc \notin FilesPcs /\ op[t].new = 0 /\ op[t].new_fs = 0
  BY <1>3, WaitingKeeps
<1>5. \A k \in Kinds : Moved(k, Seen(task[t], k), Seen(task'[t], k))
  BY <1>1, PutSeen
<1> QED
  BY <1>1, <1>2, <1>4, <1>5, PlainCounted

(* What was counted for the call is now seen in the published task; a thread  *)
(* is counted in the signal_struct it shares at this moment.                  *)
LEMMA PublishCounted ==
  ASSUME LinkInv, Counted, ForkTypeOK', NEW t \in Tasks, PublishFrame(t)
  PROVE  Counted'
<1> DEFINE p == op[t].p  thread == "THREAD" \in op[t].flags
<1>1. /\ Frame(t, p) /\ op[t].pc = "publish" /\ p \in Tasks /\ task[p].st = "built"
      /\ op'[t].pc = "wake" /\ op'[t].p = p /\ op'[t].new = op[t].new /\ op'[t].new_fs = op[t].new_fs
      /\ task'[p].st = "new" /\ SamePointers(task'[p], task[p])
      /\ count' = (IF thread /\ "IDLE" \notin op[t].flags
                   THEN [count EXCEPT !["signal"][task[t].signal] = @ + 1] ELSE count)
  BY DEF PublishFrame
<1>2. CallOK(t, op[t], task[t], task[p]) /\ task[t] \in TaskStruct /\ "publish" \in Forward
  BY DEF LinkInv, Links, Structure, ForkTypeOK, Forward
<1>3. /\ op[t].new = 0 /\ op[t].new_fs = 0 /\ (thread => task[p]["signal"] = task[t]["signal"])
      /\ ("IDLE" \in op[t].flags => ~thread)
  BY <1>1, <1>2 DEF CallOK, SharedFlag, Kinds
<1>4. \A u \in Tasks : u # t => op[u].p # p
  BY <1>1, UsageBefore
<1>5. \A u \in Tasks, k \in Kinds : u # t => KeptNow(u, k)' = KeptNow(u, k)
  BY <1>1, <1>4, OthersKeep
<1>6. \A k \in Kinds : SeenNow(p, k) = 0 /\ SeenNow(p, k)' = task[p][k]
  BY <1>1 DEF SeenNow, Seen, SamePointers
<1>7. \A k \in Kinds : KeptNow(t, k) = IF k = "signal" /\ thread THEN 0 ELSE task[p][k]
  <2>1. \A k \in Kinds : op[t].pc \in CountedAt[k]
    BY <1>1 DEF Kinds, CountedAt, FilesPcs, FsPcs, SighandPcs, SignalPcs, MmPcs
  <2> QED
    BY <2>1 DEF KeptNow, Kept
<1>8. \A k \in Kinds : KeptNow(t, k)' = 0
  <2> DEFINE a == op'[t]  q == task'[op'[t].p]
  <2>1. a.pc \notin FilesPcs /\ a.new = 0 /\ a.new_fs = 0 /\ \A k \in Kinds : KeptNow(t, k)' = Kept(a, q, k)
    BY <1>1, <1>3, OutsideFiles DEF KeptNow
  <2> HIDE DEF a, q
  <2> QED
    BY <2>1, NothingKept
<1>9. /\ \A k \in Kinds : k # "signal" \/ ~thread => Keeps(k)
      /\ thread => Adds("signal", task[p]["signal"])
  <2>1. CASE thread
    <3> DEFINE o == task[t].signal
    <3>1. o \in Pointer /\ Took("signal", o) /\ "signal" \in Kinds
      BY <1>1, <1>2, <1>3, <2>1 DEF TaskStruct, Took, Kinds
    <3> HIDE DEF o
    <3>2. Adds("signal", o) /\ \A k \in Kinds : k # "signal" => Keeps(k)
      BY <3>1, TookAdds DEF LinkInv
    <3> QED
      BY <1>3, <2>1, <3>2 DEF o
  <2>2. CASE ~thread
    BY <1>1, <2>2, SameKeeps
  <2> QED
    BY <2>1, <2>2
<1>10. ASSUME NEW k \in Kinds PROVE Balance(k, SeenNow(p, k), SeenNow(p, k)', KeptNow(t, k), KeptNow(t, k)')
  <2> DEFINE o == task[p][k]
  <2>1. SeenNow(p, k) = 0 /\ SeenNow(p, k)' = o /\ KeptNow(t, k)' = 0
        /\ KeptNow(t, k) = IF k = "signal" /\ thread THEN 0 ELSE o
    BY <1>6, <1>7, <1>8
  <2>2. CASE k = "signal" /\ thread
    <3>1. Adds(k, o)
      BY <1>9, <2>2
    <3> HIDE DEF o
    <3>2. Moved(k, 0, o)
      BY <3>1 DEF Moved
    <3>3. Balance(k, 0, o, 0, 0)
      BY <3>2, MovedBalance DEF LinkInv
    <3> QED
      BY <2>1, <2>2, <3>3
  <2>3. CASE ~(k = "signal" /\ thread)
    <3>1. Keeps(k)
      BY <1>9, <2>3
    <3> HIDE DEF o
    <3>2. Balance(k, 0, o, o, 0)
      BY <3>1, ExchangeBalance DEF LinkInv
    <3> QED
      BY <2>1, <2>3, <3>2
  <2> QED
    BY <2>2, <2>3
<1> HIDE DEF p
<1>11. Balanced(t, p)
  BY <1>10 DEF Balanced, Balance
<1> QED
  BY <1>1, <1>5, <1>11, CountedStep

LEMMA PublishFails ==
  ASSUME LinkInv, NEW t \in Tasks, Publish(t), op'[t].pc \in Building
  PROVE  BuildMoved(t)
<1>1. At(t, "publish") /\ "publish" \in Building /\ op[t] \in Call
  BY DEF Publish, Building, Forward, LinkInv, ForkTypeOK
<1>2. CASE Fail(t, "publish")
  BY <1>1, <1>2, OnErrorUndoes, StageCounts, FailMoves
<1>3. CASE Goto(t, "wake")
  <2>1. op'[t].pc = "wake"
    BY <1>1, <1>3, GotoIsGotoWith, GotoFields DEF LinkInv
  <2> QED
    BY <2>1, NotOwn
<1> QED
  BY <1>2, <1>3 DEF Publish

CountInv == LinkInv /\ Counted

LEMMA CountInit == ASSUME Init PROVE CountInv
<1>l. LinkInv
  BY LinkInit
<1>1. PICK m \in {0, 1} :
        /\ task = [t \in Tasks |->
             IF t = InitTask
             THEN [NoStruct EXCEPT !.st = "running", !.mm = m, !.files = 1, !.fs = 1, !.sighand = 1,
                                   !.signal = 1, !.usage = 2]
             ELSE NoStruct]
        /\ count = [k \in Kinds |-> [o \in Objects |-> IF o = 1 /\ (k = "mm" => m = 1) THEN 1 ELSE 0]]
  BY DEF Init
<1> DEFINE first == [NoStruct EXCEPT !.st = "running", !.mm = m, !.files = 1, !.fs = 1, !.sighand = 1,
                                     !.signal = 1, !.usage = 2]
<1>2. /\ first.st = "running" /\ first.mm = m
      /\ \A k \in Kinds : k # "mm" => first[k] = 1
  BY DEF NoStruct, Kinds
<1>3. NoStruct.st = "free"
  BY DEF NoStruct
<1>4. \A t \in Tasks : task[t] = IF t = InitTask THEN first ELSE NoStruct
  BY <1>1
<1> HIDE DEF first
<1>5. \A t \in Tasks : IsIdle(op[t])
  BY IdleFields DEF Init
<1>6. ASSUME NEW k \in Kinds, NEW o \in Objects
      PROVE  count[k][o] = Cardinality(SeenBy(k, o)) + Cardinality(KeptBy(k, o))
  <2>1. o # 0
    BY ObjectsAreNumbers
  <2>2. KeptBy(k, o) = {}
    <3>1. ASSUME NEW t \in Tasks PROVE Kept(op[t], task[op[t].p], k) = 0
      BY <1>5, IdleFields, NotOwn, OutsideFiles, NothingKept
    <3> QED
      BY <2>1, <3>1 DEF KeptBy
  <2>3. SeenBy(k, o) = IF first[k] = o THEN {InitTask} ELSE {}
    BY <1>2, <1>3, <1>4, <2>1, ForkAssumption DEF SeenBy, Seen
  <2>4. Cardinality({}) = 0 /\ Cardinality({InitTask}) = 1
    BY FS_EmptySet, FS_Singleton
  <2>5. count[k][o] = IF first[k] = o THEN 1 ELSE 0
    BY <1>1, <1>2, <2>1
  <2> QED
    BY <2>2, <2>3, <2>4, <2>5
<1> QED
  BY <1>l, <1>6 DEF CountInv, Counted

LEMMA CountStep == ASSUME CountInv, NEW t \in Tasks, Step(t) PROVE Counted'
<1>l. ForkTypeOK /\ Links /\ LinkInv /\ Counted /\ ForkTypeOK'
  <2>1. LinkInv'
    BY LinkStep DEF CountInv
  <2> QED
    BY <2>1 DEF CountInv, LinkInv
<1>1. CASE copy_creds(t) \/ check_threads(t) \/ CopySetup(t) \/ CopyContext(t)
  BY <1>l, <1>1, SetupFrame, SetupMoves, BuildCounted
<1>2. CASE CopyShared(t) \/ copy_signal(t)
  BY <1>l, <1>2, CopySharedFrame, CopySignalFrame, CopySharedMoves, CopySignalMoves, BuildCounted
<1>3. CASE copy_mm(t) \/ dup_mmap(t) \/ get_binfmt(t) \/ free_pt(t)
  BY <1>l, <1>3, CopyMmFrame, DupMmFrame, CopyMmMoves, DupMmMoves, BuildCounted
<1>4. CASE CleanupContext(t) \/ CleanupMm(t) \/ CleanupSignal(t) \/ CleanupShared(t)
  BY <1>l, <1>4, CleanupFrame, CleanupMoves, BuildCounted
<1>5. CASE mm_access(t) \/ mm_access_end(t)
  BY <1>l, <1>5, MmAccessFrame, MmAccessMoves, OwnCounted
<1>6. CASE unshare(t) \/ unshare_fs(t) \/ unshare_fd(t) \/ unshare_namespaces(t)
  BY <1>l, <1>6, UnshareFrame, UnshareMoves, OwnCounted
<1>7. CASE unshare_install(t)
  BY <1>l, <1>7, UnshareInstallFrame, UnshareInstallMoves, OwnCounted
<1>8. CASE unshare_cleanup_fd(t) \/ unshare_cleanup_fs(t)
  BY <1>l, <1>8, UnshareEndFrame, UnshareEndMoves, OwnCounted
<1>9. CASE unshare_files(t)
  BY <1>l, <1>9, UnshareFilesFrame, UnshareFilesMoves, OwnCounted
<1>10. CASE do_exit(t) \/ mm_release(t) \/ exit_mm(t) \/ ExitShared(t)
  BY <1>l, <1>10, ExitFrame, ExitMoves, OwnCounted
<1>11. CASE dup_task_struct(t)
  BY <1>l, <1>11, DupShape, DupCounted
<1>12. CASE Publish(t)
  <2>1. CASE PublishFrame(t)
    BY <1>l, <2>1, PublishCounted
  <2>2. CASE BuildFrame(t)
    <3>1. op'[t].pc \in Building
      BY <2>2 DEF BuildFrame
    <3> QED
      BY <1>l, <1>12, <2>2, <3>1, PublishFails, BuildCounted
  <2> QED
    BY <1>l, <1>12, <2>1, <2>2, PublishShape
<1>13. CASE FreeTask(t)
  BY <1>l, <1>13, FreeShape, FreeCounted
<1>14. CASE wake_up_new_task(t)
  BY <1>l, <1>14, WakeShape, WakeCounted
<1>15. CASE wait_for_vfork_done(t) \/ vfork_killed(t)
  BY <1>l, <1>15, WaitedShape, KilledShape, WaitedCounted
<1>16. CASE vfork_put(t)
  BY <1>l, <1>16, VforkPutShape, VforkPutCounted
<1>17. CASE complete_vfork_done(t) \/ complete(t)
  BY <1>l, <1>17, ReleaseShape, CompleteShape, ReleaseCounted
<1>18. CASE release_task(t)
  BY <1>l, <1>18, DeadShape, DeadCounted
<1>19. CASE finish_task_switch(t)
  BY <1>l, <1>19, SwitchShape, SwitchCounted
<1> QED
  BY <1>1, <1>2, <1>3, <1>4, <1>5, <1>6, <1>7, <1>8, <1>9, <1>10, <1>11, <1>12, <1>13, <1>14, <1>15, <1>16,
     <1>17, <1>18, <1>19 DEF Step

LEMMA CountNext == ASSUME CountInv, [Next]_vars PROVE CountInv'
<1>1. LinkInv'
  BY LinkNext DEF CountInv
<1>2. ASSUME Next PROVE Counted'
  BY <1>2, CountStep DEF Next
<1>3. ASSUME UNCHANGED vars PROVE Counted'
  BY <1>3 DEF CountInv, Counted, SeenBy, KeptBy, vars
<1> QED
  BY <1>1, <1>2, <1>3 DEF CountInv

(* What a task that copy_process published points to has a positive count,    *)
(* through every failure of another fork, every unshare and every exit: no    *)
(* object is freed while a task uses it (the counts of fork.c).               *)
THEOREM ForkPointersLive == Spec => []PointersLive
<1>1. CountInv => PointersLive
  <2> SUFFICES ASSUME CountInv, NEW t \in Tasks, NEW k \in Kinds, task[t].st \notin {"free", "built"}, task[t][k] # 0
               PROVE  count[k][task[t][k]] > 0
    BY DEF PointersLive
  <2> DEFINE o == task[t][k]
  <2>1. o \in Objects
    BY DEF CountInv, LinkInv, ForkTypeOK, TaskStruct, Pointer, Kinds
  <2>2. t \in SeenBy(k, o)
    BY DEF SeenBy, Seen
  <2> HIDE DEF o
  <2>3. IsFiniteSet(SeenBy(k, o)) /\ IsFiniteSet(KeptBy(k, o))
    BY ForkAssumption, FS_Subset DEF SeenBy, KeptBy
  <2>4. Cardinality(SeenBy(k, o)) \in Nat \ {0} /\ Cardinality(KeptBy(k, o)) \in Nat
    BY <2>2, <2>3, FS_CardinalityType, FS_EmptySet
  <2>5. count[k][o] > 0
    BY <2>1, <2>4 DEF CountInv, Counted
  <2> QED
    BY <2>5 DEF o
<1>2. Init => CountInv
  BY CountInit
<1>3. CountInv /\ [Next]_vars => CountInv'
  BY CountNext
<1> QED
  BY <1>1, <1>2, <1>3, PTL DEF Spec

-----------------------------------------------------------------------------
(* What is held and the totals, in the stages of copy_process *)

(* A stage or label at which all that may be held at pc may still be held.    *)
KeepsHeld(pc, next) == \A h \in HeldNames : pc \in HeldWhile[h] => next \in HeldWhile[h]
Follows(pc, next) ==
  KeepsHeld(pc, next) /\ (next \in CredsPcs <=> pc \in CredsPcs) /\ (next \in SignalPcs => pc \in SignalPcs)

LEMMA HeldSets ==
  /\ HeldWhile["stack"] = Building /\ HeldWhile["creds"] = CredsPcs
  /\ HeldWhile["module"] = ModulePcs /\ HeldWhile["delayacct"] = ModulePcs /\ HeldWhile["threadgroup"] = ModulePcs
  /\ HeldWhile["policy"] = PolicyPcs /\ HeldWhile["perf"] = PolicyPcs /\ HeldWhile["audit"] = AuditPcs
  /\ HeldWhile["semundo"] = SemundoPcs /\ HeldWhile["namespaces"] = NamespacePcs /\ HeldWhile["io"] = IoPcs
  /\ HeldWhile["pid"] = PidPcs
BY DEF HeldWhile

LEMMA KeepsHeldParts ==
  ASSUME NEW pc, NEW next,
         pc \in Building => next \in Building, pc \in CredsPcs => next \in CredsPcs, pc \in ModulePcs => next \in ModulePcs,
         pc \in PolicyPcs => next \in PolicyPcs, pc \in AuditPcs => next \in AuditPcs,
         pc \in SemundoPcs => next \in SemundoPcs, pc \in NamespacePcs => next \in NamespacePcs,
         pc \in IoPcs => next \in IoPcs, pc \in PidPcs => next \in PidPcs
  PROVE  KeepsHeld(pc, next)
<1> SUFFICES ASSUME NEW h \in HeldNames, pc \in HeldWhile[h] PROVE next \in HeldWhile[h]
  BY DEF KeepsHeld
<1>1. \/ h = "stack" \/ h = "creds" \/ h = "module" \/ h = "delayacct" \/ h = "threadgroup" \/ h = "policy" \/ h = "perf"
      \/ h = "audit" \/ h = "semundo" \/ h = "namespaces" \/ h = "io" \/ h = "pid"
  BY DEF HeldNames
<1> QED
  BY <1>1, HeldSets

LEMMA StageFollows ==
  /\ KeepsHeld("creds", "module") /\ KeepsHeld("signal", "mm") /\ Follows("creds", "bad_fork_free")
  /\ Follows("module", "setup") /\ Follows("module", "bad_fork_cleanup_count")
  /\ \A pc \in DOMAIN SetupHeld : Follows("setup", pc)
  /\ \A s \in DOMAIN AfterShared : Follows(s, AfterShared[s])
  /\ Follows("files", "bad_fork_cleanup_semundo") /\ Follows("fs", "bad_fork_cleanup_files")
  /\ Follows("sighand", "bad_fork_cleanup_fs") /\ Follows("signal", "bad_fork_cleanup_sighand")
  /\ Follows("mm", "context") /\ Follows("mm", "dup_mmap") /\ Follows("mm", "bad_fork_cleanup_signal")
  /\ Follows("dup_mmap", "binfmt") /\ Follows("dup_mmap", "free_pt") /\ Follows("binfmt", "free_pt")
  /\ Follows("binfmt", "context") /\ Follows("free_pt", "bad_fork_cleanup_signal")
  /\ \A pc \in DOMAIN ContextHeld : Follows("context", pc)
  /\ Follows("publish", "bad_fork_free_pid")
  /\ Follows("bad_fork_cleanup_mm", "bad_fork_cleanup_signal")
  /\ Follows("bad_fork_cleanup_signal", "bad_fork_cleanup_sighand")
  /\ \A k \in DOMAIN BelowShared : Follows(CleanupAt[k], BelowShared[k])
<1>1. ASSUME NEW pc, NEW next, pc \in Building => next \in Building, pc \in ModulePcs => next \in ModulePcs,
             pc \in PolicyPcs => next \in PolicyPcs, pc \in AuditPcs => next \in AuditPcs,
             pc \in SemundoPcs => next \in SemundoPcs, pc \in NamespacePcs => next \in NamespacePcs,
             pc \in IoPcs => next \in IoPcs, pc \in PidPcs => next \in PidPcs,
             next \in CredsPcs <=> pc \in CredsPcs, next \in SignalPcs => pc \in SignalPcs
      PROVE  Follows(pc, next)
  BY <1>1, KeepsHeldParts DEF Follows
<1> USE DEF Building, Forward, Undoing, CredsPcs, ModulePcs, PolicyPcs, AuditPcs, SemundoPcs, NamespacePcs, IoPcs, PidPcs,
            FilesPcs, FsPcs, SighandPcs, SignalPcs, MmPcs
<1>2. KeepsHeld("creds", "module") /\ KeepsHeld("signal", "mm")
  BY KeepsHeldParts
<1>3. Follows("creds", "bad_fork_free") /\ Follows("module", "setup") /\ Follows("module", "bad_fork_cleanup_count")
  BY <1>1
<1>4. ASSUME NEW pc \in DOMAIN SetupHeld PROVE Follows("setup", pc)
  <2>1. pc = "files" \/ pc = "bad_fork_cleanup_threadgroup_lock" \/ pc = "bad_fork_cleanup_policy"
        \/ pc = "bad_fork_cleanup_audit"
    BY DEF SetupHeld
  <2> QED
    BY <1>1, <2>1
<1>5. ASSUME NEW s \in DOMAIN AfterShared PROVE Follows(s, AfterShared[s])
  <2>1. (s = "files" /\ AfterShared[s] = "fs") \/ (s = "fs" /\ AfterShared[s] = "sighand")
        \/ (s = "sighand" /\ AfterShared[s] = "signal")
    BY DEF AfterShared
  <2> QED
    BY <1>1, <2>1
<1>6. Follows("files", "bad_fork_cleanup_semundo") /\ Follows("fs", "bad_fork_cleanup_files")
      /\ Follows("sighand", "bad_fork_cleanup_fs") /\ Follows("signal", "bad_fork_cleanup_sighand")
  BY <1>1
<1>7. Follows("mm", "context") /\ Follows("mm", "dup_mmap") /\ Follows("mm", "bad_fork_cleanup_signal")
  BY <1>1
<1>8. Follows("dup_mmap", "binfmt") /\ Follows("dup_mmap", "free_pt") /\ Follows("binfmt", "free_pt")
  BY <1>1
<1>9. Follows("binfmt", "context") /\ Follows("free_pt", "bad_fork_cleanup_signal")
  BY <1>1
<1>10. ASSUME NEW pc \in DOMAIN ContextHeld PROVE Follows("context", pc)
  <2>1. pc = "publish" \/ pc = "bad_fork_cleanup_io" \/ pc = "bad_fork_cleanup_namespaces" \/ pc = "bad_fork_cleanup_mm"
    BY DEF ContextHeld
  <2> QED
    BY <1>1, <2>1
<1>11. Follows("publish", "bad_fork_free_pid") /\ Follows("bad_fork_cleanup_mm", "bad_fork_cleanup_signal")
       /\ Follows("bad_fork_cleanup_signal", "bad_fork_cleanup_sighand")
  BY <1>1
<1>12. ASSUME NEW k \in DOMAIN BelowShared PROVE Follows(CleanupAt[k], BelowShared[k])
  <2>1. \/ CleanupAt[k] = "bad_fork_cleanup_sighand" /\ BelowShared[k] = "bad_fork_cleanup_fs"
        \/ CleanupAt[k] = "bad_fork_cleanup_fs" /\ BelowShared[k] = "bad_fork_cleanup_files"
        \/ CleanupAt[k] = "bad_fork_cleanup_files" /\ BelowShared[k] = "bad_fork_cleanup_semundo"
    BY DEF BelowShared, CleanupAt
  <2> QED
    BY <1>1, <2>1
<1> QED
  BY <1>2, <1>3, <1>4, <1>5, <1>6, <1>7, <1>8, <1>9, <1>10, <1>11, <1>12

(* What a stage may give to the new task, and what a label takes back.        *)
LEMMA StageGives ==
  /\ "module" \in HeldWhile["creds"] /\ "setup" \in HeldWhile["module"] /\ "setup" \in HeldWhile["delayacct"]
  /\ \A pc \in DOMAIN SetupHeld : \A h \in SetupHeld[pc] \cup {"threadgroup"} : pc \in HeldWhile[h]
  /\ \A pc \in DOMAIN ContextHeld : \A h \in ContextHeld[pc] : pc \in HeldWhile[h]
<1> USE DEF CredsPcs, ModulePcs, PolicyPcs, AuditPcs, SemundoPcs, NamespacePcs, IoPcs, PidPcs
<1>1. "module" \in HeldWhile["creds"] /\ "setup" \in HeldWhile["module"] /\ "setup" \in HeldWhile["delayacct"]
  BY HeldSets
<1>2. ASSUME NEW pc \in DOMAIN SetupHeld, NEW h \in SetupHeld[pc] \cup {"threadgroup"} PROVE pc \in HeldWhile[h]
  <2>1. \/ pc = "files" /\ (h = "policy" \/ h = "perf" \/ h = "audit" \/ h = "semundo" \/ h = "threadgroup")
        \/ pc = "bad_fork_cleanup_threadgroup_lock" /\ h = "threadgroup"
        \/ pc = "bad_fork_cleanup_policy" /\ (h = "policy" \/ h = "perf" \/ h = "threadgroup")
        \/ pc = "bad_fork_cleanup_audit" /\ (h = "policy" \/ h = "perf" \/ h = "audit" \/ h = "threadgroup")
    BY DEF SetupHeld
  <2> QED
    BY <2>1, HeldSets
<1>3. ASSUME NEW pc \in DOMAIN ContextHeld, NEW h \in ContextHeld[pc] PROVE pc \in HeldWhile[h]
  <2>1. \/ pc = "publish" /\ (h = "namespaces" \/ h = "io" \/ h = "pid")
        \/ pc = "bad_fork_cleanup_io" /\ (h = "namespaces" \/ h = "io")
        \/ pc = "bad_fork_cleanup_namespaces" /\ h = "namespaces"
    BY DEF ContextHeld
  <2> QED
    BY <2>1, HeldSets
<1> QED
  BY <1>1, <1>2, <1>3

(* A step between two stages or labels: what is held may be held there, the   *)
(* processes follow, and a signal_struct of its own stays or is new.          *)
BuildRest(t) ==
  LET p == op[t].p IN
  /\ \A h \in task'[p].held : op'[t].pc \in HeldWhile[h]
  /\ processes' = processes + (Ind(op'[t].pc \in CredsPcs) - Ind(op[t].pc \in CredsPcs))
  /\ op'[t].pc \in SignalPcs /\ "THREAD" \notin op[t].flags =>
       \/ op[t].pc \in SignalPcs /\ task'[p].signal = task[p].signal
       \/ task'[p].signal \in Fresh("signal")

LEMMA FollowsRest ==
  ASSUME LinkInv, HeldOK, NEW t \in Tasks, NEW pc \in Building, At(t, pc), NEW next, op'[t].pc = next, Follows(pc, next),
         \A h \in task'[op[t].p].held : h \in task[op[t].p].held \/ next \in HeldWhile[h],
         task'[op[t].p].signal = task[op[t].p].signal, processes' = processes
  PROVE  BuildRest(t)
<1>1. op[t].pc = pc /\ op[t].p \in Tasks /\ task[op[t].p] \in TaskStruct
  BY AtBuilding DEF LinkInv
<1>2. \A h \in task[op[t].p].held : pc \in HeldWhile[h] /\ h \in HeldNames
  BY <1>1 DEF HeldOK, TaskStruct
<1>3. \A h \in task'[op[t].p].held : next \in HeldWhile[h]
  BY <1>2 DEF Follows, KeepsHeld
<1>4. processes' = processes + (Ind(op'[t].pc \in CredsPcs) - Ind(op[t].pc \in CredsPcs))
  BY <1>1 DEF Follows, Ind, LinkInv, ForkTypeOK
<1> QED
  BY <1>1, <1>3, <1>4 DEF BuildRest, Follows

LEMMA HoldHeld ==
  ASSUME ForkTypeOK, NEW t \in Tasks, op[t].p \in Tasks, NEW h
  PROVE  /\ Hold(t, h) => /\ task'[op[t].p].held = task[op[t].p].held \cup h
                          /\ task'[op[t].p].signal = task[op[t].p].signal
         /\ Release(t, h) => /\ task'[op[t].p].held = task[op[t].p].held \ h
                             /\ task'[op[t].p].signal = task[op[t].p].signal
BY DEF ForkTypeOK, Hold, Release, TaskStruct

LEMMA RepointHeld ==
  ASSUME ForkTypeOK, NEW t \in Tasks, op[t].p \in Tasks, NEW k \in Kinds, NEW o, Repoint(t, k, o)
  PROVE  /\ task'[op[t].p].held = task[op[t].p].held
         /\ k # "signal" => task'[op[t].p].signal = task[op[t].p].signal
         /\ k = "signal" => task'[op[t].p].signal = o
<1>1. task[op[t].p] \in TaskStruct
  BY DEF ForkTypeOK
<1> QED
  BY <1>1 DEF ForkTypeOK, Repoint, TaskStruct, Kinds

LEMMA FailRest ==
  ASSUME LinkInv, HeldOK, NEW t \in Tasks, NEW pc \in Building, At(t, pc), NEW s, Fail(t, s), Follows(pc, OnError(s))
  PROVE  BuildRest(t)
<1>1. GotoWith(t, OnError(s), op[t].new) /\ UNCHANGED <<task, processes>>
  BY GotoIsGotoWith DEF Fail, LinkInv, totals
<1>2. op'[t].pc = OnError(s)
  BY <1>1, GotoFields DEF LinkInv
<1> QED
  BY <1>1, <1>2, FollowsRest

LEMMA HoldRest ==
  ASSUME LinkInv, HeldOK, NEW t \in Tasks, NEW pc \in Building, At(t, pc), NEW next, Goto(t, next), Follows(pc, next),
         NEW h, Hold(t, h), \A x \in h : next \in HeldWhile[x], processes' = processes
  PROVE  BuildRest(t)
<1>1. op[t].p \in Tasks
  BY AtBuilding DEF LinkInv
<1>2. GotoWith(t, next, op[t].new)
  BY GotoIsGotoWith DEF LinkInv
<1>3. op'[t].pc = next
  BY <1>2, GotoFields DEF LinkInv
<1>4. task'[op[t].p].held = task[op[t].p].held \cup h /\ task'[op[t].p].signal = task[op[t].p].signal
  BY <1>1, HoldHeld DEF LinkInv
<1> QED
  BY <1>3, <1>4, FollowsRest

(* The other steps: the pointer k, not the signal_struct, is set, or none.    *)
LEMMA GotoRest ==
  ASSUME LinkInv, HeldOK, NEW t \in Tasks, NEW pc \in Building, At(t, pc), NEW next, NEW n, GotoWith(t, next, n),
         Follows(pc, next), NEW k \in Kinds, k # "signal", NEW o, Repoint(t, k, o) \/ UNCHANGED task, processes' = processes
  PROVE  BuildRest(t)
<1>1. op[t].p \in Tasks
  BY AtBuilding DEF LinkInv
<1>3. op'[t].pc = next
  BY GotoFields DEF LinkInv
<1>4. task'[op[t].p].held = task[op[t].p].held /\ task'[op[t].p].signal = task[op[t].p].signal
  BY <1>1, RepointHeld DEF LinkInv
<1> QED
  BY <1>3, <1>4, FollowsRest

LEMMA SetupRest ==
  ASSUME LinkInv, HeldOK, NEW t \in Tasks, copy_creds(t) \/ check_threads(t) \/ CopySetup(t) \/ CopyContext(t)
  PROVE  BuildRest(t)
<1>0. {"creds", "module", "setup", "context"} \subseteq Building
  BY DEF Building, Forward
<1>1. CASE copy_creds(t)
  <2>1. At(t, "creds")
    BY <1>1 DEF copy_creds
  <2>2. CASE Fail(t, "creds")
    BY <1>0, <2>1, <2>2, OnErrorUndoes, StageFollows, FailRest
  <2>3. CASE processes' = processes + 1 /\ Hold(t, {"creds"}) /\ Goto(t, "module")
    <3> DEFINE h == {"creds"}
    <3>1. op[t].pc = "creds" /\ op[t].p \in Tasks /\ task[op[t].p] \in TaskStruct
      BY <1>0, <2>1, AtBuilding DEF LinkInv
    <3>2. op'[t].pc = "module"
      BY <2>3, GotoIsGotoWith, GotoFields DEF LinkInv
    <3>3. task'[op[t].p].held = task[op[t].p].held \cup h
      BY <2>3, <3>1, HoldHeld DEF LinkInv
    <3>4. \A x \in task[op[t].p].held : "creds" \in HeldWhile[x] /\ x \in HeldNames
      BY <1>0, <3>1 DEF HeldOK, TaskStruct
    <3>5. \A x \in task'[op[t].p].held : "module" \in HeldWhile[x]
      BY <3>3, <3>4, StageFollows, StageGives DEF KeepsHeld
    <3>6. "module" \in CredsPcs /\ "creds" \notin CredsPcs /\ "module" \notin SignalPcs
      BY DEF CredsPcs, ModulePcs, PolicyPcs, AuditPcs, SemundoPcs, FilesPcs, FsPcs, SighandPcs, SignalPcs, MmPcs
    <3>7. processes' = processes + (Ind(op'[t].pc \in CredsPcs) - Ind(op[t].pc \in CredsPcs))
      BY <2>3, <3>1, <3>2, <3>6 DEF Ind, LinkInv, ForkTypeOK
    <3> QED
      BY <3>2, <3>5, <3>6, <3>7 DEF BuildRest
  <2> QED
    BY <1>1, <2>2, <2>3 DEF copy_creds
<1>2. CASE check_threads(t)
  <2>1. At(t, "module")
    BY <1>2 DEF check_threads
  <2>2. CASE Fail(t, "module")
    BY <1>0, <2>1, <2>2, OnErrorUndoes, StageFollows, FailRest
  <2>3. CASE Hold(t, {"module", "delayacct"}) /\ Goto(t, "setup") /\ UNCHANGED totals
    BY <1>0, <2>1, <2>3, StageFollows, StageGives, HoldRest DEF totals
  <2> QED
    BY <1>2, <2>2, <2>3 DEF check_threads
<1>3. CASE CopySetup(t)
  <2> DEFINE before == IF "THREAD" \in op[t].flags THEN {"threadgroup"} ELSE {}
  <2>1. At(t, "setup") /\ RunOfStages(t, Setup, before, "files") /\ processes' = processes
    BY <1>3 DEF CopySetup, totals
  <2>2. before \subseteq {"threadgroup"}
    OBVIOUS
  <2> HIDE DEF before
  <2>3. PICK pc \in DOMAIN SetupHeld : \E h \in SUBSET (before \cup SetupHeld[pc]) : Hold(t, h) /\ Goto(t, pc)
    BY <2>1, SetupRuns
  <2>4. PICK h \in SUBSET (before \cup SetupHeld[pc]) : Hold(t, h) /\ Goto(t, pc)
    BY <2>3
  <2>5. \A x \in h : pc \in HeldWhile[x]
    BY <2>2, StageGives
  <2>6. Follows("setup", pc)
    BY StageFollows
  <2> QED
    BY <1>0, <2>1, <2>4, <2>5, <2>6, HoldRest
<1>4. CASE CopyContext(t)
  <2>1. At(t, "context") /\ RunOfStages(t, Context, {}, "publish") /\ processes' = processes
    BY <1>4 DEF CopyContext, totals
  <2>2. PICK pc \in DOMAIN ContextHeld : \E h \in SUBSET ContextHeld[pc] : Hold(t, h) /\ Goto(t, pc)
    BY <2>1, ContextRuns
  <2>4. PICK h \in SUBSET ContextHeld[pc] : Hold(t, h) /\ Goto(t, pc)
    BY <2>2
  <2>5. \A x \in h : pc \in HeldWhile[x]
    BY StageGives
  <2>6. Follows("context", pc)
    BY StageFollows
  <2> QED
    BY <1>0, <2>1, <2>4, <2>5, <2>6, HoldRest
<1> QED
  BY <1>1, <1>2, <1>3, <1>4

LEMMA CopySharedRest ==
  ASSUME LinkInv, HeldOK, NEW t \in Tasks, CopyShared(t)
  PROVE  BuildRest(t)
<1>1. PICK s \in DOMAIN SharedBy :
    /\ At(t, s)
    /\ \/ Goto(t, AfterShared[s]) /\ UNCHANGED <<task, totals>>
       \/ (\E o \in Fresh(s) : task' = [task EXCEPT ![op[t].p][s] = o]) /\ Goto(t, AfterShared[s]) /\ UNCHANGED totals
       \/ Fail(t, s)
  BY DEF CopyShared
<1>2. /\ s \in Kinds /\ s \in Building /\ s # "signal" /\ s \in DOMAIN AfterShared /\ s \in {"files", "fs", "sighand"}
  BY DEF SharedBy, AfterShared, Building, Forward, Kinds
<1>3. Goto(t, AfterShared[s]) => GotoWith(t, AfterShared[s], op[t].new)
  BY GotoIsGotoWith DEF LinkInv
<1>4. Follows(s, AfterShared[s])
  BY <1>2, StageFollows
<1>5. CASE Goto(t, AfterShared[s]) /\ UNCHANGED <<task, totals>>
  BY <1>1, <1>2, <1>3, <1>4, <1>5, GotoRest DEF totals
<1>6. CASE (\E o \in Fresh(s) : task' = [task EXCEPT ![op[t].p][s] = o]) /\ Goto(t, AfterShared[s]) /\ UNCHANGED totals
  <2>1. PICK o \in Fresh(s) : Repoint(t, s, o)
    BY <1>6 DEF Repoint
  <2> QED
    BY <1>1, <1>2, <1>3, <1>4, <1>6, <2>1, GotoRest DEF totals
<1>7. CASE Fail(t, s)
  <2>1. Follows(s, OnError(s))
    BY <1>2, OnErrorUndoes, StageFollows
  <2> QED
    BY <1>1, <1>2, <1>7, <2>1, FailRest
<1> QED
  BY <1>1, <1>5, <1>6, <1>7

LEMMA CopySignalRest ==
  ASSUME LinkInv, HeldOK, NEW t \in Tasks, copy_signal(t)
  PROVE  BuildRest(t)
<1>1. At(t, "signal") /\ "signal" \in Kinds /\ "signal" \in Building
  BY DEF copy_signal, Kinds, Building, Forward
<1>2. op[t].pc = "signal" /\ op[t].p \in Tasks /\ task[op[t].p] \in TaskStruct
  BY <1>1, AtBuilding DEF LinkInv
<1>3. ASSUME Goto(t, "mm"), task'[op[t].p].held = task[op[t].p].held, UNCHANGED totals,
             "THREAD" \in op[t].flags \/ task'[op[t].p].signal \in Fresh("signal")
      PROVE  BuildRest(t)
  <2>1. op'[t].pc = "mm"
    BY <1>3, GotoIsGotoWith, GotoFields DEF LinkInv
  <2>2. \A x \in task[op[t].p].held : "signal" \in HeldWhile[x] /\ x \in HeldNames
    BY <1>1, <1>2 DEF HeldOK, TaskStruct
  <2>3. \A x \in task'[op[t].p].held : "mm" \in HeldWhile[x]
    BY <1>3, <2>2, StageFollows DEF KeepsHeld
  <2>4. "mm" \in CredsPcs /\ "signal" \in CredsPcs
    BY DEF CredsPcs, ModulePcs, PolicyPcs, AuditPcs, SemundoPcs, FilesPcs, FsPcs, SighandPcs, SignalPcs, MmPcs
  <2>5. processes' = processes + (Ind(op'[t].pc \in CredsPcs) - Ind(op[t].pc \in CredsPcs))
    BY <1>2, <1>3, <2>1, <2>4 DEF Ind, LinkInv, ForkTypeOK, totals
  <2> QED
    BY <1>3, <2>1, <2>3, <2>5 DEF BuildRest
<1>4. CASE "THREAD" \in op[t].flags /\ Goto(t, "mm") /\ UNCHANGED <<task, totals>>
  BY <1>3, <1>4
<1>5. CASE /\ \E o \in Fresh("signal") : task' = [task EXCEPT ![op[t].p].signal = o]
           /\ Goto(t, "mm") /\ UNCHANGED totals
  <2>1. PICK o \in Fresh("signal") : Repoint(t, "signal", o)
    BY <1>5 DEF Repoint
  <2>2. task'[op[t].p].held = task[op[t].p].held /\ task'[op[t].p].signal = o
    BY <1>1, <1>2, <2>1, RepointHeld DEF LinkInv
  <2> QED
    BY <1>3, <1>5, <2>2
<1>6. CASE Fail(t, "signal")
  BY <1>1, <1>6, OnErrorUndoes, StageFollows, FailRest
<1> QED
  BY <1>4, <1>5, <1>6 DEF copy_signal

LEMMA CopyMmRest ==
  ASSUME LinkInv, HeldOK, NEW t \in Tasks, copy_mm(t) \/ dup_mmap(t) \/ get_binfmt(t) \/ free_pt(t)
  PROVE  BuildRest(t)
<1>1. {"mm", "dup_mmap", "binfmt", "free_pt"} \subseteq Building /\ "mm" \in Kinds
  BY DEF Building, Forward, Kinds
<1>2. processes' = processes
  BY DEF copy_mm, dup_mmap, get_binfmt, free_pt, totals
<1>3. ASSUME NEW pc \in {"mm", "dup_mmap", "binfmt", "free_pt"}, At(t, pc), NEW next, NEW n, GotoWith(t, next, n),
             Follows(pc, next), NEW o, Repoint(t, "mm", o) \/ UNCHANGED task
      PROVE  BuildRest(t)
  BY <1>1, <1>2, <1>3, GotoRest
<1>4. ASSUME NEW next, Goto(t, next) PROVE GotoWith(t, next, op[t].new)
  BY <1>4, GotoIsGotoWith DEF LinkInv
<1>5. CASE copy_mm(t)
  <2>1. At(t, "mm") /\ (Repoint(t, "mm", 0) \/ UNCHANGED task)
    BY <1>5 DEF copy_mm, Repoint
  <2>2. Goto(t, "context") \/ (\E o \in Fresh("mm") : GotoWith(t, "dup_mmap", o)) \/ Goto(t, OnError("mm"))
    BY <1>5 DEF copy_mm, GotoWith
  <2>3. Follows("mm", "context") /\ Follows("mm", "dup_mmap") /\ Follows("mm", OnError("mm"))
    BY StageFollows, OnErrorUndoes
  <2> QED
    BY <1>3, <1>4, <2>1, <2>2, <2>3
<1>6. CASE dup_mmap(t)
  <2>1. At(t, "dup_mmap") /\ UNCHANGED task /\ (Goto(t, "binfmt") \/ Goto(t, "free_pt"))
    BY <1>6 DEF dup_mmap
  <2> QED
    BY <1>3, <1>4, <2>1, StageFollows
<1>7. CASE get_binfmt(t)
  <2>1. At(t, "binfmt")
    BY <1>7 DEF get_binfmt
  <2>2. \/ Repoint(t, "mm", op[t].new) /\ GotoWith(t, "context", 0)
        \/ Goto(t, "free_pt") /\ UNCHANGED task
    BY <1>7 DEF get_binfmt, Repoint, GotoWith
  <2> QED
    BY <1>3, <1>4, <2>1, <2>2, StageFollows
<1>8. CASE free_pt(t)
  <2>1. At(t, "free_pt") /\ UNCHANGED task /\ GotoWith(t, OnError("mm"), 0) /\ Follows("free_pt", OnError("mm"))
    BY <1>8, OnErrorUndoes, StageFollows DEF free_pt, GotoWith
  <2> QED
    BY <1>3, <2>1
<1> QED
  BY <1>5, <1>6, <1>7, <1>8

LEMMA CleanupRest ==
  ASSUME LinkInv, HeldOK, NEW t \in Tasks, CleanupContext(t) \/ CleanupMm(t) \/ CleanupSignal(t) \/ CleanupShared(t)
  PROVE  BuildRest(t)
<1>1. {"bad_fork_free_pid", "bad_fork_cleanup_io", "bad_fork_cleanup_namespaces", "bad_fork_cleanup_mm",
       "bad_fork_cleanup_signal", "bad_fork_cleanup_sighand"} \subseteq Building /\ "mm" \in Kinds
  BY DEF Kinds, Building, Undoing
<1>2. processes' = processes
  BY DEF CleanupContext, CleanupMm, CleanupSignal, CleanupShared, totals
<1>3. ASSUME NEW next, Goto(t, next) PROVE GotoWith(t, next, op[t].new)
  BY <1>3, GotoIsGotoWith DEF LinkInv
<1>4. CASE CleanupContext(t)
  <2>1. PICK pc \in {"bad_fork_free_pid", "bad_fork_cleanup_io", "bad_fork_cleanup_namespaces"}, S \in SUBSET HeldNames :
          /\ At(t, pc) /\ Release(t, S)
          /\ pc = "bad_fork_free_pid" => S = {"pid", "io", "namespaces"}
          /\ pc = "bad_fork_cleanup_io" => S = {"io", "namespaces"}
          /\ pc = "bad_fork_cleanup_namespaces" => S = {"namespaces"}
    BY <1>4 DEF CleanupContext, HeldNames
  <2>2. op[t].pc = pc /\ op[t].p \in Tasks /\ task[op[t].p] \in TaskStruct /\ pc \in Building
    BY <1>1, <2>1, AtBuilding DEF LinkInv
  <2>3. op'[t].pc = "bad_fork_cleanup_mm"
    BY <1>3, <1>4, GotoFields DEF CleanupContext, LinkInv
  <2>4. task'[op[t].p].held = task[op[t].p].held \ S /\ task'[op[t].p].signal = task[op[t].p].signal
    BY <2>1, <2>2, HoldHeld DEF LinkInv
  <2>5. ASSUME NEW h \in task'[op[t].p].held PROVE "bad_fork_cleanup_mm" \in HeldWhile[h]
    <3>1. pc \in HeldWhile[h] /\ h \in HeldNames /\ h \notin S
      BY <2>2, <2>4, <2>5 DEF HeldOK, TaskStruct
    <3>2. \/ h = "stack" \/ h = "creds" \/ h = "module" \/ h = "delayacct" \/ h = "threadgroup" \/ h = "policy" \/ h = "perf"
          \/ h = "audit" \/ h = "semundo" \/ h = "namespaces" \/ h = "io" \/ h = "pid"
      BY <3>1 DEF HeldNames
    <3>3. /\ pc \in PidPcs => pc = "bad_fork_free_pid"
          /\ pc \in IoPcs => pc = "bad_fork_free_pid" \/ pc = "bad_fork_cleanup_io"
      BY DEF PidPcs, IoPcs
    <3>4. h # "namespaces" /\ h # "io" /\ h # "pid"
      BY <2>1, <3>1, <3>3, HeldSets
    <3>5. "bad_fork_cleanup_mm" \in SemundoPcs /\ SemundoPcs \subseteq AuditPcs /\ AuditPcs \subseteq PolicyPcs
          /\ PolicyPcs \subseteq ModulePcs /\ ModulePcs \subseteq CredsPcs
      BY DEF CredsPcs, ModulePcs, PolicyPcs, AuditPcs, SemundoPcs, FilesPcs, FsPcs, SighandPcs, SignalPcs, MmPcs
    <3> QED
      BY <1>1, <3>2, <3>4, <3>5, HeldSets
  <2>6. pc \in CredsPcs /\ pc \in SignalPcs /\ "bad_fork_cleanup_mm" \in CredsPcs
    BY DEF CredsPcs, ModulePcs, PolicyPcs, AuditPcs, SemundoPcs, FilesPcs, FsPcs, SighandPcs, SignalPcs, MmPcs
  <2>7. processes' = processes + (Ind(op'[t].pc \in CredsPcs) - Ind(op[t].pc \in CredsPcs))
    BY <1>2, <2>2, <2>3, <2>6 DEF Ind, LinkInv, ForkTypeOK
  <2> QED
    BY <2>2, <2>3, <2>4, <2>5, <2>6, <2>7 DEF BuildRest
<1>5. CASE CleanupMm(t)
  <2>1. At(t, "bad_fork_cleanup_mm") /\ Repoint(t, "mm", 0) /\ Goto(t, "bad_fork_cleanup_signal")
    BY <1>5 DEF CleanupMm, Repoint
  <2> QED
    BY <1>1, <1>2, <1>3, <2>1, StageFollows, GotoRest
<1>6. CASE CleanupSignal(t)
  <2>1. At(t, "bad_fork_cleanup_signal") /\ UNCHANGED task /\ Goto(t, "bad_fork_cleanup_sighand")
    BY <1>6 DEF CleanupSignal
  <2> QED
    BY <1>1, <1>2, <1>3, <2>1, StageFollows, GotoRest
<1>7. CASE CleanupShared(t)
  <2>1. PICK k \in DOMAIN BelowShared : At(t, CleanupAt[k]) /\ Repoint(t, k, 0) /\ Goto(t, BelowShared[k])
    BY <1>7 DEF CleanupShared, Repoint
  <2>2. k \in Kinds /\ CleanupAt[k] \in Building /\ k # "signal" /\ Follows(CleanupAt[k], BelowShared[k])
    BY StageFollows DEF CleanupAt, BelowShared, Kinds, Undoing, Building
  <2> QED
    BY <1>2, <1>3, <2>1, <2>2, GotoRest
<1> QED
  BY <1>4, <1>5, <1>6, <1>7

LEMMA PublishRest ==
  ASSUME LinkInv, HeldOK, NEW t \in Tasks, Publish(t), op'[t].pc \in Building
  PROVE  BuildRest(t)
<1>1. At(t, "publish") /\ "publish" \in Building
  BY DEF Publish, Building, Forward
<1>2. CASE Fail(t, "publish")
  BY <1>1, <1>2, OnErrorUndoes, StageFollows, FailRest
<1>3. CASE Goto(t, "wake")
  <2>1. op'[t].pc = "wake"
    BY <1>3, GotoIsGotoWith, GotoFields DEF LinkInv
  <2> QED
    BY <2>1, NotOwn
<1> QED
  BY <1>2, <1>3 DEF Publish

-----------------------------------------------------------------------------
(* What is held, the totals and the groups, in any step *)

Rest == HeldOK /\ Totals /\ Groups

(* The totals follow the state of task x and the call of t.                   *)
TotalsMove(t, x) ==
  /\ nr_threads' = nr_threads + (Ind(task'[x].st = "running") - Ind(task[x].st = "running"))
                              + (Ind(Unwoken(op'[t])) - Ind(Unwoken(op[t])))
  /\ processes' = processes + (Ind(task'[x].st \in {"running", "idle"}) - Ind(task[x].st \in {"running", "idle"}))
                            + (Ind(Charged(op'[t])) - Ind(Charged(op[t])))

LEMMA TotalsStep ==
  ASSUME Totals, NEW t \in Tasks, NEW x \in Tasks, Frame(t, x), TotalsMove(t, x)
  PROVE  Totals'
<1> DEFINE R == {y \in Tasks : task[y].st = "running"}               R2 == {y \in Tasks : task'[y].st = "running"}
           P == {y \in Tasks : task[y].st \in {"running", "idle"}}   P2 == {y \in Tasks : task'[y].st \in {"running", "idle"}}
           U == {u \in Tasks : Unwoken(op[u])}                       U2 == {u \in Tasks : Unwoken(op'[u])}
           C == {u \in Tasks : Charged(op[u])}                       C2 == {u \in Tasks : Charged(op'[u])}
<1>1. /\ R \subseteq Tasks /\ R2 \subseteq Tasks /\ P \subseteq Tasks /\ P2 \subseteq Tasks
      /\ U \subseteq Tasks /\ U2 \subseteq Tasks /\ C \subseteq Tasks /\ C2 \subseteq Tasks
  OBVIOUS
<1>2. \A y \in Tasks : y # x => (y \in R <=> y \in R2) /\ (y \in P <=> y \in P2)
  BY DEF Frame
<1>3. \A u \in Tasks : u # t => (u \in U <=> u \in U2) /\ (u \in C <=> u \in C2)
  BY DEF Frame
<1>4. /\ x \in R <=> task[x].st = "running"
      /\ x \in R2 <=> task'[x].st = "running"
      /\ x \in P <=> task[x].st \in {"running", "idle"}
      /\ x \in P2 <=> task'[x].st \in {"running", "idle"}
  OBVIOUS
<1>5. /\ t \in U <=> Unwoken(op[t])
      /\ t \in U2 <=> Unwoken(op'[t])
      /\ t \in C <=> Charged(op[t])
      /\ t \in C2 <=> Charged(op'[t])
  OBVIOUS
<1>6. nr_threads = Cardinality(R) + Cardinality(U) /\ processes = Cardinality(P) + Cardinality(C)
  BY DEF Totals
<1>7. Totals' <=> nr_threads' = Cardinality(R2) + Cardinality(U2) /\ processes' = Cardinality(P2) + Cardinality(C2)
  BY DEF Totals, Unwoken, Charged
<1>8. /\ nr_threads' = nr_threads + (Ind(x \in R2) - Ind(x \in R)) + (Ind(t \in U2) - Ind(t \in U))
      /\ processes' = processes + (Ind(x \in P2) - Ind(x \in P)) + (Ind(t \in C2) - Ind(t \in C))
  BY <1>4, <1>5 DEF TotalsMove, Ind
<1> HIDE DEF R, R2, P, P2, U, U2, C, C2
<1>9. /\ Cardinality(R) \in Nat /\ Cardinality(R2) = Cardinality(R) + (Ind(x \in R2) - Ind(x \in R))
      /\ Cardinality(P) \in Nat /\ Cardinality(P2) = Cardinality(P) + (Ind(x \in P2) - Ind(x \in P))
  BY <1>1, <1>2, CardStep
<1>10. /\ Cardinality(U) \in Nat /\ Cardinality(U2) = Cardinality(U) + (Ind(t \in U2) - Ind(t \in U))
       /\ Cardinality(C) \in Nat /\ Cardinality(C2) = Cardinality(C) + (Ind(t \in C2) - Ind(t \in C))
  BY <1>1, <1>3, CardStep
<1> QED
  BY <1>6, <1>7, <1>8, <1>9, <1>10 DEF Ind

HeldMove(t, x) ==
  /\ task'[x].st \in {"free", "dead", "switched"} => task'[x].held = {}
  /\ op'[t].pc \in Building => op'[t].p = x /\ \A h \in task'[x].held : op'[t].pc \in HeldWhile[h]

(* Only a waiting parent's call concerns the task a step changes, besides t.  *)
OnlyParents(t, x) == \A u \in Tasks : u # t /\ op[u].p = x => op[u].pc \in Waiting

LEMMA HeldStep ==
  ASSUME LinkInv, HeldOK, NEW t \in Tasks, NEW x \in Tasks, Frame(t, x), OnlyParents(t, x), HeldMove(t, x)
  PROVE  HeldOK'
<1>1. ASSUME NEW y \in Tasks, task'[y].st \in {"free", "dead", "switched"} PROVE task'[y].held = {}
  BY <1>1 DEF Frame, HeldMove, HeldOK
<1>2. ASSUME NEW u \in Tasks, op'[u].pc \in Building, NEW h \in task'[op'[u].p].held PROVE op'[u].pc \in HeldWhile[h]
  <2>1. CASE u = t
    BY <1>2, <2>1 DEF HeldMove
  <2>2. CASE u # t
    <3>1. op'[u] = op[u] /\ op[u].pc \in Building
      BY <1>2, <2>2 DEF Frame
    <3>2. op[u].pc \notin Waiting /\ op[u].pc \notin Own
      BY <3>1, NotOwn
    <3>3. op[u].p # x /\ op[u].p \in Tasks
      BY <2>2, <3>2 DEF OnlyParents, LinkInv, Links, Structure, CallOK
    <3>4. task'[op[u].p] = task[op[u].p]
      BY <3>3 DEF Frame
    <3> QED
      BY <1>2, <3>1, <3>4 DEF HeldOK
  <2> QED
    BY <2>1, <2>2
<1> QED
  BY <1>1, <1>2 DEF HeldOK

-----------------------------------------------------------------------------
(* Thread groups *)

LEMMA SignalWhileBuilding == SignalPcs \subseteq Building /\ \A pc \in SignalPcs : pc \notin Own /\ pc \notin Waiting
BY NotOwn DEF SignalPcs, MmPcs, Building, Forward, Undoing

(* A signal_struct that nobody counts is nobody's.                            *)
LEMMA FreshIsUnused ==
  ASSUME CountInv, NEW o \in Fresh("signal")
  PROVE  /\ \A y \in Tasks : task[y].st \in Alive => task[y].signal # o
         /\ \A u \in Tasks : NewGroup(u) => task[op[u].p].signal # o
<1>1. o \in Objects /\ count["signal"][o] = 0 /\ "signal" \in Kinds
  BY DEF Fresh, Kinds
<1>2. IsFiniteSet(SeenBy("signal", o)) /\ IsFiniteSet(KeptBy("signal", o))
  BY ForkAssumption, FS_Subset DEF SeenBy, KeptBy
<1>3. /\ Cardinality(SeenBy("signal", o)) \in Nat /\ Cardinality(KeptBy("signal", o)) \in Nat
      /\ count["signal"][o] = Cardinality(SeenBy("signal", o)) + Cardinality(KeptBy("signal", o))
  BY <1>1, <1>2, FS_CardinalityType DEF CountInv, Counted
<1>4. Cardinality(SeenBy("signal", o)) = 0 /\ Cardinality(KeptBy("signal", o)) = 0
  BY <1>1, <1>3
<1>5. SeenBy("signal", o) = {} /\ KeptBy("signal", o) = {}
  BY <1>2, <1>4, FS_EmptySet
<1>6. ASSUME NEW y \in Tasks, task[y].st \in Alive PROVE task[y].signal # o
  BY <1>5, <1>6 DEF SeenBy, Seen, Alive
<1>7. ASSUME NEW u \in Tasks, NewGroup(u) PROVE task[op[u].p].signal # o
  <2>1. Kept(op[u], task[op[u].p], "signal") = task[op[u].p].signal
    BY <1>7 DEF NewGroup, Kept, CountedAt
  <2> QED
    BY <1>5, <2>1 DEF KeptBy
<1> QED
  BY <1>6, <1>7

(* No task becomes visible; what the call of t prepares stays or is fresh.    *)
GroupMove(t, x) ==
  /\ task'[x].st \in Alive => /\ task[x].st \in Alive /\ task'[x].signal = task[x].signal
                              /\ task'[x].sighand = task[x].sighand /\ task'[x].mm \in {task[x].mm, 0}
  /\ NewGroup(t)' => /\ op'[t].p = x
                     /\ \/ NewGroup(t) /\ op[t].p = x /\ task'[x].signal = task[x].signal
                        \/ task'[x].signal \in Fresh("signal")

LEMMA OtherGroups ==
  ASSUME LinkInv, NEW t \in Tasks, NEW x, Frame(t, x), OnlyParents(t, x), NEW u \in Tasks, u # t, NewGroup(u)'
  PROVE  NewGroup(u) /\ op'[u].p = op[u].p /\ task'[op[u].p] = task[op[u].p]
<1>1. op'[u] = op[u]
  BY DEF Frame
<1>2. NewGroup(u)
  BY <1>1 DEF NewGroup
<1>3. op[u].pc \notin Own /\ op[u].pc \notin Waiting
  BY <1>2, SignalWhileBuilding DEF NewGroup
<1>4. op[u].p # x /\ op[u].p \in Tasks
  BY <1>3 DEF OnlyParents, LinkInv, Links, Structure, CallOK
<1> QED
  BY <1>1, <1>2, <1>4 DEF Frame

LEMMA GroupsStep ==
  ASSUME CountInv, Groups, NEW t \in Tasks, NEW x \in Tasks, Frame(t, x), OnlyParents(t, x), GroupMove(t, x)
  PROVE  Groups'
<1>l. LinkInv
  BY DEF CountInv
<1>1. ASSUME NEW y \in Tasks, task'[y].st \in Alive
      PROVE  /\ task[y].st \in Alive /\ task'[y].signal = task[y].signal /\ task'[y].sighand = task[y].sighand
             /\ task'[y].mm \in {task[y].mm, 0}
  BY <1>1 DEF Frame, GroupMove
<1>2. ASSUME NEW u \in Tasks, NewGroup(u)'
      PROVE  \/ NewGroup(u) /\ task'[op'[u].p].signal = task[op[u].p].signal
             \/ u = t /\ task'[op'[u].p].signal \in Fresh("signal")
  <2>1. CASE u = t
    BY <1>2, <2>1 DEF GroupMove
  <2>2. CASE u # t
    BY <1>l, <1>2, <2>2, OtherGroups
  <2> QED
    BY <2>1, <2>2
<1>3. ASSUME NEW y \in Tasks, NEW z \in Tasks, task'[y].st \in Alive, task'[z].st \in Alive, task'[y].signal = task'[z].signal
      PROVE  SameGroup(task[y], task[z])'
  <2>1. SameGroup(task[y], task[z])
    BY <1>1, <1>3 DEF Groups
  <2> QED
    BY <1>1, <1>3, <2>1 DEF SameGroup
<1>4. ASSUME NEW u \in Tasks, NEW y \in Tasks, NewGroup(u)', task'[y].st \in Alive
      PROVE  task'[y].signal # task'[op'[u].p].signal
  <2>1. task[y].st \in Alive /\ task'[y].signal = task[y].signal
    BY <1>1, <1>4
  <2>2. CASE NewGroup(u) /\ task'[op'[u].p].signal = task[op[u].p].signal
    BY <2>1, <2>2 DEF Groups
  <2>3. CASE task'[op'[u].p].signal \in Fresh("signal")
    BY <2>1, <2>3, FreshIsUnused
  <2> QED
    BY <1>2, <1>4, <2>2, <2>3
<1>5. ASSUME NEW u \in Tasks, NEW v \in Tasks, NewGroup(u)', NewGroup(v)', u # v
      PROVE  task'[op'[u].p].signal # task'[op'[v].p].signal
  <2>1. CASE u # t /\ v # t
    BY <1>2, <1>5, <2>1 DEF Groups
  <2>2. ASSUME NEW w \in Tasks, NewGroup(w)', w # t, NewGroup(t)'
        PROVE  task'[op'[t].p].signal # task'[op'[w].p].signal
    <3>1. NewGroup(w) /\ task'[op'[w].p].signal = task[op[w].p].signal
      BY <1>2, <2>2
    <3>2. CASE NewGroup(t) /\ task'[op'[t].p].signal = task[op[t].p].signal
      BY <2>2, <3>1, <3>2 DEF Groups
    <3>3. CASE task'[op'[t].p].signal \in Fresh("signal")
      BY <3>1, <3>3, FreshIsUnused
    <3> QED
      BY <1>2, <2>2, <3>2, <3>3
  <2> QED
    BY <1>5, <2>1, <2>2
<1> QED
  BY <1>3, <1>4, <1>5 DEF Groups

LEMMA RestStep ==
  ASSUME CountInv, Rest, NEW t \in Tasks, NEW x \in Tasks, Frame(t, x), OnlyParents(t, x),
         TotalsMove(t, x), HeldMove(t, x), GroupMove(t, x)
  PROVE  Rest'
<1>1. LinkInv /\ HeldOK /\ Totals /\ Groups
  BY DEF CountInv, Rest
<1>2. HeldOK' /\ Totals' /\ Groups'
  BY <1>1, HeldStep, TotalsStep, GroupsStep
<1> QED
  BY <1>2 DEF Rest

(* The pcs that the totals tell apart.                                        *)
LEMMA ChargedSets ==
  /\ CredsPcs \subseteq Building /\ "wake" \notin CredsPcs /\ SignalPcs \subseteq CredsPcs
  /\ \A pc \in Own \cup Waiting : pc \notin CredsPcs
  /\ "creds" \notin CredsPcs /\ "publish" \in CredsPcs /\ "bad_fork_free" \notin CredsPcs
  /\ "creds" \notin SignalPcs /\ "publish" \in SignalPcs /\ "wake" \notin SignalPcs
BY DEF CredsPcs, ModulePcs, PolicyPcs, AuditPcs, SemundoPcs, FilesPcs, FsPcs, SighandPcs, SignalPcs, MmPcs, Own, Waiting,
       Unsharing, Released, Building, Forward, Undoing

(* A call of a task's own, or one that waits, is not counted in the totals.   *)
LEMMA NotCharged ==
  ASSUME NEW a, a.pc \in Own \cup Waiting
  PROVE  ~Unwoken(a) /\ ~Charged(a)
BY NotOwn, ChargedSets DEF Unwoken, Charged

LEMMA SameTotals ==
  ASSUME LinkInv, NEW t \in Tasks, NEW x, UNCHANGED <<nr_threads, processes>>,
         task'[x].st = task[x].st \/ ({task[x].st, task'[x].st} \cap {"running", "idle"} = {}),
         Unwoken(op'[t]) <=> Unwoken(op[t]), Charged(op'[t]) <=> Charged(op[t])
  PROVE  TotalsMove(t, x)
<1>1. nr_threads \in Int /\ processes \in Int
  BY DEF LinkInv, ForkTypeOK
<1>2. (task'[x].st = "running" <=> task[x].st = "running")
      /\ (task'[x].st \in {"running", "idle"} <=> task[x].st \in {"running", "idle"})
  OBVIOUS
<1> QED
  BY <1>1, <1>2 DEF TotalsMove, Ind

LEMMA BuildRests ==
  ASSUME CountInv, Rest, ForkTypeOK', NEW t \in Tasks, BuildFrame(t), BuildRest(t)
  PROVE  Rest'
<1> DEFINE p == op[t].p
<1>1. /\ op[t].pc \in Building /\ op'[t].pc \in Building /\ op'[t].p = p /\ op'[t].flags = op[t].flags /\ Frame(t, p)
      /\ task'[p].st = task[p].st /\ UNCHANGED nr_threads
  BY DEF BuildFrame
<1>2. /\ \A h \in task'[p].held : op'[t].pc \in HeldWhile[h]
      /\ processes' = processes + (Ind(op'[t].pc \in CredsPcs) - Ind(op[t].pc \in CredsPcs))
      /\ op'[t].pc \in SignalPcs /\ "THREAD" \notin op[t].flags =>
           \/ op[t].pc \in SignalPcs /\ task'[p].signal = task[p].signal
           \/ task'[p].signal \in Fresh("signal")
  BY DEF BuildRest
<1>3. p \in Tasks /\ task[p].st = "built" /\ LinkInv /\ HeldOK /\ Totals /\ Groups
  BY <1>1, NotOwn DEF CountInv, Rest, LinkInv, Links, Structure, CallOK
<1>4. OnlyParents(t, p)
  BY <1>3, UsageBefore DEF OnlyParents
<1>5. TotalsMove(t, p)
  <2>1. ~Unwoken(op[t]) /\ ~Unwoken(op'[t]) /\ (Charged(op[t]) <=> op[t].pc \in CredsPcs)
        /\ (Charged(op'[t]) <=> op'[t].pc \in CredsPcs)
    BY <1>1, NotOwn DEF Unwoken, Charged
  <2>2. nr_threads \in Int /\ processes \in Int
    BY <1>3 DEF LinkInv, ForkTypeOK
  <2> QED
    BY <1>1, <1>2, <1>3, <2>1, <2>2 DEF TotalsMove, Ind
<1>6. HeldMove(t, p)
  BY <1>1, <1>2, <1>3 DEF HeldMove
<1>7. GroupMove(t, p)
  BY <1>1, <1>2, <1>3 DEF GroupMove, NewGroup, Alive
<1> HIDE DEF p
<1> QED
  BY <1>1, <1>3, <1>4, <1>5, <1>6, <1>7, RestStep

LEMMA OwnRests ==
  ASSUME CountInv, Rest, ForkTypeOK', NEW t \in Tasks, OwnFrame(t)
  PROVE  Rest'
<1>1. /\ Frame(t, t) /\ task[t].st = "running" /\ op[t].pc \in Own \ {"complete"}
      /\ task'[t].signal = task[t].signal /\ task'[t].sighand = task[t].sighand
      /\ task'[t].mm \in {task[t].mm, 0} /\ UNCHANGED <<nr_threads, processes>>
      /\ OwnOK(op'[t].pc, op'[t].new, op'[t].new_fs, task'[t])
  BY DEF OwnFrame, totals
<1>2. op'[t].pc \in Own /\ task'[t].st = "running"
  BY <1>1 DEF OwnOK
<1>3. LinkInv
  BY DEF CountInv
<1>4. OnlyParents(t, t)
  BY <1>1, <1>3, OnlyWaiters DEF OnlyParents
<1>5. ~Unwoken(op[t]) /\ ~Charged(op[t]) /\ ~Unwoken(op'[t]) /\ ~Charged(op'[t])
  BY <1>1, <1>2, NotCharged
<1>6. TotalsMove(t, t)
  BY <1>1, <1>2, <1>3, <1>5, SameTotals
<1>7. op'[t].pc \notin Building
  BY <1>2, NotOwn
<1>8. HeldMove(t, t)
  BY <1>2, <1>7 DEF HeldMove
<1>9. GroupMove(t, t)
  BY <1>1, <1>7, SignalWhileBuilding DEF GroupMove, NewGroup, Alive
<1> QED
  BY <1>1, <1>4, <1>6, <1>8, <1>9, RestStep

LEMMA DupRests ==
  ASSUME CountInv, Rest, ForkTypeOK', NEW t \in Tasks, DupFrame(t)
  PROVE  Rest'
<1> DEFINE p == op'[t].p
<1>1. /\ Frame(t, p) /\ op[t].pc = "idle" /\ p \in Tasks /\ task[p].st = "free" /\ op'[t].pc = "creds"
      /\ task'[p].st = "built" /\ task'[p].held = {"stack"} /\ UNCHANGED <<nr_threads, processes>>
  BY DEF DupFrame
<1>2. LinkInv
  BY DEF CountInv
<1>3. OnlyParents(t, p)
  BY <1>1, <1>2, OnlyWaiters DEF OnlyParents
<1>4. ~Unwoken(op[t]) /\ ~Charged(op[t])
  BY <1>1, NotOwn, NotCharged
<1>5. ~Unwoken(op'[t]) /\ ~Charged(op'[t])
  BY <1>1, ChargedSets DEF Unwoken, Charged
<1>6. HeldMove(t, p)
  BY <1>1, HeldSets DEF HeldMove, Building, Forward
<1>7. GroupMove(t, p)
  BY <1>1, ChargedSets DEF GroupMove, NewGroup, Alive
<1> HIDE DEF p
<1>8. TotalsMove(t, p)
  BY <1>1, <1>2, <1>4, <1>5, SameTotals
<1> QED
  BY <1>1, <1>3, <1>6, <1>7, <1>8, RestStep

LEMMA WakeRests ==
  ASSUME CountInv, Rest, ForkTypeOK', NEW t \in Tasks, WakeFrame(t)
  PROVE  Rest'
<1> DEFINE p == op[t].p
<1>1. /\ Frame(t, p) /\ op[t].pc = "wake" /\ p \in Tasks /\ task[p].st = "new"
      /\ task'[p].st = (IF "IDLE" \in op[t].flags THEN "idle" ELSE "running")
      /\ SamePointers(task'[p], task[p]) /\ UNCHANGED <<nr_threads, processes>>
      /\ op'[t].pc \in Own \cup Waiting
  BY IdleFields, NotOwn DEF WakeFrame, totals, Waiting
<1>2. LinkInv /\ nr_threads \in Int /\ processes \in Int
  BY DEF CountInv, LinkInv, ForkTypeOK
<1>3. OnlyParents(t, p)
  BY <1>1, <1>2, UsageBefore DEF OnlyParents
<1>4. ~Unwoken(op'[t]) /\ ~Charged(op'[t]) /\ Charged(op[t]) /\ (Unwoken(op[t]) <=> "IDLE" \notin op[t].flags)
  BY <1>1, NotCharged DEF Unwoken, Charged
<1>5. TotalsMove(t, p)
  <2>1. CASE "IDLE" \in op[t].flags
    BY <1>1, <1>2, <1>4, <2>1 DEF TotalsMove, Ind
  <2>2. CASE "IDLE" \notin op[t].flags
    BY <1>1, <1>2, <1>4, <2>2 DEF TotalsMove, Ind
  <2> QED
    BY <2>1, <2>2
<1>6. op'[t].pc \notin Building
  BY <1>1, NotOwn
<1>7. HeldMove(t, p)
  BY <1>1, <1>6 DEF HeldMove
<1>8. GroupMove(t, p)
  BY <1>1, <1>6, SignalWhileBuilding DEF GroupMove, NewGroup, Alive, SamePointers, Kinds
<1> HIDE DEF p
<1> QED
  BY <1>1, <1>3, <1>5, <1>7, <1>8, RestStep

(* Steps of a call that is not counted, on a task that is or was visible and  *)
(* neither starts nor stops to run.                                           *)
LEMMA QuietRests ==
  ASSUME CountInv, Rest, NEW t \in Tasks, NEW x \in Tasks, Frame(t, x), OnlyParents(t, x),
         op[t].pc \in Own \cup Waiting, op'[t].pc \in Own \cup Waiting, UNCHANGED <<nr_threads, processes>>,
         \/ task'[x].st = task[x].st /\ SamePointers(task'[x], task[x]) /\ task'[x].held = task[x].held
         \/ task[x].st \in {"dead", "switched"} /\ task'[x].st \in {"free", "switched"} /\ task'[x].held = {}
  PROVE  Rest'
<1>1. LinkInv /\ HeldOK
  BY DEF CountInv, Rest
<1>2. ~Unwoken(op[t]) /\ ~Charged(op[t]) /\ ~Unwoken(op'[t]) /\ ~Charged(op'[t])
  BY NotCharged
<1>3. TotalsMove(t, x)
  BY <1>1, <1>2, SameTotals
<1>4. op'[t].pc \notin Building
  BY NotOwn
<1>5. HeldMove(t, x)
  BY <1>1, <1>4 DEF HeldMove, HeldOK
<1>6. GroupMove(t, x)
  BY <1>4, SignalWhileBuilding DEF GroupMove, NewGroup, Alive, SamePointers, Kinds
<1> QED
  BY <1>3, <1>5, <1>6, RestStep

LEMMA WaitedRests ==
  ASSUME CountInv, Rest, ForkTypeOK', NEW t \in Tasks, WaitedFrame(t) \/ KilledFrame(t)
  PROVE  Rest'
<1> DEFINE p == op[t].p
<1>1. /\ Frame(t, p) /\ op[t].pc = "wait_for_vfork_done" /\ op'[t].pc = "vfork_put" /\ UNCHANGED <<nr_threads, processes>>
      /\ task'[p].st = task[p].st /\ SamePointers(task'[p], task[p]) /\ task'[p].held = task[p].held
  BY DEF WaitedFrame, KilledFrame, SamePointers, totals
<1>2. LinkInv /\ p \in Tasks
  BY <1>1, NotOwn DEF CountInv, LinkInv, Links, Structure, CallOK, Waiting
<1>3. OnlyParents(t, p)
  BY <1>2, UsageBefore DEF OnlyParents
<1>4. op[t].pc \in Own \cup Waiting /\ op'[t].pc \in Own \cup Waiting
  BY <1>1 DEF Waiting
<1> HIDE DEF p
<1> QED
  BY <1>1, <1>2, <1>3, <1>4, QuietRests

LEMMA ReleaseRests ==
  ASSUME CountInv, Rest, ForkTypeOK', NEW t \in Tasks, ReleaseFrame(t) \/ CompleteFrame(t)
  PROVE  Rest'
<1>1. /\ Frame(t, t) /\ op[t].pc \in {"complete_vfork_done", "complete"} /\ op'[t].pc \in {"complete", "exit_mm"}
      /\ task[t].st = "running" /\ task'[t].st = "running" /\ SamePointers(task'[t], task[t])
      /\ task'[t].held = task[t].held /\ UNCHANGED <<nr_threads, processes>>
  BY DEF ReleaseFrame, CompleteFrame, totals
<1>2. LinkInv
  BY DEF CountInv
<1>3. OnlyParents(t, t)
  BY <1>1, <1>2, OnlyWaiters DEF OnlyParents
<1>4. op[t].pc \in Own \cup Waiting /\ op'[t].pc \in Own \cup Waiting
  BY <1>1 DEF Own, Released
<1> QED
  BY <1>1, <1>3, <1>4, QuietRests

(* put_task_struct on a task that may be freed only when it is gone.          *)
LEMMA PutRests ==
  ASSUME LinkInv, HeldOK, NEW x \in Tasks, NEW st, PutFrame(x, st), st = task[x].st \/ (task[x].st = "dead" /\ st = "switched"),
         task[x].usage <= 1 => task[x].st \in {"dead", "switched"}
  PROVE  \/ task'[x].st = task[x].st /\ SamePointers(task'[x], task[x]) /\ task'[x].held = task[x].held
         \/ task[x].st \in {"dead", "switched"} /\ task'[x].st \in {"free", "switched"} /\ task'[x].held = {}
<1>1. NoStruct.st = "free" /\ NoStruct.held = {}
  BY DEF NoStruct
<1>2. task[x].st = "dead" => task[x].held = {}
  BY DEF HeldOK
<1> QED
  BY <1>1, <1>2 DEF PutFrame

LEMMA VforkPutRests ==
  ASSUME CountInv, Rest, ForkTypeOK', NEW t \in Tasks, VforkPutFrame(t)
  PROVE  Rest'
<1> DEFINE p == op[t].p  st == task[p].st
<1>1. /\ Frame(t, p) /\ op[t].pc = "vfork_put" /\ IsIdle(op'[t]) /\ PutFrame(p, st) /\ UNCHANGED <<nr_threads, processes>>
  BY DEF VforkPutFrame, totals
<1>2. LinkInv /\ HeldOK /\ p \in Tasks /\ task[p].st \in Parents
  BY <1>1, NotOwn DEF CountInv, Rest, LinkInv, Links, Structure, CallOK, Waiting, Parents
<1>3. (\A u \in Tasks : u # t => op[u].p # p) /\ task[p].usage = Base(task[p].st) + 1
  BY <1>1, <1>2, UsageBefore DEF Waiting
<1>4. OnlyParents(t, p)
  BY <1>3 DEF OnlyParents
<1>5. task[p].usage <= 1 => task[p].st \in {"dead", "switched"}
  BY <1>2, <1>3 DEF Parents, Base
<1>6. op[t].pc \in Own \cup Waiting /\ op'[t].pc \in Own \cup Waiting
  BY <1>1, IdleFields, NotOwn DEF Waiting
<1>7. st = task[p].st
  OBVIOUS
<1> HIDE DEF p, st
<1>8. \/ task'[p].st = task[p].st /\ SamePointers(task'[p], task[p]) /\ task'[p].held = task[p].held
      \/ task[p].st \in {"dead", "switched"} /\ task'[p].st \in {"free", "switched"} /\ task'[p].held = {}
  BY <1>1, <1>2, <1>5, <1>7, PutRests
<1> QED
  BY <1>1, <1>2, <1>4, <1>6, <1>8, QuietRests

LEMMA SwitchRests ==
  ASSUME CountInv, Rest, ForkTypeOK', NEW t \in Tasks, SwitchFrame(t)
  PROVE  Rest'
<1>1. Frame(t, t) /\ task[t].st = "dead" /\ PutFrame(t, "switched") /\ UNCHANGED <<op, nr_threads, processes>>
  BY DEF SwitchFrame, totals
<1>2. LinkInv /\ HeldOK /\ op[t].pc = "idle"
  BY <1>1 DEF CountInv, Rest, LinkInv, Links, Structure, CallOK
<1>3. OnlyParents(t, t)
  BY <1>1, <1>2, OnlyWaiters DEF OnlyParents
<1>4. op[t].pc \in Own \cup Waiting /\ op'[t].pc \in Own \cup Waiting
  BY <1>1, <1>2, NotOwn
<1>5. \/ task'[t].st = task[t].st /\ SamePointers(task'[t], task[t]) /\ task'[t].held = task[t].held
      \/ task[t].st \in {"dead", "switched"} /\ task'[t].st \in {"free", "switched"} /\ task'[t].held = {}
  BY <1>1, <1>2, PutRests
<1> QED
  BY <1>1, <1>3, <1>4, <1>5, QuietRests

LEMMA DeadRests ==
  ASSUME CountInv, Rest, ForkTypeOK', NEW t \in Tasks, DeadFrame(t)
  PROVE  Rest'
<1>1. /\ Frame(t, t) /\ op[t].pc = "release" /\ task[t].st = "running" /\ IsIdle(op'[t]) /\ task'[t].st = "dead"
      /\ task'[t].held = {} /\ nr_threads' = nr_threads - 1 /\ processes' = processes - 1
  BY DEF DeadFrame
<1>2. LinkInv /\ nr_threads \in Int /\ processes \in Int
  BY DEF CountInv, LinkInv, ForkTypeOK
<1>3. OnlyParents(t, t)
  BY <1>1, <1>2, OnlyWaiters DEF OnlyParents
<1>4. op[t].pc \in Own /\ op'[t].pc \in Own
  BY <1>1, IdleFields, NotOwn DEF Released
<1>5. ~Unwoken(op[t]) /\ ~Charged(op[t]) /\ ~Unwoken(op'[t]) /\ ~Charged(op'[t])
  BY <1>4, NotCharged
<1>6. TotalsMove(t, t)
  BY <1>1, <1>2, <1>5 DEF TotalsMove, Ind
<1>7. op'[t].pc \notin Building
  BY <1>4, NotOwn
<1>8. HeldMove(t, t)
  BY <1>1, <1>7 DEF HeldMove
<1>9. GroupMove(t, t)
  BY <1>1, <1>7, SignalWhileBuilding DEF GroupMove, NewGroup, Alive
<1> QED
  BY <1>1, <1>3, <1>6, <1>8, <1>9, RestStep

(* What may be held at one of the last labels is released from there on.      *)
LEMMA LastReleases ==
  ASSUME NEW i \in DOMAIN LastLabels, NEW h \in HeldNames, LastLabels[i] \in HeldWhile[h]
  PROVE  h \in UNION {ReleasedAt[LastLabels[j]] : j \in i .. Len(LastLabels)}
<1>1. Len(LastLabels) = 6 /\ DOMAIN LastLabels = 1 .. 6
  BY DEF LastLabels
<1>2. /\ LastLabels[1] = "bad_fork_cleanup_semundo" /\ LastLabels[2] = "bad_fork_cleanup_audit"
      /\ LastLabels[3] = "bad_fork_cleanup_policy" /\ LastLabels[4] = "bad_fork_cleanup_threadgroup_lock"
      /\ LastLabels[5] = "bad_fork_cleanup_count" /\ LastLabels[6] = "bad_fork_free"
  BY DEF LastLabels
<1>3. i \in 1 .. 6 /\ (i = 1 \/ i = 2 \/ i = 3 \/ i = 4 \/ i = 5 \/ i = 6)
  BY <1>1
<1> DEFINE has(j) == h \in ReleasedAt[LastLabels[j]]
<1>4. (\E j \in i .. 6 : has(j)) => h \in UNION {ReleasedAt[LastLabels[j]] : j \in i .. Len(LastLabels)}
  BY <1>1, Zenon
<1>5. /\ h = "semundo" => has(1)
      /\ h = "audit" => has(2)
      /\ h \in {"policy", "perf"} => has(3)
      /\ h \in {"threadgroup", "delayacct", "module"} => has(4)
      /\ h = "creds" => has(5)
      /\ h = "stack" => has(6)
  BY <1>2 DEF ReleasedAt
<1> HIDE DEF has
<1>6. h \in {"stack", "creds", "module", "delayacct", "threadgroup", "policy", "perf", "audit", "semundo", "namespaces", "io", "pid"}
  BY DEF HeldNames
<1>7. /\ h \in {"namespaces", "io", "pid"} => FALSE
      /\ h = "semundo" => i = 1
      /\ h = "audit" => i = 1 \/ i = 2
      /\ h \in {"policy", "perf"} => i = 1 \/ i = 2 \/ i = 3
      /\ h \in {"threadgroup", "delayacct", "module"} => i # 5 /\ i # 6
      /\ h = "creds" => i # 6
  <2> USE DEF CredsPcs, ModulePcs, PolicyPcs, AuditPcs, SemundoPcs, NamespacePcs, IoPcs, PidPcs, FilesPcs, FsPcs,
              SighandPcs, SignalPcs, MmPcs
  <2>1. h \in {"namespaces", "io", "pid"} => FALSE
    BY <1>2, <1>3, HeldSets
  <2>2. h = "semundo" => i = 1
    BY <1>2, <1>3, HeldSets
  <2>3. h = "audit" => i = 1 \/ i = 2
    BY <1>2, <1>3, HeldSets
  <2>4. h \in {"policy", "perf"} => i = 1 \/ i = 2 \/ i = 3
    BY <1>2, <1>3, HeldSets
  <2>5. h \in {"threadgroup", "delayacct", "module"} => i # 5 /\ i # 6
    BY <1>2, HeldSets
  <2>6. h = "creds" => i # 6
    BY <1>2, HeldSets
  <2> QED
    BY <2>1, <2>2, <2>3, <2>4, <2>5, <2>6
<1>8. \E j \in i .. 6 : has(j)
  <2>1. ASSUME NEW j \in 1 .. 6, has(j), i <= j PROVE \E m \in i .. 6 : has(m)
    BY <1>3, <2>1
  <2>2. CASE h = "semundo"
    BY <1>5, <1>7, <2>1, <2>2
  <2>3. CASE h = "audit"
    BY <1>5, <1>7, <2>1, <2>3
  <2>4. CASE h \in {"policy", "perf"}
    BY <1>5, <1>7, <2>1, <2>4
  <2>5. CASE h \in {"threadgroup", "delayacct", "module"}
    BY <1>3, <1>5, <1>7, <2>1, <2>5
  <2>6. CASE h = "creds"
    BY <1>3, <1>5, <1>7, <2>1, <2>6
  <2>7. CASE h = "stack"
    BY <1>3, <1>5, <2>1, <2>7
  <2> QED
    BY <1>6, <1>7, <2>2, <2>3, <2>4, <2>5, <2>6, <2>7
<1> QED
  BY <1>4, <1>8

(* The goto chain leaves nothing in a task it frees.                          *)
LEMMA FreeEmpties ==
  ASSUME LinkInv, HeldOK, NEW t \in Tasks, FreeTask(t)
  PROVE  task'[op[t].p].held = {}
<1> DEFINE p == op[t].p
<1>1. PICK i \in DOMAIN LastLabels :
        /\ At(t, LastLabels[i])
        /\ task' = [task EXCEPT ![p] = [NoStruct EXCEPT
             !.held = task[p].held \ UNION {ReleasedAt[LastLabels[j]] : j \in i .. Len(LastLabels)}]]
  BY DEF FreeTask
<1> DEFINE released == UNION {ReleasedAt[LastLabels[j]] : j \in i .. Len(LastLabels)}
           h == task[p].held \ released
           r == [NoStruct EXCEPT !.held = h]
<1>2. LastLabels[i] \in Building
  BY LastLabelsEnd DEF Building
<1>3. op[t].pc = LastLabels[i] /\ p \in Tasks /\ task[p] \in TaskStruct
  BY <1>1, <1>2, AtBuilding DEF LinkInv
<1>4. \A x \in task[p].held : x \in HeldNames /\ LastLabels[i] \in HeldWhile[x]
  BY <1>2, <1>3 DEF HeldOK, TaskStruct
<1>5. \A x \in task[p].held : x \in released
  BY <1>4, LastReleases
<1>6. Turns(p, r)
  BY <1>1 DEF Turns
<1> HIDE DEF released
<1>7. h = {}
  BY <1>5
<1> HIDE DEF h
<1>8. r.held = {}
  BY <1>7 DEF NoStruct
<1> HIDE DEF r, p
<1>9. task'[p] = r
  BY <1>3, <1>6 DEF Turns, LinkInv, ForkTypeOK
<1> QED
  BY <1>8, <1>9 DEF p

LEMMA FreeRests ==
  ASSUME CountInv, Rest, ForkTypeOK', NEW t \in Tasks, FreeFrame(t), task'[op[t].p].held = {}
  PROVE  Rest'
<1> DEFINE p == op[t].p
<1>1. /\ Frame(t, p) /\ op[t].pc \in Undoing /\ op[t].pc \notin FilesPcs /\ p \in Tasks /\ task[p].st = "built"
      /\ IsIdle(op'[t]) /\ task'[p].st = "free" /\ task'[p].held = {} /\ UNCHANGED nr_threads
      /\ processes' = (IF op[t].pc = "bad_fork_free" THEN processes ELSE processes - 1)
  BY DEF FreeFrame
<1>2. LinkInv /\ nr_threads \in Int /\ processes \in Int
  BY DEF CountInv, LinkInv, ForkTypeOK
<1>3. OnlyParents(t, p)
  BY <1>1, <1>2, UsageBefore DEF OnlyParents
<1>4. op'[t].pc = "idle" /\ op'[t].pc \in Own
  BY <1>1, IdleFields, NotOwn
<1>5. ~Unwoken(op'[t]) /\ ~Charged(op'[t])
  BY <1>4, NotCharged
<1>6. ~Unwoken(op[t]) /\ (Charged(op[t]) <=> op[t].pc # "bad_fork_free")
  <2>1. \A pc \in Undoing : pc \notin FilesPcs => (pc # "wake" /\ (pc \in CredsPcs <=> pc # "bad_fork_free"))
    BY DEF Undoing, CredsPcs, ModulePcs, PolicyPcs, AuditPcs, SemundoPcs, FilesPcs, FsPcs, SighandPcs, SignalPcs, MmPcs
  <2> QED
    BY <1>1, <2>1 DEF Unwoken, Charged
<1>7. TotalsMove(t, p)
  BY <1>1, <1>2, <1>5, <1>6 DEF TotalsMove, Ind
<1>8. op'[t].pc \notin Building
  BY <1>4, NotOwn
<1>9. HeldMove(t, p)
  BY <1>1, <1>8 DEF HeldMove
<1>10. GroupMove(t, p)
  BY <1>1, <1>8, SignalWhileBuilding DEF GroupMove, NewGroup, Alive
<1> HIDE DEF p
<1> QED
  BY <1>1, <1>3, <1>7, <1>9, <1>10, RestStep

(* A task becomes visible: a thread with what its group shares, a process     *)
(* with a signal_struct nobody else has.                                      *)
LEMMA PublishGroups ==
  ASSUME CountInv, Groups, NEW t \in Tasks, PublishFrame(t)
  PROVE  Groups'
<1> DEFINE p == op[t].p  thread == "THREAD" \in op[t].flags
<1>1. /\ Frame(t, p) /\ op[t].pc = "publish" /\ task[t].st = "running" /\ p \in Tasks /\ task[p].st = "built"
      /\ op'[t].pc = "wake" /\ task'[p].st = "new"
      /\ task'[p].signal = task[p].signal /\ task'[p].sighand = task[p].sighand /\ task'[p].mm = task[p].mm
  BY DEF PublishFrame, SamePointers, Kinds
<1>2. LinkInv /\ CallOK(t, op[t], task[t], task[p]) /\ "publish" \in Forward
  BY DEF CountInv, LinkInv, Links, Structure, Forward
<1>3. thread => task[p].signal = task[t].signal /\ task[p].sighand = task[t].sighand /\ task[p].mm = task[t].mm
  <2>1. ValidFlags(op[t].flags)
    BY <1>1, <1>2 DEF CallOK
  <2>2. thread => "SIGHAND" \in op[t].flags /\ "VM" \in op[t].flags
    BY <2>1 DEF ValidFlags
  <2>3. \A k \in Kinds : SharedFlag[k] \in op[t].flags => task[p][k] = task[t][k]
    BY <1>1, <1>2 DEF CallOK
  <2> QED
    BY <2>2, <2>3 DEF SharedFlag, Kinds
<1>4. ~thread => NewGroup(t)
  BY <1>1, ChargedSets DEF NewGroup
<1>5. ~NewGroup(t)'
  BY <1>1, ChargedSets DEF NewGroup
<1>6. OnlyParents(t, p)
  BY <1>1, <1>2, UsageBefore DEF OnlyParents
<1>7. \A u \in Tasks : NewGroup(u)' => /\ u # t /\ NewGroup(u) /\ op'[u].p = op[u].p
                                       /\ task'[op[u].p] = task[op[u].p]
  BY <1>1, <1>2, <1>5, <1>6, OtherGroups
<1>8. \A y \in Tasks : y # p => task'[y] = task[y]
  BY <1>1 DEF Frame
<1>9. task[t].st \in Alive
  BY <1>1 DEF Alive
<1> HIDE DEF p, thread
<1>10. ASSUME NEW y \in Tasks, task[y].st \in Alive, task[y].signal = task[p].signal
       PROVE  SameGroup(task[p], task[y]) /\ SameGroup(task[y], task[p])
  <2>1. CASE thread
    <3>1. SameGroup(task[t], task[y])
      BY <1>3, <1>9, <1>10, <2>1 DEF Groups
    <3> QED
      BY <1>3, <2>1, <3>1 DEF SameGroup
  <2>2. CASE ~thread
    BY <1>4, <1>10, <2>2 DEF Groups, p
  <2> QED
    BY <2>1, <2>2
<1>11. ASSUME NEW y \in Tasks, NEW z \in Tasks, task'[y].st \in Alive, task'[z].st \in Alive, task'[y].signal = task'[z].signal
       PROVE  SameGroup(task[y], task[z])'
  <2>1. CASE y # p /\ z # p
    <3>1. SameGroup(task[y], task[z])
      BY <1>8, <1>11, <2>1 DEF Groups
    <3> QED
      BY <1>8, <2>1, <3>1 DEF SameGroup
  <2>2. CASE y = p /\ z = p
    BY <2>2 DEF SameGroup
  <2>3. CASE y = p /\ z # p
    <3>1. SameGroup(task[p], task[z])
      BY <1>1, <1>8, <1>10, <1>11, <2>3
    <3> QED
      BY <1>1, <1>8, <2>3, <3>1 DEF SameGroup
  <2>4. CASE y # p /\ z = p
    <3>1. SameGroup(task[y], task[p])
      BY <1>1, <1>8, <1>10, <1>11, <2>4
    <3> QED
      BY <1>1, <1>8, <2>4, <3>1 DEF SameGroup
  <2> QED
    BY <2>1, <2>2, <2>3, <2>4
<1>12. ASSUME NEW u \in Tasks, NEW y \in Tasks, NewGroup(u)', task'[y].st \in Alive
       PROVE  task'[y].signal # task'[op'[u].p].signal
  <2>1. u # t /\ NewGroup(u) /\ task'[op'[u].p].signal = task[op[u].p].signal
    BY <1>7, <1>12
  <2>2. CASE y # p
    BY <1>8, <1>12, <2>1, <2>2 DEF Groups
  <2>3. CASE y = p /\ thread
    BY <1>1, <1>3, <1>9, <2>1, <2>3 DEF Groups
  <2>4. CASE y = p /\ ~thread
    BY <1>1, <1>4, <2>1, <2>4 DEF Groups, p
  <2> QED
    BY <2>2, <2>3, <2>4
<1>13. ASSUME NEW u \in Tasks, NEW v \in Tasks, NewGroup(u)', NewGroup(v)', u # v
       PROVE  task'[op'[u].p].signal # task'[op'[v].p].signal
  BY <1>7, <1>13 DEF Groups
<1> QED
  BY <1>11, <1>12, <1>13 DEF Groups

LEMMA PublishRests ==
  ASSUME CountInv, Rest, ForkTypeOK', NEW t \in Tasks, PublishFrame(t)
  PROVE  Rest'
<1> DEFINE p == op[t].p
<1>1. /\ Frame(t, p) /\ op[t].pc = "publish" /\ p \in Tasks /\ task[p].st = "built" /\ op'[t].pc = "wake"
      /\ op'[t].flags = op[t].flags /\ task'[p].st = "new" /\ UNCHANGED processes
      /\ nr_threads' = (IF "IDLE" \in op[t].flags THEN nr_threads ELSE nr_threads + 1)
  BY DEF PublishFrame
<1>2. LinkInv /\ nr_threads \in Int /\ processes \in Int /\ HeldOK /\ Totals /\ Groups
  BY DEF CountInv, Rest, LinkInv, ForkTypeOK
<1>3. OnlyParents(t, p)
  BY <1>1, <1>2, UsageBefore DEF OnlyParents
<1>4. ~Unwoken(op[t]) /\ Charged(op[t]) /\ Charged(op'[t]) /\ (Unwoken(op'[t]) <=> "IDLE" \notin op[t].flags)
  BY <1>1, ChargedSets DEF Unwoken, Charged
<1>5. TotalsMove(t, p)
  BY <1>1, <1>2, <1>4 DEF TotalsMove, Ind
<1>6. HeldMove(t, p)
  BY <1>1, NotOwn DEF HeldMove
<1> HIDE DEF p
<1>7. HeldOK' /\ Totals' /\ Groups'
  BY <1>1, <1>2, <1>3, <1>5, <1>6, HeldStep, TotalsStep, PublishGroups
<1> QED
  BY <1>7 DEF Rest

-----------------------------------------------------------------------------
(* Everything that was counted is accounted for *)

ExactInv == CountInv /\ Rest

LEMMA ExactInit == ASSUME Init PROVE ExactInv
<1>1. CountInv
  BY CountInit
<1>2. PICK m \in {0, 1} :
        task = [t \in Tasks |->
             IF t = InitTask
             THEN [NoStruct EXCEPT !.st = "running", !.mm = m, !.files = 1, !.fs = 1, !.sighand = 1,
                                   !.signal = 1, !.usage = 2]
             ELSE NoStruct]
  BY DEF Init
<1> DEFINE first == [NoStruct EXCEPT !.st = "running", !.mm = m, !.files = 1, !.fs = 1, !.sighand = 1,
                                     !.signal = 1, !.usage = 2]
<1>3. first.st = "running" /\ NoStruct.st = "free" /\ NoStruct.held = {}
  BY DEF NoStruct
<1>4. \A t \in Tasks : task[t] = IF t = InitTask THEN first ELSE NoStruct
  BY <1>2
<1> HIDE DEF first
<1>5. \A t \in Tasks : op[t].pc = "idle"
  BY IdleFields DEF Init
<1>6. \A t \in Tasks : op[t].pc \notin Building /\ ~Unwoken(op[t]) /\ ~Charged(op[t]) /\ ~NewGroup(t)
  BY <1>5, NotOwn, NotCharged, SignalWhileBuilding DEF NewGroup
<1>7. HeldOK
  BY <1>3, <1>4, <1>6 DEF HeldOK
<1>8. Totals
  <2> DEFINE R == {t \in Tasks : task[t].st = "running"}
             P == {t \in Tasks : task[t].st \in {"running", "idle"}}
             U == {t \in Tasks : Unwoken(op[t])}
             C == {t \in Tasks : Charged(op[t])}
  <2>1. U = {} /\ C = {}
    BY <1>6
  <2>2. R = {InitTask} /\ P = {InitTask}
    BY <1>3, <1>4, ForkAssumption
  <2>3. Totals <=> nr_threads = Cardinality(R) + Cardinality(U) /\ processes = Cardinality(P) + Cardinality(C)
    BY DEF Totals
  <2> HIDE DEF R, P, U, C
  <2>4. Cardinality(U) = 0 /\ Cardinality(C) = 0 /\ Cardinality(R) = 1 /\ Cardinality(P) = 1
    BY <2>1, <2>2, FS_EmptySet, FS_Singleton
  <2>5. nr_threads = 1 /\ processes = 1
    BY DEF Init
  <2> QED
    BY <2>3, <2>4, <2>5
<1>9. Groups
  BY <1>3, <1>4, <1>6 DEF Groups, SameGroup, Alive
<1> QED
  BY <1>1, <1>7, <1>8, <1>9 DEF ExactInv, Rest

LEMMA RestsStep == ASSUME ExactInv, NEW t \in Tasks, Step(t) PROVE Rest'
<1>l. CountInv /\ Rest /\ HeldOK /\ LinkInv /\ ForkTypeOK /\ Links /\ ForkTypeOK'
  <2>1. LinkInv'
    BY LinkStep DEF ExactInv, CountInv
  <2> QED
    BY <2>1 DEF ExactInv, CountInv, LinkInv, Rest
<1>1. CASE copy_creds(t) \/ check_threads(t) \/ CopySetup(t) \/ CopyContext(t)
  BY <1>l, <1>1, SetupFrame, SetupRest, BuildRests
<1>2. CASE CopyShared(t) \/ copy_signal(t)
  BY <1>l, <1>2, CopySharedFrame, CopySignalFrame, CopySharedRest, CopySignalRest, BuildRests
<1>3. CASE copy_mm(t) \/ dup_mmap(t) \/ get_binfmt(t) \/ free_pt(t)
  BY <1>l, <1>3, CopyMmFrame, DupMmFrame, CopyMmRest, BuildRests
<1>4. CASE CleanupContext(t) \/ CleanupMm(t) \/ CleanupSignal(t) \/ CleanupShared(t)
  BY <1>l, <1>4, CleanupFrame, CleanupRest, BuildRests
<1>5. CASE mm_access(t) \/ mm_access_end(t)
  BY <1>l, <1>5, MmAccessFrame, OwnRests
<1>6. CASE unshare(t) \/ unshare_fs(t) \/ unshare_fd(t) \/ unshare_namespaces(t)
  BY <1>l, <1>6, UnshareFrame, OwnRests
<1>7. CASE unshare_install(t)
  BY <1>l, <1>7, UnshareInstallFrame, OwnRests
<1>8. CASE unshare_cleanup_fd(t) \/ unshare_cleanup_fs(t)
  BY <1>l, <1>8, UnshareEndFrame, OwnRests
<1>9. CASE unshare_files(t)
  BY <1>l, <1>9, UnshareFilesFrame, OwnRests
<1>10. CASE do_exit(t) \/ mm_release(t) \/ exit_mm(t) \/ ExitShared(t)
  BY <1>l, <1>10, ExitFrame, OwnRests
<1>11. CASE dup_task_struct(t)
  BY <1>l, <1>11, DupShape, DupRests
<1>12. CASE Publish(t)
  <2>1. CASE PublishFrame(t)
    BY <1>l, <2>1, PublishRests
  <2>2. CASE BuildFrame(t)
    <3>1. op'[t].pc \in Building
      BY <2>2 DEF BuildFrame
    <3> QED
      BY <1>l, <1>12, <2>2, <3>1, PublishRest, BuildRests
  <2> QED
    BY <1>l, <1>12, <2>1, <2>2, PublishShape
<1>13. CASE FreeTask(t)
  BY <1>l, <1>13, FreeShape, FreeEmpties, FreeRests
<1>14. CASE wake_up_new_task(t)
  BY <1>l, <1>14, WakeShape, WakeRests
<1>15. CASE wait_for_vfork_done(t) \/ vfork_killed(t)
  BY <1>l, <1>15, WaitedShape, KilledShape, WaitedRests
<1>16. CASE vfork_put(t)
  BY <1>l, <1>16, VforkPutShape, VforkPutRests
<1>17. CASE complete_vfork_done(t) \/ complete(t)
  BY <1>l, <1>17, ReleaseShape, CompleteShape, ReleaseRests
<1>18. CASE release_task(t)
  BY <1>l, <1>18, DeadShape, DeadRests
<1>19. CASE finish_task_switch(t)
  BY <1>l, <1>19, SwitchShape, SwitchRests
<1> QED
  BY <1>1, <1>2, <1>3, <1>4, <1>5, <1>6, <1>7, <1>8, <1>9, <1>10, <1>11, <1>12, <1>13, <1>14, <1>15, <1>16,
     <1>17, <1>18, <1>19 DEF Step

LEMMA ExactNext == ASSUME ExactInv, [Next]_vars PROVE ExactInv'
<1>1. CountInv'
  BY CountNext DEF ExactInv
<1>2. ASSUME Next PROVE Rest'
  BY <1>2, RestsStep DEF Next
<1>3. ASSUME UNCHANGED vars PROVE Rest'
  <2>1. UNCHANGED <<task, op, nr_threads, processes>>
    BY <1>3 DEF vars
  <2>2. HeldOK' /\ Totals'
    BY <2>1 DEF ExactInv, Rest, HeldOK, Totals
  <2>3. Groups'
    BY <2>1 DEF ExactInv, Rest, Groups, NewGroup
  <2> QED
    BY <2>2, <2>3 DEF Rest
<1> QED
  BY <1>1, <1>2, <1>3 DEF ExactInv

(* Between calls no task is half created and no call keeps anything.          *)
LEMMA QuietState ==
  ASSUME LinkInv, Busy = {}
  PROVE  /\ \A t \in Tasks : op[t].pc \in Own \cup Waiting
         /\ \A t \in Tasks, k \in Kinds : Kept(op[t], task[op[t].p], k) = 0
         /\ \A x \in Tasks : task[x].st # "built" /\ (task[x].st = "free" => \A k \in Kinds : task[x][k] = 0)
<1>1. \A t \in Tasks : op[t].pc \in {"idle", "wait_for_vfork_done"}
  BY DEF Busy
<1>2. \A t \in Tasks : op[t].pc \in Own \cup Waiting
  BY <1>1, NotOwn DEF Waiting
<1>3. ASSUME NEW t \in Tasks, NEW k \in Kinds PROVE Kept(op[t], task[op[t].p], k) = 0
  <2>1. op[t].pc \notin FilesPcs /\ op[t].new = 0 /\ op[t].new_fs = 0
    BY <1>1, WaitingKeeps DEF Waiting
  <2> QED
    BY <2>1, NothingKept
<1>4. ASSUME NEW x \in Tasks, task[x].st = "built" PROVE FALSE
  <2>1. PICK t \in Tasks : op[t].p = x
    BY <1>4 DEF LinkInv, Links, Structure
  <2>2. CallOK(t, op[t], task[t], task[x]) /\ x # NoTask
    BY <2>1, ForkAssumption DEF LinkInv, Links, Structure
  <2> QED
    BY <1>1, <1>4, <2>1, <2>2, NotOwn DEF CallOK, Waiting
<1>5. ASSUME NEW x \in Tasks, task[x].st = "free" PROVE \A k \in Kinds : task[x][k] = 0
  <2>1. TaskOK(task[x])
    BY DEF LinkInv, Links, Structure
  <2> QED
    BY <1>5, <2>1 DEF TaskOK, Kinds
<1> QED
  BY <1>2, <1>3, <1>4, <1>5

(* When no call is under way every reference count is the number of tasks     *)
(* that point to the object, nr_threads and the users' processes are the      *)
(* tasks that exist, and a freed task_struct holds nothing: the goto chain of *)
(* copy_process undoes exactly what was done.  In every state threads of one  *)
(* group share their signal handlers and their mm.                            *)
THEOREM ForkCountsExact == Spec => []CountsExact
<1>1. ASSUME ExactInv PROVE CountsExact
  <2>l. LinkInv /\ Counted /\ HeldOK /\ Totals /\ Groups
    BY <1>1 DEF ExactInv, CountInv, Rest
  <2>1. ThreadsShare
    <3> SUFFICES ASSUME NEW t \in Tasks, NEW u \in Tasks, task[t].st = "running", task[u].st = "running",
                        task[t].signal = task[u].signal
                 PROVE  SameGroup(task[t], task[u])
      BY DEF ThreadsShare, SameGroup
    <3> QED
      BY <2>l DEF Groups, Alive
  <2>2. ASSUME Busy = {}, NEW k \in Kinds, NEW o \in Objects PROVE count[k][o] = Holders(k, o)
    <3>1. o # 0
      BY ObjectsAreNumbers
    <3>2. KeptBy(k, o) = {}
      BY <2>l, <2>2, <3>1, QuietState DEF KeptBy
    <3>3. \A x \in Tasks : Seen(task[x], k) = o <=> task[x][k] = o
      BY <2>l, <2>2, <3>1, QuietState DEF Seen
    <3>4. SeenBy(k, o) = {t \in Tasks : task[t][k] = o}
      BY <3>3 DEF SeenBy
    <3>5. Cardinality(KeptBy(k, o)) = 0 /\ Cardinality(SeenBy(k, o)) \in Nat
      BY <3>2, ForkAssumption, FS_Subset, FS_EmptySet, FS_CardinalityType DEF SeenBy
    <3>6. count[k][o] = Cardinality(SeenBy(k, o))
      BY <2>l, <3>5 DEF Counted
    <3> QED
      BY <3>4, <3>6 DEF Holders
  <2>3. ASSUME Busy = {} PROVE nr_threads = InState({"running"}) /\ processes = InState({"running", "idle"})
    <3> DEFINE R == {t \in Tasks : task[t].st = "running"}
               P == {t \in Tasks : task[t].st \in {"running", "idle"}}
               U == {t \in Tasks : Unwoken(op[t])}
               C == {t \in Tasks : Charged(op[t])}
    <3>1. U = {} /\ C = {}
      BY <2>l, <2>3, QuietState, NotCharged
    <3>2. R = {t \in Tasks : task[t].st \in {"running"}} /\ R \subseteq Tasks /\ P \subseteq Tasks
      OBVIOUS
    <3>3. nr_threads = Cardinality(R) + Cardinality(U) /\ processes = Cardinality(P) + Cardinality(C)
      BY <2>l DEF Totals
    <3>4. InState({"running"}) = Cardinality(R) /\ InState({"running", "idle"}) = Cardinality(P)
      BY <3>2 DEF InState
    <3> HIDE DEF R, P, U, C
    <3>5. Cardinality(R) \in Nat /\ Cardinality(P) \in Nat
      BY <3>2, ForkAssumption, FS_Subset, FS_CardinalityType
    <3>6. Cardinality(U) = 0 /\ Cardinality(C) = 0
      BY <3>1, FS_EmptySet
    <3> QED
      BY <3>3, <3>4, <3>5, <3>6
  <2>4. \A t \in Tasks : task[t].st = "free" => task[t].held = {}
    BY <2>l DEF HeldOK
  <2> QED
    BY <2>1, <2>2, <2>3, <2>4 DEF CountsExact
<1>2. Init => ExactInv
  BY ExactInit
<1>3. ExactInv /\ [Next]_vars => ExactInv'
  BY ExactNext
<1> QED
  BY <1>1, <1>2, <1>3, PTL DEF Spec

-----------------------------------------------------------------------------
(* Memory *)

VmaStruct == [dontcopy : BOOLEAN, account : BOOLEAN, file : BOOLEAN]
Mm == [vmas : Seq(VmaStruct), total_vm : Int, exe_file : BOOLEAN]

(* A memory map that dup_mm still fills, or will drop, is known to its call  *)
(* alone.                                                                    *)
Copying == {"dup_mmap", "binfmt", "free_pt"}
Private == \A t \in Tasks : op[t].pc \in Copying => op[t].new \in Objects /\ count["mm"][op[t].new] = 1

(* Before dup_mmap the copy differs in its vmas alone.                       *)
Started == \A t \in Tasks : op[t].pc = "dup_mmap" =>
  task[t].mm \in Objects /\ mms[op[t].new] = [mms[task[t].mm] EXCEPT !.vmas = <<>>]

(* The size of a map is right but where dup_mmap is not finished.            *)
Sized(m) == m.total_vm = Len(m.vmas)
Sizes == \A o \in Objects :
  Sized(mms[o]) \/ \E t \in Tasks : op[t].pc \in {"dup_mmap", "free_pt"} /\ op[t].new = o

Unused == \A o \in Objects : count["mm"][o] = 0 => mms[o] = NoMm

Charges(m) == [o \in Objects |-> Accounted(m[o].vmas)]
Refs(m) == [o \in Objects |-> FilesOf(m[o])]
Sums(m, c, f) == c = SumFunctionOnSet(Charges(m), Objects) /\ f = SumFunctionOnSet(Refs(m), Objects)

MemoryOK == /\ mms \in [Objects -> Mm] /\ Private /\ Started /\ Sizes /\ Unused
            /\ Sums(mms, committed, file_refs)

(* What is counted of a memory map.                                          *)
LEMMA MmCounts ==
  /\ \A m \in Mm : Accounted(m.vmas) \in Nat /\ Mapped(m.vmas) \in Nat /\ FilesOf(m) \in Nat
  /\ Accounted(<<>>) = 0 /\ Mapped(<<>>) = 0
  /\ NoMm \in Mm /\ NoMm.vmas = <<>> /\ FilesOf(NoMm) = 0 /\ Sized(NoMm)
<1>1. ASSUME NEW v \in Seq(VmaStruct) PROVE Accounted(v) \in Nat /\ Mapped(v) \in Nat
  <2>1. DOMAIN v = 1 .. Len(v) /\ Len(v) \in Nat
    OBVIOUS
  <2>2. IsFiniteSet(DOMAIN v)
    BY <2>1, FS_Interval
  <2>3. IsFiniteSet({i \in DOMAIN v : v[i].account}) /\ IsFiniteSet({i \in DOMAIN v : v[i].file})
    BY <2>2, FS_Subset
  <2> QED BY <2>3, FS_CardinalityType DEF Accounted, Mapped
<1>2. Accounted(<<>>) = 0 /\ Mapped(<<>>) = 0
  <2>1. {i \in DOMAIN <<>> : <<>>[i].account} = {} /\ {i \in DOMAIN <<>> : <<>>[i].file} = {}
    OBVIOUS
  <2> QED BY <2>1, FS_EmptySet DEF Accounted, Mapped
<1>3. NoMm \in Mm /\ NoMm.vmas = <<>> /\ NoMm.exe_file = FALSE /\ NoMm.total_vm = 0 /\ Len(<<>>) = 0
  BY DEF NoMm, Mm
<1>4. \A m \in Mm : m.vmas \in Seq(VmaStruct)
  BY DEF Mm
<1>5. \A m \in Mm : FilesOf(m) \in Nat
  BY <1>1, <1>4 DEF FilesOf
<1>6. FilesOf(NoMm) = 0
  BY <1>2, <1>3 DEF FilesOf
<1>7. Sized(NoMm)
  BY <1>3 DEF Sized
<1> QED BY <1>1, <1>2, <1>3, <1>4, <1>5, <1>6, <1>7

(* The objects are finitely many.                                            *)
LEMMA ObjectsFinite == IsFiniteSet(Objects)
<1>1. Cardinality(Tasks) \in Nat
  BY ForkAssumption, FS_CardinalityType
<1>2. 2 * Cardinality(Tasks) \in Nat
  BY <1>1
<1> QED BY <1>2, FS_Interval DEF Objects

(* Charges and references are numbers.                                       *)
LEMMA ChargesNat ==
  ASSUME NEW m \in [Objects -> Mm]
  PROVE  NatOn(Charges(m), Objects) /\ NatOn(Refs(m), Objects)
BY MmCounts DEF NatOn, Charges, Refs

(* The sums follow the one map that changes.                                 *)
LEMMA SumsChanged ==
  ASSUME NEW m \in [Objects -> Mm], NEW n \in [Objects -> Mm], NEW c, NEW f, Sums(m, c, f), NEW o \in Objects,
         \A x \in Objects : x # o => n[x] = m[x]
  PROVE  /\ c \in Nat /\ f \in Nat
         /\ Sums(n, (c - Accounted(m[o].vmas)) + Accounted(n[o].vmas), (f - FilesOf(m[o])) + FilesOf(n[o]))
<1>1. NatOn(Charges(m), Objects) /\ NatOn(Refs(m), Objects) /\ NatOn(Charges(n), Objects) /\ NatOn(Refs(n), Objects)
  BY ChargesNat
<1>2. \A x \in Objects : x # o => Charges(n)[x] = Charges(m)[x] /\ Refs(n)[x] = Refs(m)[x]
  BY DEF Charges, Refs
<1>3. /\ Charges(n)[o] = Accounted(n[o].vmas) /\ Charges(m)[o] = Accounted(m[o].vmas)
      /\ Refs(n)[o] = FilesOf(n[o]) /\ Refs(m)[o] = FilesOf(m[o])
  BY DEF Charges, Refs
<1>4. SumFunctionOnSet(Charges(n), Objects) = (SumFunctionOnSet(Charges(m), Objects) - Charges(m)[o]) + Charges(n)[o]
  BY <1>1, <1>2, ObjectsFinite, SumChanged
<1>5. SumFunctionOnSet(Refs(n), Objects) = (SumFunctionOnSet(Refs(m), Objects) - Refs(m)[o]) + Refs(n)[o]
  BY <1>1, <1>2, ObjectsFinite, SumChanged
<1>6. SumFunctionOnSet(Charges(m), Objects) \in Nat /\ SumFunctionOnSet(Refs(m), Objects) \in Nat
  BY <1>1, ObjectsFinite, SumDefined
<1> QED BY <1>3, <1>4, <1>5, <1>6 DEF Sums

(* The vmas linked before vma i are vmas, and as many as are not skipped.    *)
LEMMA LinkedFacts ==
  ASSUME NEW v \in Seq(VmaStruct), NEW i \in 1 .. Len(v) + 1
  PROVE  /\ Linked(v, i) \in Seq(VmaStruct)
         /\ Cardinality(Skipped(v, i)) \in Nat
         /\ Len(Linked(v, i)) = (i - 1) - Cardinality(Skipped(v, i))
<1> DEFINE s == SubSeq(v, 1, i - 1)
           E == Skipped(v, i)
           n == i - 1
           K == (1 .. n) \ E
           R == {p \in K \X K : p[1] < p[2]}
           upto(x) == {j \in K : j <= x}
           at(m) == CHOOSE x \in K : Cardinality(upto(x)) = m
           r == [m \in 1 .. Cardinality(K) |-> s[at(m)]]
<1>1. n \in Nat /\ n <= Len(v)
  OBVIOUS
<1>2. s \in Seq(VmaStruct) /\ Len(s) = n
  BY <1>1, SubSeqProperties
<1>3. Linked(v, i) = r
  <2>1. (1 .. Len(s)) \ E = K
    BY <1>2
  <2>2. Linked(v, i) = EraseAt(s, E)
    BY Zenon DEF Linked
  <2> HIDE DEF s, E, n
  <2>3. EraseAt(s, E) = [m \in 1 .. Cardinality((1 .. Len(s)) \ E) |->
                          s[CHOOSE x \in (1 .. Len(s)) \ E : Cardinality({j \in (1 .. Len(s)) \ E : j <= x}) = m]]
    BY Zenon DEF EraseAt
  <2> HIDE DEF K
  <2> QED BY <2>1, <2>2, <2>3, Zenon
<1>4. E \subseteq 1 .. n
  BY DEF Skipped
<1>5. IsFiniteSet(1 .. n) /\ Cardinality(1 .. n) = n
  <2> HIDE DEF n
  <2>1. IsFiniteSet(1 .. n) /\ Cardinality(1 .. n) = IF 1 > n THEN 0 ELSE (n - 1) + 1
    BY <1>1, FS_Interval
  <2> QED BY <1>1, <2>1
<1> HIDE DEF E, n
<1>6. IsFiniteSet(E) /\ IsFiniteSet(K) /\ Cardinality(E) \in Nat /\ Cardinality(K) \in Nat
  BY <1>4, <1>5, FS_Subset, FS_CardinalityType
<1>7. Cardinality(K) = n - Cardinality(E)
  <2>1. Cardinality(K) = Cardinality(1 .. n) - Cardinality((1 .. n) \cap E)
    BY <1>5, FS_Difference
  <2>2. (1 .. n) \cap E = E
    BY <1>4
  <2> QED BY <1>5, <2>1, <2>2
<1>8. StrictOrder(K, R)
  <2> \A x, y \in K : <<x, y>> \in R <=> x < y
    OBVIOUS
  <2> \A x \in K : x \in Nat
    OBVIOUS
  <2> HIDE DEF R, K
  <2> QED BY DEF StrictOrder
<1>9. ASSUME NEW m \in 1 .. Cardinality(K) PROVE at(m) \in K
  <2>1. PICK x \in K : Rank(K, R, x) = m - 1
    <3> HIDE DEF R, K
    <3> QED BY <1>6, <1>8, RankTaken
  <2>2. upto(x) = Before(K, R, x) \cup {x} /\ x \notin Before(K, R, x)
    BY DEF Before
  <2>3. IsFiniteSet(Before(K, R, x)) /\ Cardinality(Before(K, R, x)) = m - 1
    BY <1>6, <2>1, FS_Subset DEF Before, Rank
  <2>4. Cardinality(upto(x)) = m
    <3> DEFINE B == Before(K, R, x)
    <3>1. Cardinality(B \cup {x}) = Cardinality(B) + 1
      <4> HIDE DEF B
      <4> QED BY <2>2, <2>3, FS_AddElement DEF B
    <3> HIDE DEF upto, K, R
    <3> QED BY <2>2, <2>3, <3>1
  <2> HIDE DEF upto, K
  <2> QED BY <2>4
<1>10. \A m \in 1 .. Cardinality(K) : s[at(m)] \in VmaStruct
  <2>1. \A x \in K : s[x] \in VmaStruct
    BY <1>1, <1>2
  <2> HIDE DEF at, s, K
  <2> QED BY <1>9, <2>1
<1>11. r \in Seq(VmaStruct) /\ Len(r) = Cardinality(K)
  <2> HIDE DEF at, s, K
  <2> QED BY <1>6, <1>10
<1> HIDE DEF r, K
<1> QED BY <1>3, <1>6, <1>7, <1>11 DEF E, n

-----------------------------------------------------------------------------
(* Memory maps and who refers to them *)

MmRef(t, o) == Seen(task[t], "mm") = o \/ KeptNow(t, "mm") = o

(* A counted map has a reference, one counted once has only that one.        *)
LEMMA MmReferences ==
  ASSUME Counted, NEW o \in Objects
  PROVE  /\ count["mm"][o] \in Nat
         /\ \A t \in Tasks : MmRef(t, o) => count["mm"][o] # 0
         /\ count["mm"][o] = 1 =>
              /\ \A t, u \in Tasks : MmRef(t, o) /\ MmRef(u, o) => t = u
              /\ \A t \in Tasks : ~(Seen(task[t], "mm") = o /\ KeptNow(t, "mm") = o)
<1> DEFINE A == SeenBy("mm", o)
           B == KeptBy("mm", o)
<1>1. /\ \A t \in Tasks : t \in A <=> Seen(task[t], "mm") = o
      /\ \A t \in Tasks : t \in B <=> KeptNow(t, "mm") = o
      /\ A \subseteq Tasks /\ B \subseteq Tasks
  BY DEF SeenBy, KeptBy, KeptNow
<1>2. count["mm"][o] = Cardinality(A) + Cardinality(B)
  BY DEF Counted, Kinds
<1> HIDE DEF A, B
<1>3. IsFiniteSet(A) /\ IsFiniteSet(B)
  BY <1>1, ForkAssumption, FS_Subset
<1>4. Cardinality(A) \in Nat /\ Cardinality(B) \in Nat
  BY <1>3, FS_CardinalityType
<1>5. (Cardinality(A) = 0 <=> A = {}) /\ (Cardinality(B) = 0 <=> B = {})
  BY <1>3, FS_EmptySet
<1>6. ASSUME NEW S, IsFiniteSet(S), Cardinality(S) = 1 PROVE \A x, y \in S : x = y
  <2>1. \E x : S = {x}
    BY <1>6, FS_Singleton
  <2> QED BY <2>1
<1>7. count["mm"][o] \in Nat /\ \A t \in Tasks : MmRef(t, o) => count["mm"][o] # 0
  BY <1>1, <1>2, <1>4, <1>5 DEF MmRef
<1>8. ASSUME count["mm"][o] = 1
      PROVE  /\ A = {} \/ B = {}
             /\ \A x, y \in A : x = y
             /\ \A x, y \in B : x = y
  <2>1. (Cardinality(A) = 0 /\ Cardinality(B) = 1) \/ (Cardinality(A) = 1 /\ Cardinality(B) = 0)
    BY <1>2, <1>4, <1>8
  <2> QED BY <1>3, <1>5, <1>6, <2>1
<1> QED BY <1>1, <1>7, <1>8 DEF MmRef

(* The call of a task that copies a map keeps it; a running task sees its own. *)
LEMMA CopyingKeeps ==
  ASSUME LinkInv, NEW t \in Tasks
  PROVE  /\ op[t].pc \in Copying => KeptNow(t, "mm") = op[t].new /\ task[t].st = "running"
         /\ task[t].st = "running" => Seen(task[t], "mm") = task[t].mm
<1>1. ASSUME op[t].pc \in Copying PROVE KeptNow(t, "mm") = op[t].new
  <2>1. op[t].pc \notin CountedAt["mm"]
    BY <1>1 DEF Copying, CountedAt, MmPcs
  <2> QED BY <1>1, <2>1 DEF KeptNow, Kept, Copying
<1>2. ASSUME op[t].pc \in Copying PROVE task[t].st = "running"
  BY <1>2 DEF LinkInv, Links, Structure, CallOK, Copying
<1> QED BY <1>1, <1>2 DEF Seen

(* The calls of the others stay, and so do the maps that they copy.          *)
Others(t) ==
  \A u \in Tasks : u # t => op'[u] = op[u] /\ (op[u].pc \in Copying => task'[u].mm = task[u].mm)

(* A step on a task_struct that does not run, or keeps its map.              *)
LEMMA FrameOthers ==
  ASSUME LinkInv, LinkInv', NEW t \in Tasks, NEW x, Frame(t, x),
         x = t \/ task[x].st # "running" \/ task'[x].st # "running" \/ task'[x].mm = task[x].mm
  PROVE  Others(t)
<1> SUFFICES ASSUME NEW u \in Tasks, u # t PROVE op'[u] = op[u] /\ (op[u].pc \in Copying => task'[u].mm = task[u].mm)
  BY DEF Others
<1>1. op'[u] = op[u] /\ (u # x => task'[u] = task[u])
  BY DEF Frame
<1>2. ASSUME op[u].pc \in Copying PROVE task[u].st = "running" /\ task'[u].st = "running"
  <2>1. op[u].pc # "idle" /\ op'[u].pc # "idle"
    BY <1>1, <1>2 DEF Copying
  <2>2. CallOK(u, op[u], task[u], task[op[u].p]) /\ CallOK(u, op'[u], task'[u], task'[op'[u].p])
    BY DEF LinkInv, Links, Structure
  <2> QED BY <2>1, <2>2 DEF CallOK
<1> QED BY <1>1, <1>2

(* A stage of copy_process changes the new task alone.                       *)
LEMMA BuildOthers ==
  ASSUME LinkInv, LinkInv', NEW t \in Tasks, BuildFrame(t)
  PROVE  Others(t)
<1>1. Frame(t, op[t].p) /\ op[t].pc \in Building
  BY DEF BuildFrame
<1>2. task[op[t].p].st = "built"
  BY <1>1 DEF LinkInv, Links, Structure, CallOK
<1> QED BY <1>1, <1>2, FrameOthers

(* Equal pointers are equal maps.                                            *)
LEMMA SamePointersMm ==
  ASSUME NEW r, NEW q, SamePointers(r, q)
  PROVE  r.mm = q.mm
<1> "mm" \in Kinds
  BY DEF Kinds
<1> QED BY DEF SamePointers

(* No step disturbs the copies of other calls.                               *)
LEMMA StepOthers ==
  ASSUME LinkInv, LinkInv', NEW t \in Tasks, Step(t)
  PROVE  Others(t)
<1>l. ForkTypeOK /\ Links
  BY DEF LinkInv
<1>1. CASE copy_creds(t) \/ check_threads(t) \/ CopySetup(t) \/ CopyContext(t)
  BY <1>l, <1>1, SetupFrame, BuildOthers
<1>2. CASE CopyShared(t) \/ copy_signal(t)
  BY <1>l, <1>2, CopySharedFrame, CopySignalFrame, BuildOthers
<1>3. CASE copy_mm(t) \/ dup_mmap(t) \/ get_binfmt(t) \/ free_pt(t)
  BY <1>l, <1>3, CopyMmFrame, DupMmFrame, BuildOthers
<1>4. CASE CleanupContext(t) \/ CleanupMm(t) \/ CleanupSignal(t) \/ CleanupShared(t)
  BY <1>l, <1>4, CleanupFrame, BuildOthers
<1>o. ASSUME Frame(t, t) PROVE Others(t)
  BY <1>o, FrameOthers
<1>5. ASSUME OwnFrame(t) PROVE Others(t)
  BY <1>5, <1>o DEF OwnFrame
<1>6. CASE mm_access(t) \/ mm_access_end(t) \/ unshare(t) \/ unshare_fs(t) \/ unshare_fd(t) \/ unshare_namespaces(t)
  BY <1>l, <1>5, <1>6, MmAccessFrame, UnshareFrame
<1>7. CASE unshare_install(t) \/ unshare_cleanup_fd(t) \/ unshare_cleanup_fs(t) \/ unshare_files(t)
  BY <1>l, <1>5, <1>7, UnshareInstallFrame, UnshareEndFrame, UnshareFilesFrame
<1>10. CASE do_exit(t) \/ mm_release(t) \/ exit_mm(t) \/ ExitShared(t)
  BY <1>l, <1>5, <1>10, ExitFrame
<1>11. CASE dup_task_struct(t)
  <2>1. Frame(t, op'[t].p) /\ task[op'[t].p].st = "free"
    BY <1>11, DupShape DEF DupFrame
  <2> QED BY <2>1, FrameOthers
<1>12. CASE Publish(t)
  <2>1. CASE BuildFrame(t)
    BY <2>1, BuildOthers
  <2>2. CASE PublishFrame(t)
    <3>1. Frame(t, op[t].p) /\ task[op[t].p].st = "built"
      BY <2>2 DEF PublishFrame
    <3> QED BY <3>1, FrameOthers
  <2> QED BY <1>12, <2>1, <2>2, PublishShape
<1>13. CASE FreeTask(t)
  <2>1. Frame(t, op[t].p) /\ task[op[t].p].st = "built"
    BY <1>13, FreeShape DEF FreeFrame
  <2> QED BY <2>1, FrameOthers
<1>14. CASE wake_up_new_task(t)
  <2>1. Frame(t, op[t].p) /\ task[op[t].p].st = "new"
    BY <1>14, WakeShape DEF WakeFrame
  <2> QED BY <2>1, FrameOthers
<1>15. CASE wait_for_vfork_done(t)
  <2>1. Frame(t, op[t].p) /\ UNCHANGED task
    BY <1>15, WaitedShape DEF WaitedFrame
  <2> QED BY <2>1, FrameOthers
<1>16. CASE vfork_killed(t)
  <2>1. Frame(t, op[t].p) /\ task'[op[t].p].mm = task[op[t].p].mm
    BY <1>16, KilledShape, SamePointersMm DEF KilledFrame
  <2> QED BY <2>1, FrameOthers
<1>17. CASE vfork_put(t)
  <2>1. Frame(t, op[t].p) /\ PutFrame(op[t].p, task[op[t].p].st)
    BY <1>17, VforkPutShape DEF VforkPutFrame
  <2>2. task'[op[t].p].st # "running" \/ task'[op[t].p].mm = task[op[t].p].mm
    BY <2>1, SamePointersMm DEF PutFrame, NoStruct
  <2> QED BY <2>1, <2>2, FrameOthers
<1>18. CASE complete_vfork_done(t) \/ complete(t)
  BY <1>18, <1>o, ReleaseShape, CompleteShape DEF ReleaseFrame, CompleteFrame
<1>19. CASE release_task(t) \/ finish_task_switch(t)
  BY <1>19, <1>o, DeadShape, SwitchShape DEF DeadFrame, SwitchFrame
<1> QED
  BY <1>1, <1>2, <1>3, <1>4, <1>6, <1>7, <1>10, <1>11, <1>12, <1>13, <1>14, <1>15, <1>16,
     <1>17, <1>18, <1>19 DEF Step

-----------------------------------------------------------------------------
(* What a step may do to memory maps *)

(* Nothing: at most a task takes another reference to a map somebody sees.   *)
MemQuiet(t) ==
  /\ UNCHANGED <<mms, committed, file_refs>>
  /\ \A o \in Objects : \/ count'["mm"][o] = count["mm"][o]
                        \/ count'["mm"][o] = count["mm"][o] + 1 /\ \E x \in Tasks : Seen(task[x], "mm") = o
  /\ op[t].pc \notin {"dup_mmap", "free_pt"} /\ op'[t].pc \notin {"dup_mmap", "binfmt"}
  /\ op'[t].pc = "free_pt" => op[t].pc = "binfmt" /\ op'[t].new = op[t].new

(* ... which leaves the accounts as they are.                                *)
LEMMA QuietMemory ==
  ASSUME LinkInv, Counted, MemoryOK, NEW t \in Tasks, Others(t), MemQuiet(t)
  PROVE  MemoryOK'
<1>1. ASSUME NEW u \in Tasks, op'[u].pc \in Copying PROVE op[u].pc \in Copying /\ op'[u].new = op[u].new
  BY <1>1 DEF Others, MemQuiet, Copying
<1>2. Private'
  <2> SUFFICES ASSUME NEW u \in Tasks, op'[u].pc \in Copying
               PROVE  op'[u].new \in Objects /\ count'["mm"][op'[u].new] = 1
    BY DEF Private
  <2> DEFINE o == op[u].new
  <2>1. op[u].pc \in Copying /\ op'[u].new = o /\ o \in Objects /\ count["mm"][o] = 1
    BY <1>1 DEF MemoryOK, Private
  <2>2. MmRef(u, o) /\ KeptNow(u, "mm") = o
    BY <2>1, CopyingKeeps DEF MmRef
  <2>3. \A x \in Tasks : Seen(task[x], "mm") # o
    BY <2>1, <2>2, MmReferences DEF MmRef
  <2> QED BY <2>1, <2>3 DEF MemQuiet
<1>3. Started'
  <2> SUFFICES ASSUME NEW u \in Tasks, op'[u].pc = "dup_mmap"
               PROVE  task'[u].mm \in Objects /\ mms'[op'[u].new] = [mms'[task'[u].mm] EXCEPT !.vmas = <<>>]
    BY DEF Started
  <2>1. u # t /\ op'[u] = op[u] /\ task'[u].mm = task[u].mm
    BY DEF MemQuiet, Others, Copying
  <2>2. task[u].mm \in Objects /\ mms[op[u].new] = [mms[task[u].mm] EXCEPT !.vmas = <<>>]
    BY <2>1 DEF MemoryOK, Started
  <2> QED BY <2>1, <2>2 DEF MemQuiet
<1>4. Sizes'
  <2> SUFFICES ASSUME NEW o \in Objects, ~Sized(mms'[o])
               PROVE  \E u \in Tasks : op'[u].pc \in {"dup_mmap", "free_pt"} /\ op'[u].new = o
    BY DEF Sizes, Sized
  <2>1. mms' = mms
    BY DEF MemQuiet
  <2>2. PICK u \in Tasks : op[u].pc \in {"dup_mmap", "free_pt"} /\ op[u].new = o
    BY <2>1 DEF MemoryOK, Sizes
  <2>3. op'[u] = op[u]
    BY <2>2 DEF Others, MemQuiet
  <2> QED BY <2>2, <2>3
<1>5. Unused'
  <2> SUFFICES ASSUME NEW o \in Objects, count'["mm"][o] = 0 PROVE mms'[o] = NoMm
    BY DEF Unused
  <2>1. count["mm"][o] \in Nat
    BY MmReferences
  <2>2. count["mm"][o] = 0
    BY <2>1 DEF MemQuiet
  <2> QED BY <2>2 DEF MemQuiet, MemoryOK, Unused
<1> QED BY <1>2, <1>3, <1>4, <1>5 DEF MemoryOK, MemQuiet

(* A reference of t to o is put.                                             *)
MemPut(t, o) ==
  /\ o \in Objects /\ MmRef(t, o) /\ mmput(o)
  /\ op'[t].pc \notin Copying
  /\ op[t].pc \in Copying => op[t].pc = "free_pt" /\ op[t].new = o

(* What mmput does to the counts and the accounts.                           *)
LEMMA MmputFacts ==
  ASSUME ForkTypeOK, mms \in [Objects -> Mm], NEW o \in Objects, mmput(o)
  PROVE  /\ count'["mm"][o] = count["mm"][o] - 1
         /\ \A x \in Objects : x # o => count'["mm"][x] = count["mm"][x]
         /\ count["mm"][o] # 1 => UNCHANGED <<mms, committed, file_refs>>
         /\ count["mm"][o] = 1 => /\ mms' = [mms EXCEPT ![o] = NoMm]
                                  /\ committed' = committed - Accounted(mms[o].vmas)
                                  /\ file_refs' = file_refs - FilesOf(mms[o])
<1>1. "mm" \in Kinds /\ count["mm"] \in [Objects -> Int]
  BY DEF ForkTypeOK, Kinds
<1>2. count' = [count EXCEPT !["mm"][o] = @ - 1]
  BY DEF mmput, Put
<1>3. count'["mm"] = [count["mm"] EXCEPT ![o] = @ - 1]
  BY <1>1, <1>2 DEF ForkTypeOK
<1>4. count'["mm"][o] = count["mm"][o] - 1 /\ \A x \in Objects : x # o => count'["mm"][x] = count["mm"][x]
  BY <1>1, <1>3
<1> QED BY <1>4 DEF mmput, memory

(* The last reference takes the map and all it accounts for with it.         *)
LEMMA PutMemory ==
  ASSUME LinkInv, Counted, MemoryOK, NEW t \in Tasks, Others(t), NEW o, MemPut(t, o)
  PROVE  MemoryOK'
<1>0. ForkTypeOK /\ mms \in [Objects -> Mm] /\ o \in Objects /\ MmRef(t, o) /\ mmput(o)
  BY DEF LinkInv, MemoryOK, MemPut
<1>1. count["mm"][o] \in Nat /\ count["mm"][o] # 0
  BY <1>0, MmReferences
<1>2. \A x \in Objects : x # o => count'["mm"][x] = count["mm"][x] /\ mms'[x] = mms[x]
  BY <1>0, MmputFacts
<1>3. mms' \in [Objects -> Mm]
  BY <1>0, MmputFacts, MmCounts
<1>4. ASSUME NEW u \in Tasks, op'[u].pc \in Copying
      PROVE  /\ u # t /\ op'[u] = op[u] /\ op[u].new \in Objects /\ op[u].new # o
             /\ count["mm"][op[u].new] = 1 /\ task[u].st = "running" /\ task'[u].mm = task[u].mm
  <2>1. u # t /\ op'[u] = op[u]
    BY <1>4 DEF MemPut, Others
  <2>2. op[u].new \in Objects /\ count["mm"][op[u].new] = 1 /\ MmRef(u, op[u].new) /\ task[u].st = "running"
    BY <1>4, <2>1, CopyingKeeps DEF MemoryOK, Private, MmRef
  <2>3. op[u].new # o
    BY <1>0, <2>1, <2>2, MmReferences
  <2> QED BY <1>4, <2>1, <2>2, <2>3 DEF Others
<1>5. Private'
  BY <1>2, <1>4 DEF Private
<1>6. Started'
  <2> SUFFICES ASSUME NEW u \in Tasks, op'[u].pc = "dup_mmap"
               PROVE  task'[u].mm \in Objects /\ mms'[op'[u].new] = [mms'[task'[u].mm] EXCEPT !.vmas = <<>>]
    BY DEF Started
  <2>1. /\ u # t /\ op'[u] = op[u] /\ op[u].new \in Objects /\ op[u].new # o
        /\ task[u].st = "running" /\ task'[u].mm = task[u].mm
    BY <1>4 DEF Copying
  <2>2. task[u].mm \in Objects /\ mms[op[u].new] = [mms[task[u].mm] EXCEPT !.vmas = <<>>]
    BY <2>1 DEF MemoryOK, Started
  <2>3. MmRef(u, task[u].mm)
    BY <2>1, CopyingKeeps DEF MmRef
  <2>4. mms'[task[u].mm] = mms[task[u].mm]
    <3>1. CASE task[u].mm # o
      BY <1>2, <2>2, <3>1
    <3>2. CASE task[u].mm = o
      <4>1. count["mm"][o] # 1
        BY <1>0, <2>1, <2>3, <3>2, MmReferences
      <4> QED BY <1>0, <4>1, MmputFacts
    <3> QED BY <3>1, <3>2
  <2> QED BY <1>2, <2>1, <2>2, <2>4
<1>7. Sizes'
  <2> SUFFICES ASSUME NEW x \in Objects, ~Sized(mms'[x])
               PROVE  \E u \in Tasks : op'[u].pc \in {"dup_mmap", "free_pt"} /\ op'[u].new = x
    BY DEF Sizes, Sized
  <2>1. mms'[x] = mms[x]
    <3>1. CASE x # o
      BY <1>2, <3>1
    <3>2. CASE x = o
      <4>1. CASE count["mm"][o] = 1
        <5>1. mms'[o] = NoMm
          BY <1>0, <4>1, MmputFacts
        <5> QED BY <3>2, <5>1, MmCounts
      <4>2. CASE count["mm"][o] # 1
        BY <1>0, <4>2, MmputFacts
      <4> QED BY <4>1, <4>2
    <3> QED BY <3>1, <3>2
  <2>2. PICK u \in Tasks : op[u].pc \in {"dup_mmap", "free_pt"} /\ op[u].new = x
    BY <2>1 DEF MemoryOK, Sizes
  <2>3. u # t
    <3> SUFFICES ASSUME u = t PROVE FALSE
      OBVIOUS
    <3>1. op[t].pc \in Copying /\ op[t].new = o /\ x = o
      BY <2>2 DEF MemPut, Copying
    <3>2. count["mm"][o] = 1
      BY <3>1 DEF MemoryOK, Private
    <3>3. mms'[o] = NoMm
      BY <1>0, <3>2, MmputFacts
    <3> QED BY <3>1, <3>3, MmCounts
  <2> QED BY <2>2, <2>3 DEF Others
<1>8. Unused'
  <2> SUFFICES ASSUME NEW x \in Objects, count'["mm"][x] = 0 PROVE mms'[x] = NoMm
    BY DEF Unused
  <2>1. CASE x # o
    BY <1>2, <2>1 DEF MemoryOK, Unused
  <2>2. CASE x = o
    <3>1. count["mm"][o] = 1
      BY <1>0, <1>1, <2>2, MmputFacts
    <3> QED BY <1>0, <2>2, <3>1, MmputFacts
  <2> QED BY <2>1, <2>2
<1>9. Sums(mms', committed', file_refs')
  <2>0. Sums(mms, committed, file_refs)
    BY DEF MemoryOK
  <2>1. CASE count["mm"][o] = 1
    <3>1. /\ mms'[o] = NoMm
          /\ committed' = committed - Accounted(mms[o].vmas) /\ file_refs' = file_refs - FilesOf(mms[o])
      BY <1>0, <2>1, MmputFacts
    <3>2. /\ committed \in Nat /\ file_refs \in Nat
          /\ Sums(mms', (committed - Accounted(mms[o].vmas)) + Accounted(mms'[o].vmas),
                        (file_refs - FilesOf(mms[o])) + FilesOf(mms'[o]))
      BY <1>0, <1>2, <1>3, <2>0, SumsChanged
    <3>3. Accounted(mms'[o].vmas) = 0 /\ FilesOf(mms'[o]) = 0 /\ Accounted(mms[o].vmas) \in Nat /\ FilesOf(mms[o]) \in Nat
      BY <1>0, <3>1, MmCounts
    <3>4. /\ (committed - Accounted(mms[o].vmas)) + Accounted(mms'[o].vmas) = committed'
          /\ (file_refs - FilesOf(mms[o])) + FilesOf(mms'[o]) = file_refs'
      BY <3>1, <3>2, <3>3
    <3> QED BY <3>2, <3>4
  <2>2. CASE count["mm"][o] # 1
    BY <1>0, <2>0, <2>2, MmputFacts
  <2> QED BY <2>1, <2>2
<1> QED BY <1>3, <1>5, <1>6, <1>7, <1>8, <1>9 DEF MemoryOK

-----------------------------------------------------------------------------
(* The steps on memory maps *)

(* A map without its vmas is a map.                                          *)
LEMMA MmEmptied ==
  ASSUME NEW a \in Mm
  PROVE  /\ [a EXCEPT !.vmas = <<>>] \in Mm /\ [a EXCEPT !.vmas = <<>>].vmas = <<>>
         /\ [a EXCEPT !.vmas = <<>>].exe_file = a.exe_file
<1> <<>> \in Seq(VmaStruct)
  OBVIOUS
<1> QED BY DEF Mm

Refilled(a, v, k) == [a EXCEPT !.vmas = v, !.total_vm = @ - k]
(* ... and so is one with other vmas.                                        *)
LEMMA MmRefilled ==
  ASSUME NEW a \in Mm, NEW v \in Seq(VmaStruct), NEW k \in Int
  PROVE  /\ Refilled(a, v, k) \in Mm /\ Refilled(a, v, k).vmas = v
         /\ Refilled(a, v, k).total_vm = a.total_vm - k /\ Refilled(a, v, k).exe_file = a.exe_file
<1>1. a.total_vm \in Int /\ a.total_vm - k \in Int
  BY DEF Mm
<1> QED BY <1>1 DEF Mm, Refilled

(* dup_mm: a fresh map, a copy of the caller's without its vmas.             *)
MemStart(t, o) ==
  /\ op[t].pc = "mm" /\ task[t].st = "running" /\ task[t].mm \in Objects
  /\ o \in Objects /\ count["mm"][o] = 0 /\ count'["mm"][o] = 1
  /\ \A x \in Objects : x # o => count'["mm"][x] = count["mm"][x]
  /\ mms' = [mms EXCEPT ![o] = [mms[task[t].mm] EXCEPT !.vmas = <<>>]]
  /\ committed' = committed /\ file_refs' = file_refs + (IF mms[task[t].mm].exe_file THEN 1 ELSE 0)
  /\ op'[t].pc = "dup_mmap" /\ op'[t].new = o /\ task'[t].mm = task[t].mm

(* Only exe_file is accounted for in a copy that was just started.           *)
LEMMA StartMemory ==
  ASSUME LinkInv, Counted, MemoryOK, NEW t \in Tasks, Others(t), NEW o, MemStart(t, o)
  PROVE  MemoryOK'
<1> DEFINE old == mms[task[t].mm]
           new == [old EXCEPT !.vmas = <<>>]
<1>0. /\ op[t].pc = "mm" /\ task[t].st = "running" /\ task[t].mm \in Objects /\ o \in Objects
      /\ count["mm"][o] = 0 /\ mms \in [Objects -> Mm] /\ old \in Mm /\ mms' = [mms EXCEPT ![o] = new]
  BY DEF MemStart, MemoryOK
<1>1. new \in Mm /\ new.vmas = <<>> /\ new.exe_file = old.exe_file
  <2> old \in Mm
    BY <1>0
  <2> HIDE DEF old
  <2> QED BY MmEmptied, Zenon
<1>2. mms' \in [Objects -> Mm] /\ mms'[o] = new /\ \A x \in Objects : x # o => mms'[x] = mms[x]
  <2> HIDE DEF new
  <2> QED BY <1>0, <1>1
<1>3. ASSUME NEW u \in Tasks, task[u].st = "running", task[u].mm \in Objects PROVE task[u].mm # o
  <2>1. MmRef(u, task[u].mm)
    BY <1>3, CopyingKeeps DEF MmRef
  <2> QED BY <1>0, <1>3, <2>1, MmReferences
<1>4. ASSUME NEW u \in Tasks, u # t, op'[u].pc \in Copying
      PROVE  /\ op'[u] = op[u] /\ op[u].new \in Objects /\ op[u].new # o /\ count["mm"][op[u].new] = 1
             /\ task'[u].mm = task[u].mm /\ task[u].st = "running"
  <2>1. op'[u] = op[u] /\ task'[u].mm = task[u].mm
    BY <1>4 DEF Others
  <2>2. op[u].new \in Objects /\ count["mm"][op[u].new] = 1 /\ task[u].st = "running"
    BY <1>4, <2>1, CopyingKeeps DEF MemoryOK, Private
  <2> QED BY <1>0, <2>1, <2>2
<1>5. Private'
  <2> SUFFICES ASSUME NEW u \in Tasks, op'[u].pc \in Copying
               PROVE  op'[u].new \in Objects /\ count'["mm"][op'[u].new] = 1
    BY DEF Private
  <2>1. CASE u = t
    BY <2>1 DEF MemStart
  <2>2. CASE u # t
    BY <1>4, <2>2 DEF MemStart
  <2> QED BY <2>1, <2>2
<1>6. Started'
  <2> SUFFICES ASSUME NEW u \in Tasks, op'[u].pc = "dup_mmap"
               PROVE  task'[u].mm \in Objects /\ mms'[op'[u].new] = [mms'[task'[u].mm] EXCEPT !.vmas = <<>>]
    BY DEF Started
  <2>1. CASE u = t
    <3>1. op'[t].new = o /\ task'[t].mm = task[t].mm /\ task[t].mm # o
      BY <1>0, <1>3 DEF MemStart
    <3>2. mms'[task[t].mm] = old
      BY <1>0, <1>2, <3>1
    <3> HIDE DEF old
    <3> QED BY <1>0, <1>2, <2>1, <3>1, <3>2
  <2>2. CASE u # t
    <3>1. op'[u] = op[u] /\ op[u].new \in Objects /\ op[u].new # o /\ task'[u].mm = task[u].mm /\ task[u].st = "running"
      BY <1>4, <2>2 DEF Copying
    <3>2. task[u].mm \in Objects /\ mms[op[u].new] = [mms[task[u].mm] EXCEPT !.vmas = <<>>]
      BY <3>1 DEF MemoryOK, Started
    <3>3. task[u].mm # o
      BY <1>3, <3>1, <3>2
    <3>4. mms'[op[u].new] = mms[op[u].new] /\ mms'[task[u].mm] = mms[task[u].mm]
      BY <1>2, <3>1, <3>2, <3>3
    <3> HIDE DEF new, old
    <3> QED BY <3>1, <3>2, <3>4
  <2> QED BY <2>1, <2>2
<1>7. Sizes'
  <2> SUFFICES ASSUME NEW x \in Objects, ~Sized(mms'[x])
               PROVE  \E u \in Tasks : op'[u].pc \in {"dup_mmap", "free_pt"} /\ op'[u].new = x
    BY DEF Sizes, Sized
  <2>1. CASE x = o
    BY <2>1 DEF MemStart
  <2>2. CASE x # o
    <3>1. ~Sized(mms[x])
      BY <1>2, <2>2
    <3>2. PICK u \in Tasks : op[u].pc \in {"dup_mmap", "free_pt"} /\ op[u].new = x
      BY <3>1 DEF MemoryOK, Sizes
    <3>3. u # t
      BY <1>0, <3>2
    <3> QED BY <3>2, <3>3 DEF Others
  <2> QED BY <2>1, <2>2
<1>8. Unused'
  <2> SUFFICES ASSUME NEW x \in Objects, count'["mm"][x] = 0 PROVE mms'[x] = NoMm
    BY DEF Unused
  <2>1. x # o /\ count["mm"][x] = 0
    BY DEF MemStart
  <2> QED BY <1>2, <2>1 DEF MemoryOK, Unused
<1>9. Sums(mms', committed', file_refs')
  <2> HIDE DEF new, old
  <2>1. mms[o] = NoMm /\ Sums(mms, committed, file_refs)
    BY <1>0 DEF MemoryOK, Unused
  <2>2. /\ committed \in Nat /\ file_refs \in Nat
        /\ Sums(mms', (committed - Accounted(mms[o].vmas)) + Accounted(mms'[o].vmas),
                      (file_refs - FilesOf(mms[o])) + FilesOf(mms'[o]))
    BY <1>0, <1>2, <2>1, SumsChanged
  <2>3. Accounted(mms[o].vmas) = 0 /\ FilesOf(mms[o]) = 0 /\ Accounted(new.vmas) = 0
    BY <1>1, <2>1, MmCounts
  <2>4. FilesOf(new) = IF old.exe_file THEN 1 ELSE 0
    BY <1>1, MmCounts DEF FilesOf
  <2>5. committed' = committed /\ file_refs' = file_refs + (IF old.exe_file THEN 1 ELSE 0)
    BY DEF MemStart, old
  <2>6. /\ (committed - Accounted(mms[o].vmas)) + Accounted(mms'[o].vmas) = committed'
        /\ (file_refs - FilesOf(mms[o])) + FilesOf(mms'[o]) = file_refs'
    BY <1>2, <2>2, <2>3, <2>4, <2>5
  <2> QED BY <2>2, <2>6
<1> QED BY <1>2, <1>5, <1>6, <1>7, <1>8, <1>9 DEF MemoryOK

(* dup_mmap: the copy gets the vmas linked before vma i.                     *)
MemFill(t, i) ==
  /\ op[t].pc = "dup_mmap" /\ i \in 1 .. Len(mms[task[t].mm].vmas) + 1 /\ DupMmapTo(t, i, 0, 0)
  /\ op'[t].new = op[t].new /\ UNCHANGED count
  /\ op'[t].pc = "free_pt" \/ (op'[t].pc = "binfmt" /\ i = Len(mms[task[t].mm].vmas) + 1)

(* What dup_mmap linked is accounted for, also where it stopped.             *)
LEMMA FillMemory ==
  ASSUME LinkInv, Counted, MemoryOK, NEW t \in Tasks, Others(t), NEW i, MemFill(t, i)
  PROVE  MemoryOK'
<1> DEFINE o == op[t].new
           old == mms[task[t].mm].vmas
           new == Linked(old, i)
           skipped == Cardinality(Skipped(old, i))
           m == Refilled(mms[o], new, skipped)
<1>0. /\ op[t].pc = "dup_mmap" /\ mms \in [Objects -> Mm] /\ o \in Objects /\ count["mm"][o] = 1
      /\ MmRef(t, o) /\ KeptNow(t, "mm") = o /\ task[t].st = "running" /\ task[t].mm \in Objects
      /\ mms[o] = [mms[task[t].mm] EXCEPT !.vmas = <<>>]
  <2>1. op[t].pc = "dup_mmap" /\ op[t].pc \in Copying
    BY DEF MemFill, Copying
  <2>2. o \in Objects /\ count["mm"][o] = 1 /\ task[t].mm \in Objects /\ mms[o] = [mms[task[t].mm] EXCEPT !.vmas = <<>>]
    BY <2>1 DEF MemoryOK, Private, Started
  <2>3. KeptNow(t, "mm") = o /\ task[t].st = "running"
    BY <2>1, CopyingKeeps
  <2> QED BY <2>1, <2>2, <2>3 DEF MmRef, MemoryOK
<1>1. mms[o] \in Mm /\ mms[task[t].mm] \in Mm /\ old \in Seq(VmaStruct) /\ Len(old) \in Nat
  BY <1>0 DEF Mm
<1>2. mms[o].vmas = <<>> /\ mms[o].total_vm = mms[task[t].mm].total_vm /\ mms[o].total_vm \in Int
  BY <1>0, <1>1 DEF Mm
<1>3. /\ new \in Seq(VmaStruct) /\ skipped \in Nat /\ Len(new) = (i - 1) - skipped /\ i \in Nat
  <2>1. i \in 1 .. Len(old) + 1
    BY DEF MemFill
  <2> HIDE DEF old
  <2> QED BY <1>1, <2>1, LinkedFacts
<1>4. mms' = [mms EXCEPT ![o] = m]
  <2>1. mms' = [mms EXCEPT ![o].vmas = new, ![o].total_vm = @ - skipped]
    BY DEF MemFill, DupMmapTo
  <2> HIDE DEF new, skipped
  <2> QED BY <1>0, <1>1, <2>1 DEF Mm, Refilled
<1>5. m \in Mm /\ m.vmas = new /\ m.total_vm = mms[o].total_vm - skipped /\ m.exe_file = mms[o].exe_file
  <2>1. mms[o] \in Mm /\ new \in Seq(VmaStruct) /\ skipped \in Int
    BY <1>1, <1>3
  <2> HIDE DEF new, skipped, o
  <2> QED BY <2>1, MmRefilled, Zenon
<1> HIDE DEF m, new, skipped
<1>6. mms' \in [Objects -> Mm] /\ mms'[o] = m /\ \A x \in Objects : x # o => mms'[x] = mms[x]
  BY <1>0, <1>4, <1>5
<1>7. ASSUME NEW u \in Tasks, u # t PROVE ~MmRef(u, o)
  BY <1>0, <1>7, MmReferences
<1>8. ASSUME NEW u \in Tasks, u # t, op'[u].pc \in Copying
      PROVE  /\ op'[u] = op[u] /\ op[u].new \in Objects /\ op[u].new # o /\ count["mm"][op[u].new] = 1
             /\ task'[u].mm = task[u].mm /\ task[u].mm # o
  <2>1. op'[u] = op[u] /\ task'[u].mm = task[u].mm
    BY <1>8 DEF Others
  <2>2. op[u].new \in Objects /\ count["mm"][op[u].new] = 1 /\ MmRef(u, op[u].new) /\ MmRef(u, task[u].mm)
    BY <1>8, <2>1, CopyingKeeps DEF MemoryOK, Private, MmRef
  <2>3. ~MmRef(u, o)
    BY <1>7, <1>8
  <2> HIDE DEF o
  <2> QED BY <2>1, <2>2, <2>3
<1>9. Private'
  <2> SUFFICES ASSUME NEW u \in Tasks, op'[u].pc \in Copying
               PROVE  op'[u].new \in Objects /\ count'["mm"][op'[u].new] = 1
    BY DEF Private
  <2>1. CASE u = t
    BY <1>0, <2>1 DEF MemFill
  <2>2. CASE u # t
    BY <1>8, <2>2 DEF MemFill
  <2> QED BY <2>1, <2>2
<1>10. Started'
  <2> SUFFICES ASSUME NEW u \in Tasks, op'[u].pc = "dup_mmap"
               PROVE  task'[u].mm \in Objects /\ mms'[op'[u].new] = [mms'[task'[u].mm] EXCEPT !.vmas = <<>>]
    BY DEF Started
  <2>1. u # t
    BY DEF MemFill
  <2>2. op'[u] = op[u] /\ op[u].new \in Objects /\ op[u].new # o /\ task'[u].mm = task[u].mm /\ task[u].mm # o
    BY <1>8, <2>1 DEF Copying
  <2>3. task[u].mm \in Objects /\ mms[op[u].new] = [mms[task[u].mm] EXCEPT !.vmas = <<>>]
    BY <2>2 DEF MemoryOK, Started
  <2>4. mms'[op[u].new] = mms[op[u].new] /\ mms'[task[u].mm] = mms[task[u].mm]
    BY <1>6, <2>2, <2>3
  <2> HIDE DEF o
  <2> QED BY <2>2, <2>3, <2>4
<1>11. Sizes'
  <2> SUFFICES ASSUME NEW x \in Objects, ~Sized(mms'[x])
               PROVE  \E u \in Tasks : op'[u].pc \in {"dup_mmap", "free_pt"} /\ op'[u].new = x
    BY DEF Sizes, Sized
  <2>1. CASE x = o /\ op'[t].pc = "free_pt"
    BY <2>1 DEF MemFill
  <2>2. CASE x = o /\ op'[t].pc # "free_pt"
    <3>1. i = Len(old) + 1
      BY <2>2 DEF MemFill
    <3>2. Sized(mms[task[t].mm])
      <4> SUFFICES ASSUME ~Sized(mms[task[t].mm]) PROVE FALSE
        OBVIOUS
      <4>1. PICK u \in Tasks : op[u].pc \in {"dup_mmap", "free_pt"} /\ op[u].new = task[t].mm
        BY <1>0 DEF MemoryOK, Sizes
      <4>2. /\ op[u].pc \in Copying /\ count["mm"][task[t].mm] = 1 /\ KeptNow(u, "mm") = task[t].mm
            /\ Seen(task[t], "mm") = task[t].mm
        BY <1>0, <4>1, CopyingKeeps DEF Copying, MemoryOK, Private
      <4>3. u = t
        BY <1>0, <4>2, MmReferences DEF MmRef
      <4> QED BY <1>0, <4>2, <4>3, MmReferences
    <3>3. mms[o].total_vm = Len(old)
      BY <1>2, <3>2 DEF Sized
    <3>4. m.total_vm = Len(m.vmas)
      BY <1>1, <1>3, <1>5, <3>1, <3>3
    <3> QED BY <1>6, <2>2, <3>4 DEF Sized
  <2>3. CASE x # o
    <3>1. ~Sized(mms[x])
      BY <1>6, <2>3
    <3>2. PICK u \in Tasks : op[u].pc \in {"dup_mmap", "free_pt"} /\ op[u].new = x
      BY <3>1 DEF MemoryOK, Sizes
    <3>3. u # t
      BY <2>3, <3>2
    <3> QED BY <3>2, <3>3 DEF Others
  <2> QED BY <2>1, <2>2, <2>3
<1>12. Unused'
  <2> SUFFICES ASSUME NEW x \in Objects, count'["mm"][x] = 0 PROVE mms'[x] = NoMm
    BY DEF Unused
  <2>1. count["mm"][x] = 0 /\ x # o
    BY <1>0 DEF MemFill
  <2> QED BY <1>6, <2>1 DEF MemoryOK, Unused
<1>13. Sums(mms', committed', file_refs')
  <2>1. Sums(mms, committed, file_refs)
    BY DEF MemoryOK
  <2> HIDE DEF o
  <2>2. /\ committed \in Nat /\ file_refs \in Nat
        /\ Sums(mms', (committed - Accounted(mms[o].vmas)) + Accounted(mms'[o].vmas),
                      (file_refs - FilesOf(mms[o])) + FilesOf(mms'[o]))
    BY <1>0, <1>6, <2>1, SumsChanged
  <2>3. Accounted(mms[o].vmas) = 0 /\ Mapped(mms[o].vmas) = 0
    BY <1>2, MmCounts
  <2>4. Accounted(new) \in Nat /\ Mapped(new) \in Nat
    BY <1>5, MmCounts
  <2>5. FilesOf(m) = Mapped(new) + FilesOf(mms[o])
    BY <1>5, <2>3, <2>4 DEF FilesOf
  <2>6. FilesOf(mms[o]) \in Nat
    BY <1>1, MmCounts
  <2>7. committed' = (committed + Accounted(new)) + (0 - 0) /\ file_refs' = file_refs + Mapped(new)
    <3>1. DupMmapTo(t, i, 0, 0)
      BY DEF MemFill
    <3> USE DEF new
    <3> QED BY <3>1, Zenon DEF DupMmapTo
  <2>8. /\ (committed - Accounted(mms[o].vmas)) + Accounted(mms'[o].vmas) = committed'
        /\ (file_refs - FilesOf(mms[o])) + FilesOf(mms'[o]) = file_refs'
    BY <1>5, <1>6, <2>2, <2>3, <2>4, <2>5, <2>6, <2>7
  <2> QED BY <2>2, <2>8
<1> QED BY <1>6, <1>9, <1>10, <1>11, <1>12, <1>13 DEF MemoryOK

-----------------------------------------------------------------------------
(* Every step is one of these *)

(* goto changes the stage alone.                                             *)
LEMMA GotoPc ==
  ASSUME ForkTypeOK, NEW t \in Tasks, NEW pc, Goto(t, pc)
  PROVE  op'[t].pc = pc /\ op'[t].new = op[t].new
<1>1. op[t] \in Call /\ op'[t] = [op[t] EXCEPT !.pc = pc]
  BY DEF ForkTypeOK, Goto
<1> QED BY <1>1 DEF Call

(* Only a reference of another kind moves, in a call that copies no map.     *)
Plain(t) ==
  /\ UNCHANGED <<mms, committed, file_refs>> /\ count'["mm"] = count["mm"]
  /\ op[t].pc \notin Copying /\ op'[t].pc \notin Copying

(* Such a step is quiet.                                                     *)
LEMMA PlainQuiet == ASSUME NEW t, Plain(t) PROVE MemQuiet(t)
BY DEF Plain, MemQuiet, Copying

(* Counting another kind of object leaves the maps.                          *)
LEMMA OtherKind ==
  ASSUME ForkTypeOK, NEW k, k # "mm", NEW o, Took(k, o) \/ Put(k, o) \/ UNCHANGED count
  PROVE  count'["mm"] = count["mm"]
<1> "mm" \in Kinds
  BY DEF Kinds
<1> QED BY DEF ForkTypeOK, Took, Put

(* A label of copy_process has no copy in hand.                              *)
LEMMA UndoingPlain == \A pc \in Undoing : pc \notin Copying
BY DEF Undoing, Copying

(* A stage that fails has nothing to do with memory.                         *)
LEMMA FailPlain ==
  ASSUME ForkTypeOK, NEW t \in Tasks, op[t].pc \notin Copying, NEW s \in DOMAIN ErrorLabels, Fail(t, s)
  PROVE  Plain(t)
<1>1. op'[t].pc = OnError(s) /\ OnError(s) \in Undoing
  BY GotoPc, OnErrorUndoes DEF Fail
<1> QED BY <1>1, UndoingPlain DEF Plain, Fail, memory

(* The other stages and labels of copy_process.                              *)
LEMMA BuildPlain ==
  ASSUME LinkInv, NEW t \in Tasks,
         \/ copy_creds(t) \/ check_threads(t) \/ CopySetup(t) \/ CopyContext(t) \/ CopyShared(t) \/ copy_signal(t)
         \/ Publish(t) \/ CleanupContext(t) \/ CleanupSignal(t) \/ CleanupShared(t)
  PROVE  Plain(t)
<1>l. ForkTypeOK /\ "mm" \in Kinds
  BY DEF LinkInv, Kinds
<1>e. {"creds", "module", "files", "fs", "sighand", "signal", "publish"} \subseteq DOMAIN ErrorLabels
  BY DEF ErrorLabels
<1>1. CASE copy_creds(t) \/ check_threads(t)
  <2>1. op[t].pc \notin Copying
    BY <1>1 DEF copy_creds, check_threads, At, Copying
  <2>2. CASE Fail(t, "creds") \/ Fail(t, "module")
    BY <1>l, <1>e, <2>1, <2>2, FailPlain
  <2>3. CASE (Goto(t, "module") \/ Goto(t, "setup")) /\ UNCHANGED <<count, memory>>
    BY <1>l, <2>1, <2>3, GotoPc DEF Plain, Copying, memory
  <2> QED BY <1>1, <2>2, <2>3 DEF copy_creds, check_threads
<1>2. CASE CopySetup(t) \/ CopyContext(t)
  <2>1. op[t].pc \notin Copying /\ UNCHANGED <<count, memory>>
    BY <1>2 DEF CopySetup, CopyContext, At, Copying
  <2>2. \E pc \in Undoing \cup {"files", "publish"} : Goto(t, pc)
    <3>1. CASE CopySetup(t)
      BY <3>1, RunEnds DEF CopySetup
    <3>2. CASE CopyContext(t)
      BY <3>2, RunEnds DEF CopyContext
    <3> QED BY <1>2, <3>1, <3>2
  <2>3. op'[t].pc \in Undoing \cup {"files", "publish"}
    BY <1>l, <2>2, GotoPc
  <2>4. op'[t].pc \notin Copying
    BY <2>3 DEF Copying, Undoing
  <2> QED BY <2>1, <2>4 DEF Plain, memory
<1>3. CASE CopyShared(t)
  <2>1. PICK s \in {"files", "fs", "sighand"} :
             /\ At(t, s)
             /\ \/ /\ \E o : Took(s, o)
                   /\ Goto(t, AfterShared[s]) /\ UNCHANGED memory
                \/ Fail(t, s)
    BY <1>3 DEF CopyShared, SharedBy
  <2>2. op[t].pc \notin Copying /\ s # "mm"
    BY <2>1 DEF At, Copying
  <2>3. CASE Fail(t, s)
    BY <1>l, <1>e, <2>2, <2>3, FailPlain
  <2>4. CASE (\E o : Took(s, o)) /\ Goto(t, AfterShared[s]) /\ UNCHANGED memory
    <3>1. op'[t].pc = AfterShared[s] /\ AfterShared[s] \notin Copying
      BY <1>l, <2>4, GotoPc DEF AfterShared, Copying
    <3>2. count'["mm"] = count["mm"]
      BY <1>l, <2>2, <2>4, OtherKind
    <3> QED BY <2>2, <2>4, <3>1, <3>2 DEF Plain, memory
  <2> QED BY <2>1, <2>3, <2>4
<1>4. CASE copy_signal(t)
  <2>1. op[t].pc \notin Copying
    BY <1>4 DEF copy_signal, At, Copying
  <2>2. CASE Fail(t, "signal")
    BY <1>l, <1>e, <2>1, <2>2, FailPlain
  <2>3. CASE ((\E o : Took("signal", o)) \/ UNCHANGED count) /\ Goto(t, "mm") /\ UNCHANGED memory
    <3>1. count'["mm"] = count["mm"]
      BY <1>l, <2>3, OtherKind
    <3>2. op'[t].pc \notin Copying
      BY <1>l, <2>3, GotoPc DEF Copying
    <3> QED BY <2>1, <2>3, <3>1, <3>2 DEF Plain, memory
  <2> QED BY <1>4, <2>2, <2>3 DEF copy_signal
<1>5. CASE Publish(t)
  <2>1. op[t].pc \notin Copying
    BY <1>5 DEF Publish, At, Copying
  <2>2. CASE Fail(t, "publish")
    BY <1>l, <1>e, <2>1, <2>2, FailPlain
  <2>3. CASE (Took("signal", task[t].signal) \/ UNCHANGED count) /\ Goto(t, "wake") /\ UNCHANGED memory
    <3>1. count'["mm"] = count["mm"]
      BY <1>l, <2>3, OtherKind
    <3>2. op'[t].pc \notin Copying
      BY <1>l, <2>3, GotoPc DEF Copying
    <3> QED BY <2>1, <2>3, <3>1, <3>2 DEF Plain, memory
  <2> QED BY <1>5, <2>2, <2>3 DEF Publish
<1>6. CASE CleanupContext(t)
  <2>1. op[t].pc \notin Copying /\ UNCHANGED <<count, memory>>
    BY <1>6 DEF CleanupContext, At, Copying
  <2>2. op'[t].pc \notin Copying
    BY <1>l, <1>6, GotoPc DEF CleanupContext, Copying
  <2> QED BY <2>1, <2>2 DEF Plain, memory
<1>7. CASE CleanupSignal(t)
  <2>1. op[t].pc \notin Copying /\ UNCHANGED memory /\ (UNCHANGED count \/ Put("signal", task[op[t].p].signal))
    BY <1>7 DEF CleanupSignal, At, Copying
  <2>2. op'[t].pc \notin Copying
    BY <1>l, <1>7, GotoPc DEF CleanupSignal, Copying
  <2>3. count'["mm"] = count["mm"]
    BY <1>l, <2>1, OtherKind
  <2> QED BY <2>1, <2>2, <2>3 DEF Plain, memory
<1>8. CASE CleanupShared(t)
  <2>1. PICK k \in {"sighand", "fs", "files"} :
             At(t, CleanupAt[k]) /\ Put(k, task[op[t].p][k]) /\ Goto(t, BelowShared[k]) /\ UNCHANGED memory
    BY <1>8 DEF CleanupShared, BelowShared
  <2>2. k # "mm" /\ CleanupAt[k] \notin Copying /\ BelowShared[k] \notin Copying
    BY <2>1 DEF CleanupAt, BelowShared, Copying
  <2>3. count'["mm"] = count["mm"]
    BY <1>l, <2>1, <2>2, OtherKind
  <2>4. op[t].pc \notin Copying /\ op'[t].pc \notin Copying
    BY <1>l, <2>1, <2>2, GotoPc DEF At
  <2> QED BY <2>1, <2>3, <2>4 DEF Plain, memory
<1> QED BY <1>1, <1>2, <1>3, <1>4, <1>5, <1>6, <1>7, <1>8

(* unshare and exit, but for the map of the task.                            *)
LEMMA OwnPlain ==
  ASSUME LinkInv, LinkInv', NEW t \in Tasks,
         \/ unshare(t) \/ unshare_fs(t) \/ unshare_fd(t) \/ unshare_namespaces(t) \/ unshare_install(t)
         \/ unshare_cleanup_fd(t) \/ unshare_cleanup_fs(t) \/ unshare_files(t)
         \/ do_exit(t) \/ mm_release(t) \/ ExitShared(t)
  PROVE  Plain(t)
<1>l. ForkTypeOK /\ Links /\ "mm" \in Kinds
  BY DEF LinkInv, Kinds
<1>0. \A pc \in Own : pc \notin Copying
  BY DEF Own, Unsharing, Released, Copying
<1>1. OwnFrame(t)
  BY <1>l, UnshareFrame, UnshareInstallFrame, UnshareEndFrame, UnshareFilesFrame, ExitFrame
<1>2. op[t].pc \notin Copying /\ op'[t].pc \notin Copying
  <2>1. op'[t].pc \in Own
    BY <1>1 DEF OwnFrame, OwnOK
  <2> QED BY <1>0, <1>1, <2>1 DEF OwnFrame
<1>3. UNCHANGED memory
  BY DEF unshare, unshare_fs, unshare_fd, unshare_namespaces, unshare_install, unshare_cleanup_fd, unshare_cleanup_fs,
         unshare_files, do_exit, mm_release, ExitShared
<1>4. count'["mm"] = count["mm"]
  <2>o. ASSUME NEW k \in {"fs", "files"}, NEW o, Took(k, o) \/ Put(k, o) \/ UNCHANGED count
        PROVE  count'["mm"] = count["mm"]
    BY <1>l, <2>o, OtherKind
  <2>u. ASSUME UNCHANGED count PROVE count'["mm"] = count["mm"]
    BY <2>u
  <2>1. CASE unshare(t) \/ unshare_namespaces(t) \/ do_exit(t) \/ mm_release(t)
    BY <2>1 DEF unshare, unshare_namespaces, do_exit, mm_release
  <2>2. CASE unshare_fs(t)
    <3>1. UNCHANGED count \/ \E o : Took("fs", o)
      BY <2>2 DEF unshare_fs
    <3> QED BY <3>1, <2>o
  <2>3. CASE unshare_fd(t)
    <3>1. UNCHANGED count \/ \E o : Took("files", o)
      BY <2>3 DEF unshare_fd
    <3> QED BY <3>1, <2>o
  <2>4. CASE unshare_install(t)
    <3>1. UNCHANGED count \/ Put("fs", task[t].fs)
      BY <2>4 DEF unshare_install, Put
    <3> QED BY <3>1, <2>o
  <2>5. CASE unshare_cleanup_fd(t) \/ unshare_cleanup_fs(t)
    <3>1. UNCHANGED count \/ Put("files", op[t].new) \/ Put("fs", op[t].new_fs)
      BY <2>5 DEF unshare_cleanup_fd, unshare_cleanup_fs
    <3> QED BY <3>1, <2>o
  <2>6. CASE unshare_files(t)
    <3>1. \E o : Took("files", o)
      BY <2>6 DEF unshare_files
    <3> QED BY <3>1, <2>o
  <2>7. CASE ExitShared(t)
    <3>1. \E k \in {"fs", "files"} : \E o : Put(k, o)
      BY <2>7 DEF ExitShared, ExitAt
    <3> QED BY <3>1, <2>o
  <2> QED BY <2>1, <2>2, <2>3, <2>4, <2>5, <2>6, <2>7
<1> QED BY <1>2, <1>3, <1>4 DEF Plain, memory

(* The steps that begin and end a task.                                      *)
LEMMA TaskPlain ==
  ASSUME LinkInv, NEW t \in Tasks,
         \/ dup_task_struct(t) \/ FreeTask(t) \/ wake_up_new_task(t) \/ wait_for_vfork_done(t) \/ vfork_killed(t)
         \/ vfork_put(t) \/ complete_vfork_done(t) \/ complete(t) \/ release_task(t) \/ finish_task_switch(t)
  PROVE  Plain(t)
<1>l. ForkTypeOK /\ Links
  BY DEF LinkInv
<1>i. \A a : IsIdle(a) => a.pc \notin Copying
  BY IdleFields DEF Copying
<1>p. ASSUME NEW x, NEW st, PutFrame(x, st) PROVE count'["mm"] = count["mm"]
  BY <1>l, <1>p, OtherKind DEF PutFrame
<1>1. CASE dup_task_struct(t)
  <2>1. op[t].pc = "idle" /\ op'[t].pc = "creds" /\ UNCHANGED count
    BY <1>1, DupShape DEF DupFrame
  <2> QED BY <1>1, <2>1 DEF Plain, Copying, dup_task_struct, memory
<1>2. CASE FreeTask(t)
  <2>1. op[t].pc \in Undoing /\ IsIdle(op'[t]) /\ UNCHANGED count
    BY <1>2, FreeShape DEF FreeFrame
  <2> QED BY <1>2, <1>i, <2>1, UndoingPlain DEF Plain, FreeTask, memory
<1>3. CASE wake_up_new_task(t)
  <2>1. op[t].pc = "wake" /\ (IsIdle(op'[t]) \/ op'[t].pc = "wait_for_vfork_done") /\ UNCHANGED count
    BY <1>3, WakeShape DEF WakeFrame
  <2> QED BY <1>3, <1>i, <2>1 DEF Plain, Copying, wake_up_new_task, memory
<1>4. CASE wait_for_vfork_done(t) \/ vfork_killed(t)
  <2>1. op[t].pc = "wait_for_vfork_done" /\ op'[t].pc = "vfork_put" /\ UNCHANGED count
    BY <1>4, WaitedShape, KilledShape DEF WaitedFrame, KilledFrame
  <2> QED BY <1>4, <2>1 DEF Plain, Copying, wait_for_vfork_done, vfork_killed, memory
<1>5. CASE vfork_put(t)
  <2>1. op[t].pc = "vfork_put" /\ IsIdle(op'[t]) /\ PutFrame(op[t].p, task[op[t].p].st)
    BY <1>5, VforkPutShape DEF VforkPutFrame
  <2> QED BY <1>5, <1>i, <1>p, <2>1 DEF Plain, Copying, vfork_put, memory
<1>6. CASE complete_vfork_done(t) \/ complete(t)
  <2>1. op[t].pc \in {"complete_vfork_done", "complete"} /\ op'[t].pc \in {"complete", "exit_mm"} /\ UNCHANGED count
    BY <1>6, ReleaseShape, CompleteShape DEF ReleaseFrame, CompleteFrame
  <2> QED BY <1>6, <2>1 DEF Plain, Copying, complete_vfork_done, complete, memory
<1>7. CASE release_task(t)
  <2>1. op[t].pc = "release" /\ IsIdle(op'[t]) /\ Put("sighand", task[t].sighand)
    BY <1>7, DeadShape DEF DeadFrame
  <2>2. count'["mm"] = count["mm"]
    BY <1>l, <2>1, OtherKind
  <2> QED BY <1>7, <1>i, <2>1, <2>2 DEF Plain, Copying, release_task, memory
<1>8. CASE finish_task_switch(t)
  <2>1. task[t].st = "dead" /\ PutFrame(t, "switched") /\ UNCHANGED op
    BY <1>8, SwitchShape DEF SwitchFrame
  <2>2. op[t].pc = "idle"
    BY <1>l, <2>1 DEF Links, Structure, CallOK
  <2> QED BY <1>8, <1>p, <2>1, <2>2 DEF Plain, Copying, finish_task_switch, memory
<1> QED BY <1>1, <1>2, <1>3, <1>4, <1>5, <1>6, <1>7, <1>8

-----------------------------------------------------------------------------
(* The calls that read the map of another task *)

Accessing == \A t \in Tasks : op[t].pc = "mm_access" => op[t].new \in Objects

(* mm_access is the one step that starts such a call.                        *)
LEMMA AccessStarts ==
  ASSUME LinkInv, NEW t \in Tasks, Step(t), op'[t].pc = "mm_access"
  PROVE  mm_access(t) \/ op'[t] = op[t]
<1>l. ForkTypeOK /\ Links
  BY DEF LinkInv
<1>c. op[t] \in Call /\ \A a : IsIdle(a) => a.pc # "mm_access"
  BY <1>l, IdleFields DEF ForkTypeOK
<1>b. ~BuildFrame(t)
  BY DEF BuildFrame, Building, Forward, Undoing
<1>g. \A pc : Goto(t, pc) => pc = "mm_access"
  BY <1>l, GotoPc
<1>1. CASE copy_creds(t) \/ check_threads(t) \/ CopySetup(t) \/ CopyContext(t) \/ CopyShared(t) \/ copy_signal(t)
  BY <1>l, <1>b, <1>1, SetupFrame, CopySharedFrame, CopySignalFrame
<1>2. CASE copy_mm(t) \/ dup_mmap(t) \/ get_binfmt(t) \/ free_pt(t)
  BY <1>l, <1>b, <1>2, CopyMmFrame, DupMmFrame
<1>3. CASE CleanupContext(t) \/ CleanupMm(t) \/ CleanupSignal(t) \/ CleanupShared(t)
  BY <1>l, <1>b, <1>3, CleanupFrame
<1>4. CASE Publish(t)
  BY <1>l, <1>b, <1>4, PublishShape DEF PublishFrame
<1>5. CASE dup_task_struct(t) \/ FreeTask(t) \/ wake_up_new_task(t)
  BY <1>c, <1>l, <1>5, DupShape, FreeShape, WakeShape DEF DupFrame, FreeFrame, WakeFrame
<1>6. CASE wait_for_vfork_done(t) \/ vfork_killed(t) \/ vfork_put(t)
  BY <1>c, <1>l, <1>6, WaitedShape, KilledShape, VforkPutShape DEF WaitedFrame, KilledFrame, VforkPutFrame
<1>7. CASE complete_vfork_done(t) \/ complete(t) \/ release_task(t)
  BY <1>c, <1>l, <1>7, ReleaseShape, CompleteShape, DeadShape DEF ReleaseFrame, CompleteFrame, DeadFrame
<1>8. CASE finish_task_switch(t)
  BY <1>8 DEF finish_task_switch
<1>i. op' # [op EXCEPT ![t] = Idle]
  BY <1>l DEF ForkTypeOK, Idle
<1>9. CASE mm_access_end(t) \/ unshare_cleanup_fs(t)
  BY <1>i, <1>9 DEF mm_access_end, unshare_cleanup_fs
<1>10. CASE unshare(t)
  BY <1>c, <1>l, <1>10 DEF unshare, ForkTypeOK, Call
<1>11. CASE unshare_fs(t)
  <2>1. \/ \E o : op' = [op EXCEPT ![t].pc = "unshare_fd", ![t].new_fs = o]
        \/ Goto(t, "unshare_fd")
    BY <1>i, <1>11 DEF unshare_fs
  <2> QED BY <1>c, <1>g, <1>l, <2>1 DEF ForkTypeOK, Call
<1>12. CASE unshare_fd(t)
  <2>1. \/ \E o : op' = [op EXCEPT ![t].pc = "unshare_ns", ![t].new = o]
        \/ Goto(t, "bad_unshare_cleanup_fs") \/ Goto(t, "unshare_ns")
    BY <1>12 DEF unshare_fd
  <2> QED BY <1>c, <1>g, <1>l, <2>1 DEF ForkTypeOK, Call
<1>13. CASE unshare_namespaces(t) \/ do_exit(t) \/ mm_release(t) \/ exit_mm(t)
  BY <1>g, <1>13 DEF unshare_namespaces, do_exit, mm_release, exit_mm
<1>14. CASE unshare_install(t)
  <2>1. \E m, n : op' = [op EXCEPT ![t].pc = "bad_unshare_cleanup_fd", ![t].new_fs = m, ![t].new = n]
    BY <1>14, <1>l DEF unshare_install
  <2> QED BY <1>c, <1>l, <2>1 DEF ForkTypeOK, Call
<1>15. CASE unshare_cleanup_fd(t) \/ unshare_files(t)
  <2>1. \E n, pc : pc # "mm_access" /\ op' = [op EXCEPT ![t].pc = pc, ![t].new = n]
    BY <1>15 DEF unshare_cleanup_fd, unshare_files
  <2> QED BY <1>c, <1>l, <2>1 DEF ForkTypeOK, Call
<1>16. CASE ExitShared(t)
  <2>1. Goto(t, "exit_fs") \/ Goto(t, "release")
    BY <1>16 DEF ExitShared
  <2> QED BY <1>g, <2>1
<1> QED
  BY <1>1, <1>2, <1>3, <1>4, <1>5, <1>6, <1>7, <1>8, <1>9, <1>10, <1>11, <1>12, <1>13, <1>14, <1>15, <1>16 DEF Step

(* The call has a map in hand until it puts it.                              *)
LEMMA AccessStep ==
  ASSUME LinkInv, Accessing, NEW t \in Tasks, Step(t), Others(t)
  PROVE  Accessing'
<1> SUFFICES ASSUME NEW u \in Tasks, op'[u].pc = "mm_access" PROVE op'[u].new \in Objects
  BY DEF Accessing
<1>1. CASE u # t \/ op'[u] = op[u]
  BY <1>1 DEF Others, Accessing
<1>2. CASE u = t /\ mm_access(t)
  <2>1. PICK x \in Tasks : task[x].mm # 0 /\ op' = [op EXCEPT ![t].pc = "mm_access", ![t].new = task[x].mm]
    BY <1>2 DEF mm_access
  <2>2. task[x].mm \in Objects
    BY <2>1 DEF LinkInv, ForkTypeOK, TaskStruct, Pointer
  <2>3. op'[t].new = task[x].mm
    BY <2>1 DEF LinkInv, ForkTypeOK, Call
  <2> QED BY <1>2, <2>2, <2>3
<1> QED BY <1>1, <1>2, AccessStarts

-----------------------------------------------------------------------------
(* The steps of the calls that copy, drop and read memory maps *)

(* A map somebody sees gets another reference.                               *)
LEMMA TookQuiet ==
  ASSUME LinkInv, NEW t \in Tasks, NEW x \in Tasks, task[x].st = "running", Took("mm", task[x].mm),
         UNCHANGED memory, op[t].pc \notin Copying, op'[t].pc \notin Copying
  PROVE  MemQuiet(t)
<1>1. "mm" \in Kinds /\ task[x].mm \in Pointer /\ ForkTypeOK
  BY DEF LinkInv, ForkTypeOK, TaskStruct, Kinds
<1>2. Adds("mm", task[x].mm)
  BY <1>1, TookAdds
<1>3. count["mm"] \in [Objects -> Int]
  BY <1>1 DEF ForkTypeOK
<1>4. Seen(task[x], "mm") = task[x].mm
  BY DEF Seen
<1>5. ASSUME NEW o \in Objects
      PROVE  \/ count'["mm"][o] = count["mm"][o]
             \/ count'["mm"][o] = count["mm"][o] + 1 /\ \E y \in Tasks : Seen(task[y], "mm") = o
  <2>1. count'["mm"][o] = count["mm"][o] + Ind(task[x].mm = o)
    BY <1>2 DEF Adds
  <2> QED BY <1>3, <1>4, <2>1 DEF Ind
<1> QED BY <1>5 DEF MemQuiet, Copying, memory

(* copy_mm shares the map, starts a copy, or does nothing.                   *)
LEMMA CopyMmMemory ==
  ASSUME LinkInv, Counted, MemoryOK, NEW t \in Tasks, Others(t), copy_mm(t)
  PROVE  MemoryOK'
<1> DEFINE p == op[t].p
<1>1. ForkTypeOK /\ Links /\ "mm" \in Building /\ At(t, "mm") /\ "mm" \in Kinds
  BY DEF LinkInv, copy_mm, Building, Forward, Kinds
<1>2. /\ op[t].pc = "mm" /\ p \in Tasks /\ p # t /\ task[t].st = "running" /\ task[t] \in TaskStruct
      /\ op[t].pc \notin Copying
  BY <1>1, AtBuilding DEF Copying
<1>3. CASE (Goto(t, "context") \/ Goto(t, OnError("mm"))) /\ UNCHANGED <<count, memory>>
  <2>1. op'[t].pc = "context" \/ op'[t].pc \in Undoing
    BY <1>1, <1>3, GotoPc, OnErrorUndoes DEF Undoing
  <2>2. op'[t].pc \notin Copying
    BY <2>1, UndoingPlain DEF Copying
  <2>3. Plain(t)
    BY <1>2, <1>3, <2>2 DEF Plain, memory
  <2> QED BY <2>3, PlainQuiet, QuietMemory
<1>4. CASE Took("mm", task[t].mm) /\ Goto(t, "context") /\ UNCHANGED memory
  <2>1. op'[t].pc \notin Copying
    BY <1>1, <1>4, GotoPc DEF Copying
  <2> QED BY <1>2, <1>4, <2>1, TookQuiet, QuietMemory
<1>5. CASE /\ task[t].mm # 0 /\ task' = [task EXCEPT ![p].mm = 0]
           /\ \E o \in Fresh("mm") :
                /\ Took("mm", o)
                /\ mms' = [mms EXCEPT ![o] = [mms[task[t].mm] EXCEPT !.vmas = <<>>]]
                /\ file_refs' = file_refs + (IF mms[task[t].mm].exe_file THEN 1 ELSE 0)
                /\ op' = [op EXCEPT ![t].pc = "dup_mmap", ![t].new = o]
                /\ UNCHANGED committed
  <2>1. PICK o \in Fresh("mm") :
                /\ Took("mm", o)
                /\ mms' = [mms EXCEPT ![o] = [mms[task[t].mm] EXCEPT !.vmas = <<>>]]
                /\ file_refs' = file_refs + (IF mms[task[t].mm].exe_file THEN 1 ELSE 0)
                /\ op' = [op EXCEPT ![t].pc = "dup_mmap", ![t].new = o]
                /\ UNCHANGED committed
    BY <1>5
  <2>2. o \in Objects /\ count["mm"][o] = 0 /\ o \in Pointer
    BY DEF Fresh, Pointer
  <2>3. Adds("mm", o) /\ count["mm"] \in [Objects -> Int]
    BY <1>1, <2>1, <2>2, TookAdds DEF ForkTypeOK
  <2>4. count'["mm"][o] = 1 /\ \A x \in Objects : x # o => count'["mm"][x] = count["mm"][x]
    BY <2>2, <2>3 DEF Adds, Ind
  <2>5. op'[t].pc = "dup_mmap" /\ op'[t].new = o
    <3>1. GotoWith(t, "dup_mmap", o)
      BY <2>1 DEF GotoWith
    <3> QED BY <1>1, <3>1, GotoFields
  <2>6. task'[t] = task[t]
    BY <1>1, <1>2, <1>5 DEF ForkTypeOK
  <2>7. task[t].mm \in Objects
    BY <1>2, <1>5 DEF TaskStruct, Pointer
  <2>8. MemStart(t, o)
    BY <1>2, <2>1, <2>2, <2>4, <2>5, <2>6, <2>7 DEF MemStart
  <2> QED BY <2>8, StartMemory
<1> QED BY <1>3, <1>4, <1>5 DEF copy_mm

(* A charge that is returned leaves no trace.                                *)
LEMMA ChargeReturned ==
  ASSUME NEW t, NEW i, NEW charge \in Nat
  PROVE  DupMmapTo(t, i, charge, vm_unacct_memory(charge)) => DupMmapTo(t, i, 0, 0)
<1>1. charge - charge = 0 - 0 /\ vm_unacct_memory(charge) = charge
  BY DEF vm_unacct_memory
<1> QED BY <1>1, Zenon DEF DupMmapTo

(* dup_mmap, wherever it stops.                                              *)
LEMMA DupMmapMemory ==
  ASSUME LinkInv, Counted, MemoryOK, NEW t \in Tasks, Others(t), dup_mmap(t)
  PROVE  MemoryOK'
<1> DEFINE old == mms[task[t].mm].vmas
<1>1. ForkTypeOK /\ op[t].pc = "dup_mmap" /\ UNCHANGED count
  BY DEF LinkInv, dup_mmap, At
<1>2. task[t].mm \in Objects /\ mms[task[t].mm] \in Mm
  BY <1>1 DEF MemoryOK, Started
<1>3. old \in Seq(VmaStruct) /\ Len(old) \in Nat
  BY <1>2 DEF Mm
<1>4. \/ DupMmapTo(t, Len(old) + 1, 0, 0) /\ Goto(t, "binfmt")
      \/ \E i \in 1 .. Len(old) + 1 : DupMmapTo(t, i, 0, 0) /\ Goto(t, "free_pt")
  <2>1. CASE DupMmapTo(t, Len(old) + 1, 0, 0) /\ Goto(t, "binfmt")
    BY <2>1
  <2>2. CASE \E i \in 1 .. Len(old) :
               /\ \/ DupMmapTo(t, i, 0, 0)
                  \/ \E charge \in Nat : DupMmapTo(t, i, charge, vm_unacct_memory(charge))
                  \/ DupMmapTo(t, i + 1, 0, 0)
               /\ Goto(t, "free_pt")
    <3>1. PICK i \in 1 .. Len(old) :
               /\ \/ DupMmapTo(t, i, 0, 0)
                  \/ \E charge \in Nat : DupMmapTo(t, i, charge, vm_unacct_memory(charge))
                  \/ DupMmapTo(t, i + 1, 0, 0)
               /\ Goto(t, "free_pt")
      BY <2>2
    <3>2. i \in 1 .. Len(old) + 1 /\ i + 1 \in 1 .. Len(old) + 1
      BY <1>3
    <3>3. DupMmapTo(t, i, 0, 0) \/ DupMmapTo(t, i + 1, 0, 0)
      BY <3>1, ChargeReturned
    <3> QED BY <3>1, <3>2, <3>3
  <2>4. CASE DupMmapTo(t, 1, 0, 0) /\ Goto(t, "free_pt")
    <3>1. 1 \in 1 .. Len(old) + 1
      BY <1>3
    <3> QED BY <2>4, <3>1
  <2>3. \A i : (IF old[i].account THEN 1 ELSE 0) \in Nat
    OBVIOUS
  <2> HIDE DEF old
  <2> QED BY <2>1, <2>2, <2>3, <2>4 DEF dup_mmap, old
<1>5. ASSUME NEW i \in 1 .. Len(old) + 1, DupMmapTo(t, i, 0, 0), NEW pc, Goto(t, pc),
             pc = "free_pt" \/ (pc = "binfmt" /\ i = Len(old) + 1)
      PROVE  MemFill(t, i)
  <2>1. op'[t].pc = pc /\ op'[t].new = op[t].new
    BY <1>1, <1>5, GotoPc
  <2> QED BY <1>1, <1>5, <2>1 DEF MemFill
<1>6. Len(old) + 1 \in 1 .. Len(old) + 1
  BY <1>3
<1>7. \E i : MemFill(t, i)
  <2> HIDE DEF old
  <2> QED BY <1>4, <1>5, <1>6
<1> QED BY <1>7, FillMemory

(* get_binfmt hands the copy to the new task or to free_pt.                  *)
LEMMA BinfmtMemory ==
  ASSUME LinkInv, Counted, MemoryOK, NEW t \in Tasks, Others(t), get_binfmt(t)
  PROVE  MemoryOK'
<1>1. ForkTypeOK /\ op[t].pc = "binfmt" /\ UNCHANGED <<count, memory>>
  BY DEF LinkInv, get_binfmt, At
<1>2. op'[t].pc = "context" \/ (op'[t].pc = "free_pt" /\ op'[t].new = op[t].new)
  <2>1. GotoWith(t, "context", 0) \/ Goto(t, "free_pt")
    BY DEF get_binfmt, GotoWith
  <2> QED BY <1>1, <2>1, GotoFields, GotoPc
<1>3. MemQuiet(t)
  BY <1>1, <1>2 DEF MemQuiet, memory
<1> QED BY <1>3, QuietMemory

(* free_pt drops the copy.                                                   *)
LEMMA FreePtMemory ==
  ASSUME LinkInv, Counted, MemoryOK, NEW t \in Tasks, Others(t), free_pt(t)
  PROVE  MemoryOK'
<1>1. ForkTypeOK /\ op[t].pc = "free_pt" /\ mmput(op[t].new) /\ op[t].pc \in Copying
  BY DEF LinkInv, free_pt, At, Copying
<1>2. op'[t].pc \in Undoing
  <2>1. GotoWith(t, OnError("mm"), 0)
    BY DEF free_pt, GotoWith
  <2> QED BY <1>1, <2>1, GotoFields, OnErrorUndoes DEF Undoing
<1>3. op[t].new \in Objects /\ MmRef(t, op[t].new)
  BY <1>1, CopyingKeeps DEF MemoryOK, Private, MmRef
<1>4. MemPut(t, op[t].new)
  BY <1>1, <1>2, <1>3, UndoingPlain DEF MemPut
<1> QED BY <1>4, PutMemory

(* bad_fork_cleanup_mm puts the map of the new task.                         *)
LEMMA CleanupMmMemory ==
  ASSUME LinkInv, Counted, MemoryOK, NEW t \in Tasks, Others(t), CleanupMm(t)
  PROVE  MemoryOK'
<1> DEFINE o == task[op[t].p].mm
<1>1. ForkTypeOK /\ Links /\ At(t, "bad_fork_cleanup_mm") /\ "bad_fork_cleanup_mm" \in Building
  BY DEF LinkInv, CleanupMm, Building, Undoing
<1>2. op[t].pc = "bad_fork_cleanup_mm" /\ op[t].pc \notin Copying /\ o \in Pointer
  BY <1>1, AtBuilding DEF TaskStruct, Copying
<1>3. op'[t].pc \notin Copying
  BY <1>1, GotoPc DEF CleanupMm, Copying
<1>4. KeptNow(t, "mm") = o
  BY <1>2 DEF KeptNow, Kept, CountedAt, MmPcs
<1>5. CASE o # 0
  <2>1. o \in Objects /\ mmput(o) /\ MmRef(t, o)
    BY <1>2, <1>4, <1>5 DEF Pointer, CleanupMm, MmRef
  <2>2. MemPut(t, o)
    BY <1>2, <1>3, <2>1 DEF MemPut
  <2> QED BY <2>2, PutMemory
<1>6. CASE o = 0
  <2>1. Plain(t)
    BY <1>2, <1>3, <1>6 DEF CleanupMm, Plain, memory
  <2> QED BY <2>1, PlainQuiet, QuietMemory
<1> QED BY <1>5, <1>6

(* exit_mm puts the map of the task.                                         *)
LEMMA ExitMmMemory ==
  ASSUME LinkInv, Counted, MemoryOK, NEW t \in Tasks, Others(t), exit_mm(t)
  PROVE  MemoryOK'
<1> DEFINE o == task[t].mm
<1>1. ForkTypeOK /\ op[t].pc = "exit_mm" /\ task[t].st = "running" /\ o \in Pointer
  BY DEF LinkInv, exit_mm, At, ForkTypeOK, TaskStruct
<1>2. op[t].pc \notin Copying /\ op'[t].pc \notin Copying
  BY <1>1, GotoPc DEF exit_mm, Copying
<1>3. Seen(task[t], "mm") = o
  BY <1>1 DEF Seen
<1>5. CASE o # 0
  <2>1. o \in Objects /\ mmput(o) /\ MmRef(t, o)
    BY <1>1, <1>3, <1>5 DEF Pointer, exit_mm, MmRef
  <2>2. MemPut(t, o)
    BY <1>2, <2>1 DEF MemPut
  <2> QED BY <2>2, PutMemory
<1>6. CASE o = 0
  <2>1. Plain(t)
    BY <1>2, <1>6 DEF exit_mm, Plain, memory
  <2> QED BY <2>1, PlainQuiet, QuietMemory
<1> QED BY <1>5, <1>6

(* mm_access takes a reference and gives it back.                            *)
LEMMA AccessMemory ==
  ASSUME LinkInv, Counted, MemoryOK, Accessing, NEW t \in Tasks, Others(t), mm_access(t) \/ mm_access_end(t)
  PROVE  MemoryOK'
<1>l. ForkTypeOK /\ op[t] \in Call
  BY DEF LinkInv, ForkTypeOK
<1>1. CASE mm_access(t)
  <2>1. PICK x \in Tasks : /\ task[x].st = "running" /\ Took("mm", task[x].mm)
                           /\ op' = [op EXCEPT ![t].pc = "mm_access", ![t].new = task[x].mm]
    BY <1>1 DEF mm_access
  <2>2. op[t].pc \notin Copying /\ UNCHANGED memory
    BY <1>1 DEF mm_access, Entry, At, Copying
  <2>3. op'[t].pc \notin Copying
    <3>1. GotoWith(t, "mm_access", task[x].mm)
      BY <2>1 DEF GotoWith
    <3>2. op'[t].pc = "mm_access"
      BY <1>l, <3>1, GotoFields
    <3> QED BY <3>2 DEF Copying
  <2> QED BY <2>1, <2>2, <2>3, TookQuiet, QuietMemory
<1>2. CASE mm_access_end(t)
  <2>1. op[t].pc = "mm_access" /\ mmput(op[t].new) /\ op[t].pc \notin Copying
    BY <1>2 DEF mm_access_end, At, Copying
  <2>2. op'[t].pc \notin Copying
    <3>1. op'[t] = Idle
      BY <1>l, <1>2 DEF mm_access_end, ForkTypeOK
    <3> QED BY <3>1 DEF Idle, Copying
  <2>3. KeptNow(t, "mm") = op[t].new
    BY <2>1 DEF KeptNow, Kept, CountedAt, MmPcs
  <2>4. op[t].new \in Objects
    BY <2>1 DEF Accessing
  <2>5. MemPut(t, op[t].new)
    BY <2>1, <2>2, <2>3, <2>4 DEF MemPut, MmRef
  <2> QED BY <2>5, PutMemory
<1> QED BY <1>1, <1>2

-----------------------------------------------------------------------------
(* Memory in every state *)

MemInv == CountInv /\ Accessing /\ MemoryOK

(* A step of a task keeps the accounts.                                      *)
LEMMA MemoryStep ==
  ASSUME MemInv, NEW t \in Tasks, Step(t)
  PROVE  Accessing' /\ MemoryOK'
<1>1. LinkInv /\ Counted /\ Accessing /\ MemoryOK /\ LinkInv'
  BY LinkStep DEF MemInv, CountInv
<1>2. Others(t)
  BY <1>1, StepOthers
<1>3. Accessing'
  BY <1>1, <1>2, AccessStep
<1>p. ASSUME Plain(t) PROVE MemoryOK'
  BY <1>1, <1>2, <1>p, PlainQuiet, QuietMemory
<1>4. CASE \/ copy_creds(t) \/ check_threads(t) \/ CopySetup(t) \/ CopyContext(t) \/ CopyShared(t) \/ copy_signal(t)
           \/ Publish(t) \/ CleanupContext(t) \/ CleanupSignal(t) \/ CleanupShared(t)
  BY <1>1, <1>3, <1>4, <1>p, BuildPlain
<1>5. CASE \/ unshare(t) \/ unshare_fs(t) \/ unshare_fd(t) \/ unshare_namespaces(t) \/ unshare_install(t)
           \/ unshare_cleanup_fd(t) \/ unshare_cleanup_fs(t) \/ unshare_files(t)
           \/ do_exit(t) \/ mm_release(t) \/ ExitShared(t)
  BY <1>1, <1>3, <1>5, <1>p, OwnPlain
<1>6. CASE \/ dup_task_struct(t) \/ FreeTask(t) \/ wake_up_new_task(t) \/ wait_for_vfork_done(t) \/ vfork_killed(t)
           \/ vfork_put(t) \/ complete_vfork_done(t) \/ complete(t) \/ release_task(t) \/ finish_task_switch(t)
  BY <1>1, <1>3, <1>6, <1>p, TaskPlain
<1>7. CASE copy_mm(t) \/ dup_mmap(t) \/ get_binfmt(t) \/ free_pt(t)
  BY <1>1, <1>2, <1>3, <1>7, CopyMmMemory, DupMmapMemory, BinfmtMemory, FreePtMemory
<1>8. CASE CleanupMm(t) \/ exit_mm(t) \/ mm_access(t) \/ mm_access_end(t)
  BY <1>1, <1>2, <1>3, <1>8, CleanupMmMemory, ExitMmMemory, AccessMemory
<1> QED BY <1>3, <1>4, <1>5, <1>6, <1>7, <1>8 DEF Step

(* So does every step.                                                       *)
LEMMA MemoryNext == ASSUME MemInv, [Next]_vars PROVE MemInv'
<1>1. CountInv'
  BY CountNext DEF MemInv
<1>2. CASE Next
  BY <1>1, <1>2, MemoryStep DEF Next, MemInv
<1>3. CASE UNCHANGED vars
  <2>1. UNCHANGED <<task, op, count, mms, committed, file_refs>>
    BY <1>3 DEF vars
  <2>2. Accessing'
    BY <2>1 DEF MemInv, Accessing
  <2>3. Private' /\ Started' /\ Sizes' /\ Unused'
    BY <2>1 DEF MemInv, MemoryOK, Private, Started, Sizes, Unused
  <2>4. mms' \in [Objects -> Mm] /\ Sums(mms', committed', file_refs')
    BY <2>1 DEF MemInv, MemoryOK
  <2> QED BY <1>1, <2>2, <2>3, <2>4 DEF MemInv, MemoryOK
<1> QED BY <1>2, <1>3

(* The first task has the map it is started with, or none.                   *)
LEMMA MemoryInit == ASSUME Init PROVE MemInv
<1> DEFINE first == [vmas |-> Vmas, total_vm |-> Len(Vmas), exe_file |-> TRUE]
           none == [o \in Objects |-> NoMm]
<1>1. PICK m \in {0, 1} :
        /\ count = [k \in Kinds |-> [o \in Objects |-> IF o = 1 /\ (k = "mm" => m = 1) THEN 1 ELSE 0]]
        /\ mms = [o \in Objects |-> IF o = m THEN first ELSE NoMm]
        /\ committed = m * Accounted(Vmas)
        /\ file_refs = m * (Mapped(Vmas) + 1)
  BY DEF Init
<1>2. 1 \in Objects /\ 0 \notin Objects
  BY ObjectsAreNumbers
<1>3. \A t \in Tasks : op[t].pc = "idle"
  BY DEF Init, Idle
<1>4. first \in Mm /\ first.vmas = Vmas /\ Sized(first) /\ FilesOf(first) = Mapped(Vmas) + 1
  <2>1. Vmas \in Seq(VmaStruct) /\ Len(Vmas) \in Int
    BY ForkAssumption DEF VmaStruct
  <2> QED BY <2>1 DEF Mm, Sized, FilesOf
<1>5. Accounted(Vmas) \in Nat /\ Mapped(Vmas) \in Nat
  BY <1>4, MmCounts
<1> HIDE DEF first
<1>6. mms \in [Objects -> Mm] /\ none \in [Objects -> Mm] /\ \A o \in Objects : none[o] = NoMm
  BY <1>1, <1>4, MmCounts
<1>7. Private /\ Started /\ Accessing
  BY <1>3 DEF Private, Started, Accessing, Copying
<1>8. Sizes
  BY <1>1, <1>4, MmCounts DEF Sizes
<1>9. Unused
  <2> SUFFICES ASSUME NEW o \in Objects, count["mm"][o] = 0 PROVE mms[o] = NoMm
    BY DEF Unused
  <2>1. "mm" \in Kinds
    BY DEF Kinds
  <2>2. count["mm"][o] = IF o = 1 /\ m = 1 THEN 1 ELSE 0
    BY <1>1, <2>1
  <2> QED BY <1>1, <1>2, <2>2
<1>10. Sums(none, 0, 0)
  <2>1. \A o \in Objects : Charges(none)[o] = 0 /\ Refs(none)[o] = 0
    BY <1>6, MmCounts DEF Charges, Refs
  <2> HIDE DEF none
  <2> QED BY <2>1, ObjectsFinite, SumOfZeros DEF Sums
<1> HIDE DEF none
<1>11. Sums(mms, committed, file_refs)
  <2>1. CASE m = 0
    <3>1. mms = none
      BY <1>1, <1>2, <2>1 DEF none
    <3>2. committed = 0 /\ file_refs = 0
      BY <1>1, <1>5, <2>1
    <3> QED BY <1>10, <3>1, <3>2
  <2>2. CASE m = 1
    <3>1. mms[1] = first /\ none[1] = NoMm /\ \A o \in Objects : o # 1 => mms[o] = none[o]
      BY <1>1, <1>2, <1>6, <2>2
    <3>2. Sums(mms, (0 - Accounted(none[1].vmas)) + Accounted(mms[1].vmas), (0 - FilesOf(none[1])) + FilesOf(mms[1]))
      BY <1>2, <1>6, <1>10, <3>1, SumsChanged
    <3>3. /\ (0 - Accounted(none[1].vmas)) + Accounted(mms[1].vmas) = committed
          /\ (0 - FilesOf(none[1])) + FilesOf(mms[1]) = file_refs
      BY <1>1, <1>4, <1>5, <2>2, <3>1, MmCounts
    <3> QED BY <3>2, <3>3
  <2> QED BY <2>1, <2>2
<1>12. CountInv
  BY CountInit
<1> QED BY <1>6, <1>7, <1>8, <1>9, <1>11, <1>12 DEF MemInv, MemoryOK

(* An unused map has nothing, so the live maps make up the sums.             *)
LEMMA LiveSum ==
  ASSUME CountInv, NEW f, NatOn(f, Objects), \A o \in Objects : count["mm"][o] = 0 => f[o] = 0
  PROVE  SumFunctionOnSet(f, Objects) = SumFunctionOnSet(f, LiveMms)
<1> DEFINE dead == Objects \ LiveMms
<1>1. LiveMms \subseteq Objects /\ \A o \in dead : f[o] = 0
  <2>1. \A o \in Objects : count["mm"][o] \in Nat
    BY MmReferences DEF CountInv
  <2> QED BY <2>1 DEF LiveMms
<1>2. IsFiniteSet(dead) /\ IsFiniteSet(LiveMms) /\ NatOn(f, LiveMms)
  BY <1>1, ObjectsFinite, FS_Subset DEF NatOn
<1>3. SumFunctionOnSet(f, dead) = 0
  <2> HIDE DEF dead
  <2> QED BY <1>1, <1>2, SumOfZeros
<1>4. SumFunctionOnSet(f, LiveMms) \in Nat
  BY <1>2, SumDefined
<1>5. SumFunctionOnSet(f, Objects) = SumFunctionOnSet(f, LiveMms) + SumFunctionOnSet(f, dead)
  BY <1>1, ObjectsFinite, SumSplit
<1> HIDE DEF dead
<1> QED BY <1>3, <1>4, <1>5

(* Whatever stage of a fork fails, the charged pages and the references to    *)
(* the mapped file are those of the vmas linked in live maps, and the size of *)
(* the map of a running task is the number of its pages (dup_mmap, mmput).    *)
THEOREM ForkMemoryAccounted == Spec => []MemoryAccounted
<1>1. ASSUME MemInv PROVE MemoryAccounted
  <2>1. LinkInv /\ Counted /\ CountInv /\ MemoryOK /\ ForkTypeOK
    BY <1>1 DEF MemInv, CountInv, LinkInv
  <2>2. mms \in [Objects -> Mm] /\ Sums(mms, committed, file_refs)
    BY <2>1 DEF MemoryOK
  <2>3. \A o \in Objects : count["mm"][o] = 0 => Charges(mms)[o] = 0 /\ Refs(mms)[o] = 0
    BY <2>1, MmCounts DEF MemoryOK, Unused, Charges, Refs
  <2>4. NatOn(Charges(mms), Objects) /\ NatOn(Refs(mms), Objects)
    BY <2>2, ChargesNat
  <2>5. committed = SumFunctionOnSet(Charges(mms), LiveMms) /\ file_refs = SumFunctionOnSet(Refs(mms), LiveMms)
    BY <2>1, <2>2, <2>3, <2>4, LiveSum DEF Sums
  <2>6. ASSUME NEW t \in Tasks, task[t].st = "running", task[t].mm # 0
        PROVE  mms[task[t].mm].total_vm = Len(mms[task[t].mm].vmas)
    <3> DEFINE o == task[t].mm
    <3>1. o \in Objects /\ Seen(task[t], "mm") = o
      BY <2>1, <2>6, CopyingKeeps DEF ForkTypeOK, TaskStruct, Pointer
    <3>2. ASSUME NEW u \in Tasks, op[u].pc \in {"dup_mmap", "free_pt"}, op[u].new = o PROVE FALSE
      <4>1. count["mm"][o] = 1 /\ KeptNow(u, "mm") = o
        BY <2>1, <3>2, CopyingKeeps DEF Copying, MemoryOK, Private
      <4>2. u = t
        BY <2>1, <3>1, <4>1, MmReferences DEF MmRef
      <4> QED BY <2>1, <3>1, <4>1, <4>2, MmReferences
    <3>3. Sized(mms[o])
      BY <2>1, <3>1, <3>2 DEF MemoryOK, Sizes
    <3> QED BY <3>3 DEF Sized
  <2> QED BY <2>5, <2>6 DEF MemoryAccounted, Charges, Refs
<1>2. Init => MemInv
  BY MemoryInit
<1>3. MemInv /\ [Next]_vars => MemInv'
  BY MemoryNext
<1> QED BY <1>1, <1>2, <1>3, PTL DEF Spec
=============================================================================
