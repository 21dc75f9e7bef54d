-------------------------------- MODULE Fork --------------------------------
(* Creation of tasks in the traced kernel (manuals/files-vm/fork.c): the     *)
(* stages of copy_process and the goto chain that undoes them, the copy of a *)
(* memory map, vfork, unshare and the release of a task.  Tasks interleave   *)
(* between any two stages; what runs under one lock or on one atomic counter *)
(* is one step.  Calls that return an error before they change anything are  *)
(* stuttering steps.                                                         *)
EXTENDS StackOps, SequencesExt

CONSTANTS
  Tasks,          \* slots for task_structs
  InitTask,       \* the task that runs first
  NoTask,
  CloneFlags,     \* sets of clone flags the callers pass
  UnshareFlags,   \* sets of flags passed to unshare
  Vmas,           \* mapping of the first task
  max_threads,
  MaxForks,       \* bound on total_forks
  MaxCalls        \* bound on the calls under way at a time

ASSUME ForkAssumption ==
  /\ IsFiniteSet(Tasks) /\ InitTask \in Tasks /\ NoTask \notin Tasks
  /\ max_threads \in Nat \ {0} /\ {MaxForks, MaxCalls} \subseteq Nat
  /\ \A f \in CloneFlags : "IDLE" \in f => f \subseteq {"IDLE", "VM"}     \* what fork_idle passes
  /\ Vmas \in Seq([dontcopy : BOOLEAN, account : BOOLEAN, file : BOOLEAN])

VARIABLES
  task,           \* the task_structs
  op,             \* what each task executes
  count,          \* reference counts of the objects tasks share
  mms,            \* contents of the mm_structs
  committed,      \* pages charged with security_vm_enough_memory_mm
  file_refs,      \* references to the one file that is mapped and executed
  vfork,          \* the completion on the stack of a vforking task
  nr_threads, processes, total_forks

vars == <<task, op, count, mms, committed, file_refs, vfork, nr_threads, processes,
          total_forks>>
memory == <<mms, committed, file_refs>>
totals == <<nr_threads, processes, total_forks>>

Kinds == {"mm", "files", "fs", "sighand", "signal"}

(* An object is named by a number, 0 is NULL.  A task has at most one object *)
(* of each kind and holds one more while it unshares or reads another mm.    *)
Objects == 1 .. 2 * Cardinality(Tasks)

NoMm == [vmas |-> <<>>, total_vm |-> 0, exe_file |-> FALSE]

NoStruct == [st |-> "free", mm |-> 0, files |-> 0, fs |-> 0, sighand |-> 0, signal |-> 0,
             usage |-> 0, held |-> {}, vfork_done |-> NoTask, alloc_lock |-> NoTask]

Idle == [pc |-> "idle", p |-> NoTask, flags |-> {}, new |-> 0, new_fs |-> 0, vfork |-> NoTask]

Accounted(vmas) == Cardinality({i \in DOMAIN vmas : vmas[i].account})
Mapped(vmas) == Cardinality({i \in DOMAIN vmas : vmas[i].file})
FilesOf(m) == Mapped(m.vmas) + (IF m.exe_file THEN 1 ELSE 0)

Init ==
  /\ \E m \in {0, 1} :      \* a kernel thread has no mm
       /\ task = [t \in Tasks |->
            IF t = InitTask
            THEN [NoStruct EXCEPT !.st = "running", !.mm = m, !.files = 1, !.fs = 1, !.sighand = 1,
                                  !.signal = 1, !.usage = 2]
            ELSE NoStruct]
       /\ count = [k \in Kinds |-> [o \in Objects |-> IF o = 1 /\ (k = "mm" => m = 1) THEN 1 ELSE 0]]
       /\ mms = [o \in Objects |->
            IF o = m THEN [vmas |-> Vmas, total_vm |-> Len(Vmas), exe_file |-> TRUE] ELSE NoMm]
       /\ committed = m * Accounted(Vmas)
       /\ file_refs = m * (Mapped(Vmas) + 1)
  /\ op = [t \in Tasks |-> Idle]
  /\ vfork = [t \in Tasks |-> "none"]
  /\ nr_threads = 1 /\ processes = 1 /\ total_forks = 0

----------------------------------------------------------------------------
(* Objects.                                                                 *)

Fresh(k) == {o \in Objects : count[k][o] = 0 /\ \A n \in Objects : n < o => count[k][n] > 0}

Took(k, o) == count' = [count EXCEPT ![k][o] = @ + 1]
Put(k, o) == count' = [count EXCEPT ![k][o] = @ - 1]

(* The last mmput unmaps every vma (exit_mmap) and drops exe_file.           *)
mmput(o) ==
  /\ Put("mm", o)
  /\ IF count["mm"][o] = 1
     THEN /\ mms' = [mms EXCEPT ![o] = NoMm]
          /\ committed' = committed - Accounted(mms[o].vmas)
          /\ file_refs' = file_refs - FilesOf(mms[o])
     ELSE UNCHANGED memory

(* The last put_task_struct drops the signal_struct and frees the task.      *)
put_task_struct(t, st) ==
  IF task[t].usage > 1
  THEN task' = [task EXCEPT ![t].usage = @ - 1, ![t].st = st] /\ UNCHANGED count
  ELSE task' = [task EXCEPT ![t] = NoStruct] /\ Put("signal", task[t].signal)

----------------------------------------------------------------------------
(* copy_process.                                                            *)

(* The stages of copy_process with the label each one jumps to on error.  A  *)
(* stage that only the new task can see is a member of a run of stages and   *)
(* one step executes a run up to its end or up to the stage that fails.      *)
ErrorLabels ==
  [creds |-> "bad_fork_free", module |-> "bad_fork_cleanup_count",
   policy |-> "bad_fork_cleanup_threadgroup_lock", sched |-> "bad_fork_cleanup_policy",
   perf |-> "bad_fork_cleanup_policy", audit |-> "bad_fork_cleanup_policy",
   semundo |-> "bad_fork_cleanup_audit", files |-> "bad_fork_cleanup_semundo",
   fs |-> "bad_fork_cleanup_files", sighand |-> "bad_fork_cleanup_fs",
   signal |-> "bad_fork_cleanup_sighand", mm |-> "bad_fork_cleanup_signal",
   namespaces |-> "bad_fork_cleanup_mm", io |-> "bad_fork_cleanup_namespaces",
   thread |-> "bad_fork_cleanup_io", pid |-> "bad_fork_cleanup_io", publish |-> "bad_fork_free_pid"]

(* Mutants: a failing copy_fs is undone too; the label below is taken.       *)
OnErrorItself(s) == [ErrorLabels EXCEPT !.fs = "bad_fork_cleanup_fs"][s]
OnErrorTooLow(s) == [ErrorLabels EXCEPT !.sighand = "bad_fork_cleanup_files"][s]

OnError(s) == ErrorLabels[s]

Setup == <<"policy", "sched", "perf", "audit", "semundo">>
Context == <<"namespaces", "io", "thread", "pid">>

AfterShared == [files |-> "fs", fs |-> "sighand", sighand |-> "signal"]

(* Threads share signal handlers, shared handlers imply a shared mm, and a   *)
(* new namespace excludes sharing what belongs to it.                        *)
ValidFlags(f) ==
  /\ ~({"NEWNS", "FS"} \subseteq f) /\ ~({"NEWUSER", "FS"} \subseteq f)
  /\ "THREAD" \in f => "SIGHAND" \in f
  /\ "SIGHAND" \in f => "VM" \in f
  /\ "SIGHAND" \in f => f \cap {"NEWUSER", "NEWPID"} = {}

At(t, pc) == task[t].st = "running" /\ op[t].pc = pc

Busy == {t \in Tasks : op[t].pc \notin {"idle", "wait_for_vfork_done"}}

Entry(t) == At(t, "idle") /\ Cardinality(Busy) < MaxCalls

Goto(t, pc) == op' = [op EXCEPT ![t].pc = pc]

Fail(t, s) == Goto(t, OnError(s)) /\ UNCHANGED <<task, count, memory, vfork, totals>>

(* The new task_struct is a copy of the current one, pointers included; none *)
(* of the objects it points to is counted for it yet.                        *)
dup_task_struct(t) ==
  /\ Entry(t)
  /\ total_forks < MaxForks
  /\ \E f \in CloneFlags, p \in Tasks :
       /\ ValidFlags(f)
       /\ "IDLE" \in f => task[t].mm = 0        \* fork_idle runs in a kernel thread
       /\ task[p].st = "free"
       /\ task' = [task EXCEPT ![p] = [task[t] EXCEPT !.st = "built", !.usage = 2, !.held = {"stack"},
                                        !.vfork_done = NoTask, !.alloc_lock = NoTask]]
       /\ op' = [op EXCEPT ![t] = [Idle EXCEPT !.pc = "creds", !.p = p, !.flags = f]]
  /\ UNCHANGED <<count, memory, vfork, totals>>

(* What only the new task uses is kept as a set of names.                    *)
Hold(t, names) == task' = [task EXCEPT ![op[t].p].held = @ \cup names]
Release(t, names) == task' = [task EXCEPT ![op[t].p].held = @ \ names]

copy_creds(t) ==
  /\ At(t, "creds")
  /\ \/ /\ processes' = processes + 1
        /\ Hold(t, {"creds"})
        /\ Goto(t, "module")
        /\ UNCHANGED <<count, memory, vfork, nr_threads, total_forks>>
     \/ Fail(t, "creds")

(* The limit on threads is read without a lock.                              *)
check_threads(t) ==
  /\ At(t, "module")
  /\ \/ /\ nr_threads < max_threads
        /\ Hold(t, {"module", "delayacct"})
        /\ Goto(t, "setup")
        /\ UNCHANGED <<count, memory, vfork, totals>>
     \/ Fail(t, "module")

(* sched_fork and copy_thread leave nothing to undo; fork_idle passes a pid. *)
Left(t, stages) == ToSet(stages) \ ({"sched", "thread"} \cup IF "IDLE" \in op[t].flags THEN {"pid"} ELSE {})

RunOfStages(t, run, before, next) ==
  \/ Hold(t, before \cup Left(t, run)) /\ Goto(t, next)
  \/ \E i \in DOMAIN run :
       /\ run[i] = "pid" => "IDLE" \notin op[t].flags
       /\ Hold(t, before \cup Left(t, SubSeq(run, 1, i - 1)))
       /\ Goto(t, OnError(run[i]))

CopySetup(t) ==
  /\ At(t, "setup")
  /\ RunOfStages(t, Setup, IF "THREAD" \in op[t].flags THEN {"threadgroup"} ELSE {}, "files")
  /\ UNCHANGED <<count, memory, vfork, totals>>

CopyContext(t) ==
  /\ At(t, "context")
  /\ RunOfStages(t, Context, {}, "publish")
  /\ UNCHANGED <<count, memory, vfork, totals>>

SharedBy == [files |-> "FILES", fs |-> "FS", sighand |-> "SIGHAND"]

(* copy_files, copy_fs, copy_sighand: share the object or copy it.           *)
CopyShared(t) ==
  \E s \in DOMAIN SharedBy :
    /\ At(t, s)
    /\ \/ /\ SharedBy[s] \in op[t].flags
          /\ Took(s, task[t][s])
          /\ Goto(t, AfterShared[s])
          /\ UNCHANGED <<task, memory, vfork, totals>>
       \/ /\ SharedBy[s] \notin op[t].flags
          /\ \E o \in Fresh(s) : Took(s, o) /\ task' = [task EXCEPT ![op[t].p][s] = o]
          /\ Goto(t, AfterShared[s])
          /\ UNCHANGED <<memory, vfork, totals>>
       \/ /\ s # "fs" => SharedBy[s] \notin op[t].flags      \* sharing fs fails during exec
          /\ Fail(t, s)

(* A thread gets its reference to the signal_struct when it is published.    *)
copy_signal(t) ==
  /\ At(t, "signal")
  /\ \/ /\ "THREAD" \in op[t].flags
        /\ Goto(t, "mm")
        /\ UNCHANGED <<task, count, memory, vfork, totals>>
     \/ /\ "THREAD" \notin op[t].flags
        /\ \E o \in Fresh("signal") : Took("signal", o) /\ task' = [task EXCEPT ![op[t].p].signal = o]
        /\ Goto(t, "mm")
        /\ UNCHANGED <<memory, vfork, totals>>
     \/ "THREAD" \notin op[t].flags /\ Fail(t, "signal")

copy_mm(t) ==
  LET p == op[t].p IN
  /\ At(t, "mm")
  /\ \/ /\ task[t].mm = 0
        /\ task' = [task EXCEPT ![p].mm = 0]
        /\ Goto(t, "context")
        /\ UNCHANGED <<count, memory>>
     \/ /\ task[t].mm # 0 /\ "VM" \in op[t].flags
        /\ Took("mm", task[t].mm)
        /\ Goto(t, "context")
        /\ UNCHANGED <<task, memory>>
     \/ /\ task[t].mm # 0 /\ "VM" \notin op[t].flags
        /\ task' = [task EXCEPT ![p].mm = 0]
        /\ \/ \* dup_mm: the new mm starts as a copy, with a reference to exe_file
              \E o \in Fresh("mm") :
                /\ Took("mm", o)
                /\ mms' = [mms EXCEPT ![o] = [mms[task[t].mm] EXCEPT !.vmas = <<>>]]
                /\ file_refs' = file_refs + (IF mms[task[t].mm].exe_file THEN 1 ELSE 0)
                /\ op' = [op EXCEPT ![t].pc = "dup_mmap", ![t].new = o]
                /\ UNCHANGED committed
           \/ /\ Goto(t, OnError("mm"))
              /\ UNCHANGED <<count, memory>>
  /\ UNCHANGED <<vfork, totals>>

(* The vmas that dup_mmap links when it stops before vma i.                  *)
Skipped(vmas, i) == {j \in 1 .. i - 1 : vmas[j].dontcopy}
Linked(vmas, i) == EraseAt(SubSeq(vmas, 1, i - 1), Skipped(vmas, i))

(* dup_mmap under both mmap_sems: it copies all vmas, or fails before it     *)
(* looks at them, or at vma i before it is linked (its charge is returned)   *)
(* or after (the vma stays).                                                 *)
DupMmapTo(t, i, charge, refund) ==
  LET o == op[t].new
      old == mms[task[t].mm].vmas
      new == Linked(old, i)
  IN /\ mms' = [mms EXCEPT ![o].vmas = new, ![o].total_vm = @ - Cardinality(Skipped(old, i))]
     /\ committed' = committed + Accounted(new) + charge - refund
     /\ file_refs' = file_refs + Mapped(new)

(* The charge for a vma that could not be set up is returned.                *)
KeepsCharge(charge) == 0                       \* mutant
vm_unacct_memory(charge) == charge

dup_mmap(t) ==
  LET old == mms[task[t].mm].vmas IN
  /\ At(t, "dup_mmap")
  /\ \/ DupMmapTo(t, Len(old) + 1, 0, 0) /\ Goto(t, "binfmt")
     \/ DupMmapTo(t, 1, 0, 0) /\ Goto(t, "free_pt")          \* ksm_fork or khugepaged_fork
     \/ \E i \in 1 .. Len(old) :
          LET charge == IF old[i].account THEN 1 ELSE 0 IN
          /\ ~old[i].dontcopy
          /\ \/ old[i].account /\ DupMmapTo(t, i, 0, 0)      \* not enough memory: no charge yet
             \/ DupMmapTo(t, i, charge, vm_unacct_memory(charge))  \* no vma, policy or anon_vma
             \/ DupMmapTo(t, i + 1, 0, 0)                    \* copy_page_range
          /\ Goto(t, "free_pt")
  /\ UNCHANGED <<task, count, vfork, totals>>

(* try_module_get for the binary format, the last step of dup_mm.            *)
get_binfmt(t) ==
  /\ At(t, "binfmt")
  /\ \/ /\ task' = [task EXCEPT ![op[t].p].mm = op[t].new]
        /\ op' = [op EXCEPT ![t].pc = "context", ![t].new = 0]
     \/ Goto(t, "free_pt") /\ UNCHANGED task
  /\ UNCHANGED <<count, memory, vfork, totals>>

free_pt(t) ==
  /\ At(t, "free_pt")
  /\ mmput(op[t].new)
  /\ op' = [op EXCEPT ![t].pc = OnError("mm"), ![t].new = 0]
  /\ UNCHANGED <<task, vfork, totals>>

(* Under tasklist_lock and siglock: a pending signal undoes everything, else *)
(* the task becomes visible.                                                 *)
Publish(t) ==
  LET p == op[t].p
      thread == "THREAD" \in op[t].flags
      idle == "IDLE" \in op[t].flags
  IN
  /\ At(t, "publish")
  /\ \/ /\ task' = [task EXCEPT ![p].st = "new", ![p].held = @ \ {"threadgroup"}]
        /\ IF thread /\ ~idle THEN Took("signal", task[t].signal) ELSE UNCHANGED count
        /\ nr_threads' = IF idle THEN nr_threads ELSE nr_threads + 1
        /\ Goto(t, "wake")
        /\ UNCHANGED <<memory, vfork, processes>>
        /\ total_forks' = total_forks + 1
     \/ Fail(t, "publish")

----------------------------------------------------------------------------
(* The labels of copy_process.                                              *)

(* free_pid, exit_io_context, exit_task_namespaces: entered at one of three. *)
CleanupContext(t) ==
  /\ \/ At(t, "bad_fork_free_pid") /\ Release(t, {"pid", "io", "namespaces"})
     \/ At(t, "bad_fork_cleanup_io") /\ Release(t, {"io", "namespaces"})
     \/ At(t, "bad_fork_cleanup_namespaces") /\ Release(t, {"namespaces"})
  /\ Goto(t, "bad_fork_cleanup_mm")
  /\ UNCHANGED <<count, memory, vfork, totals>>

CleanupMm(t) ==
  LET p == op[t].p IN
  /\ At(t, "bad_fork_cleanup_mm")
  /\ IF task[p].mm # 0 THEN mmput(task[p].mm) ELSE UNCHANGED <<count, memory>>
  /\ task' = [task EXCEPT ![p].mm = 0]
  /\ Goto(t, "bad_fork_cleanup_signal")
  /\ UNCHANGED <<vfork, totals>>

CleanupSignal(t) ==
  /\ At(t, "bad_fork_cleanup_signal")
  /\ IF "THREAD" \in op[t].flags THEN UNCHANGED count ELSE Put("signal", task[op[t].p].signal)
  /\ Goto(t, "bad_fork_cleanup_sighand")
  /\ UNCHANGED <<task, memory, vfork, totals>>

CleanupAt == [sighand |-> "bad_fork_cleanup_sighand", fs |-> "bad_fork_cleanup_fs",
              files |-> "bad_fork_cleanup_files"]
BelowShared == [sighand |-> "bad_fork_cleanup_fs", fs |-> "bad_fork_cleanup_files",
                files |-> "bad_fork_cleanup_semundo"]

(* __cleanup_sighand, exit_fs, exit_files.                                   *)
CleanupShared(t) ==
  \E k \in DOMAIN BelowShared :
    /\ At(t, CleanupAt[k])
    /\ Put(k, task[op[t].p][k])
    /\ task' = [task EXCEPT ![op[t].p][k] = 0]
    /\ Goto(t, BelowShared[k])
    /\ UNCHANGED <<memory, vfork, totals>>

(* What each of the last six labels  releases before it falls through.       *)
ReleasedAt ==
  [bad_fork_cleanup_semundo |-> {"semundo"}, bad_fork_cleanup_audit |-> {"audit"},
   bad_fork_cleanup_policy |-> {"perf", "policy"},
   bad_fork_cleanup_threadgroup_lock |-> {"threadgroup", "delayacct", "module"},
   bad_fork_cleanup_count |-> {"creds"}, bad_fork_free |-> {"stack"}]

LastLabels == <<"bad_fork_cleanup_semundo", "bad_fork_cleanup_audit", "bad_fork_cleanup_policy",
                "bad_fork_cleanup_threadgroup_lock", "bad_fork_cleanup_count", "bad_fork_free">>

FreeTask(t) ==
  \E i \in DOMAIN LastLabels :
    LET released == UNION {ReleasedAt[LastLabels[j]] : j \in i .. Len(LastLabels)} IN
    /\ At(t, LastLabels[i])
    /\ processes' = IF "creds" \in released THEN processes - 1 ELSE processes
    /\ task' = [task EXCEPT ![op[t].p] = [NoStruct EXCEPT !.held = task[op[t].p].held \ released]]
    /\ op' = [op EXCEPT ![t] = Idle]
    /\ UNCHANGED <<count, memory, vfork, nr_threads, total_forks>>

----------------------------------------------------------------------------
(* do_fork after copy_process.                                              *)

wake_up_new_task(t) ==
  LET p == op[t].p
      wait == "VFORK" \in op[t].flags
  IN
  /\ At(t, "wake")
  /\ task' = [task EXCEPT ![p].st = IF "IDLE" \in op[t].flags THEN "idle" ELSE "running",
                          ![p].vfork_done = IF wait THEN t ELSE NoTask,
                          ![p].usage = IF wait THEN @ + 1 ELSE @]
  /\ vfork' = [vfork EXCEPT ![t] = IF wait THEN "waiting" ELSE @]
  /\ op' = [op EXCEPT ![t] = IF wait THEN [@ EXCEPT !.pc = "wait_for_vfork_done"] ELSE Idle]
  /\ UNCHANGED <<count, memory, totals>>

(* The completion arrives, or the wait is interrupted by a fatal signal.     *)
wait_for_vfork_done(t) ==
  /\ At(t, "wait_for_vfork_done")
  /\ vfork[t] = "done"
  /\ Goto(t, "vfork_put")
  /\ UNCHANGED <<task, count, memory, vfork, totals>>

Unlocked(p) == TRUE                            \* mutant
task_lock(p) == task[p].alloc_lock = NoTask

vfork_killed(t) ==
  LET p == op[t].p IN
  /\ At(t, "wait_for_vfork_done")
  /\ task_lock(p)
  /\ task' = [task EXCEPT ![p].vfork_done = NoTask]
  /\ Goto(t, "vfork_put")
  /\ UNCHANGED <<count, memory, vfork, totals>>

(* put_task_struct(child); do_fork returns and its frame is gone.            *)
vfork_put(t) ==
  /\ At(t, "vfork_put")
  /\ put_task_struct(op[t].p, task[op[t].p].st)
  /\ op' = [op EXCEPT ![t] = Idle]
  /\ vfork' = [vfork EXCEPT ![t] = "none"]
  /\ UNCHANGED <<memory, totals>>

----------------------------------------------------------------------------
(* References to the mm of another task.                                    *)

mm_access(t) ==
  /\ Entry(t)
  /\ \E u \in Tasks \ {t} :
       /\ task[u].st = "running" /\ task[u].mm # 0
       /\ Took("mm", task[u].mm)
       /\ op' = [op EXCEPT ![t].pc = "mm_access", ![t].new = task[u].mm]
  /\ UNCHANGED <<task, memory, vfork, totals>>

mm_access_end(t) ==
  /\ At(t, "mm_access")
  /\ mmput(op[t].new)
  /\ op' = [op EXCEPT ![t] = Idle]
  /\ UNCHANGED <<task, vfork, totals>>

----------------------------------------------------------------------------
(* unshare.                                                                 *)

Closure(f) ==
  LET f1 == IF "NEWUSER" \in f THEN f \cup {"THREAD", "FS"} ELSE f
      f2 == IF "THREAD" \in f1 THEN f1 \cup {"VM"} ELSE f1
      f3 == IF "VM" \in f2 THEN f2 \cup {"SIGHAND"} ELSE f2
  IN IF "NEWNS" \in f3 THEN f3 \cup {"FS"} ELSE f3

check_unshare_flags(t, f) ==
  f \cap {"THREAD", "SIGHAND", "VM"} = {} \/ count["mm"][task[t].mm] <= 1

unshare(t) ==
  /\ Entry(t)
  /\ task[t].mm # 0
  /\ \E f \in UnshareFlags :
       /\ check_unshare_flags(t, Closure(f))
       /\ op' = [op EXCEPT ![t].pc = "unshare_fs", ![t].flags = Closure(f)]
  /\ UNCHANGED <<task, count, memory, vfork, totals>>

(* Both look at the count without a lock and copy what is shared.            *)
unshare_fs(t) ==
  /\ At(t, "unshare_fs")
  /\ IF "FS" \in op[t].flags /\ count["fs"][task[t].fs] # 1
     THEN \/ \E o \in Fresh("fs") :
               Took("fs", o) /\ op' = [op EXCEPT ![t].pc = "unshare_fd", ![t].new_fs = o]
          \/ op' = [op EXCEPT ![t] = Idle] /\ UNCHANGED count
     ELSE Goto(t, "unshare_fd") /\ UNCHANGED count
  /\ UNCHANGED <<task, memory, vfork, totals>>

unshare_fd(t) ==
  /\ At(t, "unshare_fd")
  /\ IF "FILES" \in op[t].flags /\ count["files"][task[t].files] > 1
     THEN \/ \E o \in Fresh("files") :
               Took("files", o) /\ op' = [op EXCEPT ![t].pc = "unshare_ns", ![t].new = o]
          \/ Goto(t, "bad_unshare_cleanup_fs") /\ UNCHANGED count
     ELSE Goto(t, "unshare_ns") /\ UNCHANGED count
  /\ UNCHANGED <<task, memory, vfork, totals>>

(* unshare_userns and unshare_nsproxy_namespaces may fail.                   *)
unshare_namespaces(t) ==
  /\ At(t, "unshare_ns")
  /\ \E pc \in {"unshare_install", "bad_unshare_cleanup_fd"} : Goto(t, pc)
  /\ UNCHANGED <<task, count, memory, vfork, totals>>

(* Under task_lock and fs->lock: the new objects are installed; the old      *)
(* files, and the old fs if this was its last user, are left to the cleanup. *)
unshare_install(t) ==
  LET new_fs == op[t].new_fs
      old_fs == task[t].fs
      last == count["fs"][old_fs] = 1
  IN
  /\ At(t, "unshare_install")
  /\ task' = [task EXCEPT ![t].fs = IF new_fs # 0 THEN new_fs ELSE @,
                          ![t].files = IF op[t].new # 0 THEN op[t].new ELSE @]
  /\ count' = IF new_fs # 0 /\ ~last THEN [count EXCEPT !["fs"][old_fs] = @ - 1] ELSE count
  /\ op' = [op EXCEPT ![t].pc = "bad_unshare_cleanup_fd",
                      ![t].new_fs = IF @ # 0 /\ last THEN old_fs ELSE 0,
                      ![t].new = IF @ # 0 THEN task[t].files ELSE 0]
  /\ UNCHANGED <<memory, vfork, totals>>

unshare_cleanup_fd(t) ==
  /\ At(t, "bad_unshare_cleanup_fd")
  /\ IF op[t].new # 0 THEN Put("files", op[t].new) ELSE UNCHANGED count
  /\ op' = [op EXCEPT ![t].pc = "bad_unshare_cleanup_fs", ![t].new = 0]
  /\ UNCHANGED <<task, memory, vfork, totals>>

unshare_cleanup_fs(t) ==
  /\ At(t, "bad_unshare_cleanup_fs")
  /\ IF op[t].new_fs # 0 THEN Put("fs", op[t].new_fs) ELSE UNCHANGED count
  /\ op' = [op EXCEPT ![t] = Idle]
  /\ UNCHANGED <<task, memory, vfork, totals>>

(* unshare_files for exec: the displaced table is put by the caller.         *)
unshare_files(t) ==
  /\ Entry(t)
  /\ count["files"][task[t].files] > 1
  /\ \E o \in Fresh("files") :
       /\ Took("files", o)
       /\ task' = [task EXCEPT ![t].files = o]
       /\ op' = [op EXCEPT ![t].pc = "bad_unshare_cleanup_fd", ![t].new = task[t].files]
  /\ UNCHANGED <<memory, vfork, totals>>

----------------------------------------------------------------------------
(* The end of a task: exit.c calls mm_release, mmput and the put functions.  *)

do_exit(t) ==
  /\ Entry(t)
  /\ Goto(t, "mm_release")
  /\ UNCHANGED <<task, count, memory, vfork, totals>>

(* mm_release looks at vfork_done without the lock; complete_vfork_done      *)
(* looks again with it.                                                      *)
mm_release(t) ==
  /\ At(t, "mm_release")
  /\ IF task[t].vfork_done # NoTask THEN Goto(t, "complete_vfork_done") ELSE Goto(t, "exit_mm")
  /\ UNCHANGED <<task, count, memory, vfork, totals>>

complete_vfork_done(t) ==
  /\ At(t, "complete_vfork_done")
  /\ task_lock(t)
  /\ task' = [task EXCEPT ![t].alloc_lock = t, ![t].vfork_done = NoTask]
  /\ op' = [op EXCEPT ![t].pc = "complete", ![t].vfork = task[t].vfork_done]
  /\ UNCHANGED <<count, memory, vfork, totals>>

complete(t) ==
  /\ At(t, "complete")
  /\ vfork' = IF op[t].vfork = NoTask THEN vfork ELSE [vfork EXCEPT ![op[t].vfork] = "done"]
  /\ task' = [task EXCEPT ![t].alloc_lock = NoTask]
  /\ op' = [op EXCEPT ![t].pc = "exit_mm", ![t].vfork = NoTask]
  /\ UNCHANGED <<count, memory, totals>>

exit_mm(t) ==
  /\ At(t, "exit_mm")
  /\ IF task[t].mm # 0 THEN mmput(task[t].mm) ELSE UNCHANGED <<count, memory>>
  /\ task' = [task EXCEPT ![t].mm = 0]
  /\ Goto(t, "exit_files")
  /\ UNCHANGED <<vfork, totals>>

ExitAt == [files |-> "exit_files", fs |-> "exit_fs"]

ExitShared(t) ==
  \E k \in DOMAIN ExitAt :
    /\ At(t, ExitAt[k])
    /\ Put(k, task[t][k])
    /\ task' = [task EXCEPT ![t][k] = 0]
    /\ Goto(t, IF k = "files" THEN "exit_fs" ELSE "release")
    /\ UNCHANGED <<memory, vfork, totals>>

(* release_task: the counters, __cleanup_sighand and one reference to the    *)
(* task; the other one goes with the switch to another task.                 *)
release_task(t) ==
  /\ At(t, "release")
  /\ Put("sighand", task[t].sighand)
  /\ task' = [task EXCEPT ![t].sighand = 0, ![t].usage = @ - 1, ![t].st = "dead", ![t].held = {}]
  /\ op' = [op EXCEPT ![t] = Idle]
  /\ nr_threads' = nr_threads - 1
  /\ processes' = processes - 1
  /\ UNCHANGED <<memory, vfork, total_forks>>

finish_task_switch(t) ==
  /\ task[t].st = "dead"
  /\ put_task_struct(t, "switched")
  /\ UNCHANGED <<op, memory, vfork, totals>>

----------------------------------------------------------------------------
Step(t) ==
  \/ dup_task_struct(t) \/ copy_creds(t) \/ check_threads(t) \/ CopySetup(t)
  \/ CopyShared(t) \/ copy_signal(t)
  \/ copy_mm(t) \/ dup_mmap(t) \/ get_binfmt(t) \/ free_pt(t)
  \/ CopyContext(t) \/ Publish(t)
  \/ CleanupContext(t) \/ CleanupMm(t) \/ CleanupSignal(t) \/ CleanupShared(t) \/ FreeTask(t)
  \/ wake_up_new_task(t) \/ wait_for_vfork_done(t) \/ vfork_killed(t) \/ vfork_put(t)
  \/ mm_access(t) \/ mm_access_end(t)
  \/ unshare(t) \/ unshare_fs(t) \/ unshare_fd(t) \/ unshare_namespaces(t) \/ unshare_install(t)
  \/ unshare_cleanup_fd(t) \/ unshare_cleanup_fs(t) \/ unshare_files(t)
  \/ do_exit(t) \/ mm_release(t) \/ complete_vfork_done(t) \/ complete(t)
  \/ exit_mm(t) \/ ExitShared(t) \/ release_task(t) \/ finish_task_switch(t)

Next == \E t \in Tasks : Step(t)

Spec == Init /\ [][Next]_vars

----------------------------------------------------------------------------
(* No use after free: what a visible task points to is counted, whichever    *)
(* stage of a fork, an unshare or an exit failed in another task meanwhile.  *)
PointersLive ==
  \A t \in Tasks, k \in Kinds :
    task[t].st \notin {"free", "built"} /\ task[t][k] # 0 => count[k][task[t][k]] > 0

Holders(k, o) == Cardinality({t \in Tasks : task[t][k] = o})

InState(S) == Cardinality({t \in Tasks : task[t].st \in S})

(* Threads of one group share their signal handlers and, until one exits,    *)
(* their mm; fork and unshare both refuse anything else.                     *)
ThreadsShare ==
  \A t, u \in Tasks :
    task[t].st = "running" /\ task[u].st = "running" /\ task[t].signal = task[u].signal
      => /\ task[t].sighand = task[u].sighand
         /\ task[t].mm = task[u].mm \/ 0 \in {task[t].mm, task[u].mm}

(* The goto chain undoes exactly what was done: when no call is under way    *)
(* every reference count equals the number of holders, so nothing leaked and *)
(* nothing was dropped twice, and a freed task_struct left nothing behind.   *)
(* Threads share what they must in every state (ThreadsShare).               *)
CountsExact ==
  /\ ThreadsShare
  /\ Busy = {} =>
    /\ \A k \in Kinds, o \in Objects : count[k][o] = Holders(k, o)
    /\ nr_threads = InState({"running"})
    /\ processes = InState({"running", "idle"})
    /\ \A t \in Tasks : task[t].st = "free" => task[t].held = {}

LiveMms == {o \in Objects : count["mm"][o] > 0}

(* A partly copied memory map costs nothing: in every state the charged      *)
(* pages and the references to the mapped file are those of the linked vmas, *)
(* and the size of a map a task uses is the number of its pages.             *)
MemoryAccounted ==
  /\ committed = SumFunctionOnSet([o \in Objects |-> Accounted(mms[o].vmas)], LiveMms)
  /\ file_refs = SumFunctionOnSet([o \in Objects |-> FilesOf(mms[o])], LiveMms)
  /\ \A t \in Tasks : task[t].st = "running" /\ task[t].mm # 0
                      => mms[task[t].mm].total_vm = Len(mms[task[t].mm].vmas)

(* The completion of vfork lives on the stack of the parent: a child that is *)
(* about to signal it finds the parent still waiting, also when the parent   *)
(* is killed meanwhile; and the parent never looks at a freed child.         *)
VforkFramesLive ==
  \A t \in Tasks :
    /\ op[t].pc = "complete" /\ op[t].vfork # NoTask => vfork[op[t].vfork] = "waiting"
    /\ task[t].st = "running" /\ task[t].vfork_done # NoTask => vfork[task[t].vfork_done] = "waiting"
    /\ op[t].pc \in {"wait_for_vfork_done", "vfork_put"} => task[op[t].p].st # "free"
=============================================================================
