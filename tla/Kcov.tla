-------------------------------- MODULE Kcov --------------------------------
(* The preloaded coverage library (coverage/kcov/kcov-lib.cc, Linux build):  *)
(* start_kcov, finish_kcov, cleanup_kcov, the signal handler and the fork    *)
(* wrapper, in processes that open and close files, fork, spawn, exec, exit  *)
(* and are terminated.  A SIGTERM may arrive between any two steps.          *)
(* The kernel's kcov device is external: an instance has one owner, which    *)
(* only the owner can disable; the owner's kernel code is recorded in it.    *)
EXTENDS Integers, FiniteSets, FiniteSetsExt

CONSTANTS
  Procs,         \* process ids
  First,         \* the process started with LD_PRELOAD
  Instances,     \* kcov instances the device can hand out
  NULL,
  MaxFd,         \* largest descriptor a process may have
  ForeignFd,     \* the descriptor in KCOV_OUT=fd:N
  Settings,      \* kinds of KCOV_OUT with values of KCOV_MODE ("unique",
                 \* "order", "unknown"), [out, mode]: "unset", a "file", fd:N
                 \* with N open when the program starts ("fd") or not ("stray")
  MaxCalls       \* bound on the calls of the programs

ASSUME KcovAssumption ==
  /\ First \in Procs /\ "none" \notin Procs /\ NULL \notin Instances
  /\ {"closed", "program", "out"} \cap Instances = {}
  /\ {MaxFd, MaxCalls} \subseteq Nat /\ ForeignFd \in 0 .. MaxFd

VARIABLES
  proc,          \* the processes
  owner,         \* the process whose code an instance records, or NoProc
  buffer,        \* the recorded program counters of an instance
  output,        \* lines of the output file
  setting,       \* the environment variables nobody changes
  calls

kcov_vars == <<proc, owner, buffer, output, setting, calls>>
kernel == <<owner, buffer>>
NoProc == "none"

Fds == 0 .. MaxFd
Files == {"closed", "program", "out"} \cup Instances

(* The statics of a fresh image: descriptors are 0, the buffer is NULL.      *)
Image == [kcov_fd |-> 0, out_fd |-> 0, foreign_fd |-> FALSE, area |-> NULL, pcs_size |-> 0,
          kcov_mode |-> "unique"]

(* ctl and out are KCOV_CTL_FD and KCOV_OUT_FD, -1 is unset.  The last six   *)
(* fields are history: kernel code ran while traced, a SIGTERM was handled,  *)
(* the program closed a descriptor of the library, the descriptors of other  *)
(* files that the library closed, those of the program that it wrote, and    *)
(* whether it read a buffer that is not mapped.                              *)
NotStarted ==
  [lib |-> Image, st |-> "unused", pc |-> "run", then |-> "run", in_fork |-> FALSE,
   fds |-> [fd \in Fds |-> "closed"], ctl |-> -1, out |-> -1,
   sigterm |-> "default", blocked |-> FALSE, pending |-> FALSE,
   ran |-> FALSE, handled |-> FALSE, meddled |-> FALSE, lost |-> {}, wrote |-> {},
   fault |-> FALSE]

GivenFd == setting.out \in {"fd", "stray"}
Passed == IF setting.out = "fd" THEN "out" ELSE "closed"

(* Descriptor 0 is the program's or closed.  Whoever starts the program may  *)
(* have set KCOV_OUT=fd:N without opening N.                                 *)
KcovInit ==
  /\ setting \in Settings
  /\ \E stdin \in {"program", "closed"}, sig \in {"default", "ignored"} :
       proc = [p \in Procs |->
         IF p # First THEN NotStarted
         ELSE [NotStarted EXCEPT !.st = "live", !.pc = "start", !.sigterm = sig,
                 !.fds = [fd \in Fds |-> IF fd = ForeignFd /\ GivenFd THEN Passed
                                         ELSE IF fd = 0 THEN stdin ELSE "closed"]]]
  /\ owner = [k \in Instances |-> NoProc]
  /\ buffer = [k \in Instances |-> {}]
  /\ output = {} /\ calls = 0

KcovOff ==
  /\ proc = [p \in Procs |-> NotStarted] /\ setting = [out |-> "unset", mode |-> "unique"]
  /\ owner = [k \in Instances |-> NoProc] /\ buffer = [k \in Instances |-> {}]
  /\ output = {} /\ calls = 0

----------------------------------------------------------------------------
At(p, pc) == proc[p].st = "live" /\ proc[p].pc = pc

(* A step of a process that leaves the kernel and the output alone.          *)
Become(p, r) == proc' = [proc EXCEPT ![p] = r] /\ UNCHANGED <<kernel, output, setting, calls>>

FileAt(r, fd) == IF fd \in Fds THEN r.fds[fd] ELSE "closed"

Free(r) == {fd \in Fds : r.fds[fd] = "closed"}

(* A process that is gone keeps only what the properties ask for.            *)
Dead(r, how) == [NotStarted EXCEPT !.st = how, !.ran = r.ran, !.handled = r.handled,
                   !.in_fork = r.in_fork, !.meddled = r.meddled, !.lost = r.lost, !.wrote = r.wrote,
                   !.fault = r.fault, !.lib.kcov_fd = r.lib.kcov_fd]

(* The kernel takes what the process had; an instance nobody refers to any   *)
(* more is cleared when it is handed out again.                              *)
Ends(p, r) ==
  /\ proc' = [proc EXCEPT ![p] = r]
  /\ owner' = [k \in Instances |-> IF owner[k] = p THEN NoProc ELSE owner[k]]
  /\ UNCHANGED <<buffer, output, setting, calls>>

Unreferenced ==
  {k \in Instances : /\ owner[k] = NoProc
                     /\ \A p \in Procs : proc[p].lib.area # k /\ \A fd \in Fds : proc[p].fds[fd] # k}

(* ioctl(KCOV_DISABLE): refused unless this process owns the instance.       *)
Disabled(p, fd) ==
  [k \in Instances |-> IF FileAt(proc[p], fd) = k /\ owner[k] = p THEN NoProc ELSE owner[k]]

----------------------------------------------------------------------------
(* cleanup_kcov: disable, unmap, close, forget.                             *)

CleanupDisable(p) ==
  /\ At(p, "cleanup")
  /\ owner' = Disabled(p, proc[p].lib.kcov_fd)
  /\ proc' = [proc EXCEPT ![p].pc = "munmap"]
  /\ UNCHANGED <<buffer, output, setting, calls>>

CleanupUnmap(p) ==
  /\ At(p, "munmap")
  /\ Become(p, [proc[p] EXCEPT !.lib.area = NULL, !.pc = "close"])

(* Mutant: the output is closed although it was passed in.                   *)
ClosesOutAlways(r) == TRUE
ClosesOut(r) == ~r.lib.foreign_fd

Reset(r) == [r.lib EXCEPT !.kcov_fd = -1, !.out_fd = -1, !.foreign_fd = FALSE]

NotOurs == IF GivenFd THEN {"program", "out"} ELSE {"program"}

CleanupClose(p) ==
  LET r == proc[p]
      closed == {r.lib.kcov_fd} \cup (IF ClosesOut(r) THEN {r.lib.out_fd} ELSE {})
  IN
  /\ At(p, "close")
  /\ Become(p, [r EXCEPT !.fds = [fd \in Fds |-> IF fd \in closed THEN "closed" ELSE r.fds[fd]],
                         !.lost = @ \cup {fd \in closed : FileAt(r, fd) \in NotOurs},
                         !.lib = Reset(r), !.ctl = -1, !.out = -1, !.pc = r.then])

----------------------------------------------------------------------------
(* start_kcov, run by the constructor of a fresh image or by fork.          *)

Returned(r) == [r EXCEPT !.pc = "run", !.blocked = FALSE, !.in_fork = FALSE]

(* setup_signal_handler replaces whatever is installed for SIGTERM.          *)
start_kcov(p) ==
  /\ At(p, "start")
  /\ Become(p, IF proc[p].lib.kcov_fd > 0 THEN Returned(proc[p])
               ELSE [proc[p] EXCEPT !.sigterm = "library", !.lib.out_fd = -1, !.pc = "parse_env"])

(* KCOV_CTL_FD is set: an exec happened, the old tracing is cleaned up.      *)
parse_env(p) ==
  LET r == proc[p]
      inherited == [r EXCEPT !.lib.kcov_fd = r.ctl, !.lib.out_fd = r.out]
  IN
  /\ At(p, "parse_env")
  /\ Become(p,
       IF r.ctl = -1 THEN [r EXCEPT !.pc = "output"]
       ELSE IF FileAt(r, r.ctl) = "closed" \/ (r.out # -1 /\ FileAt(r, r.out) = "closed")
            THEN Returned([r EXCEPT !.lib.kcov_fd = -1, !.lib.out_fd = -1])
            ELSE [inherited EXCEPT !.pc = "cleanup", !.then = "output"])

(* The output: not given, passed in as a descriptor, or a file to append to. *)
(* The descriptor is not open: cleanup_kcov with the statics as they are.    *)
open_output(p) ==
  LET r == proc[p] IN
  /\ At(p, "output")
  /\ \/ setting.out = "unset" /\ Become(p, Returned(r))
     \/ /\ GivenFd /\ FileAt(r, ForeignFd) = "closed"
        /\ Become(p, [r EXCEPT !.lib.out_fd = ForeignFd, !.pc = "cleanup", !.then = "no_output"])
     \/ /\ GivenFd /\ FileAt(r, ForeignFd) # "closed"
        /\ Become(p, [r EXCEPT !.lib.out_fd = ForeignFd, !.lib.foreign_fd = TRUE, !.pc = "open"])
     \/ /\ setting.out = "file" /\ Free(r) # {}
        /\ Become(p, [r EXCEPT !.fds[Min(Free(r))] = "out", !.lib.out_fd = Min(Free(r)),
                               !.out = Min(Free(r)), !.pc = "open"])
     \/ setting.out = "file" /\ Become(p, Returned(r))      \* open fails, KCOV_OUT_FD is -1

no_output(p) == At(p, "no_output") /\ Become(p, Returned(proc[p]))

Given_up(r) == Returned([r EXCEPT !.lib.kcov_fd = -1, !.fds = [fd \in Fds |->
                           IF fd = r.lib.kcov_fd THEN "closed" ELSE r.fds[fd]]])

open_kcov(p) ==
  LET r == proc[p] IN
  /\ At(p, "open")
  /\ \/ /\ Free(r) # {}
        /\ \E k \in Unreferenced :
             /\ proc' = [proc EXCEPT ![p] = [r EXCEPT !.fds[Min(Free(r))] = k, !.lib.kcov_fd = Min(Free(r)),
                                                      !.pc = "mode"]]
             /\ buffer' = [buffer EXCEPT ![k] = {}]
             /\ UNCHANGED <<owner, output, setting, calls>>
     \/ Become(p, Returned([r EXCEPT !.lib.kcov_fd = -1]))

(* In unique mode the kernel tells the size of the buffer.                   *)
init_trace(p) ==
  LET r == [proc[p] EXCEPT !.lib.kcov_mode = IF setting.mode = "order" THEN "order" ELSE "unique"] IN
  /\ At(p, "mode")
  /\ \/ /\ setting.mode # "unknown"
        /\ Become(p, [r EXCEPT !.lib.pcs_size = IF setting.mode = "unique" THEN 1 ELSE @, !.pc = "mmap"])
     \/ Become(p, Given_up(r))

map_area(p) ==
  LET r == proc[p] IN
  /\ At(p, "mmap")
  /\ \/ Become(p, [r EXCEPT !.lib.area = r.fds[r.lib.kcov_fd], !.pc = "enable"])
     \/ Become(p, Given_up(r))

enable(p) ==
  LET r == proc[p]
      k == r.lib.area
  IN
  /\ At(p, "enable")
  /\ \/ /\ owner[k] = NoProc /\ \A j \in Instances : owner[j] # p
        /\ owner' = [owner EXCEPT ![k] = p]
        /\ proc' = [proc EXCEPT ![p] = Returned([r EXCEPT !.ctl = r.lib.kcov_fd])]
        /\ UNCHANGED <<buffer, output, setting, calls>>
     \/ Become(p, Given_up([r EXCEPT !.lib.area = NULL]))

----------------------------------------------------------------------------
(* finish_kcov, run at exit, by the signal handler and again at exit.       *)

finish_kcov(p) ==
  LET r == proc[p] IN
  /\ At(p, "finish")
  /\ IF r.lib.kcov_fd < 1
     THEN Ends(p, Dead(r, "finished"))
     ELSE /\ owner' = Disabled(p, r.lib.kcov_fd)
          /\ proc' = [proc EXCEPT ![p].pc = "dump"]
          /\ UNCHANGED <<buffer, output, setting, calls>>

(* A buffer that is not mapped is read unless its size is still zero.        *)
Faults(r) == r.lib.area = NULL /\ (r.lib.kcov_mode = "order" \/ r.lib.pcs_size > 0)

dump(p) ==
  LET r == proc[p] IN
  /\ At(p, "dump")
  /\ IF Faults(r)
     THEN Ends(p, Dead([r EXCEPT !.fault = TRUE], "killed"))
     ELSE /\ output' = IF r.lib.area # NULL /\ FileAt(r, r.lib.out_fd) = "out"
                       THEN output \cup buffer[r.lib.area] ELSE output
          /\ proc' = [proc EXCEPT ![p] =
               [r EXCEPT !.pc = "cleanup", !.then = "finish",
                         !.wrote = @ \cup IF r.lib.area # NULL /\ FileAt(r, r.lib.out_fd) = "program"
                                        THEN {r.lib.out_fd} ELSE {}]]
          /\ UNCHANGED <<owner, buffer, setting, calls>>

(* SIGTERM: the handler is reset, finishes the tracing, calls the handler    *)
(* it replaced and raises the signal again.                                  *)
signal_handler(p) ==
  LET r == proc[p] IN
  /\ r.st = "live" /\ r.pending /\ ~r.blocked
  /\ \/ r.sigterm = "default" /\ Ends(p, Dead(r, "killed"))
     \/ r.sigterm = "ignored" /\ Become(p, [r EXCEPT !.pending = FALSE])
     \/ /\ r.sigterm = "library"
        /\ Become(p, [r EXCEPT !.pending = FALSE, !.sigterm = "default", !.blocked = TRUE,
                               !.handled = TRUE, !.pc = "finish"])

----------------------------------------------------------------------------
(* The programs.                                                            *)

Called == calls < MaxCalls /\ calls' = calls + 1

Program(p, r) == At(p, "run") /\ Called /\ proc' = [proc EXCEPT ![p] = r] /\ UNCHANGED <<kernel, output, setting>>

(* Code runs in the kernel on behalf of the process.                         *)
Execute(p) ==
  /\ At(p, "run") /\ ~proc[p].ran
  /\ \E k \in Instances : owner[k] = p /\ buffer' = [buffer EXCEPT ![k] = @ \cup {p}]
  /\ proc' = [proc EXCEPT ![p].ran = TRUE]
  /\ UNCHANGED <<owner, output, setting, calls>>

OpenFile(p) == Free(proc[p]) # {} /\ Program(p, [proc[p] EXCEPT !.fds[Min(Free(proc[p]))] = "program"])

CloseFile(p) ==
  \E fd \in Fds \ Free(proc[p]) :
    Program(p, [proc[p] EXCEPT !.fds[fd] = "closed", !.meddled = @ \/ proc[p].fds[fd] # "program"])

IgnoreTerm(p) == Program(p, [proc[p] EXCEPT !.sigterm = "ignored"])

AfterExec(r) == [r EXCEPT !.lib = Image, !.pc = "start", !.ran = FALSE,
                          !.sigterm = IF @ = "library" THEN "default" ELSE @]

exec(p) == Program(p, AfterExec(proc[p]))

Exit(p) == At(p, "run") /\ Become(p, [proc[p] EXCEPT !.pc = "finish"])

Terminate(p) ==
  /\ proc[p].st = "live" /\ ~proc[p].pending /\ Called
  /\ proc' = [proc EXCEPT ![p].pending = TRUE]
  /\ UNCHANGED <<kernel, output, setting>>

NewProcess(p, r) ==
  /\ At(p, "run") /\ Called
  /\ \E q \in Procs : proc[q].st = "unused" /\ proc' = [proc EXCEPT ![q] = [r EXCEPT !.ran = FALSE, !.pending = FALSE]]
  /\ UNCHANGED <<kernel, output, setting>>

(* The fork wrapper continues in the child; vfork and posix_spawn followed   *)
(* by exec do not pass through it.                                           *)
fork(p) == NewProcess(p, [proc[p] EXCEPT !.pc = "fork_child", !.in_fork = TRUE])

Spawn(p) == NewProcess(p, AfterExec(proc[p]))

NotBlocked == FALSE                            \* mutant
Blocked == TRUE

fork_child(p) ==
  LET r == proc[p] IN
  /\ At(p, "fork_child")
  /\ Become(p, IF r.lib.kcov_fd > 0
               THEN [r EXCEPT !.blocked = Blocked, !.pc = "cleanup", !.then = "start"]
               ELSE Returned(r))

KcovNext ==
  \E p \in Procs :
    \/ CleanupDisable(p) \/ CleanupUnmap(p) \/ CleanupClose(p)
    \/ start_kcov(p) \/ parse_env(p) \/ open_output(p) \/ no_output(p) \/ open_kcov(p) \/ init_trace(p)
    \/ map_area(p) \/ enable(p)
    \/ finish_kcov(p) \/ dump(p) \/ signal_handler(p)
    \/ Execute(p) \/ OpenFile(p) \/ CloseFile(p) \/ IgnoreTerm(p) \/ exec(p) \/ Exit(p) \/ Terminate(p)
    \/ fork(p) \/ Spawn(p) \/ fork_child(p)

KcovSpec == KcovInit /\ [][KcovNext]_kcov_vars

----------------------------------------------------------------------------
(* What a process did in the kernel since its image was set up is in the     *)
(* output when it ends by exit or SIGTERM, whether it was forked, spawned or *)
(* had its descriptors inherited; except where KCOV_OUT names a descriptor   *)
(* that is not open, the program closed one of the library's descriptors or  *)
(* the device got descriptor 0, which finish_kcov takes for none.            *)
DumpComplete ==
  \A p \in Procs :
    /\ proc[p].st = "finished" /\ proc[p].ran /\ ~proc[p].meddled /\ proc[p].lib.kcov_fd # 0
    /\ setting.out # "stray"
    => p \in output

(* The library closes and writes only descriptors it opened, or was given to *)
(* write: numbers passed on in the environment and through fork still mean   *)
(* what they meant, as long as no program closed them.  The exception is     *)
(* KCOV_OUT=fd:N with an N that is not open: start_kcov then calls           *)
(* cleanup_kcov while kcov_fd is still 0 and so closes descriptor 0 of the   *)
(* program, and takes a file the program opens under N for its output; but   *)
(* these two descriptors only.                                               *)
OwnFilesOnly ==
  \A p \in Procs :
    ~proc[p].meddled => /\ proc[p].lost \subseteq IF setting.out = "stray" THEN {0} ELSE {}
                        /\ proc[p].wrote \subseteq IF setting.out = "stray" THEN {ForeignFd} ELSE {}

(* Only a SIGTERM that hits the start of an image or the end of a process    *)
(* makes finish_kcov read a buffer that is not mapped; not one that hits the *)
(* restart in a forked child, and not the second call at exit.               *)
FaultsOnlyAtEnds == \A p \in Procs : proc[p].fault => proc[p].handled /\ ~proc[p].in_fork
=============================================================================
