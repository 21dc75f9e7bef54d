------------------------------- MODULE MCFork -------------------------------
(* Three tasks; the calls are fork, vfork, pthread_create, and partial       *)
(* sharing.                                                                  *)
EXTENDS Fork

MCCloneFlags == {{"VM", "VFORK"}, {"VM", "FS", "FILES", "SIGHAND", "THREAD"}, {}, {"VM", "IDLE"},
                 {"THREAD", "VM"}, {"SIGHAND"}, {"NEWNS", "FS"}}

MCUnshareFlags == {{"FS", "FILES"}, {"NEWUSER"}}

Vma(d, a, f) == [dontcopy |-> d, account |-> a, file |-> f]

MCVmas == <<Vma(TRUE, TRUE, FALSE), Vma(FALSE, TRUE, TRUE)>>

Symmetric == Permutations(Tasks \ {InitTask})
=============================================================================
