--------------------------- MODULE MCLockManager ---------------------------
(* Instances of LockManager for TLC.                                         *)
EXTENDS LockManager, TLC

CONSTANTS rw, wr, wr2, wr3, rd  \* a reader-writer, three writer-only and a reader-only lock

MCKind == [l \in Locks |-> CASE l = rw -> "RWLock" [] l \in {wr, wr2, wr3} -> "WLock" [] l = rd -> "RLock"]

(* Locks the trace never shows as recursive.                                 *)
MCFlags == [l \in Locks |-> {FALSE}]

(* Locks whose flag may differ from event to event.                          *)
MCRecursive == [l \in Locks |-> IF l = rd THEN {FALSE} ELSE BOOLEAN]
=============================================================================
