----------------------------- MODULE HeldLocks -----------------------------
(***************************************************************************)
(* What the lock manager promises its readers: per context, the sub locks   *)
(* recorded as held, in the order they were taken.  TXN ids, timestamps,    *)
(* counters and restarts are its own business.                              *)
(*                                                                          *)
(* An event on a lock never changes what is recorded of another lock, nor   *)
(* the order of the rest; a V removes at most one take, from another        *)
(* context only if its own has none; nothing is taken once closing started. *)
(***************************************************************************)
EXTENDS StackOps

CONSTANTS Locks, SubLocks, Ctxs

VARIABLES held,      \* per context: the sequence of sub locks taken
          closing    \* the trace has ended

vars == <<held, closing>>

Takes(c, l, sub) == {i \in 1 .. Len(held[c]) : held[c][i] = <<l, sub>>}
TakesOf(c, l) == {i \in 1 .. Len(held[c]) : held[c][i][1] = l}

Init == held = [c \in Ctxs |-> <<>>] /\ closing = FALSE

(* A take is added on top; stale takes of the same lock may go.              *)
Acquire(l, sub, c) ==
  /\ ~closing
  /\ \E E \in SUBSET TakesOf(c, l) :
        held' = [held EXCEPT ![c] = Append(EraseAt(held[c], E), <<l, sub>>)]
  /\ UNCHANGED closing

(* The latest take goes: of this context, or of another if this one has none. *)
Release(l, sub, c) ==
  /\ ~closing
  /\ \E d \in Ctxs :
        /\ Takes(d, l, sub) # {}
        /\ d # c => Takes(c, l, sub) = {}
        /\ held' = [held EXCEPT ![d] = EraseAt(held[d], {Topmost(Takes(d, l, sub))})]
  /\ UNCHANGED closing

EndOfTrace == ~closing /\ closing' = TRUE /\ UNCHANGED held

(* At the end the takes are dropped one by one, the latest first.            *)
Drop(c) == closing /\ held[c] # <<>> /\ held' = [held EXCEPT ![c] = Pop(held[c])] /\ UNCHANGED closing

Next == \/ \E l \in Locks, sub \in SubLocks, c \in Ctxs : Acquire(l, sub, c) \/ Release(l, sub, c)
        \/ EndOfTrace
        \/ \E c \in Ctxs : Drop(c)

Spec == Init /\ [][Next]_vars
=============================================================================
