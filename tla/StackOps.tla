------------------------------ MODULE StackOps ------------------------------
(***************************************************************************)
(* Operations on a stack held as a sequence, bottom first, the way          *)
(* convert keeps a std::deque per execution context.                        *)
(***************************************************************************)
EXTENDS Integers, Sequences, FiniteSets

(* The stack s without the entries at the positions E, the others in order: *)
(* the positions kept, each at its rank among them.                         *)
EraseAt(s, E) ==
  LET kept == (1 .. Len(s)) \ E
      at(m) == CHOOSE i \in kept : Cardinality({j \in kept : j <= i}) = m
  IN  [m \in 1 .. Cardinality(kept) |-> s[at(m)]]

(* The highest position in the set I, or 0 if it is empty.                   *)
Topmost(I) == IF I = {} THEN 0 ELSE CHOOSE i \in I : \A j \in I : j <= i

Top(s) == s[Len(s)]
Pop(s) == SubSeq(s, 1, Len(s) - 1)
=============================================================================
