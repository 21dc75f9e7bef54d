------------------------- MODULE HypothesizerInput -------------------------
(***************************************************************************)
(* How the hypothesizer reads its input: ids of type myid_t for locks and   *)
(* members, the lock combinations counted per member, and the loop that     *)
(* copies them to the members.  myid_t has Width bits (16 in the code).     *)
(***************************************************************************)
EXTENDS Integers, SequencesExt

CONSTANTS Lines,      \* input lines: [members, locks, occurrences], names in vectors
          MaxLines,   \* bound on the number of lines
          Width

ASSUME WidthAssumption == Width \in Nat \ {0}
ASSUME MaxLinesAssumption == MaxLines \in Nat
ASSUME LinesAssumption ==
  \A e \in Lines : /\ DOMAIN e = {"members", "locks", "occurrences"}
                   /\ e.members \in Seq(STRING) /\ IsInjective(e.members)
                   /\ e.locks \in Seq(STRING) /\ e.occurrences \in Nat \ {0}

VARIABLES
  locks, members,          \* names; the id is the position, from 0
  occurrences,             \* per member: all accesses
  occurrences_with_locks,  \* per member: those with a lock held
  members_combinations,    \* per member: vector of lock ids -> occurrences
  copies,                  \* per member: how often its combinations were copied (capped)
  i,                       \* the counter of the copy loop
  lines, reading           \* read, copy, done or error

input_vars == <<locks, members, occurrences, occurrences_with_locks, members_combinations, copies, i, lines, reading>>

MaxId == 2 ^ Width - 1
CopyCap == 2               \* more copies than this are not told apart

Empty == /\ locks = <<>> /\ members = <<>> /\ members_combinations = <<>>
         /\ occurrences = <<>> /\ occurrences_with_locks = <<>> /\ copies = <<>>
         /\ i = 0 /\ lines = 0
InputInit == Empty /\ reading = "read"

-----------------------------------------------------------------------------
(* The names known after those of a line, new ones at the end.               *)
WithNames(known, names) ==
  LET after[k \in 0 .. Len(names)] ==
        IF k = 0 THEN known
        ELSE IF Contains(after[k - 1], names[k]) THEN after[k - 1] ELSE Append(after[k - 1], names[k])
  IN  after[Len(names)]

IdOf(known, name) == SelectInSeq(known, LAMBDA n : n = name) - 1

TooMany(known) == Len(known) - 1 > MaxId

(* Mutant: a combination seen again replaces the one before.                 *)
Counted_anew(combos, held, n) == [c \in DOMAIN combos \cup {held} |-> IF c = held THEN n ELSE combos[c]]
Counted(combos, held, n) ==
  [c \in DOMAIN combos \cup {held} |->
     (IF c \in DOMAIN combos THEN combos[c] ELSE 0) + (IF c = held THEN n ELSE 0)]

ReadLine(e) ==
  LET ls == WithNames(locks, e.locks)
      ms == WithNames(members, e.members)
      held == [k \in 1 .. Len(e.locks) |-> IdOf(ls, e.locks[k])]
      Of(s, m, new) == IF m <= Len(s) THEN s[m] ELSE new
      hit(m) == Contains(e.members, ms[m])
  IN  /\ reading = "read" /\ lines < MaxLines
      /\ ~TooMany(ls) /\ ~TooMany(ms)
      /\ lines' = lines + 1 /\ locks' = ls /\ members' = ms
      /\ occurrences' = [m \in 1 .. Len(ms) |-> Of(occurrences, m, 0) + (IF hit(m) THEN e.occurrences ELSE 0)]
      /\ occurrences_with_locks' = [m \in 1 .. Len(ms) |->
           Of(occurrences_with_locks, m, 0) + (IF hit(m) /\ held # <<>> THEN e.occurrences ELSE 0)]
      /\ members_combinations' = [m \in 1 .. Len(ms) |->
           IF hit(m) THEN Counted(Of(members_combinations, m, <<>>), held, e.occurrences)
           ELSE members_combinations[m]]
      /\ copies' = [m \in 1 .. Len(ms) |-> 0]
      /\ UNCHANGED <<i, reading>>

(* One name too many: the program ends.                                      *)
Overflow(e) ==
  /\ reading = "read" /\ lines < MaxLines
  /\ TooMany(WithNames(locks, e.locks)) \/ TooMany(WithNames(members, e.members))
  /\ reading' = "error"
  /\ UNCHANGED <<locks, members, occurrences, occurrences_with_locks, members_combinations, copies, i, lines>>

EndOfInput ==
  /\ reading = "read" /\ reading' = "copy"
  /\ UNCHANGED <<locks, members, occurrences, occurrences_with_locks, members_combinations, copies, i, lines>>

More == i < Len(members)

(* ++i on a myid_t wraps around.                                             *)
Incremented(n) == (n + 1) % 2 ^ Width

Copy ==
  /\ reading = "copy" /\ More
  /\ copies' = [copies EXCEPT ![i + 1] = IF @ < CopyCap THEN @ + 1 ELSE @]
  /\ i' = Incremented(i)
  /\ UNCHANGED <<locks, members, occurrences, occurrences_with_locks, members_combinations, lines, reading>>

EndOfCopy ==
  /\ reading = "copy" /\ ~More
  /\ reading' = "done"
  /\ UNCHANGED <<locks, members, occurrences, occurrences_with_locks, members_combinations, copies, i, lines>>

InputNext == (\E e \in Lines : ReadLine(e) \/ Overflow(e)) \/ EndOfInput \/ Copy \/ EndOfCopy

InputSpec == InputInit /\ [][InputNext]_input_vars

-----------------------------------------------------------------------------
(* Properties *)

Sum(combos, S) == SumFunctionOnSet(combos, S)

(* What a member's hypotheses are measured against adds up: its occurrences   *)
(* are those of its combinations, and ids tell all names apart.  And in the  *)
(* end every member has got its combinations exactly once.                   *)
MembersComplete ==
  /\ IsInjective(locks) /\ IsInjective(members)
  /\ \A m \in 1 .. Len(members) :
       LET combos == members_combinations[m]
       IN  /\ occurrences[m] = Sum(combos, DOMAIN combos)
           /\ occurrences_with_locks[m] = Sum(combos, DOMAIN combos \ {<<>>})
  /\ reading = "done" => \A m \in 1 .. Len(members) : copies[m] = 1

(* The copy loop ends for every input but one kind: as many members as there *)
(* are ids.  Those pass the check of the number of members ("More members    *)
(* than myid_t can hold"), and i wraps before it reaches it.                 *)
InputEnds == <>(reading \in {"done", "error", "off"} \/ Len(members) = MaxId + 1)
=============================================================================
