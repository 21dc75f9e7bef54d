---------------------------- MODULE Hypothesizer ----------------------------
(***************************************************************************)
(* The hypothesizer for one member of a data type: from the lock            *)
(* combinations held at its accesses it derives all locking hypotheses,     *)
(* links them in a graph, and searches the graph breadth-first for the      *)
(* winning hypothesis with one of four strategies.                          *)
(*                                                                          *)
(* A hypothesis is a sorted vector of lock ids.  Its relative support is a  *)
(* double with the member's occurrences as denominator; here it is the      *)
(* numerator, and thresholds are percentages.  Members share nothing, so    *)
(* the parallel loop over them is this module once per member.              *)
(***************************************************************************)
EXTENDS Integers, SequencesExt

CONSTANTS Inputs,            \* what a member may have in the input: combination -> occurrences
          Strategies,        \* subset of topdown, bottomup, sharpen, lockset
          accept_threshold, nolock_threshold, reduction_factor, cutoff_threshold,  \* in percent
          max_hypo_len       \* 0: no limit

Percent == 0 .. 100
ASSUME ThresholdAssumption == /\ {accept_threshold, nolock_threshold, reduction_factor, cutoff_threshold} \subseteq Percent
                              /\ max_hypo_len \in Nat
(* A member has at least one line of the input, each with its occurrences.   *)
ASSUME InputsAssumption ==
  \A c \in Inputs : /\ IsFiniteSet(DOMAIN c) /\ DOMAIN c # {}
                    /\ \A held \in DOMAIN c : held \in Seq(Nat) /\ c[held] \in Nat \ {0}
ASSUME StrategyAssumption == Strategies \subseteq {"topdown", "bottomup", "sharpen", "lockset"}

VARIABLES
  combinations,        \* the member's lock combinations: vector of lock ids -> occurrences
  locks_held_sorted,   \* the sorted copy kept with each combination
  strategy,
  phase,               \* find, search, report, done; off if another part runs
  depth,               \* length of the hypotheses found next
  hypotheses,          \* the hypotheses evaluated
  graph,               \* hypothesis -> those with one lock more
  nodes,               \* queue of the search
  conflict_list,       \* equal best hypotheses, <<sorted, ordered>>
  rel_support_winner,
  winner_found,
  report               \* the lines printed: [locks, occurrences, accepted]

observed == <<combinations, locks_held_sorted>>
vars == <<observed, strategy, phase, depth, hypotheses, graph, nodes, conflict_list,
          rel_support_winner, winner_found, report>>
search == <<nodes, conflict_list, rel_support_winner, winner_found>>

root_node == <<>>

-----------------------------------------------------------------------------
(* Matching hypotheses against lock combinations *)

(* std::sort and the order of std::set: the element with k - 1 smaller ones   *)
(* is the k-th.                                                              *)
InOrder(S, less(_, _)) == [k \in 1 .. Cardinality(S) |-> CHOOSE x \in S : Cardinality({y \in S : less(y, x)}) = k - 1]

(* Mutant: the walk is over the combination in the order of the locking.     *)
Unsorted_locks(held) == held
update_sorted_locks(held) ==
  LET at == InOrder(DOMAIN held, LAMBDA i, j : held[i] < held[j] \/ (held[i] = held[j] /\ i < j))
  IN  [k \in DOMAIN held |-> held[at[k]]]

(* One walk over the sorted combination finds the locks of the sorted l one   *)
(* after the other.                                                          *)
contains_locks(held, l) ==
  LET mine == locks_held_sorted[held]
      their[i \in 0 .. Len(mine)] ==        \* the lock of l looked for after i locks
        IF i = 0 THEN 1
        ELSE LET k == their[i - 1]
             IN  IF k <= Len(l) /\ mine[i] = l[k] THEN k + 1 ELSE k
  IN  their[Len(mine)] > Len(l)

(* The locks of l in the order held, each once.                              *)
lock_order(held, l) ==
  LET ret[i \in 0 .. Len(held)] ==
        IF i = 0 THEN <<>>
        ELSE IF held[i] \in ToSet(l) \ ToSet(ret[i - 1]) THEN Append(ret[i - 1], held[i]) ELSE ret[i - 1]
  IN  ret[Len(held)]

(* Observed combinations with all locks of h, their count, and for each order *)
(* the count.                                                                *)
Matching(h) == {held \in DOMAIN combinations : contains_locks(held, h)}
CountOf(S) == SumFunctionOnSet(combinations, S)
Occurrences == CountOf(DOMAIN combinations)
OccurrencesWithLocks == CountOf(DOMAIN combinations \ {<<>>})
Matches(h) ==
  LET matching == Matching(h)
  IN  [o \in {lock_order(held, h) : held \in matching} |-> CountOf({held \in matching : lock_order(held, h) = o})]

(* std::vector's operator<, the order of std::set and std::map.              *)
LexLess(a, b) ==
  \E k \in 1 .. Len(b) :
     /\ k - 1 <= Len(a) /\ \A i \in 1 .. k - 1 : a[i] = b[i]
     /\ k = Len(a) + 1 \/ (k <= Len(a) /\ a[k] < b[k])

(* The order that represents h: the most frequent one, the first of equals.  *)
Representative(h) ==
  LET m == Matches(h)
      best == {o \in DOMAIN m : \A q \in DOMAIN m : m[q] <= m[o]}
  IN  CHOOSE o \in best : \A q \in best : q = o \/ LexLess(o, q)
Support(h) == Matches(h)[Representative(h)]

-----------------------------------------------------------------------------
(* Finding hypotheses and building the graph *)

(* All hypotheses of d locks that are held together in some combination.     *)
FoundAt(d) ==
  UNION {{InOrder(L, <) : L \in {M \in SUBSET ToSet(held) : Cardinality(M) = d}} : held \in DOMAIN combinations}

(* diff_hypotheses returns 1 or more: lhs is a run of consecutive locks of rhs. *)
Extends(lhs, rhs) ==
  /\ Len(rhs) > Len(lhs)
  /\ \E i \in 0 .. Len(rhs) - Len(lhs) : \A k \in 1 .. Len(lhs) : lhs[k] = rhs[k + i]

(* add_hypothesis_to_graph: from the root, level by level, down the children *)
(* of the nodes that h extends, to those with one lock less than h.          *)
ParentsOf(h) ==
  LET reached[k \in 0 .. Len(h) - 1] ==
        IF k = 0 THEN {root_node}
        ELSE {n \in UNION {graph[p] : p \in reached[k - 1]} : Extends(n, h)}
  IN  reached[Len(h) - 1]

Fresh == /\ depth = 0 /\ hypotheses = {} /\ graph = [n \in {root_node} |-> {}]
         /\ nodes = <<>> /\ conflict_list = <<>>
         /\ rel_support_winner = 0 /\ winner_found = FALSE
         /\ report = {}
Init == /\ combinations \in Inputs /\ locks_held_sorted = [held \in DOMAIN combinations |-> update_sorted_locks(held)]
        /\ strategy \in Strategies /\ phase = "find" /\ Fresh

(* find_hypotheses: one round of the loop, then the next depth or the search. *)
FindHypotheses ==
  LET new == FoundAt(depth) \ hypotheses
      last == new = {} \/ (max_hypo_len > 0 /\ depth >= max_hypo_len)
  IN  /\ phase = "find"
      /\ hypotheses' = hypotheses \cup new
      /\ graph' = [n \in DOMAIN graph \cup new |->
           (IF n \in DOMAIN graph THEN graph[n] ELSE {})
             \cup {h \in new : h # root_node /\ n \in ParentsOf(h)}]
      /\ depth' = depth + 1
      /\ phase' = IF last THEN "search" ELSE "find"
      /\ UNCHANGED <<observed, strategy, search, report>>

-----------------------------------------------------------------------------
(* determine_winning_hypothesis *)

Children(n) == InOrder(graph[n], LexLess)

(* No lock wins at the start.  The topdown strategy starts over from the     *)
(* root, with no winner.                                                     *)
TopdownSupport_not_reset == Occurrences        \* mutant
TopdownSupport == 0

StartSearch ==
  /\ phase = "search" /\ conflict_list = <<>>
  /\ conflict_list' = << <<root_node, root_node>> >>
  /\ IF strategy = "topdown"
     THEN nodes' = <<root_node>> /\ rel_support_winner' = TopdownSupport /\ winner_found' = FALSE
     ELSE nodes' = Children(root_node) /\ rel_support_winner' = Occurrences /\ winner_found' = TRUE
  /\ UNCHANGED <<observed, strategy, phase, depth, hypotheses, graph, report>>

Accepted(sup) == accept_threshold * Occurrences <= 100 * sup
NolockWins == 100 * (Occurrences - OccurrencesWithLocks) >= nolock_threshold * Occurrences

SizeOfBest == Len(conflict_list[1][1])

(* h is as good as the winner of the strategy so far.                        *)
EqualTo(h, sup) ==
  /\ Len(h) = SizeOfBest
  /\ IF strategy = "lockset" THEN sup = Occurrences ELSE sup = rel_support_winner

(* h is better.  (delta is the loss of support relative to the winner.)      *)
AnyLoss(sup) == TRUE                           \* mutant
SmallLoss(sup) == (100 - reduction_factor) * rel_support_winner <= 100 * sup

Better(h, sup) ==
  CASE strategy = "bottomup" -> \/ Accepted(sup) /\ sup < rel_support_winner
                                \/ Len(h) > SizeOfBest /\ sup = rel_support_winner
    [] strategy = "sharpen" -> \/ Len(h) = SizeOfBest /\ sup > rel_support_winner
                               \/ Len(h) > SizeOfBest /\ (sup = rel_support_winner \/ SmallLoss(sup))
    [] strategy = "topdown" -> Accepted(sup) /\ sup >= rel_support_winner /\ Len(h) >= SizeOfBest
    [] strategy = "lockset" -> sup = Occurrences /\ Len(h) > SizeOfBest

in_conflict_list(o) == \E i \in 1 .. Len(conflict_list) : conflict_list[i][2] = o

(* Mutants: an equal hypothesis is added again, or its children are not      *)
(* examined.                                                                 *)
Saved_again(h, o) == Append(conflict_list, <<h, o>>)
Saved(h, o) == IF in_conflict_list(o) THEN conflict_list ELSE Append(conflict_list, <<h, o>>)

Unexamined(n) == <<>>
Examined(n) == Children(n)

NotPopped(q) == q                              \* mutant
Popped(q) == Tail(q)

Searching == phase = "search" /\ nodes # <<>>
            /\ UNCHANGED <<observed, strategy, phase, depth, hypotheses, graph, report>>

TopdownRoot == Searching /\ strategy = "topdown" /\ (NolockWins \/ Head(nodes) = root_node)

(* Topdown: no lock wins outright, or the root only leads to its children.   *)
ExamineTopdownRoot ==
  /\ TopdownRoot
  /\ winner_found' = (winner_found \/ NolockWins)
  /\ nodes' = IF NolockWins THEN Popped(nodes) ELSE Popped(nodes) \o Children(root_node)
  /\ UNCHANGED <<conflict_list, rel_support_winner>>

Examine ==
  LET h == Head(nodes)
      o == Representative(h)
      sup == Support(h)
  IN  /\ Searching /\ ~TopdownRoot
      /\ \/ /\ EqualTo(h, sup)
            /\ conflict_list' = Saved(h, o)
            /\ nodes' = Popped(nodes) \o Examined(h)
            /\ UNCHANGED <<rel_support_winner, winner_found>>
         \/ /\ ~EqualTo(h, sup) /\ Better(h, sup)
            /\ conflict_list' = << <<h, o>> >>
            /\ nodes' = Popped(nodes) \o Examined(h)
            /\ rel_support_winner' = IF strategy = "lockset" THEN rel_support_winner ELSE sup
            /\ winner_found' = TRUE
         \/ /\ ~EqualTo(h, sup) /\ ~Better(h, sup)
            /\ nodes' = Popped(nodes)
            /\ UNCHANGED <<conflict_list, rel_support_winner, winner_found>>

EndSearch ==
  /\ phase = "search" /\ nodes = <<>> /\ conflict_list # <<>>
  /\ phase' = "report"
  /\ UNCHANGED <<observed, strategy, depth, hypotheses, graph, search, report>>

winning_hypothesis == conflict_list[1][2]

-----------------------------------------------------------------------------
(* print_hypotheses *)

Shown == {h \in hypotheses : 100 * CountOf(Matching(h)) >= cutoff_threshold * Occurrences}

(* Mutant: the winner is compared with the sorted locks.                     *)
IsWinner_sorted(h, o) == winner_found /\ winning_hypothesis = h
IsWinner(h, o) == winner_found /\ winning_hypothesis = o

Report ==
  /\ phase = "report"
  /\ report' = UNION {{[locks |-> o, occurrences |-> Matches(h)[o],
                        accepted |-> IF IsWinner(h, o) THEN 1 ELSE IF winner_found /\ in_conflict_list(o) THEN 2 ELSE 0] :
                       o \in DOMAIN Matches(h)} : h \in Shown}
  /\ phase' = "done"
  /\ UNCHANGED <<observed, strategy, depth, hypotheses, graph, search>>

Next == FindHypotheses \/ StartSearch \/ ExamineTopdownRoot \/ Examine \/ EndSearch \/ Report

Spec == Init /\ [][Next]_vars

-----------------------------------------------------------------------------
(* Properties *)

(* The walk of contains_locks is set inclusion, for combinations in any order *)
(* and with locks held twice: no occurrence of a hypothesis is missed.       *)
ContainsIsInclusion ==
  \A h \in hypotheses : Matching(h) = {held \in DOMAIN combinations : ToSet(h) \subseteq ToSet(held)}

(* hypothesizer.cc, conflict_list: its entries have the same number of locks *)
(* and the same relative support, and none is listed twice.                  *)
ConflictListEqual ==
  \A i, j \in 1 .. Len(conflict_list) :
     /\ Len(conflict_list[i][1]) = Len(conflict_list[j][1])
     /\ Support(conflict_list[i][1]) = Support(conflict_list[j][1])
     /\ conflict_list[i][2] = conflict_list[j][2] => i = j

Found(S) == {h \in S : \A g \in S : Len(g) <= Len(h)}
Winners == {conflict_list[i][1] : i \in 1 .. Len(conflict_list)}
Decided(s) == phase = "done" /\ strategy = s

(* lockset finds all of the largest lock sets that are held, in one order, at *)
(* every access, although the search only follows runs of lock ids.          *)
LocksetComplete ==
  Decided("lockset") => Winners = Found({h \in hypotheses : Support(h) = Occurrences})

(* topdown finds all of the largest hypotheses with the best support any     *)
(* lock has, if that is accepted.                                            *)
TopdownComplete ==
  Decided("topdown") =>
    LET locking == hypotheses \ {root_node}
        best == {h \in locking : Accepted(Support(h)) /\ \A g \in locking : Support(g) <= Support(h)}
    IN  IF NolockWins \/ best = {} THEN Winners = {root_node} /\ winner_found = NolockWins
        ELSE Winners = Found(best) /\ winner_found

(* bottomup stops where no child of a winner would be chosen over it.        *)
BottomupStops ==
  Decided("bottomup") =>
    \A h \in Winners : \A g \in graph[h] : ~(Support(g) = Support(h) \/ (Accepted(Support(g)) /\ Support(g) < Support(h)))

Power(b, n) ==
  LET power[i \in 0 .. n] == IF i = 0 THEN 1 ELSE b * power[i - 1]
  IN  power[n]

(* Option -f: each further lock of a winner of sharpen costs at most the     *)
(* reduction factor.                                                         *)
SharpenLossBounded ==
  Decided("sharpen") =>
    LET n == Len(winning_hypothesis)
    IN  Power(100, n) * Support(conflict_list[1][1]) >= Power(100 - reduction_factor, n) * Occurrences

(* The report marks exactly one line as the winner, with its locks in order. *)
WinnerReported ==
  phase = "done" /\ winner_found =>
    \E r \in report : /\ r.accepted = 1 /\ r.locks = winning_hypothesis
                      /\ \A q \in report : q.accepted = 1 => q = r

(* The search empties its queue for every input.                             *)
Terminates == <>(phase \in {"done", "off"})
=============================================================================
