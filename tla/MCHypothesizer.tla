--------------------------- MODULE MCHypothesizer ---------------------------
(* The hypothesizer: how it reads its input, and how it searches the         *)
(* hypotheses of one member, for up to three different lock combinations.    *)
EXTENDS Hypothesizer, HypothesizerInput

InputsOf(combos, counts) ==
  UNION {[S -> counts] : S \in {T \in SUBSET combos : Cardinality(T) \in 1 .. 3}}

(* Three locks in different orders, one of them held twice.                  *)
MCOrders == InputsOf({<<>>, <<1>>, <<2>>, <<2, 1>>, <<1, 3>>, <<1, 2, 3>>, <<3, 1, 2>>, <<2, 1, 2>>}, 1 .. 2)

(* Fewer orders, with accesses of different weight.                          *)
MCWeighed == InputsOf({<<>>, <<1>>, <<1, 2>>, <<2, 3>>, <<1, 2, 3>>}, {1, 2, 5})

MCInputs == MCOrders \cup MCWeighed

Line(ms, ls, n) == [members |-> ms, locks |-> ls, occurrences |-> n]

(* Up to five locks and five members, one more than fit.                     *)
MCLines == {Line(ms, ls, 1 + Len(ls)) : ms \in {<<"r:a">>, <<"w:b", "r:a">>, <<"r:c", "w:d">>, <<"w:e">>},
                                        ls \in {<<>>, <<"l1">>, <<"l2", "l1">>, <<"l3", "l4">>, <<"l1", "l5", "l1">>}}

-----------------------------------------------------------------------------
SearchOff == combinations = <<>> /\ locks_held_sorted = <<>> /\ strategy = "lockset" /\ phase = "off" /\ Fresh
InputOff == Empty /\ reading = "off"
HypothesizerInit == (Init /\ InputOff) \/ (SearchOff /\ InputInit)
HypothesizerNext == (Next /\ UNCHANGED input_vars) \/ (InputNext /\ UNCHANGED vars)

(* The program runs to its end.                                              *)
FairSpec == HypothesizerInit /\ [][HypothesizerNext]_<<vars, input_vars>> /\ WF_<<vars, input_vars>>(HypothesizerNext)

(* Reading and searching both come to an end for every input (but for the    *)
(* one that InputEnds names).                                                *)
HypothesizerEnds == Terminates /\ InputEnds
=============================================================================
