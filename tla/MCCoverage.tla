----------------------------- MODULE MCCoverage -----------------------------
(* The tools of the coverage directory.  They share no state: a behaviour    *)
(* runs one of them.                                                         *)
EXTENDS Kcov, Sfctool, Bb2lines, GcovIO, TLC

MCSettings ==
  {[out |-> "file", mode |-> "unique"], [out |-> "fd", mode |-> "order"],
   [out |-> "stray", mode |-> "order"],
   [out |-> "file", mode |-> "unknown"], [out |-> "unset", mode |-> "unique"]}

MCCommandLines ==
  LET Map(kind, strings) == [kind |-> kind, strings |-> strings, color |-> NoColor]
      Colored(c) == [kind |-> "color", strings |-> {}, color |-> c]
      red == <<2, 0, 0>>
      blue == <<0, 0, 2>>
      maps == {<<>>, <<Map("off", 1 .. 3), Colored(red), Map("on", 2 .. 6), Colored(blue)>>,
               <<Map("on", 1 .. 4), Colored(red), Map("off", 3 .. 5), Colored(blue)>>,
               <<Map("on", 1 .. 4), Colored(red), Map("on", 3 .. 5), Colored(blue)>>,
               <<Map("on", 1 .. 4)>>, <<Colored(red)>>}
  IN [curve : {"lines", "spiral", "hilbert"}, maps : maps, default : {<<2, 2, 2>>}]
     \cup {[curve |-> "z", maps |-> <<>>, default |-> <<2, 2, 2>>],
           [curve |-> "lines", maps |-> <<>>, default |-> <<2, 1, 0>>]}

MCCovered(i) == i % 2 = 0

MCBlocks ==
  LET Block(f, start, lines) == [file |-> f, start |-> start, files |-> {f} \cup {l[1] : l \in lines},
                                 lines |-> lines \cup {<<f, start>>}]
  IN {Block("a", 3, {}), Block("a", 3, {<<"a", 4>>, <<"h", 1>>}), Block("a", 5, {<<"a", 2>>}),
      Block("b", 2, {<<"h", 1>>, <<"h", 2>>})}

MCAddresses == 1 .. 7
MCAddrToLine == <<[file |-> "a", line |-> 3], [file |-> "a", line |-> 4], [file |-> "a", line |-> 2],
                  [file |-> "a", line |-> 5], [file |-> "h", line |-> 1], [file |-> "b", line |-> 1], NoFile>>

CoverageInit ==
  \/ KcovInit /\ SfcOff /\ BbOff /\ GcovOff
  \/ KcovOff /\ SfcInit /\ BbOff /\ GcovOff
  \/ KcovOff /\ SfcOff /\ BbInit /\ GcovOff
  \/ KcovOff /\ SfcOff /\ BbOff /\ GcovInit

CoverageNext ==
  \/ KcovNext /\ UNCHANGED <<sfc_vars, bb_vars, gcov_vars>>
  \/ SfcNext /\ UNCHANGED <<kcov_vars, bb_vars, gcov_vars>>
  \/ BbNext /\ UNCHANGED <<kcov_vars, sfc_vars, gcov_vars>>
  \/ GcovNext /\ UNCHANGED <<kcov_vars, sfc_vars, bb_vars>>

(* The device hands out any instance nobody uses.                            *)
Symmetric == Permutations(Instances)
=============================================================================
