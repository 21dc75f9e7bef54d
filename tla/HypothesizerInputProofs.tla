----------------------- MODULE HypothesizerInputProofs -----------------------
(***************************************************************************)
(* Theorems about how the hypothesizer reads its input.                     *)
(***************************************************************************)
EXTENDS HypothesizerInput, InductionLemmas

-----------------------------------------------------------------------------
(* The names known after a line *)

NextName(s, name) == IF Contains(s, name) THEN s ELSE Append(s, name)

(* The names known after each name of a line.                                *)
IsNames(f, known, names) ==
  /\ f \in [0 .. Len(names) -> Seq(STRING)] /\ f[0] = known
  /\ \A k \in 1 .. Len(names) : f[k] = NextName(f[k - 1], names[k])

(* The recursion in WithNames has a solution.                                *)
LEMMA NamesUnfold ==
  ASSUME NEW known \in Seq(STRING), NEW names \in Seq(STRING)
  PROVE  \E f : IsNames(f, known, names) /\ WithNames(known, names) = f[Len(names)]
<1> DEFINE n == Len(names)
           S == Seq(STRING)
           F == [p \in (1 .. n) \X S |-> NextName(p[2], names[p[1]])]
           Step(r) == [k \in 0 .. n |-> IF k = 0 THEN known ELSE NextName(r[k - 1], names[k])]
           ret == CHOOSE r : r = Step(r)
<1>n. n \in Nat /\ \A k \in 1 .. n : names[k] \in STRING
  OBVIOUS
<1>t. \A s \in S, x \in STRING : NextName(s, x) \in S
  <2> TAKE s \in S, x \in STRING
  <2>1. Append(s, x) \in S
    BY AppendProperties, Zenon
  <2>2. NextName(s, x) = s \/ NextName(s, x) = Append(s, x)
    BY DEF NextName
  <2> HIDE DEF S
  <2> QED BY <2>1, <2>2
<1> HIDE DEF n, S
<1>1. IsStep(F, n, S)
  <2>1. \A p \in (1 .. n) \X S : p[2] \in S /\ names[p[1]] \in STRING
    BY <1>n
  <2> QED BY <1>t, <2>1 DEF IsStep
<1>2. \A k \in 1 .. n, x \in S : F[<<k, x>>] = NextName(x, names[k])
  OBVIOUS
<1>3. PICK r : IsRun(r, n, S, known, F)
  <2> known \in S
    BY DEF S
  <2> HIDE DEF F
  <2> QED BY <1>1, <1>n, RecursionExists
<1>4. r = Step(r)
  <2>1. ASSUME NEW k \in 0 .. n PROVE r[k] = Step(r)[k]
    <3> HIDE DEF F
    <3>1. CASE k = 0
      BY <1>3, <3>1 DEF IsRun
    <3>2. CASE k # 0
      <4>1. k \in 1 .. n /\ k - 1 \in 0 .. n /\ r[k - 1] \in S
        BY <1>n, <1>3, <3>2 DEF IsRun
      <4>2. r[k] = F[<<k, r[k - 1]>>]
        BY <1>3, <4>1 DEF IsRun
      <4>3. F[<<k, r[k - 1]>>] = NextName(r[k - 1], names[k])
        BY <1>2, <4>1
      <4> QED BY <3>2, <4>2, <4>3
    <3> QED BY <3>1, <3>2
  <2> DEFINE t == Step(r)
  <2> t = [k \in 0 .. n |-> t[k]]
    OBVIOUS
  <2> HIDE DEF t
  <2> r = [k \in 0 .. n |-> r[k]]
    BY <1>3 DEF IsRun
  <2> r = t
    BY <2>1 DEF t
  <2> QED BY DEF t
<1>5. ret = Step(ret)
  <2> HIDE DEF Step
  <2> QED BY <1>4
<1>6. WithNames(known, names) = ret[n]
  BY DEF WithNames, NextName, n
<1> HIDE DEF ret
<1>7. IsNames(ret, known, names)
  <2>1. \A k \in 0 .. n : ret[k] = IF k = 0 THEN known ELSE NextName(ret[k - 1], names[k])
    BY <1>5
  <2>2. DOMAIN ret = 0 .. n /\ ret = [k \in 0 .. n |-> ret[k]]
    BY <1>5
  <2> HIDE DEF Step
  <2>3. ret[0] = known
    BY <1>n, <2>1
  <2>4. \A k \in 1 .. n : ret[k] = NextName(ret[k - 1], names[k])
    BY <1>n, <2>1
  <2>5. \A k \in 0 .. n : ret[k] \in S
    <3> DEFINE P == {k \in Nat : k <= n => ret[k] \in S}
    <3>1. 0 \in P
      BY <2>3 DEF S
    <3>2. ASSUME NEW k \in Nat, k \in P PROVE k + 1 \in P
      <4> SUFFICES ASSUME k + 1 <= n PROVE ret[k + 1] \in S
        OBVIOUS
      <4>1. k + 1 \in 1 .. n /\ (k + 1) - 1 = k /\ ret[k] \in S
        BY <1>n, <3>2
      <4>2. ret[k + 1] = NextName(ret[k], names[k + 1])
        BY <2>4, <4>1
      <4> QED BY <1>n, <1>t, <4>1, <4>2
    <3> HIDE DEF P
    <3>3. Nat \subseteq P
      BY <3>1, <3>2, SetInduction
    <3> QED BY <1>n, <3>3 DEF P
  <2>6. ret \in [0 .. n -> S]
    BY <2>2, <2>5
  <2> QED BY <2>3, <2>4, <2>6 DEF IsNames, n, S
<1> QED BY <1>6, <1>7 DEF n

(* Ids tell the names apart, and a new name is one of the line.              *)
NamesAdded(s, known, names) ==
  /\ s \in Seq(STRING) /\ IsInjective(s) /\ Len(known) <= Len(s)
  /\ \A m \in Len(known) + 1 .. Len(s) : Contains(names, s[m])

LEMMA NextNameExtends ==
  ASSUME NEW known \in Seq(STRING), NEW names \in Seq(STRING), NEW s, NamesAdded(s, known, names),
         NEW k \in 1 .. Len(names)
  PROVE  NamesAdded(NextName(s, names[k]), known, names)
<1>1. /\ s \in Seq(STRING) /\ IsInjective(s) /\ Len(known) <= Len(s) /\ names[k] \in STRING
      /\ \A m \in Len(known) + 1 .. Len(s) : Contains(names, s[m])
  BY DEF NamesAdded
<1>2. CASE Contains(s, names[k])
  BY <1>2 DEF NextName
<1>3. CASE ~Contains(s, names[k])
  <2> DEFINE r == Append(s, names[k])
  <2>1. r \in Seq(STRING) /\ Len(r) = Len(s) + 1 /\ r[Len(s) + 1] = names[k] /\ \A m \in 1 .. Len(s) : r[m] = s[m]
    BY <1>1
  <2>2. NextName(s, names[k]) = r
    BY <1>3 DEF NextName
  <2> HIDE DEF r
  <2>3. \A m \in 1 .. Len(s) : s[m] # names[k]
    BY <1>3 DEF Contains
  <2>4. DOMAIN r = 1 .. Len(s) + 1 /\ DOMAIN s = 1 .. Len(s) /\ Len(s) \in Nat /\ Len(known) \in Nat
    BY <1>1, <2>1
  <2>5. IsInjective(r)
    BY <1>1, <2>1, <2>3, <2>4 DEF IsInjective
  <2>6. Contains(names, names[k])
    BY DEF Contains
  <2>7. \A m \in Len(known) + 1 .. Len(r) : Contains(names, r[m])
    BY <1>1, <2>1, <2>4, <2>6
  <2>8. Len(known) <= Len(r)
    BY <1>1, <2>1, <2>4
  <2> QED BY <2>1, <2>2, <2>5, <2>7, <2>8 DEF NamesAdded
<1> QED BY <1>2, <1>3

LEMMA WithNamesExtends ==
  ASSUME NEW known \in Seq(STRING), IsInjective(known), NEW names \in Seq(STRING)
  PROVE  NamesAdded(WithNames(known, names), known, names)
<1>1. PICK f : IsNames(f, known, names) /\ WithNames(known, names) = f[Len(names)]
  BY NamesUnfold
<1> DEFINE P == {k \in Nat : k <= Len(names) => NamesAdded(f[k], known, names)}
<1>2. 0 \in P
  <2>1. f[0] = known /\ Len(known) \in Nat
    BY <1>1 DEF IsNames
  <2> QED BY <2>1 DEF NamesAdded
<1>3. ASSUME NEW k \in Nat, k \in P PROVE k + 1 \in P
  <2> SUFFICES ASSUME k + 1 <= Len(names) PROVE NamesAdded(f[k + 1], known, names)
    OBVIOUS
  <2>1. k + 1 \in 1 .. Len(names) /\ (k + 1) - 1 = k /\ NamesAdded(f[k], known, names)
    BY <1>3
  <2>2. f[k + 1] = NextName(f[k], names[k + 1])
    BY <1>1, <2>1 DEF IsNames
  <2> QED BY <2>1, <2>2, NextNameExtends
<1> HIDE DEF P
<1>4. Nat \subseteq P
  BY <1>2, <1>3, SetInduction
<1>5. Len(names) \in P
  BY <1>4
<1> QED BY <1>1, <1>5 DEF P

-----------------------------------------------------------------------------
(* Sums of occurrences *)

(* Occurrences of finitely many lock combinations.                           *)
Tally(c) == IsFiniteSet(DOMAIN c) /\ NatOn(c, DOMAIN c)

(* A combination counted n times more, among those of S.                     *)
LEMMA SumCounted ==
  ASSUME NEW c, Tally(c), NEW held, NEW n \in Nat, NEW S \in SUBSET DOMAIN c, held \in S \/ held \notin DOMAIN c
  PROVE  Sum(Counted(c, held, n), S \cup {held}) = Sum(c, S) + n
<1> DEFINE d == Counted(c, held, n)
           T == S \cup {held}
<1>1. IsFiniteSet(S) /\ NatOn(c, S)
  BY FS_Subset DEF Tally, NatOn
<1>2. /\ \A x \in DOMAIN c : d[x] = c[x] + (IF x = held THEN n ELSE 0)
      /\ held \notin DOMAIN c => d[held] = n
      /\ \A x \in DOMAIN c : c[x] \in Nat
  BY DEF Counted, Tally, NatOn
<1> HIDE DEF d
<1>3. Sum(c, S) \in Nat
  BY <1>1, SumDefined DEF Sum
<1>4. CASE held \in S
  <2>1. T = S /\ NatOn(d, S) /\ \A y \in S : y # held => d[y] = c[y]
    BY <1>2, <1>4 DEF NatOn
  <2>2. SumFunctionOnSet(d, S) = (SumFunctionOnSet(c, S) - c[held]) + d[held]
    BY <1>1, <1>4, <2>1, SumChanged
  <2>3. c[held] \in Nat /\ d[held] = c[held] + n
    BY <1>2, <1>4
  <2> HIDE DEF T
  <2>4. SumFunctionOnSet(d, S) = SumFunctionOnSet(c, S) + n
    BY <1>3, <2>2, <2>3 DEF Sum
  <2>5. Sum(d, T) = Sum(c, S) + n
    BY <2>1, <2>4 DEF Sum
  <2> QED BY <2>5 DEF d, T
<1>5. CASE held \notin DOMAIN c
  <2>1. \A x \in S : d[x] = c[x]
    BY <1>2, <1>5
  <2>2. IsFiniteSet(T) /\ NatOn(d, T) /\ T \ {held} = S /\ d[held] = n
    BY <1>1, <1>2, <1>5, <2>1, FS_AddElement DEF NatOn
  <2>3. SumFunctionOnSet(d, S) = SumFunctionOnSet(c, S)
    BY <1>1, <2>1, SumOfEqual
  <2>4. held \in T
    OBVIOUS
  <2> HIDE DEF T
  <2>5. SumFunctionOnSet(d, T) = d[held] + SumFunctionOnSet(d, S)
    BY <2>2, <2>4, SumRemove
  <2> QED BY <1>3, <2>2, <2>3, <2>5 DEF Sum, d, T
<1> QED BY <1>4, <1>5

(* ... and in all, and among those with a lock.                              *)
LEMMA CountedSums ==
  ASSUME NEW c, Tally(c), NEW held, NEW n \in Nat
  PROVE  LET d == Counted(c, held, n)
         IN  /\ Tally(d)
             /\ Sum(d, DOMAIN d) = Sum(c, DOMAIN c) + n
             /\ Sum(d, DOMAIN d \ {<<>>}) = Sum(c, DOMAIN c \ {<<>>}) + (IF held # <<>> THEN n ELSE 0)
<1> DEFINE d == Counted(c, held, n)
           S == DOMAIN c \ {<<>>}
<1>1. DOMAIN d = DOMAIN c \cup {held}
  BY DEF Counted
<1>2. Tally(d)
  <2>1. IsFiniteSet(DOMAIN d)
    BY <1>1, FS_AddElement DEF Tally
  <2>2. \A x \in DOMAIN d : d[x] \in Nat
    BY DEF Counted, Tally, NatOn
  <2> QED BY <2>1, <2>2 DEF Tally, NatOn
<1>3. Sum(d, DOMAIN d) = Sum(c, DOMAIN c) + n
  <2>1. Sum(d, DOMAIN c \cup {held}) = Sum(c, DOMAIN c) + n
    BY SumCounted
  <2> HIDE DEF d
  <2> QED BY <1>1, <2>1
<1>4. IsFiniteSet(S) /\ NatOn(c, S) /\ S \in SUBSET DOMAIN c
  BY FS_Subset DEF Tally, NatOn
<1>5. Sum(c, S) \in Nat
  BY <1>4, SumDefined DEF Sum
<1>6. CASE held # <<>>
  <2>1. Sum(d, S \cup {held}) = Sum(c, S) + n
    BY <1>4, <1>6, SumCounted
  <2>2. DOMAIN d \ {<<>>} = S \cup {held}
    BY <1>1, <1>6
  <2> HIDE DEF d, S
  <2>3. Sum(d, DOMAIN d \ {<<>>}) = Sum(c, S) + n
    BY <2>1, <2>2
  <2> QED BY <1>2, <1>3, <1>6, <2>3 DEF d, S
<1>7. CASE held = <<>>
  <2>1. DOMAIN d \ {<<>>} = S
    BY <1>1, <1>7
  <2>2. \A x \in S : d[x] = c[x]
    BY <1>4, <1>7 DEF Counted, NatOn
  <2> HIDE DEF d
  <2>3. Sum(d, S) = Sum(c, S)
    BY <1>4, <2>2, SumOfEqual DEF Sum
  <2> HIDE DEF S
  <2>4. Sum(d, DOMAIN d \ {<<>>}) = Sum(c, S) + 0
    <3>1. Sum(d, DOMAIN d \ {<<>>}) = Sum(c, S)
      BY <2>1, <2>3, Zenon
    <3> QED BY <1>5, <3>1
  <2> QED BY <1>2, <1>3, <1>7, <2>4 DEF d, S
<1> QED BY <1>6, <1>7

(* A member that is new has no combinations.                                 *)
LEMMA NoCombinations == Tally(<<>>) /\ Sum(<<>>, DOMAIN <<>>) = 0 /\ Sum(<<>>, DOMAIN <<>> \ {<<>>}) = 0
<1>1. DOMAIN <<>> = {} /\ DOMAIN <<>> \ {<<>>} = {} /\ IsFiniteSet({}) /\ NatOn(<<>>, {})
  BY FS_EmptySet DEF NatOn
<1>2. SumFunctionOnSet(<<>>, {}) = 0
  BY <1>1, SumDefined
<1> QED BY <1>1, <1>2 DEF Tally, Sum

-----------------------------------------------------------------------------
(* The invariant *)

Of(s, m, new) == IF m <= Len(s) THEN s[m] ELSE new

IsVector(s, n) == s = [m \in 1 .. n |-> s[m]]

(* What is counted for a member with combinations c.                         *)
AddsUp(c, all, with) ==
  Tally(c) /\ all \in Nat /\ with \in Nat /\ all = Sum(c, DOMAIN c) /\ with = Sum(c, DOMAIN c \ {<<>>})

Counts ==
  LET n == Len(members)
  IN  /\ IsVector(occurrences, n) /\ IsVector(occurrences_with_locks, n) /\ IsVector(members_combinations, n)
      /\ \A m \in 1 .. n : AddsUp(members_combinations[m], occurrences[m], occurrences_with_locks[m])

Names == /\ locks \in Seq(STRING) /\ IsInjective(locks)
         /\ members \in Seq(STRING) /\ IsInjective(members)
         /\ members # <<>> => Len(members) <= 2 ^ Width

(* The loop has copied the members below i, or there are as many members as  *)
(* ids and it never ends.                                                    *)
Copied ==
  LET n == Len(members)
  IN  /\ i \in 0 .. n /\ copies \in [1 .. n -> Nat]
      /\ \/ \A m \in 1 .. n : copies[m] = IF m <= i THEN 1 ELSE 0
         \/ n = 2 ^ Width /\ i < n

Progress ==
  /\ reading = "read" => i = 0 /\ copies = [m \in 1 .. Len(members) |-> 0]
  /\ reading = "copy" => Copied
  /\ reading = "done" => \A m \in 1 .. Len(members) : copies[m] = 1

MembersInv == Names /\ Counts /\ Progress

LEMMA VectorLen ==
  ASSUME NEW n \in Nat, NEW s, IsVector(s, n)
  PROVE  Len(s) = n
<1> DEFINE S == {s[m] : m \in 1 .. n}
<1>1. s \in [1 .. n -> S]
  BY DEF IsVector
<1> HIDE DEF S
<1>2. s \in Seq(S)
  BY <1>1
<1> QED BY <1>1, <1>2

(* Of a member that was known, and of a new one.                             *)
LEMMA OfMember ==
  ASSUME NEW n \in Nat, NEW s, IsVector(s, n), NEW m \in Nat, NEW new
  PROVE  Of(s, m, new) = IF m <= n THEN s[m] ELSE new
BY VectorLen DEF Of

(* The counts of one member after a line that names it, or does not.         *)
LEMMA MemberCounts ==
  ASSUME NEW c, NEW all, NEW with, AddsUp(c, all, with), NEW held, NEW k \in Nat, NEW hit \in BOOLEAN
  PROVE  AddsUp(IF hit THEN Counted(c, held, k) ELSE c, all + (IF hit THEN k ELSE 0),
                with + (IF hit /\ held # <<>> THEN k ELSE 0))
<1>1. /\ Tally(c) /\ all \in Nat /\ with \in Nat /\ all = Sum(c, DOMAIN c) /\ with = Sum(c, DOMAIN c \ {<<>>})
  BY DEF AddsUp
<1>2. CASE hit
  <2> DEFINE d == Counted(c, held, k)
             j == IF held # <<>> THEN k ELSE 0
  <2>1. /\ Tally(d) /\ Sum(d, DOMAIN d) = Sum(c, DOMAIN c) + k
        /\ Sum(d, DOMAIN d \ {<<>>}) = Sum(c, DOMAIN c \ {<<>>}) + j
    BY <1>1, CountedSums
  <2>2. j \in Nat
    OBVIOUS
  <2> HIDE DEF d, j
  <2>3. all + k \in Nat /\ with + j \in Nat
    BY <1>1, <2>2
  <2>4. AddsUp(d, all + k, with + j)
    BY <1>1, <2>1, <2>3 DEF AddsUp
  <2>5. (IF hit /\ held # <<>> THEN k ELSE 0) = j /\ (IF hit THEN k ELSE 0) = k
    BY <1>2 DEF j
  <2> QED BY <1>2, <2>4, <2>5, Zenon DEF d
<1>3. CASE ~hit
  <2>1. all + 0 = all /\ with + 0 = with
    BY <1>1
  <2>2. (IF hit /\ held # <<>> THEN k ELSE 0) = 0 /\ (IF hit THEN k ELSE 0) = 0
    BY <1>3
  <2> QED BY <1>3, <2>1, <2>2, Zenon
<1> QED BY <1>2, <1>3

LEMMA ReadKeeps ==
  ASSUME MembersInv, NEW e \in Lines, ReadLine(e)
  PROVE  MembersInv'
<1> DEFINE ls == WithNames(locks, e.locks)
           ms == WithNames(members, e.members)
           held == [k \in 1 .. Len(e.locks) |-> IdOf(ls, e.locks[k])]
           hit(m) == Contains(e.members, ms[m])
           k == e.occurrences
           n == Len(members)
           nn == Len(ms)
<1>1. e.members \in Seq(STRING) /\ e.locks \in Seq(STRING) /\ k \in Nat
  BY LinesAssumption
<1>2. locks \in Seq(STRING) /\ IsInjective(locks) /\ members \in Seq(STRING) /\ IsInjective(members) /\ n \in Nat
  BY DEF MembersInv, Names
<1>3. NamesAdded(ls, locks, e.locks) /\ NamesAdded(ms, members, e.members)
  BY <1>1, <1>2, WithNamesExtends
<1>4. locks' = ls /\ members' = ms /\ ~TooMany(ms) /\ i' = i /\ reading' = reading /\ reading = "read"
  BY DEF ReadLine
<1>5. copies' = [m \in 1 .. nn |-> 0]
  BY DEF ReadLine
<1>6. occurrences' = [m \in 1 .. nn |-> Of(occurrences, m, 0) + (IF hit(m) THEN k ELSE 0)]
  BY Zenon DEF ReadLine, Of
<1>7. occurrences_with_locks' = [m \in 1 .. nn |->
         Of(occurrences_with_locks, m, 0) + (IF hit(m) /\ held # <<>> THEN k ELSE 0)]
  BY Zenon DEF ReadLine, Of
<1>8. members_combinations' = [m \in 1 .. nn |->
         IF hit(m) THEN Counted(Of(members_combinations, m, <<>>), held, k) ELSE members_combinations[m]]
  BY Zenon DEF ReadLine, Of
<1>9. /\ IsVector(occurrences, n) /\ IsVector(occurrences_with_locks, n) /\ IsVector(members_combinations, n)
      /\ \A m \in 1 .. n : AddsUp(members_combinations[m], occurrences[m], occurrences_with_locks[m])
  BY DEF MembersInv, Counts
<1> HIDE DEF ms, ls, held, k
<1>10. ms \in Seq(STRING) /\ nn \in Nat /\ n <= nn /\ \A m \in n + 1 .. nn : hit(m)
  BY <1>3 DEF NamesAdded
<1> HIDE DEF n
<1>11. ASSUME NEW m \in 1 .. nn
       PROVE  AddsUp(members_combinations'[m], occurrences'[m], occurrences_with_locks'[m])
  <2> DEFINE c == Of(members_combinations, m, <<>>)
             all == Of(occurrences, m, 0)
             with == Of(occurrences_with_locks, m, 0)
  <2>0. m \in Nat
    BY <1>10
  <2>1. /\ c = IF m <= n THEN members_combinations[m] ELSE <<>>
        /\ all = (IF m <= n THEN occurrences[m] ELSE 0)
        /\ with = (IF m <= n THEN occurrences_with_locks[m] ELSE 0)
    BY <1>2, <1>9, <2>0, OfMember
  <2>2. AddsUp(c, all, with)
    <3>1. CASE m <= n
      <4>1. m \in 1 .. n
        BY <1>2, <3>1
      <4> QED BY <1>9, <2>1, <3>1, <4>1
    <3>2. CASE ~(m <= n)
      <4>1. c = <<>> /\ all = 0 /\ with = 0
        BY <2>1, <3>2
      <4> QED BY <4>1, NoCombinations DEF AddsUp
    <3> QED BY <3>1, <3>2
  <2>3. hit(m) \in BOOLEAN
    BY DEF Contains
  <2>4. ~hit(m) => c = members_combinations[m]
    <3>1. ~hit(m) => m <= n
      BY <1>2, <1>10
    <3> QED BY <2>1, <3>1
  <2> HIDE DEF c, all, with
  <2>5. AddsUp(IF hit(m) THEN Counted(c, held, k) ELSE c, all + (IF hit(m) THEN k ELSE 0),
               with + (IF hit(m) /\ held # <<>> THEN k ELSE 0))
    <3> DEFINE h == hit(m)
    <3>1. h \in BOOLEAN
      BY <2>3
    <3> HIDE DEF h
    <3>2. AddsUp(IF h THEN Counted(c, held, k) ELSE c, all + (IF h THEN k ELSE 0),
               with + (IF h /\ held # <<>> THEN k ELSE 0))
      BY <1>1, <2>2, <3>1, MemberCounts
    <3> QED BY <3>2 DEF h
  <2>6. occurrences'[m] = all + (IF hit(m) THEN k ELSE 0)
    BY <1>6 DEF all
  <2>7. occurrences_with_locks'[m] = with + (IF hit(m) /\ held # <<>> THEN k ELSE 0)
    BY <1>7 DEF with
  <2>8. members_combinations'[m] = IF hit(m) THEN Counted(c, held, k) ELSE c
    BY <1>8, <2>4 DEF c
  <2> QED BY <2>5, <2>6, <2>7, <2>8, Zenon
<1>12. IsVector(occurrences', nn) /\ IsVector(occurrences_with_locks', nn) /\ IsVector(members_combinations', nn)
  <2> HIDE DEF nn, hit
  <2> QED BY <1>6, <1>7, <1>8 DEF IsVector
<1>13. Counts'
  BY <1>4, <1>11, <1>12 DEF Counts
<1>14. Names'
  <2>1. Len(ms) <= 2 ^ Width
    BY <1>4, <1>10, WidthAssumption DEF TooMany, MaxId
  <2> QED BY <1>3, <1>4, <2>1 DEF Names, NamesAdded
<1>15. Progress'
  BY <1>4, <1>5 DEF MembersInv, Progress
<1> QED BY <1>13, <1>14, <1>15 DEF MembersInv

LEMMA ModSmall == ASSUME NEW a \in Nat, NEW b \in Nat, a < b PROVE a % b = a
OBVIOUS

LEMMA CopyKeeps ==
  ASSUME MembersInv, Copy
  PROVE  Progress'
<1> DEFINE n == Len(members)
           w == 2 ^ Width
<1>1. /\ i \in 0 .. n /\ copies \in [1 .. n -> Nat] /\ n \in Nat /\ n <= w /\ w \in Int
      /\ \/ \A m \in 1 .. n : copies[m] = IF m <= i THEN 1 ELSE 0
         \/ n = w /\ i < n
  <2>1. members \in Seq(STRING) /\ n \in Nat /\ w \in Int
    BY WidthAssumption DEF MembersInv, Names
  <2>2. i \in 0 .. n /\ i < n
    BY DEF MembersInv, Progress, Copied, Copy, More
  <2>3. n # 0
    BY <2>1, <2>2
  <2>4. members # <<>>
    BY <2>3
  <2>5. n <= w
    BY <2>4 DEF MembersInv, Names
  <2> QED BY <2>1, <2>5 DEF MembersInv, Progress, Copied, Copy
<1>2. /\ i < n /\ i' = (i + 1) % w /\ members' = members /\ reading' = "copy"
      /\ copies' = [copies EXCEPT ![i + 1] = IF copies[i + 1] < 2 THEN copies[i + 1] + 1 ELSE copies[i + 1]]
  BY DEF Copy, More, Incremented, CopyCap, MembersInv
<1> HIDE DEF n, w
<1>3. copies' \in [1 .. n -> Nat]
  BY <1>1, <1>2
<1>4. CASE i + 1 < w
  <2>1. i' = i + 1
    <3>1. i + 1 \in Nat /\ w \in Nat
      BY <1>1, <1>4
    <3> QED BY <1>2, <1>4, <3>1, ModSmall
  <2>2. i' \in 0 .. n
    BY <1>1, <1>2, <2>1
  <2>3. CASE n = w
    BY <1>1, <1>2, <1>3, <1>4, <2>1, <2>2, <2>3 DEF Progress, Copied, n, w
  <2>4. CASE n # w
    <3>1. \A m \in 1 .. n : copies[m] = IF m <= i THEN 1 ELSE 0
      BY <1>1, <2>4
    <3>2. ASSUME NEW m \in 1 .. n PROVE copies'[m] = IF m <= i + 1 THEN 1 ELSE 0
      <4>1. CASE m = i + 1
        BY <1>1, <1>2, <3>1, <4>1
      <4>2. CASE m # i + 1
        BY <1>1, <1>2, <3>1, <4>2
      <4> QED BY <4>1, <4>2
    <3> QED BY <1>2, <1>3, <2>1, <2>2, <3>2 DEF Progress, Copied, n
  <2> QED BY <2>3, <2>4
<1>5. CASE ~(i + 1 < w)
  <2>1. i + 1 = w /\ n = w
    BY <1>1, <1>2, <1>5
  <2>2. i' = 0
    BY <1>1, <1>2, <2>1
  <2>3. i' \in 0 .. n /\ i' < n
    BY <1>1, <1>2, <2>2
  <2> QED BY <1>2, <1>3, <2>1, <2>3 DEF Progress, Copied, n, w
<1> QED BY <1>4, <1>5

LEMMA InputKeeps == ASSUME MembersInv, [InputNext]_input_vars PROVE MembersInv'
<1>f. ASSUME UNCHANGED <<locks, members, occurrences, occurrences_with_locks, members_combinations>>
      PROVE  Names' /\ Counts'
  BY <1>f DEF MembersInv, Names, Counts
<1>1. ASSUME NEW e \in Lines, ReadLine(e) PROVE MembersInv'
  BY <1>1, ReadKeeps
<1>2. ASSUME NEW e \in Lines, Overflow(e) PROVE MembersInv'
  <2>1. Progress'
    BY <1>2 DEF Overflow, Progress
  <2> QED BY <1>2, <1>f, <2>1 DEF Overflow, MembersInv
<1>3. CASE EndOfInput
  <2>1. i = 0 /\ copies = [m \in 1 .. Len(members) |-> 0] /\ Len(members) \in Nat
    BY <1>3 DEF EndOfInput, MembersInv, Progress, Names
  <2>2. UNCHANGED <<members, i, copies>> /\ reading' = "copy"
    BY <1>3 DEF EndOfInput
  <2>3. Copied'
    BY <2>1, <2>2 DEF Copied
  <2>4. Progress'
    BY <2>2, <2>3 DEF Progress
  <2> QED BY <1>3, <1>f, <2>4 DEF EndOfInput, MembersInv
<1>4. CASE Copy
  BY <1>4, <1>f, CopyKeeps DEF Copy, MembersInv
<1>5. CASE EndOfCopy
  <2>1. Copied /\ ~(i < Len(members)) /\ Len(members) \in Nat
    BY <1>5 DEF EndOfCopy, More, MembersInv, Progress, Names
  <2>2. UNCHANGED <<members, i, copies>> /\ reading' = "done"
    BY <1>5 DEF EndOfCopy
  <2>3. \A m \in 1 .. Len(members) : copies[m] = 1
    BY <2>1 DEF Copied
  <2>4. Progress'
    BY <2>2, <2>3 DEF Progress
  <2> QED BY <1>5, <1>f, <2>4 DEF EndOfCopy, MembersInv
<1>6. CASE UNCHANGED input_vars
  <2>1. UNCHANGED <<locks, members, occurrences, occurrences_with_locks, members_combinations, copies, i, reading>>
    BY <1>6 DEF input_vars
  <2>2. Progress'
    BY <2>1 DEF MembersInv, Progress, Copied
  <2> QED BY <1>f, <2>1, <2>2 DEF MembersInv
<1> QED BY <1>1, <1>2, <1>3, <1>4, <1>5, <1>6 DEF InputNext

LEMMA InputStarts == ASSUME InputInit PROVE MembersInv
<1>1. /\ locks = <<>> /\ members = <<>> /\ occurrences = <<>> /\ occurrences_with_locks = <<>>
      /\ members_combinations = <<>> /\ copies = <<>> /\ i = 0 /\ reading = "read"
  BY DEF InputInit, Empty
<1>2. Len(members) = 0 /\ 1 .. 0 = {}
  BY <1>1
<1>3. Names
  BY <1>1 DEF Names, IsInjective
<1>4. Counts
  BY <1>1, <1>2 DEF Counts, IsVector
<1>5. Progress
  BY <1>1, <1>2 DEF Progress
<1> QED BY <1>1, <1>3, <1>4, <1>5 DEF MembersInv

LEMMA InputCounted == ASSUME MembersInv PROVE MembersComplete
<1>1. IsInjective(locks) /\ IsInjective(members)
  BY DEF MembersInv, Names
<1>2. \A m \in 1 .. Len(members) :
        /\ occurrences[m] = Sum(members_combinations[m], DOMAIN members_combinations[m])
        /\ occurrences_with_locks[m] = Sum(members_combinations[m], DOMAIN members_combinations[m] \ {<<>>})
  BY DEF MembersInv, Counts, AddsUp
<1>3. reading = "done" => \A m \in 1 .. Len(members) : copies[m] = 1
  BY DEF MembersInv, Progress
<1> QED BY <1>1, <1>2, <1>3 DEF MembersComplete

(* For every input (any number of lines, names and ids) the accesses of a    *)
(* member are those of its combinations, with and without locks, whatever    *)
(* the order of the lines; ids tell names apart; and when the copy loop of   *)
(* the input ends, it has been at every member once.                         *)
THEOREM MembersCompleteProved == InputSpec => []MembersComplete
<1>1. InputInit => MembersInv
  BY InputStarts
<1>2. MembersInv /\ [InputNext]_input_vars => MembersInv'
  BY InputKeeps
<1>3. MembersInv => MembersComplete
  BY InputCounted
<1> QED BY <1>1, <1>2, <1>3, PTL DEF InputSpec
=============================================================================
