--------------------------- MODULE CoverageProofs ---------------------------
(***************************************************************************)
(* Theorems about the coverage tools.                                       *)
(***************************************************************************)
EXTENDS Kcov, GcovIO, Bb2lines, SequenceTheorems, FiniteSetTheorems, WellFoundedInduction, TLAPS

-----------------------------------------------------------------------------
(* GcovIO: the buffer is a piece of the file *)

GcovVar == [mode : {0, 1}, start : Nat, offset : Nat, length : Nat, alloc : Nat, buffer : Seq(Nat),
            overread : BOOLEAN]
GcovTypeOK == gcov_var \in GcovVar /\ position \in Nat

(* The buffer holds the words from start on, and the offset lies in it.       *)
Mirrors(v) ==
  /\ Len(v.buffer) = v.length /\ v.offset <= v.length
  /\ v.length > 0 => v.start + v.length <= FileLength
  /\ \A i \in 1 .. v.length : v.buffer[i] = v.start + i - 1

(* The file is read on where the buffer ends, or is at its end.               *)
InStep(v, pos) ==
  v.mode > 0 => \/ pos = v.start + v.length
                \/ v.length = 0 /\ v.overread /\ pos >= FileLength

GInv == GcovTypeOK /\ Mirrors(gcov_var) /\ InStep(gcov_var, position)

(* A sequence that is the piece of the file at a position.                    *)
FileWords(s, at) == s \in Seq(Nat) /\ \A i \in 1 .. Len(s) : s[i] = at + i - 1

(* What fread of n words returns: fewer only at the end of the file.          *)
ReadAt(s, from, n) ==
  /\ FileWords(s, from) /\ Len(s) \in 0 .. n
  /\ Len(s) > 0 => from + Len(s) <= FileLength
  /\ Len(s) < n => from + Len(s) >= FileLength

(* The words new, from position at on, after the file was read up to end:     *)
(* enough of them, or the file ended before.                                  *)
Gathered(new, at, end, words, over) ==
  /\ new \in Seq(Nat)
  /\ \/ /\ Len(new) >= words
        /\ end = at + Len(new) /\ at + Len(new) <= FileLength
        /\ FileWords(new, at)
     \/ /\ Len(new) < words
        /\ end >= FileLength
        /\ at + words > FileLength \/ over

LEMMA FreadProperties ==
  ASSUME NEW from \in Nat, NEW n \in Nat
  PROVE  ReadAt(fread(from, n), from, n)
<1> DEFINE k == IF from + n <= FileLength THEN n ELSE IF from < FileLength THEN FileLength - from ELSE 0
           e(i) == from + i - 1
<1>1. /\ k \in Nat /\ k <= n /\ (k > 0 => from + k <= FileLength) /\ (k < n => from + k >= FileLength)
  BY GcovAssumption
<1>2. fread(from, n) = [i \in 1 .. k |-> e(i)]
  BY DEF fread
<1> HIDE DEF k
<1>3. \A i \in 1 .. k : e(i) \in Nat
  BY <1>1
<1> HIDE DEF e
<1>4. fread(from, n) \in Seq(Nat) /\ Len(fread(from, n)) = k /\ \A i \in 1 .. k : fread(from, n)[i] = e(i)
  BY <1>1, <1>2, <1>3
<1> QED BY <1>1, <1>4 DEF e, ReadAt, FileWords

(* The words left in a buffer that holds the file from s0 on.                 *)
LEMMA LeftProperties ==
  ASSUME NEW buf \in Seq(Nat), NEW s0 \in Nat, NEW off \in 0 .. Len(buf),
         \A i \in 1 .. Len(buf) : buf[i] = s0 + i - 1
  PROVE  /\ FileWords(SubSeq(buf, off + 1, Len(buf)), s0 + off)
         /\ Len(SubSeq(buf, off + 1, Len(buf))) = Len(buf) - off
<1> DEFINE a == off + 1
           b == Len(buf)
           left == SubSeq(buf, a, b)
<1>1. b \in Nat /\ a \in 1 .. b + 1 /\ b - a + 1 = b - off
  OBVIOUS
<1>2. \A i \in a .. b : buf[i] \in Nat
  BY <1>1
<1>3. \A i \in 1 .. b - off : a + i - 1 \in 1 .. b /\ buf[a + i - 1] = s0 + off + i - 1
  BY <1>1
<1> HIDE DEF a, b
<1>4. left \in Seq(Nat) /\ Len(left) = b - a + 1 /\ \A i \in 1 .. b - a + 1 : left[i] = buf[a + i - 1]
  BY <1>1, <1>2, SubSeqProperties
<1> HIDE DEF left
<1>5. left \in Seq(Nat) /\ Len(left) = b - off /\ \A i \in 1 .. b - off : left[i] = s0 + off + i - 1
  BY <1>1, <1>3, <1>4
<1> QED BY <1>5 DEF a, b, left, FileWords

(* ... and what was read after them: n words were asked for.                  *)
LEMMA JoinedProperties ==
  ASSUME NEW left, NEW got, NEW at \in Nat, NEW pos \in Nat, NEW n \in Nat, NEW words \in Nat, NEW over \in BOOLEAN,
         FileWords(left, at), ReadAt(got, pos, n), Len(left) < words, n >= words - Len(left),
         pos = at + Len(left) \/ (Len(left) = 0 /\ over /\ pos >= FileLength)
  PROVE  Gathered(left \o got, at, pos + Len(got), words, over)
<1> DEFINE L == Len(left)
           g == Len(got)
           new == left \o got
<1>1. /\ got \in Seq(Nat) /\ g \in 0 .. n
      /\ g > 0 => pos + g <= FileLength
      /\ g < n => pos + g >= FileLength
      /\ \A i \in 1 .. g : got[i] = pos + i - 1
  BY DEF ReadAt, FileWords
<1>2. left \in Seq(Nat) /\ \A i \in 1 .. L : left[i] = at + i - 1
  BY DEF FileWords
<1>3. L \in Nat /\ g \in Nat /\ L < words /\ n >= words - L /\ FileLength \in Nat
  BY <1>1, <1>2, GcovAssumption
<1>4. new \in Seq(Nat) /\ Len(new) = L + g
  BY <1>1, <1>2, ConcatProperties
<1>5. \A i \in 1 .. L : new[i] = left[i]
  BY <1>1, <1>2
<1>6. \A i \in 1 .. g : new[L + i] = got[i]
  BY <1>1, <1>2
<1>7. pos = at + L \/ (L = 0 /\ over /\ pos >= FileLength)
  OBVIOUS
<1> HIDE DEF L, g, new
<1>8. CASE L + g < words
  <2>1. pos + g >= FileLength
    BY <1>1, <1>3, <1>8
  <2>2. at + words > FileLength \/ over
    BY <1>3, <1>7, <1>8, <2>1
  <2> QED BY <1>4, <1>8, <2>1, <2>2 DEF g, new, Gathered
<1>9. CASE L + g >= words
  <2>1. g > 0
    BY <1>3, <1>9
  <2>2. pos = at + L
    BY <1>1, <1>3, <1>7, <2>1
  <2>3. pos + g = at + (L + g) /\ at + (L + g) <= FileLength
    BY <1>1, <1>3, <2>1, <2>2
  <2>4. \A i \in 1 .. L + g : new[i] = at + i - 1
    <3> TAKE i \in 1 .. L + g
    <3>1. CASE i <= L
      BY <1>2, <1>3, <1>5, <3>1
    <3>2. CASE i > L
      <4> DEFINE j == i - L
      <4>1. j \in 1 .. g /\ L + j = i
        BY <1>3, <3>2
      <4> HIDE DEF j
      <4>2. new[L + j] = got[j] /\ got[j] = pos + j - 1
        BY <1>1, <1>6, <4>1
      <4>3. pos + j - 1 = at + i - 1
        BY <1>3, <2>2, <4>1
      <4> QED BY <4>1, <4>2, <4>3
    <3> QED BY <1>3, <3>1, <3>2
  <2> QED BY <1>4, <1>9, <2>3, <2>4 DEF g, new, Gathered, FileWords
<1> QED BY <1>3, <1>8, <1>9

(* The fields of gcov_var.                                                    *)
LEMMA GcovFields ==
  ASSUME NEW v \in GcovVar
  PROVE  /\ v.mode \in {0, 1} /\ v.start \in Nat /\ v.offset \in Nat /\ v.length \in Nat /\ v.alloc \in Nat
         /\ v.buffer \in Seq(Nat) /\ v.overread \in BOOLEAN
BY DEF GcovVar

(* Moving and filling the buffer keeps the record a record.                   *)
RefilledWith(v, s, a, b, n, o) ==
  [v EXCEPT !.start = s, !.offset = 0, !.alloc = a, !.buffer = b, !.length = n, !.overread = o]

HasFields(w, mode, s, a, b, n, o) ==
  /\ w \in GcovVar /\ w.mode = mode /\ w.start = s /\ w.offset = 0 /\ w.alloc = a /\ w.buffer = b /\ w.length = n
  /\ w.overread = o

LEMMA RefilledFields ==
  ASSUME NEW v \in GcovVar, NEW s \in Nat, NEW a \in Nat, NEW b \in Seq(Nat), NEW n \in Nat, NEW o \in BOOLEAN
  PROVE  HasFields(RefilledWith(v, s, a, b, n, o), v.mode, s, a, b, n, o)
BY DEF GcovVar, RefilledWith, HasFields

(* What a refill does: the buffer holds the words from the position reported *)
(* on, at least as many as asked for, or the file ended before.               *)
LEMMA RefillProperties ==
  ASSUME NEW v \in GcovVar, position \in Nat, Mirrors(v), InStep(v, position), v.mode > 0,
         NEW words \in Nat, v.length - v.offset < words
  PROVE  LET w == Refilled(v, words)
             pos == position + Len(fread(position, w.alloc - (v.length - v.offset)))
         IN  /\ w \in GcovVar /\ pos \in Nat /\ Mirrors(w) /\ InStep(w, pos)
             /\ w.mode = v.mode /\ w.offset = 0 /\ w.start = v.start + v.offset
             /\ \/ w.length >= words
                \/ w.length = 0 /\ (w.start + words > FileLength \/ v.overread)
<1> DEFINE w == Refilled(v, words)
           buf == v.buffer
           off == v.offset
           st == v.start
           over == v.overread
           L == Len(buf) - off
           left == SubSeq(buf, off + 1, Len(buf))
           need == L + words
           alloc == IF need > v.alloc THEN gcov_allocate(v.alloc, need) ELSE v.alloc
           got == fread(position, alloc - L)
           new == left \o got
           at == st + off
<1>1. /\ st \in Nat /\ off \in Nat /\ v.length \in Nat /\ v.alloc \in Nat
      /\ buf \in Seq(Nat) /\ over \in BOOLEAN /\ v.mode \in {0, 1}
  BY GcovFields
<1>2. /\ Len(buf) = v.length /\ off <= Len(buf) /\ \A i \in 1 .. Len(buf) : buf[i] = st + i - 1
  BY DEF Mirrors
<1>3. position = st + Len(buf) \/ (Len(buf) = 0 /\ over /\ position >= FileLength)
  BY <1>2 DEF InStep
<1>4. v.length - v.offset = L /\ L < words
  BY <1>2
<1> HIDE DEF buf, off, st, over
<1>5. off \in 0 .. Len(buf) /\ L \in Nat /\ need \in Nat /\ at \in Nat /\ need = L + words
  BY <1>1, <1>2
<1>6. FileWords(left, at) /\ Len(left) = L
  BY <1>1, <1>2, <1>5, LeftProperties
<1>7. position = at + L \/ (L = 0 /\ over /\ position >= FileLength)
  BY <1>1, <1>2, <1>3, <1>5
<1> HIDE DEF left, L
<1>8. alloc \in Nat /\ alloc >= need
  <2>1. CASE need > v.alloc
    <3> DEFINE base == IF v.alloc = 0 THEN BlockSize ELSE v.alloc
    <3>1. alloc = (base + need) * 2 /\ base \in Nat
      BY <1>1, <2>1, GcovAssumption DEF gcov_allocate
    <3> HIDE DEF base, alloc, need
    <3>2. (base + need) * 2 \in Nat /\ (base + need) * 2 >= need
      BY <1>5, <3>1
    <3> QED BY <3>1, <3>2
  <2>2. CASE ~(need > v.alloc)
    BY <1>1, <1>5, <2>2
  <2> QED BY <2>1, <2>2
<1> DEFINE b == IF Len(new) < words THEN <<>> ELSE new
           n == IF Len(new) < words THEN 0 ELSE Len(new)
           o == over \/ Len(new) < words
<1>9. w = RefilledWith(v, at, alloc, b, n, o)
  BY <1>2, <1>6, Zenon DEF Refilled, RefilledWith, StartAfterMove, buf, off, st, over, left
<1> HIDE DEF at, alloc, need, w, b, n, o
<1> DEFINE m == alloc - L
<1>10. m \in Nat /\ m >= words - L
  BY <1>5, <1>8
<1> HIDE DEF m
<1>11. ReadAt(got, position, m)
  BY <1>10, FreadProperties, Zenon DEF m
<1> HIDE DEF got
<1>12. Gathered(new, at, position + Len(got), words, over)
  <2>1. Len(left) < words /\ m >= words - Len(left)
    BY <1>4, <1>6, <1>10
  <2>2. position = at + Len(left) \/ (Len(left) = 0 /\ over /\ position >= FileLength)
    BY <1>6, <1>7
  <2>3. over \in BOOLEAN /\ at \in Nat /\ m \in Nat /\ position \in Nat /\ words \in Nat /\ FileWords(left, at)
    BY <1>1, <1>5, <1>6, <1>10
  <2> QED BY <1>11, <2>1, <2>2, <2>3, JoinedProperties, Zenon
<1>13. Len(got) \in Nat
  BY <1>10, <1>11 DEF ReadAt, FileWords
<1> HIDE DEF new
<1>14. b \in Seq(Nat) /\ n \in Nat /\ o \in BOOLEAN /\ Len(b) = n
  BY <1>1, <1>12 DEF Gathered, b, n, o
<1>15. /\ w.mode = v.mode /\ w.start = at /\ w.offset = 0 /\ w.alloc = alloc /\ w.buffer = b /\ w.length = n
       /\ w.overread = o /\ w \in GcovVar
  <2>1. at \in Nat /\ alloc \in Nat
    BY <1>5, <1>8
  <2>2. HasFields(RefilledWith(v, at, alloc, b, n, o), v.mode, at, alloc, b, n, o)
    BY <1>14, <2>1, RefilledFields, Zenon
  <2> QED BY <1>9, <2>2, Zenon DEF HasFields
<1> DEFINE pos == position + Len(fread(position, w.alloc - (v.length - v.offset)))
<1>16. pos = position + Len(got) /\ pos \in Nat
  BY <1>4, <1>13, <1>15 DEF got, m
<1> HIDE DEF pos
<1>17. CASE Len(new) < words
  <2>1. n = 0 /\ b = <<>> /\ o
    BY <1>17 DEF n, b, o
  <2>2. position + Len(got) >= FileLength /\ (at + words > FileLength \/ over)
    BY <1>12, <1>17 DEF Gathered, FileWords
  <2>3. Mirrors(w)
    BY <1>15, <2>1 DEF Mirrors
  <2>4. InStep(w, pos)
    BY <1>15, <1>16, <2>1, <2>2 DEF InStep
  <2> QED BY <1>15, <1>16, <2>1, <2>2, <2>3, <2>4 DEF w, at, st, off, over, pos
<1>18. CASE ~(Len(new) < words)
  <2>1. /\ Len(new) >= words
        /\ position + Len(got) = at + Len(new) /\ at + Len(new) <= FileLength
        /\ \A i \in 1 .. Len(new) : new[i] = at + i - 1
        /\ n = Len(new) /\ b = new
    BY <1>12, <1>18 DEF Gathered, FileWords, n, b
  <2>2. Mirrors(w)
    BY <1>14, <1>15, <2>1 DEF Mirrors
  <2>3. InStep(w, pos)
    BY <1>15, <1>16, <2>1 DEF InStep
  <2> QED BY <1>15, <1>16, <2>1, <2>2, <2>3 DEF w, at, st, off, pos
<1> QED BY <1>17, <1>18

(* The reader is ready to return words from position at on, or cannot be.     *)
ReadyAt(w, pos, at, words, over) ==
  /\ w \in GcovVar /\ pos \in Nat /\ Mirrors(w) /\ InStep(w, pos) /\ w.mode > 0
  /\ w.start + w.offset = at
  /\ w.length - w.offset >= words \/ at + words > FileLength \/ over

(* Words are taken from a buffer that has them.                               *)
Took(w, words) == [w EXCEPT !.offset = @ + words]

LEMMA TakeProperties ==
  ASSUME NEW w \in GcovVar, NEW pos \in Nat, Mirrors(w), InStep(w, pos), NEW words \in Nat \ {0},
         w.length - w.offset >= words
  PROVE  /\ Took(w, words) \in GcovVar /\ Mirrors(Took(w, words)) /\ InStep(Took(w, words), pos)
         /\ SubSeq(w.buffer, w.offset + 1, w.offset + words)
              = [i \in 1 .. words |-> w.start + w.offset + i - 1]
         /\ SubSeq(w.buffer, w.offset + 1, w.offset + words) # <<>>
         /\ w.start + w.offset + words <= FileLength
<1> DEFINE buf == w.buffer
           st == w.start
           off == w.offset
           len == w.length
           u == Took(w, words)
           res == SubSeq(buf, off + 1, off + words)
<1>1. buf \in Seq(Nat) /\ st \in Nat /\ off \in Nat /\ len \in Nat /\ FileLength \in Nat
  BY GcovFields, GcovAssumption
<1>2. /\ Len(buf) = len /\ off <= len
      /\ len > 0 => st + len <= FileLength
      /\ \A i \in 1 .. len : buf[i] = st + i - 1
  BY DEF Mirrors
<1>3. len - off >= words
  OBVIOUS
<1>4. u.mode = w.mode /\ u.start = st /\ u.offset = off + words /\ u.length = len /\ u.buffer = buf
      /\ u.overread = w.overread
  BY DEF GcovVar, Took
<1>5. off + words \in Nat => u \in GcovVar
  BY DEF GcovVar, Took
<1> HIDE DEF buf, st, off, len, u
<1>6. off + words \in Nat /\ off + words <= len /\ len > 0
  BY <1>1, <1>3
<1>7. Mirrors(u)
  BY <1>2, <1>4, <1>6 DEF Mirrors
<1>8. InStep(u, pos)
  BY <1>4 DEF InStep, st, len
<1>9. st + off + words <= FileLength
  BY <1>1, <1>2, <1>6
<1>10. res = [i \in 1 .. words |-> st + off + i - 1] /\ res # <<>>
  <2> DEFINE a == off + 1
             b == off + words
  <2>1. a \in 1 .. Len(buf) + 1 /\ b \in a - 1 .. Len(buf) /\ b - a + 1 = words
    BY <1>1, <1>2, <1>6
  <2>2. \A i \in 1 .. words : a + i - 1 \in 1 .. len /\ st + (a + i - 1) - 1 = st + off + i - 1
    BY <1>1, <1>6
  <2> HIDE DEF a, b
  <2>3. res = [i \in 1 .. words |-> buf[a + i - 1]]
    BY <1>1, <2>1 DEF a, b
  <2>4. \A i \in 1 .. words : buf[a + i - 1] = st + off + i - 1
    BY <1>2, <2>2
  <2>5. res = [i \in 1 .. words |-> st + off + i - 1]
    BY <2>3, <2>4
  <2>6. Len(res) = b - a + 1
    BY <1>1, <2>1 DEF a, b
  <2>7. res # <<>>
    BY <2>1, <2>6
  <2> QED BY <2>5, <2>7
<1> QED BY <1>5, <1>6, <1>7, <1>8, <1>9, <1>10 DEF u, buf, st, off

LEMMA GcovReadStep ==
  ASSUME GInv, NEW words \in 1 .. MaxWords, gcov_read_words(words)
  PROVE  GInv' /\ ReadsTheFile'
<1> DEFINE v == gcov_var
           refill == v.length - v.offset < words
           w == IF refill THEN Refilled(v, words) ELSE v
           at == v.start + v.offset
           enough == w.length - w.offset >= words
<1>1. v \in GcovVar /\ position \in Nat /\ Mirrors(v) /\ InStep(v, position) /\ v.mode > 0 /\ words \in Nat \ {0}
  BY GcovAssumption DEF GInv, GcovTypeOK, gcov_read_words
<1>2. ReadyAt(w, position', at, words, v.overread)
  <2>1. CASE refill
    <3>1. position' = position + Len(fread(position, w.alloc - (v.length - v.offset)))
      BY <2>1 DEF gcov_read_words
    <3> DEFINE x == Refilled(v, words)
               pos == position + Len(fread(position, x.alloc - (v.length - v.offset)))
    <3>2. w = x /\ position' = pos
      BY <2>1, <3>1
    <3>3. /\ x \in GcovVar /\ pos \in Nat /\ Mirrors(x) /\ InStep(x, pos)
          /\ x.mode = v.mode /\ x.offset = 0 /\ x.start = at
          /\ \/ x.length >= words
             \/ x.length = 0 /\ (x.start + words > FileLength \/ v.overread)
      BY <1>1, <2>1, RefillProperties
    <3> HIDE DEF x, pos, at, w
    <3>4. x.start \in Nat /\ x.length \in Nat
      BY <3>3, GcovFields
    <3>5. x.start + x.offset = at /\ (x.length - x.offset >= words \/ at + words > FileLength \/ v.overread)
      BY <1>1, <3>3, <3>4
    <3>6. ReadyAt(x, pos, at, words, v.overread)
      BY <1>1, <3>3, <3>5 DEF ReadyAt
    <3> QED BY <3>2, <3>6
  <2>2. CASE ~refill
    <3>1. position' = position /\ w = v
      BY <2>2 DEF gcov_read_words
    <3>2. v.length \in Nat /\ v.offset \in Nat
      BY <1>1, GcovFields
    <3>3. v.length - v.offset >= words
      BY <1>1, <2>2, <3>2
    <3> QED BY <1>1, <3>1, <3>3 DEF ReadyAt
  <2> QED BY <2>1, <2>2
<1>3. /\ gcov_var' = IF enough THEN Took(w, words) ELSE w
      /\ result' = IF enough THEN SubSeq(w.buffer, w.offset + 1, w.offset + words) ELSE <<>>
      /\ asked' = [at |-> at, words |-> words, overread |-> v.overread]
  BY DEF gcov_read_words, Took
<1>4. asked'.at = at /\ asked'.words = words /\ asked'.overread = v.overread
  BY <1>3
<1> HIDE DEF w, at
<1>5. /\ w \in GcovVar /\ position' \in Nat /\ Mirrors(w) /\ InStep(w, position') /\ w.start + w.offset = at
      /\ enough \/ at + words > FileLength \/ v.overread
  BY <1>2 DEF ReadyAt
<1>6. CASE enough
  <2>1. gcov_var' = Took(w, words) /\ result' = SubSeq(w.buffer, w.offset + 1, w.offset + words)
    BY <1>3, <1>6
  <2>2. /\ Took(w, words) \in GcovVar /\ Mirrors(Took(w, words)) /\ InStep(Took(w, words), position')
        /\ result' = [i \in 1 .. words |-> w.start + w.offset + i - 1]
        /\ result' # <<>> /\ w.start + w.offset + words <= FileLength
    BY <1>1, <1>5, <1>6, <2>1, TakeProperties
  <2>3. GInv'
    BY <1>5, <2>1, <2>2 DEF GInv, GcovTypeOK, Mirrors, InStep
  <2>4. ReadsTheFile'
    BY <1>4, <1>5, <2>2 DEF ReadsTheFile
  <2> QED BY <2>3, <2>4
<1>7. CASE ~enough
  <2>1. gcov_var' = w /\ result' = <<>>
    BY <1>3, <1>7
  <2>2. GInv'
    BY <1>5, <2>1 DEF GInv, GcovTypeOK, Mirrors, InStep
  <2>3. ReadsTheFile'
    BY <1>4, <1>5, <1>7, <2>1 DEF ReadsTheFile
  <2> QED BY <2>2, <2>3
<1> QED BY <1>6, <1>7

(* Opening, closing and seeking return nothing.                               *)
LEMMA GcovOtherSteps ==
  ASSUME GInv, gcov_open \/ gcov_close \/ \E base \in 0 .. FileLength + 1 : gcov_sync(base)
  PROVE  GInv' /\ ReadsTheFile'
<1> DEFINE v == gcov_var
<1>1. v \in GcovVar /\ position \in Nat /\ Mirrors(v) /\ InStep(v, position)
  BY DEF GInv, GcovTypeOK
<1>2. ASSUME gcov_var' \in {Closed_gcov, [Closed_gcov EXCEPT !.mode = 1]}, position' \in Nat,
             gcov_var'.mode > 0 => position' = 0
      PROVE  GInv'
  <2> DEFINE c == Closed_gcov
             u == [c EXCEPT !.mode = 1]
             Empty(r) == r \in GcovVar /\ r.length = 0 /\ r.start = 0 /\ r.offset = 0 /\ r.buffer = <<>>
  <2>1. c \in GcovVar /\ c.length = 0 /\ c.start = 0 /\ c.offset = 0 /\ c.buffer = <<>>
    <3> DEFINE e == <<>>
    <3>1. e \in Seq(Nat)
      OBVIOUS
    <3> HIDE DEF e
    <3>2. c = [mode |-> 0, start |-> 0, offset |-> 0, length |-> 0, alloc |-> 0, buffer |-> e, overread |-> FALSE]
      BY DEF e, Closed_gcov
    <3> HIDE DEF c
    <3>3. c \in GcovVar
      BY <3>1, <3>2 DEF GcovVar
    <3>4. c.length = 0 /\ c.start = 0 /\ c.offset = 0 /\ c.buffer = e
      BY <3>2
    <3> QED BY <3>3, <3>4 DEF e
  <2> HIDE DEF c
  <2>2. u \in GcovVar /\ u.length = c.length /\ u.start = c.start /\ u.offset = c.offset /\ u.buffer = c.buffer
    BY <2>1 DEF GcovVar
  <2> HIDE DEF u
  <2>3. gcov_var' = c \/ gcov_var' = u
    BY <1>2 DEF c, u
  <2>4. Empty(gcov_var')
    BY <2>1, <2>2, <2>3
  <2> QED BY <1>2, <2>4 DEF GInv, GcovTypeOK, Mirrors, InStep
<1>3. CASE gcov_open
  <2>1. GInv'
    BY <1>2, <1>3 DEF gcov_open
  <2>2. ReadsTheFile'
    BY <1>3 DEF gcov_open, Nothing, ReadsTheFile
  <2> QED BY <2>1, <2>2
<1>4. CASE gcov_close
  <2>1. gcov_var' = Closed_gcov /\ position' = position /\ ~(gcov_var'.mode > 0)
    BY <1>4 DEF gcov_close, Closed_gcov
  <2>2. GInv'
    BY <1>1, <1>2, <2>1
  <2>3. ReadsTheFile'
    BY <1>4 DEF gcov_close, Nothing, ReadsTheFile
  <2> QED BY <2>2, <2>3
<1>5. ASSUME NEW base \in 0 .. FileLength + 1, gcov_sync(base)
      PROVE  GInv' /\ ReadsTheFile'
  <2>1. ReadsTheFile'
    <3>1. result' = <<>> /\ asked'.words = 0
      BY <1>5 DEF gcov_sync, Nothing
    <3> QED BY <3>1 DEF ReadsTheFile
  <2>2. base \in Nat
    BY GcovAssumption
  <2>3. v.start \in Nat /\ v.length \in Nat /\ v.mode \in {0, 1} /\ v.alloc \in Nat /\ v.overread \in BOOLEAN
        /\ v.buffer \in Seq(Nat)
    BY <1>1, GcovFields
  <2>4. CASE base >= v.start /\ base - v.start <= v.length
    <3> DEFINE off == base - v.start
               u == [v EXCEPT !.offset = off]
    <3>1. gcov_var' = u /\ position' = position
      BY <1>5, <2>4 DEF gcov_sync
    <3>2. off \in Nat /\ off <= v.length
      BY <2>2, <2>3, <2>4
    <3> HIDE DEF off
    <3>3. /\ u \in GcovVar /\ u.mode = v.mode /\ u.start = v.start /\ u.offset = off /\ u.length = v.length
          /\ u.buffer = v.buffer /\ u.overread = v.overread
      BY <1>1, <3>2 DEF GcovVar
    <3> HIDE DEF u
    <3> QED BY <1>1, <2>1, <3>1, <3>2, <3>3 DEF GInv, GcovTypeOK, Mirrors, InStep
  <2>5. CASE ~(base >= v.start /\ base - v.start <= v.length)
    <3> DEFINE e == <<>>
               u == [v EXCEPT !.offset = 0, !.length = 0, !.buffer = e, !.start = base]
    <3>1. gcov_var' = u /\ position' = base
      BY <1>5, <2>5 DEF gcov_sync
    <3>0. e \in Seq(Nat)
      OBVIOUS
    <3> HIDE DEF e
    <3>2. /\ u \in GcovVar /\ u.start = base /\ u.offset = 0 /\ u.length = 0 /\ u.buffer = e
      BY <1>1, <2>2, <3>0 DEF GcovVar
    <3> HIDE DEF u
    <3> QED BY <2>1, <2>2, <3>1, <3>2 DEF e, GInv, GcovTypeOK, Mirrors, InStep
  <2> QED BY <2>4, <2>5
<1> QED BY <1>3, <1>4, <1>5

(* Every read of the .gcno reader returns the words of the file at the        *)
(* position the reader reports, or fails for the end of the file, for files,  *)
(* blocks and reads of every size: gcov_read_words, gcov_sync and the refill  *)
(* of gcov_var.buffer.                                                        *)
THEOREM GcovReadsTheFile == GcovSpec => []ReadsTheFile
<1>1. GcovInit => GInv /\ ReadsTheFile
  <2> SUFFICES ASSUME GcovInit PROVE GInv /\ ReadsTheFile
    OBVIOUS
  <2>1. /\ gcov_var \in GcovVar /\ gcov_var.length = 0 /\ gcov_var.start = 0 /\ gcov_var.offset = 0
        /\ gcov_var.buffer = <<>> /\ gcov_var.mode = 0
    BY DEF GcovInit, Closed_gcov, GcovVar
  <2>2. position = 0 /\ result = <<>> /\ asked.words = 0
    BY DEF GcovInit, Nothing
  <2> QED BY <2>1, <2>2 DEF GInv, GcovTypeOK, Mirrors, InStep, ReadsTheFile
<1>2. GInv /\ ReadsTheFile /\ [GcovNext]_gcov_vars => (GInv /\ ReadsTheFile)'
  <2> SUFFICES ASSUME GInv, ReadsTheFile, [GcovNext]_gcov_vars PROVE GInv' /\ ReadsTheFile'
    OBVIOUS
  <2>1. CASE gcov_open \/ gcov_close \/ \E base \in 0 .. FileLength + 1 : gcov_sync(base)
    BY <2>1, GcovOtherSteps
  <2>2. CASE \E words \in 1 .. MaxWords : gcov_read_words(words)
    BY <2>2, GcovReadStep
  <2>3. CASE UNCHANGED gcov_vars
    BY <2>3 DEF gcov_vars, GInv, GcovTypeOK, Mirrors, InStep, ReadsTheFile
  <2> QED BY <2>1, <2>2, <2>3 DEF GcovNext
<1> QED BY <1>1, <1>2, PTL DEF GcovSpec

-----------------------------------------------------------------------------
(* Kcov: what holds of one process of the library, whoever else runs *)

Descriptor == Fds \cup {-1}

Lib == [kcov_fd : Descriptor, out_fd : Descriptor, foreign_fd : BOOLEAN, area : Instances \cup {NULL},
        pcs_size : {0, 1}, kcov_mode : {"unique", "order"}]

Starting == {"start", "parse_env", "output", "no_output", "open", "mode", "mmap", "enable"}
CleaningUp == {"cleanup", "munmap", "close"}
Steps == Starting \cup CleaningUp \cup {"run", "finish", "dump", "fork_child"}

Process ==
  [lib : Lib, st : {"unused", "live", "finished", "killed"}, pc : Steps, then : {"run", "output", "no_output",
    "start", "finish"},
   in_fork : BOOLEAN, fds : [Fds -> Files], ctl : Descriptor, out : Descriptor,
   sigterm : {"default", "ignored", "library"}, blocked : BOOLEAN, pending : BOOLEAN,
   ran : BOOLEAN, handled : BOOLEAN, meddled : BOOLEAN, lost : SUBSET Fds, wrote : SUBSET Fds,
   fault : BOOLEAN]

(* Where the buffer is mapped, and when a signal can find it gone.           *)
AreaOK(r) ==
  LET fd == r.lib.kcov_fd
      area == r.lib.area
  IN
  /\ r.fault => r.handled /\ ~r.in_fork /\ r.st # "live"
  /\ r.st = "live" =>
     /\ r.in_fork /\ r.pc # "fork_child" => r.blocked
     /\ r.pc \in {"run", "fork_child"} => ~r.blocked /\ (fd > 0 => area # NULL)
     /\ r.pc \in {"finish", "dump"} /\ fd > 0 => area # NULL \/ (r.handled /\ ~r.in_fork)
     /\ r.pc \in {"start", "parse_env", "output", "no_output", "open"} => fd <= 0
     /\ r.pc \in {"mode", "mmap", "enable"} => fd \in Fds /\ r.fds[fd] \in Instances
     /\ r.pc = "enable" => area = r.fds[fd]
     /\ r.pc = "dump" => fd > 0
     /\ r.pc \in CleaningUp => r.then # "run"

(* given is the kind of KCOV_OUT.                                             *)
HarmOK(r, given) ==
  ~r.meddled => /\ r.lost \subseteq IF given = "stray" THEN {0} ELSE {}
                /\ r.wrote \subseteq IF given = "stray" THEN {ForeignFd} ELSE {}

(* cleanup_kcov is called without a device only where KCOV_OUT named a        *)
(* descriptor that is not open.                                               *)
GivingUp(r, given) == given = "stray" /\ r.pc \in CleaningUp /\ r.then = "no_output"

(* The library's descriptors, and those passed on in KCOV_CTL_FD and          *)
(* KCOV_OUT_FD, in a process that has not closed one of them.                 *)
FilesOK(r, given) ==
  LET fd == r.lib.kcov_fd
      out_fd == r.lib.out_fd
  IN
  /\ HarmOK(r, given)
  /\ r.st = "live" /\ ~r.meddled =>
     /\ r.ctl # -1 => r.fds[r.ctl] \in Instances
     /\ r.out # -1 => r.fds[r.out] = "out" /\ given = "file"
     /\ given = "fd" => r.fds[ForeignFd] = "out"
     /\ fd > 0 \/ (r.pc \in CleaningUp /\ ~GivingUp(r, given)) => fd \in Fds /\ r.fds[fd] \in Instances
     /\ GivingUp(r, given) => fd <= 0 /\ out_fd = ForeignFd /\ r.fds[ForeignFd] = "closed"
     /\ r.lib.foreign_fd => out_fd = ForeignFd /\ given \in {"fd", "stray"}
     /\ r.pc = "start" \/ (r.pc = "finish" /\ fd < 1) \/ r.lib.foreign_fd \/ out_fd = -1 \/ GivingUp(r, given)
          \/ (r.fds[out_fd] = "out" /\ given = "file")
     /\ r.pc \in {"start", "parse_env", "output", "no_output"} => ~r.lib.foreign_fd
     /\ r.pc \in {"parse_env", "output", "no_output"} => out_fd = -1
     /\ r.pc \in {"open", "mode", "mmap", "enable"} => out_fd # -1
     /\ r.pc \in {"output", "no_output", "open", "mode", "mmap", "enable"} => r.ctl = -1

(* The instances K the process owns are the ones its descriptors mean.        *)
OwnedOK(r, K) ==
  LET fd == r.lib.kcov_fd IN
  /\ r.st # "live" \/ r.pc = "fork_child" => K = {}
  /\ r.st = "live" /\ ~r.meddled =>
     \A k \in K :
     /\ r.ctl # -1 /\ r.fds[r.ctl] = k
     /\ r.pc \notin {"dump", "munmap", "close"}
     /\ r.pc \in {"run", "cleanup"} \/ (r.pc = "finish" /\ fd > 0) => fd \in Fds /\ r.fds[fd] = k
     /\ r.pc = "run" => r.lib.area = k /\ r.lib.out_fd # -1

(* What the process did is in the output, or in a mapped buffer (B are those  *)
(* that hold it) that is still to be written.                                 *)
RanOK(r, dumped, B) ==
  /\ r.st = "finished" /\ r.ran /\ ~r.meddled /\ r.lib.kcov_fd # 0 => dumped
  /\ r.st = "live" /\ r.ran =>
     /\ r.pc \notin Starting \cup {"fork_child"}
     /\ r.pc \in CleaningUp => r.then = "finish"
     /\ ~r.meddled /\ ~dumped =>
          /\ r.pc \in {"run", "finish", "dump"} /\ r.lib.kcov_fd # -1
          /\ r.lib.area \in B /\ r.lib.out_fd # -1 /\ r.fds[r.lib.out_fd] = "out"

Sound(r, given, K, dumped, B) ==
  /\ r \in Process
  /\ AreaOK(r) /\ FilesOK(r, given) /\ OwnedOK(r, K) /\ RanOK(r, dumped \/ given = "stray", B)

OwnedIn(o, p) == {k \in Instances : o[k] = p}
RecordedIn(b, p) == {k \in Instances : p \in b[k]}

KcovTypeOK ==
  /\ proc \in [Procs -> Process]
  /\ owner \in [Instances -> Procs \cup {NoProc}] /\ buffer \in [Instances -> SUBSET Procs]
  /\ output \subseteq Procs /\ setting \in Settings

KInv ==
  /\ KcovTypeOK
  /\ \A p \in Procs : Sound(proc[p], setting.out, OwnedIn(owner, p), p \in output, RecordedIn(buffer, p))

LEMMA FdFacts == -1 \notin Fds /\ 0 \in Fds /\ Fds \subseteq Nat /\ ForeignFd \in Fds
BY KcovAssumption DEF Fds

LEMMA DescriptorInt == Descriptor \subseteq Int
BY KcovAssumption DEF Fds, Descriptor

LEMMA FreeMin ==
  ASSUME NEW r, Free(r) # {}
  PROVE  Min(Free(r)) \in Fds /\ r.fds[Min(Free(r))] = "closed"
<1> DEFINE F == Free(r)
<1>1. F \subseteq Nat /\ F \subseteq Fds /\ \A fd \in F : r.fds[fd] = "closed"
  BY KcovAssumption DEF Free, Fds
<1> HIDE DEF F
<1>2. F # {}
  BY DEF F
<1>3. \E x \in F : \A y \in F : ~(<<y, x>> \in OpToRel(<, Nat))
  BY <1>1, <1>2, NatLessThanWellFounded, WFMin
<1>4. \E x \in F : \A y \in F : x <= y
  <2>1. PICK x \in F : \A y \in F : ~(<<y, x>> \in OpToRel(<, Nat))
    BY <1>3
  <2>2. \A y \in F : ~(y < x)
    BY <1>1, <2>1 DEF OpToRel
  <2> QED BY <1>1, <2>2
<1>5. Min(F) \in F
  BY <1>4 DEF Min
<1> QED BY <1>1, <1>5 DEF F

(* What the other steps make of the process that takes them.                  *)
Disabling(r) == [r EXCEPT !.pc = "munmap"]
Unmapped(r) == [r EXCEPT !.lib.area = NULL, !.pc = "close"]
Begun(r) == [r EXCEPT !.sigterm = "library", !.lib.out_fd = -1, !.pc = "parse_env"]
NoneInherited(r) == [r EXCEPT !.pc = "output"]
InheritedGone(r) == Returned([r EXCEPT !.lib.kcov_fd = -1, !.lib.out_fd = -1])
InheritedFiles(r) == [r EXCEPT !.lib.kcov_fd = r.ctl, !.lib.out_fd = r.out, !.pc = "cleanup", !.then = "output"]
OutputLost(r) == [r EXCEPT !.lib.out_fd = ForeignFd, !.pc = "cleanup", !.then = "no_output"]
OutputForeign(r) == [r EXCEPT !.lib.out_fd = ForeignFd, !.lib.foreign_fd = TRUE, !.pc = "open"]
OutputAt(r, m) == [r EXCEPT !.fds[m] = "out", !.lib.out_fd = m, !.out = m, !.pc = "open"]
DeviceAt(r, m, k) == [r EXCEPT !.fds[m] = k, !.lib.kcov_fd = m, !.pc = "mode"]
DeviceFailed(r) == Returned([r EXCEPT !.lib.kcov_fd = -1])
ModeSet(r, mode, size) == [r EXCEPT !.lib.kcov_mode = mode, !.lib.pcs_size = size, !.pc = "mmap"]
GivenUpWith(r, mode, area) == Given_up([r EXCEPT !.lib.kcov_mode = mode, !.lib.area = area])
Mapped(r) == [r EXCEPT !.lib.area = r.fds[r.lib.kcov_fd], !.pc = "enable"]
EnabledNow(r) == Returned([r EXCEPT !.ctl = r.lib.kcov_fd])
Dumping(r) == [r EXCEPT !.pc = "dump"]
Faulted(r) == Dead([r EXCEPT !.fault = TRUE], "killed")
Writes(r) == IF r.lib.area # NULL /\ FileAt(r, r.lib.out_fd) = "program" THEN {r.lib.out_fd} ELSE {}
Dumped(r) == [r EXCEPT !.pc = "cleanup", !.then = "finish", !.wrote = @ \cup Writes(r)]
PendingIs(r, b) == [r EXCEPT !.pending = b]
InHandler(r) == [r EXCEPT !.pending = FALSE, !.sigterm = "default", !.blocked = TRUE, !.handled = TRUE,
    !.pc = "finish"]
HasRun(r) == [r EXCEPT !.ran = TRUE]
FileOpened(r, m) == [r EXCEPT !.fds[m] = "program"]
FileClosed(r, m) == [r EXCEPT !.fds[m] = "closed", !.meddled = @ \/ r.fds[m] # "program"]
Ignoring(r) == [r EXCEPT !.sigterm = "ignored"]
Exiting(r) == [r EXCEPT !.pc = "finish"]
ForkedChild(r) == [[r EXCEPT !.pc = "fork_child", !.in_fork = TRUE] EXCEPT !.ran = FALSE, !.pending = FALSE]
SpawnedChild(r) == [AfterExec(r) EXCEPT !.ran = FALSE, !.pending = FALSE]
ChildCleansUp(r) == [r EXCEPT !.blocked = Blocked, !.pc = "cleanup", !.then = "start"]

-----------------------------------------------------------------------------
(* cleanup_kcov *)

LEMMA DisableSound ==
  ASSUME NEW r, NEW given, NEW K \in SUBSET Instances, NEW dumped \in BOOLEAN, NEW B \in SUBSET Instances,
         Sound(r, given, K, dumped, B), r.st = "live", r.pc = "cleanup"
  PROVE  Sound(Disabling(r), given, {k \in K : FileAt(r, r.lib.kcov_fd) # k}, dumped, B)
<1> DEFINE s == [r EXCEPT !.pc = "munmap"]
<1>1. s \in Process /\ r \in Process
  <2>1. r \in Process
    BY DEF Sound
  <2>2. s \in Process
    BY <2>1 DEF Process, Lib, Steps, CleaningUp
  <2> QED BY <2>1, <2>2
<1>2. AreaOK(s)
  BY <1>1 DEF Process, Lib, Sound, AreaOK, CleaningUp
<1>3. FilesOK(s, given)
  BY <1>1 DEF Process, Lib, Sound, FilesOK, HarmOK, GivingUp, CleaningUp
<1>4. OwnedOK(s, {k \in K : FileAt(r, r.lib.kcov_fd) # k})
  BY <1>1, FdFacts DEF Process, Lib, Sound, OwnedOK, FilesOK, HarmOK, GivingUp, FileAt, CleaningUp
<1>5. RanOK(s, dumped \/ given = "stray", B)
  BY <1>1 DEF Process, Lib, Sound, RanOK, Starting, CleaningUp
<1> QED BY <1>1, <1>2, <1>3, <1>4, <1>5 DEF Sound, Disabling

LEMMA UnmapSound ==
  ASSUME NEW r, NEW given, NEW K \in SUBSET Instances, NEW dumped \in BOOLEAN, NEW B \in SUBSET Instances,
         Sound(r, given, K, dumped, B), r.st = "live", r.pc = "munmap"
  PROVE  Sound(Unmapped(r), given, K, dumped, B)
<1> DEFINE s == [r EXCEPT !.lib.area = NULL, !.pc = "close"]
<1>1. s \in Process /\ r \in Process
  <2>1. r \in Process
    BY DEF Sound
  <2>2. s \in Process
    BY <2>1 DEF Process, Lib, Steps, CleaningUp
  <2> QED BY <2>1, <2>2
<1>2. AreaOK(s)
  BY <1>1 DEF Process, Lib, Sound, AreaOK, CleaningUp
<1>3. FilesOK(s, given)
  BY <1>1 DEF Process, Lib, Sound, FilesOK, HarmOK, GivingUp, CleaningUp
<1>4. OwnedOK(s, K)
  BY <1>1, FdFacts DEF Process, Lib, Sound, OwnedOK
<1>5. RanOK(s, dumped \/ given = "stray", B)
  BY <1>1 DEF Process, Lib, Sound, RanOK, Starting, CleaningUp
<1> QED BY <1>1, <1>2, <1>3, <1>4, <1>5 DEF Sound, Unmapped

(* What CleanupClose makes of a process.                                      *)
ForeignFiles(given) == IF given \in {"fd", "stray"} THEN {"program", "out"} ELSE {"program"}
ClosedAll(r, given) ==
  LET closed == {r.lib.kcov_fd} \cup (IF ClosesOut(r) THEN {r.lib.out_fd} ELSE {}) IN
  [r EXCEPT !.fds = [fd \in Fds |-> IF fd \in closed THEN "closed" ELSE r.fds[fd]],
            !.lost = @ \cup {fd \in closed : FileAt(r, fd) \in ForeignFiles(given)},
            !.lib = Reset(r), !.ctl = -1, !.out = -1, !.pc = r.then]

LEMMA CloseSound ==
  ASSUME NEW r, NEW given, NEW K \in SUBSET Instances, NEW dumped \in BOOLEAN, NEW B \in SUBSET Instances,
         Sound(r, given, K, dumped, B), r.st = "live", r.pc = "close"
  PROVE  Sound(ClosedAll(r, given), given, K, dumped, B)
<1> DEFINE closed == {r.lib.kcov_fd} \cup (IF ClosesOut(r) THEN {r.lib.out_fd} ELSE {})
           f == [fd \in Fds |-> IF fd \in closed THEN "closed" ELSE r.fds[fd]]
           now == {fd \in closed : FileAt(r, fd) \in ForeignFiles(given)}
           lost == r.lost \cup now
           s == ClosedAll(r, given)
<1>0. r \in Process /\ r.fds \in [Fds -> Files] /\ r.lib \in Lib /\ r.lib.kcov_fd \in Descriptor /\ r.lib.out_fd \in Descriptor
  BY DEF Sound, Process, Lib
<1>1. r.then \in {"output", "no_output", "start", "finish"}
  BY <1>0 DEF Sound, Process, AreaOK, CleaningUp
<1>2. f \in [Fds -> Files] /\ \A fd \in Fds : fd \notin closed => f[fd] = r.fds[fd]
  BY <1>0 DEF Files
<1>3. ~r.meddled => now \subseteq IF given = "stray" THEN {0} ELSE {}
  <2> SUFFICES ASSUME ~r.meddled, NEW fd \in closed, FileAt(r, fd) \in ForeignFiles(given)
               PROVE  given = "stray" /\ fd = 0
    OBVIOUS
  <2>1. fd \in Fds /\ r.fds[fd] \in {"program", "out"} /\ (given = "file" => r.fds[fd] # "out")
    BY DEF FileAt, ForeignFiles
  <2>2. CASE GivingUp(r, given)
    <3>1. r.lib.kcov_fd <= 0 /\ r.lib.out_fd = ForeignFd /\ r.fds[ForeignFd] = "closed" /\ given = "stray"
      BY <2>2 DEF Sound, FilesOK, GivingUp
    <3>2. fd = r.lib.kcov_fd
      BY <2>1, <3>1
    <3> QED BY <2>1, <3>1, <3>2, FdFacts
  <2>3. CASE ~GivingUp(r, given)
    <3>1. /\ r.fds[r.lib.kcov_fd] \in Instances
          /\ ~r.lib.foreign_fd => r.lib.out_fd = -1 \/ (r.fds[r.lib.out_fd] = "out" /\ given = "file")
      BY <2>3 DEF Sound, FilesOK, HarmOK, GivingUp, CleaningUp
    <3>2. fd # r.lib.kcov_fd
      BY <2>1, <3>1, KcovAssumption
    <3>3. ~r.lib.foreign_fd /\ fd = r.lib.out_fd
      BY <3>2 DEF ClosesOut
    <3> QED BY <2>1, <3>1, <3>3, FdFacts
  <2> QED BY <2>2, <2>3
<1>4. ~r.meddled /\ given = "fd" => ForeignFd \notin closed /\ r.fds[ForeignFd] = "out"
  <2> SUFFICES ASSUME ~r.meddled, given = "fd"
               PROVE  ForeignFd \notin closed /\ r.fds[ForeignFd] = "out"
    OBVIOUS
  <2>1. /\ r.fds[r.lib.kcov_fd] \in Instances /\ r.fds[ForeignFd] = "out"
        /\ ~r.lib.foreign_fd => r.lib.out_fd = -1
    BY DEF Sound, FilesOK, GivingUp, CleaningUp
  <2>2. ForeignFd # r.lib.kcov_fd
    BY <2>1, KcovAssumption
  <2>3. ~r.lib.foreign_fd => ForeignFd # r.lib.out_fd
    BY <2>1, FdFacts
  <2> QED BY <2>1, <2>2, <2>3 DEF ClosesOut
<1>12. lost \subseteq Fds
  <2>1. r.lost \subseteq Fds
    BY <1>0 DEF Process
  <2>2. now \subseteq Fds
    BY DEF FileAt, ForeignFiles
  <2> QED BY <2>1, <2>2
<1>13. HarmOK(r, given)
  BY DEF Sound, FilesOK
<1> HIDE DEF closed, f
<1>14. ~r.meddled => lost \subseteq IF given = "stray" THEN {0} ELSE {}
  BY <1>3, <1>13 DEF HarmOK
<1>5. s = [r EXCEPT !.fds = f, !.lost = lost, !.lib = Reset(r), !.ctl = -1, !.out = -1, !.pc = r.then]
  BY DEF ClosedAll, closed, f
<1> HIDE DEF lost
<1> DEFINE t == Reset(r)
<1>6. t \in Lib /\ t.kcov_fd = -1 /\ t.out_fd = -1 /\ t.foreign_fd = FALSE
  BY <1>0, FdFacts DEF Reset, Lib, Descriptor
<1> HIDE DEF t
<1>7. /\ s \in Process /\ s.lib = t /\ s.pc = r.then /\ s.fds = f /\ s.lost = lost /\ s.ctl = -1 /\ s.out = -1
      /\ s.st = "live" /\ s.then = r.then /\ s.in_fork = r.in_fork /\ s.blocked = r.blocked /\ s.ran = r.ran
      /\ s.handled = r.handled /\ s.meddled = r.meddled /\ s.fault = r.fault /\ s.wrote = r.wrote
  BY <1>0, <1>1, <1>2, <1>5, <1>6, <1>12 DEF t, Process, Steps, Starting, Descriptor
<1> HIDE DEF s
<1>8. AreaOK(s)
  <2>1. ~r.fault /\ (r.in_fork => r.blocked)
    BY DEF Sound, AreaOK, CleaningUp
  <2> QED BY <1>1, <1>6, <1>7, <2>1 DEF AreaOK, CleaningUp
<1>9. FilesOK(s, given)
  <2>1. HarmOK(s, given)
    BY <1>7, <1>13, <1>14 DEF HarmOK
  <2>2. ~s.meddled /\ given = "fd" => s.fds[ForeignFd] = "out"
    BY <1>2, <1>4, <1>7, FdFacts
  <2> QED BY <1>1, <1>6, <1>7, <2>1, <2>2 DEF FilesOK, GivingUp, CleaningUp
<1>10. OwnedOK(s, K)
  <2>1. ~r.meddled => K = {}
    BY DEF Sound, OwnedOK
  <2> QED BY <1>1, <1>7, <2>1 DEF OwnedOK
<1>11. RanOK(s, dumped \/ given = "stray", B)
  <2>1. r.ran => r.then = "finish" /\ (~r.meddled => dumped \/ given = "stray")
    BY DEF Sound, RanOK, CleaningUp
  <2> QED BY <1>1, <1>7, <2>1 DEF RanOK, Starting, CleaningUp
<1> QED BY <1>7, <1>8, <1>9, <1>10, <1>11 DEF Sound, s

-----------------------------------------------------------------------------
(* start_kcov *)
LEMMA StartSound ==
  ASSUME NEW r, NEW given, NEW K \in SUBSET Instances, NEW dumped \in BOOLEAN, NEW B \in SUBSET Instances,
         Sound(r, given, K, dumped, B), r.st = "live", r.pc = "start"
  PROVE  Sound(Begun(r), given, K, dumped, B)
<1> DEFINE s == [r EXCEPT !.sigterm = "library", !.lib.out_fd = -1, !.pc = "parse_env"]
<1>1. s \in Process /\ r \in Process
  <2>1. r \in Process
    BY DEF Sound
  <2>2. s \in Process
    BY <2>1, FdFacts DEF Process, Lib, Steps, Starting, CleaningUp, Descriptor, Files
  <2> QED BY <2>1, <2>2
<1>2. AreaOK(s)
  BY <1>1, FdFacts DEF Process, Lib, Sound, AreaOK, CleaningUp, Descriptor
<1>3. FilesOK(s, given)
  BY <1>1, FdFacts DEF Process, Lib, Sound, AreaOK, FilesOK, HarmOK, GivingUp, CleaningUp, Descriptor
<1>4. OwnedOK(s, K)
  BY <1>1, FdFacts DEF Process, Lib, Sound, FilesOK, HarmOK, GivingUp, OwnedOK, CleaningUp, Descriptor
<1>5. RanOK(s, dumped \/ given = "stray", B)
  BY <1>1, FdFacts DEF Process, Lib, Sound, RanOK, Starting, CleaningUp, Descriptor
<1> QED BY <1>1, <1>2, <1>3, <1>4, <1>5 DEF Sound, Begun

LEMMA ParseEnvNone ==
  ASSUME NEW r, NEW given, NEW K \in SUBSET Instances, NEW dumped \in BOOLEAN, NEW B \in SUBSET Instances,
         Sound(r, given, K, dumped, B), r.st = "live", r.pc = "parse_env", r.ctl = -1
  PROVE  Sound(NoneInherited(r), given, K, dumped, B)
<1> DEFINE s == [r EXCEPT !.pc = "output"]
<1>1. s \in Process /\ r \in Process
  <2>1. r \in Process
    BY DEF Sound
  <2>2. s \in Process
    BY <2>1, FdFacts DEF Process, Lib, Steps, Starting, CleaningUp, Descriptor, Files
  <2> QED BY <2>1, <2>2
<1>2. AreaOK(s)
  BY <1>1, FdFacts DEF Process, Lib, Sound, AreaOK, CleaningUp, Descriptor
<1>3. FilesOK(s, given)
  BY <1>1, FdFacts DEF Process, Lib, Sound, AreaOK, FilesOK, HarmOK, GivingUp, CleaningUp, Descriptor
<1>4. OwnedOK(s, K)
  BY <1>1, FdFacts DEF Process, Lib, Sound, FilesOK, HarmOK, GivingUp, OwnedOK, CleaningUp, Descriptor
<1>5. RanOK(s, dumped \/ given = "stray", B)
  BY <1>1, FdFacts DEF Process, Lib, Sound, RanOK, Starting, CleaningUp, Descriptor
<1> QED BY <1>1, <1>2, <1>3, <1>4, <1>5 DEF Sound, NoneInherited

LEMMA ParseEnvGone ==
  ASSUME NEW r, NEW given, NEW K \in SUBSET Instances, NEW dumped \in BOOLEAN, NEW B \in SUBSET Instances,
         Sound(r, given, K, dumped, B), r.st = "live", r.pc = "parse_env", r.ctl # -1,
         FileAt(r, r.ctl) = "closed" \/ (r.out # -1 /\ FileAt(r, r.out) = "closed")
  PROVE  Sound(InheritedGone(r), given, K, dumped, B)
<1> DEFINE s == Returned([r EXCEPT !.lib.kcov_fd = -1, !.lib.out_fd = -1])
<1>1. s \in Process /\ r \in Process
  <2>1. r \in Process
    BY DEF Sound
  <2>2. s \in Process
    BY <2>1, FdFacts, KcovAssumption DEF Process, Lib, Steps, Starting, CleaningUp, Descriptor, Files, Returned, FileAt
  <2> QED BY <2>1, <2>2
<1>2. AreaOK(s)
  <2>1. /\ s.lib.kcov_fd = -1 /\ s.pc = "run" /\ s.blocked = FALSE /\ s.in_fork = FALSE /\ s.fault = r.fault /\ s.handled = r.handled
        /\ s.st = "live"
    BY <1>1 DEF Returned, Process, Lib
  <2>2. ~r.fault
    BY DEF Sound, AreaOK
  <2> QED BY <2>1, <2>2 DEF AreaOK, CleaningUp
<1>3. FilesOK(s, given)
  BY <1>1, FdFacts, KcovAssumption DEF Process, Lib, Sound, AreaOK, FilesOK, HarmOK, GivingUp, CleaningUp, Descriptor, Returned, FileAt
<1>4. OwnedOK(s, K)
  BY <1>1, FdFacts, KcovAssumption DEF Process, Lib, Sound, FilesOK, HarmOK, GivingUp, OwnedOK, CleaningUp, Descriptor, Returned, FileAt
<1>5. RanOK(s, dumped \/ given = "stray", B)
  BY <1>1, FdFacts, KcovAssumption DEF Process, Lib, Sound, RanOK, Starting, CleaningUp, Descriptor, Returned, FileAt
<1> QED BY <1>1, <1>2, <1>3, <1>4, <1>5 DEF Sound, InheritedGone

LEMMA ParseEnvInherited ==
  ASSUME NEW r, NEW given, NEW K \in SUBSET Instances, NEW dumped \in BOOLEAN, NEW B \in SUBSET Instances,
         Sound(r, given, K, dumped, B), r.st = "live", r.pc = "parse_env", r.ctl # -1,
         ~(FileAt(r, r.ctl) = "closed" \/ (r.out # -1 /\ FileAt(r, r.out) = "closed"))
  PROVE  Sound(InheritedFiles(r), given, K, dumped, B)
<1> DEFINE s == [r EXCEPT !.lib.kcov_fd = r.ctl, !.lib.out_fd = r.out, !.pc = "cleanup", !.then = "output"]
<1>1. s \in Process /\ r \in Process
  <2>1. r \in Process
    BY DEF Sound
  <2>2. s \in Process
    BY <2>1, FdFacts, KcovAssumption DEF Process, Lib, Steps, Starting, CleaningUp, Descriptor, Files, FileAt
  <2> QED BY <2>1, <2>2
<1>2. AreaOK(s)
  BY <1>1, FdFacts, KcovAssumption DEF Process, Lib, Sound, AreaOK, CleaningUp, Descriptor, FileAt
<1>3. FilesOK(s, given)
  <2>1. /\ s.lib.kcov_fd = r.ctl /\ s.lib.out_fd = r.out /\ s.lib.foreign_fd = r.lib.foreign_fd /\ s.ctl = r.ctl /\ s.out = r.out
        /\ s.pc = "cleanup" /\ s.meddled = r.meddled /\ s.lost = r.lost /\ s.wrote = r.wrote
        /\ s.then = "output" /\ s.st = "live" /\ s.fds = r.fds
    BY <1>1 DEF Process, Lib
  <2>2. r.ctl \in Fds
    BY <1>1, FdFacts DEF Process, Descriptor
  <2> HIDE DEF s
  <2> QED BY <2>1, <2>2 DEF Sound, FilesOK, HarmOK, GivingUp, CleaningUp
<1>4. OwnedOK(s, K)
  <2>1. s.lib.kcov_fd = r.ctl /\ s.ctl = r.ctl /\ s.pc = "cleanup" /\ s.meddled = r.meddled /\ s.st = "live" /\ s.fds = r.fds
    BY <1>1 DEF Process, Lib
  <2>2. r.ctl \in Fds /\ (~r.meddled => \A k \in K : r.fds[r.ctl] = k)
    BY <1>1, FdFacts DEF Sound, OwnedOK, Process, Descriptor
  <2> HIDE DEF s
  <2> QED BY <2>1, <2>2 DEF OwnedOK
<1>5. RanOK(s, dumped \/ given = "stray", B)
  BY <1>1, FdFacts, KcovAssumption DEF Process, Lib, Sound, RanOK, Starting, CleaningUp, Descriptor, FileAt
<1> QED BY <1>1, <1>2, <1>3, <1>4, <1>5 DEF Sound, InheritedFiles

(* start_kcov returns before it opened the device.                            *)
LEMMA ReturnedSound ==
  ASSUME NEW r, NEW given, NEW K \in SUBSET Instances, NEW dumped \in BOOLEAN, NEW B \in SUBSET Instances,
         Sound(r, given, K, dumped, B), r.st = "live", r.pc \in {"output", "no_output"}
  PROVE  Sound(Returned(r), given, K, dumped, B)
<1> DEFINE s == Returned(r)
<1>1. s \in Process /\ r \in Process
  <2>1. r \in Process
    BY DEF Sound
  <2>2. s \in Process
    BY <2>1, FdFacts DEF Process, Lib, Steps, Starting, CleaningUp, Descriptor, Files, Returned
  <2> QED BY <2>1, <2>2
<1>2. AreaOK(s)
  BY <1>1, FdFacts DEF Process, Lib, Sound, AreaOK, CleaningUp, Descriptor, Returned
<1>3. FilesOK(s, given)
  BY <1>1, FdFacts DEF Process, Lib, Sound, AreaOK, FilesOK, HarmOK, GivingUp, CleaningUp, Descriptor, Returned
<1>4. OwnedOK(s, K)
  BY <1>1, FdFacts DEF Process, Lib, Sound, FilesOK, HarmOK, GivingUp, OwnedOK, CleaningUp, Descriptor, Returned
<1>5. RanOK(s, dumped \/ given = "stray", B)
  BY <1>1, FdFacts DEF Process, Lib, Sound, RanOK, Starting, CleaningUp, Descriptor, Returned
<1> QED BY <1>1, <1>2, <1>3, <1>4, <1>5 DEF Sound

LEMMA OutputClosed ==
  ASSUME NEW r, NEW given, NEW K \in SUBSET Instances, NEW dumped \in BOOLEAN, NEW B \in SUBSET Instances,
         Sound(r, given, K, dumped, B), r.st = "live", r.pc = "output", given \in {"fd", "stray"},
         FileAt(r, ForeignFd) = "closed"
  PROVE  Sound(OutputLost(r), given, K, dumped, B)
<1> DEFINE s == [r EXCEPT !.lib.out_fd = ForeignFd, !.pc = "cleanup", !.then = "no_output"]
<1>1. s \in Process /\ r \in Process
  <2>1. r \in Process
    BY DEF Sound
  <2>2. s \in Process
    BY <2>1, FdFacts, KcovAssumption DEF Process, Lib, Steps, Starting, CleaningUp, Descriptor, Files, FileAt
  <2> QED BY <2>1, <2>2
<1>2. AreaOK(s)
  BY <1>1, FdFacts, KcovAssumption DEF Process, Lib, Sound, AreaOK, CleaningUp, Descriptor, FileAt
<1>3. FilesOK(s, given)
  BY <1>1, FdFacts, KcovAssumption DEF Process, Lib, Sound, AreaOK, FilesOK, HarmOK, GivingUp, CleaningUp, Descriptor, FileAt
<1>4. OwnedOK(s, K)
  BY <1>1, FdFacts, KcovAssumption DEF Process, Lib, Sound, FilesOK, HarmOK, GivingUp, OwnedOK, CleaningUp, Descriptor, FileAt
<1>5. RanOK(s, dumped \/ given = "stray", B)
  BY <1>1, FdFacts, KcovAssumption DEF Process, Lib, Sound, RanOK, Starting, CleaningUp, Descriptor, FileAt
<1> QED BY <1>1, <1>2, <1>3, <1>4, <1>5 DEF Sound, OutputLost

LEMMA OutputGiven ==
  ASSUME NEW r, NEW given, NEW K \in SUBSET Instances, NEW dumped \in BOOLEAN, NEW B \in SUBSET Instances,
         Sound(r, given, K, dumped, B), r.st = "live", r.pc = "output", given \in {"fd", "stray"}
  PROVE  Sound(OutputForeign(r), given, K, dumped, B)
<1> DEFINE s == [r EXCEPT !.lib.out_fd = ForeignFd, !.lib.foreign_fd = TRUE, !.pc = "open"]
<1>1. s \in Process /\ r \in Process
  <2>1. r \in Process
    BY DEF Sound
  <2>2. s \in Process
    BY <2>1, FdFacts, KcovAssumption DEF Process, Lib, Steps, Starting, CleaningUp, Descriptor, Files
  <2> QED BY <2>1, <2>2
<1>2. AreaOK(s)
  BY <1>1, FdFacts, KcovAssumption DEF Process, Lib, Sound, AreaOK, CleaningUp, Descriptor
<1>3. FilesOK(s, given)
  <2>1. /\ s.lib.kcov_fd = r.lib.kcov_fd /\ s.lib.out_fd = ForeignFd /\ s.lib.foreign_fd = TRUE
        /\ s.pc = "open" /\ s.st = "live" /\ s.fds = r.fds /\ s.ctl = r.ctl /\ s.out = r.out
        /\ s.meddled = r.meddled /\ s.lost = r.lost /\ s.wrote = r.wrote
    BY <1>1 DEF Process, Lib
  <2>2. ~(s.lib.kcov_fd > 0)
    <3>1. r.lib.kcov_fd \in Int
      BY <1>1, DescriptorInt DEF Process, Lib
    <3>2. r.lib.kcov_fd <= 0
      BY DEF Sound, AreaOK
    <3> QED BY <2>1, <3>1, <3>2
  <2>3. ForeignFd # -1
    BY FdFacts, KcovAssumption
  <2> HIDE DEF s
  <2> QED BY <2>1, <2>2, <2>3 DEF Sound, FilesOK, HarmOK, GivingUp, CleaningUp
<1>4. OwnedOK(s, K)
  BY <1>1, FdFacts, KcovAssumption DEF Process, Lib, Sound, FilesOK, HarmOK, GivingUp, OwnedOK, CleaningUp, Descriptor
<1>5. RanOK(s, dumped \/ given = "stray", B)
  BY <1>1, FdFacts, KcovAssumption DEF Process, Lib, Sound, RanOK, Starting, CleaningUp, Descriptor
<1> QED BY <1>1, <1>2, <1>3, <1>4, <1>5 DEF Sound, OutputForeign

LEMMA OutputOpened ==
  ASSUME NEW r, NEW given, NEW K \in SUBSET Instances, NEW dumped \in BOOLEAN, NEW B \in SUBSET Instances,
         NEW m \in Fds,
         Sound(r, given, K, dumped, B), r.st = "live", r.pc = "output", given = "file", r.fds[m] = "closed"
  PROVE  Sound(OutputAt(r, m), given, K, dumped, B)
<1> DEFINE s == [r EXCEPT !.fds[m] = "out", !.lib.out_fd = m, !.out = m, !.pc = "open"]
<1>1. s \in Process /\ r \in Process
  <2>1. r \in Process
    BY DEF Sound
  <2>2. s \in Process
    BY <2>1, FdFacts, KcovAssumption DEF Process, Lib, Steps, Starting, CleaningUp, Descriptor, Files
  <2> QED BY <2>1, <2>2
<1>2. AreaOK(s)
  BY <1>1, FdFacts, KcovAssumption DEF Process, Lib, Sound, AreaOK, CleaningUp, Descriptor
<1>3. FilesOK(s, given)
  BY <1>1, FdFacts, KcovAssumption DEF Process, Lib, Sound, AreaOK, FilesOK, HarmOK, GivingUp, CleaningUp, Descriptor
<1>4. OwnedOK(s, K)
  BY <1>1, FdFacts, KcovAssumption DEF Process, Lib, Sound, FilesOK, HarmOK, GivingUp, OwnedOK, CleaningUp, Descriptor
<1>5. RanOK(s, dumped \/ given = "stray", B)
  BY <1>1, FdFacts, KcovAssumption DEF Process, Lib, Sound, RanOK, Starting, CleaningUp, Descriptor
<1> QED BY <1>1, <1>2, <1>3, <1>4, <1>5 DEF Sound, OutputAt

LEMMA OpenSound ==
  ASSUME NEW r, NEW given, NEW K \in SUBSET Instances, NEW dumped \in BOOLEAN, NEW B \in SUBSET Instances,
         NEW m \in Fds, NEW k \in Instances, NEW C, r.lib.area \in B => r.lib.area \in C,
         Sound(r, given, K, dumped, B), r.st = "live", r.pc = "open", r.fds[m] = "closed"
  PROVE  Sound(DeviceAt(r, m, k), given, K, dumped, C)
<1> DEFINE s == [r EXCEPT !.fds[m] = k, !.lib.kcov_fd = m, !.pc = "mode"]
<1>1. s \in Process /\ r \in Process
  <2>1. r \in Process
    BY DEF Sound
  <2>2. s \in Process
    BY <2>1, FdFacts, KcovAssumption DEF Process, Lib, Steps, Starting, CleaningUp, Descriptor, Files
  <2> QED BY <2>1, <2>2
<1>2. AreaOK(s)
  BY <1>1, FdFacts, KcovAssumption DEF Process, Lib, Sound, AreaOK, CleaningUp, Descriptor
<1>3. FilesOK(s, given)
  BY <1>1, FdFacts, KcovAssumption DEF Process, Lib, Sound, AreaOK, FilesOK, HarmOK, GivingUp, CleaningUp, Descriptor
<1>4. OwnedOK(s, K)
  BY <1>1, FdFacts, KcovAssumption DEF Process, Lib, Sound, FilesOK, HarmOK, GivingUp, OwnedOK, CleaningUp, Descriptor
<1>5. RanOK(s, dumped \/ given = "stray", C)
  BY <1>1, FdFacts, KcovAssumption DEF Process, Lib, Sound, RanOK, Starting, CleaningUp, Descriptor
<1> QED BY <1>1, <1>2, <1>3, <1>4, <1>5 DEF Sound, DeviceAt

LEMMA OpenFailed ==
  ASSUME NEW r, NEW given, NEW K \in SUBSET Instances, NEW dumped \in BOOLEAN, NEW B \in SUBSET Instances,
         Sound(r, given, K, dumped, B), r.st = "live", r.pc = "open"
  PROVE  Sound(DeviceFailed(r), given, K, dumped, B)
<1> DEFINE s == Returned([r EXCEPT !.lib.kcov_fd = -1])
<1>1. s \in Process /\ r \in Process
  <2>1. r \in Process
    BY DEF Sound
  <2>2. s \in Process
    BY <2>1, FdFacts DEF Process, Lib, Steps, Starting, CleaningUp, Descriptor, Files, Returned
  <2> QED BY <2>1, <2>2
<1>2. AreaOK(s)
  BY <1>1, FdFacts DEF Process, Lib, Sound, AreaOK, CleaningUp, Descriptor, Returned
<1>3. FilesOK(s, given)
  BY <1>1, FdFacts DEF Process, Lib, Sound, AreaOK, FilesOK, HarmOK, GivingUp, CleaningUp, Descriptor, Returned
<1>4. OwnedOK(s, K)
  BY <1>1, FdFacts DEF Process, Lib, Sound, FilesOK, HarmOK, GivingUp, OwnedOK, CleaningUp, Descriptor, Returned
<1>5. RanOK(s, dumped \/ given = "stray", B)
  BY <1>1, FdFacts DEF Process, Lib, Sound, RanOK, Starting, CleaningUp, Descriptor, Returned
<1> QED BY <1>1, <1>2, <1>3, <1>4, <1>5 DEF Sound, DeviceFailed

LEMMA ModeSound ==
  ASSUME NEW r, NEW given, NEW K \in SUBSET Instances, NEW dumped \in BOOLEAN, NEW B \in SUBSET Instances,
         NEW mode \in {"unique", "order"}, NEW size \in {0, 1},
         Sound(r, given, K, dumped, B), r.st = "live", r.pc = "mode"
  PROVE  Sound(ModeSet(r, mode, size), given, K, dumped, B)
<1> DEFINE s == [r EXCEPT !.lib.kcov_mode = mode, !.lib.pcs_size = size, !.pc = "mmap"]
<1>1. s \in Process /\ r \in Process
  <2>1. r \in Process
    BY DEF Sound
  <2>2. s \in Process
    BY <2>1, FdFacts DEF Process, Lib, Steps, Starting, CleaningUp, Descriptor, Files
  <2> QED BY <2>1, <2>2
<1>2. AreaOK(s)
  BY <1>1, FdFacts DEF Process, Lib, Sound, AreaOK, CleaningUp, Descriptor
<1>3. FilesOK(s, given)
  <2>1. /\ s.ctl = r.ctl /\ s.out = r.out /\ s.fds = r.fds /\ s.st = "live" /\ s.meddled = r.meddled /\ s.pc = "mmap"
        /\ s.lost = r.lost /\ s.wrote = r.wrote
    BY <1>1 DEF Process
  <2>2. s.lib.kcov_fd = r.lib.kcov_fd /\ s.lib.out_fd = r.lib.out_fd /\ s.lib.foreign_fd = r.lib.foreign_fd
    BY <1>1 DEF Process, Lib
  <2> HIDE DEF s
  <2> QED BY <2>1, <2>2 DEF Sound, FilesOK, HarmOK, GivingUp, CleaningUp
<1>4. OwnedOK(s, K)
  BY <1>1, FdFacts DEF Process, Lib, Sound, FilesOK, HarmOK, GivingUp, OwnedOK, CleaningUp, Descriptor
<1>5. RanOK(s, dumped \/ given = "stray", B)
  BY <1>1, FdFacts DEF Process, Lib, Sound, RanOK, Starting, CleaningUp, Descriptor
<1> QED BY <1>1, <1>2, <1>3, <1>4, <1>5 DEF Sound, ModeSet

LEMMA GivenUpSound ==
  ASSUME NEW r, NEW given, NEW K \in SUBSET Instances, NEW dumped \in BOOLEAN, NEW B \in SUBSET Instances,
         NEW mode \in {"unique", "order"}, NEW area \in Instances \cup {NULL},
         Sound(r, given, K, dumped, B), r.st = "live", r.pc \in {"mode", "mmap", "enable"}
  PROVE  Sound(GivenUpWith(r, mode, area), given, K, dumped, B)
<1> DEFINE f == [fd \in Fds |-> IF fd = r.lib.kcov_fd THEN "closed" ELSE r.fds[fd]]
           t == [r.lib EXCEPT !.kcov_mode = mode, !.area = area, !.kcov_fd = -1]
           s == Given_up([r EXCEPT !.lib.kcov_mode = mode, !.lib.area = area])
<1>0. r \in Process /\ r.fds \in [Fds -> Files] /\ r.lib \in Lib /\ r.lib.kcov_fd \in Descriptor /\ r.lib.out_fd \in Descriptor
      /\ r.out \in Descriptor
  BY DEF Sound, Process, Lib
<1>1. r.lib.kcov_fd \in Fds /\ r.fds[r.lib.kcov_fd] \in Instances
  BY DEF Sound, AreaOK
<1>2. f \in [Fds -> Files] /\ \A fd \in Fds : r.fds[fd] = "out" => f[fd] = "out"
  BY <1>0, <1>1, KcovAssumption DEF Files
<1> HIDE DEF f
<1>3. s = [r EXCEPT !.lib = t, !.fds = f, !.pc = "run", !.blocked = FALSE, !.in_fork = FALSE]
  <2>1. [r EXCEPT !.lib.kcov_mode = mode, !.lib.area = area].lib.kcov_fd = r.lib.kcov_fd
        /\ [r EXCEPT !.lib.kcov_mode = mode, !.lib.area = area].fds = r.fds
    BY <1>0 DEF Process, Lib
  <2> QED BY <1>0, <2>1 DEF Given_up, Returned, f, Process, Lib
<1>4. t \in Lib /\ t.kcov_fd = -1 /\ t.out_fd = r.lib.out_fd /\ t.foreign_fd = r.lib.foreign_fd
  BY <1>0, FdFacts DEF Lib, Descriptor
<1> HIDE DEF t, s
<1>5. /\ s \in Process /\ s.lib = t /\ s.pc = "run" /\ s.fds = f /\ s.lost = r.lost /\ s.wrote = r.wrote /\ s.ctl = r.ctl /\ s.out = r.out
      /\ s.st = "live" /\ s.in_fork = FALSE /\ s.blocked = FALSE /\ s.ran = r.ran
      /\ s.handled = r.handled /\ s.meddled = r.meddled /\ s.fault = r.fault
  <2>1. s \in Process
    BY <1>0, <1>2, <1>3, <1>4 DEF Process, Steps
  <2> QED BY <1>0, <1>3, <2>1 DEF Process
<1>6. AreaOK(s)
  BY <1>4, <1>5 DEF Sound, AreaOK, CleaningUp
<1>7. FilesOK(s, given)
  <2>1. HarmOK(s, given)
    BY <1>5 DEF Sound, FilesOK, HarmOK
  <2>2. ~r.meddled => /\ r.ctl = -1 /\ (r.out # -1 => r.fds[r.out] = "out" /\ given = "file")
                      /\ given = "fd" => r.fds[ForeignFd] = "out"
                      /\ r.lib.foreign_fd => r.lib.out_fd = ForeignFd /\ given \in {"fd", "stray"}
                      /\ r.lib.foreign_fd \/ r.lib.out_fd = -1 \/ (r.fds[r.lib.out_fd] = "out" /\ given = "file")
    BY DEF Sound, FilesOK, GivingUp, CleaningUp
  <2>3. s.lib.kcov_fd = -1 /\ s.lib.out_fd = r.lib.out_fd /\ s.lib.foreign_fd = r.lib.foreign_fd
    BY <1>4, <1>5
  <2>4. ~r.meddled => /\ r.out # -1 => f[r.out] = "out" /\ given = "file"
                      /\ given = "fd" => f[ForeignFd] = "out"
                      /\ r.lib.foreign_fd \/ r.lib.out_fd = -1 \/ (f[r.lib.out_fd] = "out" /\ given = "file")
    BY <1>0, <1>2, <2>2, FdFacts DEF Descriptor
  <2> QED BY <1>5, <2>1, <2>2, <2>3, <2>4 DEF FilesOK, HarmOK, GivingUp, CleaningUp
<1>8. OwnedOK(s, K)
  <2>1. ~r.meddled => r.ctl = -1
    BY DEF Sound, FilesOK
  <2>2. ~r.meddled => K = {}
    BY <2>1 DEF Sound, OwnedOK
  <2> QED BY <1>5, <2>2 DEF OwnedOK
<1>9. RanOK(s, dumped \/ given = "stray", B)
  <2>1. ~r.ran
    BY DEF Sound, RanOK, Starting
  <2> QED BY <1>5, <2>1 DEF RanOK
<1> QED BY <1>5, <1>6, <1>7, <1>8, <1>9 DEF Sound, s, GivenUpWith

LEMMA MapSound ==
  ASSUME NEW r, NEW given, NEW K \in SUBSET Instances, NEW dumped \in BOOLEAN, NEW B \in SUBSET Instances,
         Sound(r, given, K, dumped, B), r.st = "live", r.pc = "mmap"
  PROVE  Sound(Mapped(r), given, K, dumped, B)
<1> DEFINE s == [r EXCEPT !.lib.area = r.fds[r.lib.kcov_fd], !.pc = "enable"]
<1>1. s \in Process /\ r \in Process
  <2>1. r \in Process
    BY DEF Sound
  <2>2. r.fds[r.lib.kcov_fd] \in Instances
    BY DEF Sound, AreaOK
  <2>3. [r.lib EXCEPT !.area = r.fds[r.lib.kcov_fd]] \in Lib
    BY <2>1, <2>2 DEF Process, Lib
  <2>4. s = [r EXCEPT !.lib = [r.lib EXCEPT !.area = r.fds[r.lib.kcov_fd]], !.pc = "enable"]
    BY <2>1 DEF Process
  <2>5. s \in Process
    BY <2>1, <2>3, <2>4 DEF Process, Steps, Starting
  <2> QED BY <2>1, <2>5
<1>2. AreaOK(s)
  BY <1>1, FdFacts DEF Process, Lib, Sound, AreaOK, CleaningUp, Descriptor
<1>3. FilesOK(s, given)
  BY <1>1, FdFacts DEF Process, Lib, Sound, AreaOK, FilesOK, HarmOK, GivingUp, CleaningUp, Descriptor
<1>4. OwnedOK(s, K)
  BY <1>1, FdFacts DEF Process, Lib, Sound, FilesOK, HarmOK, GivingUp, OwnedOK, CleaningUp, Descriptor
<1>5. RanOK(s, dumped \/ given = "stray", B)
  BY <1>1, FdFacts DEF Process, Lib, Sound, RanOK, Starting, CleaningUp, Descriptor
<1> QED BY <1>1, <1>2, <1>3, <1>4, <1>5 DEF Sound, Mapped

LEMMA EnableSound ==
  ASSUME NEW r, NEW given, NEW K \in SUBSET Instances, NEW dumped \in BOOLEAN, NEW B \in SUBSET Instances,
         Sound(r, given, K, dumped, B), r.st = "live", r.pc = "enable", K = {}
  PROVE  Sound(EnabledNow(r), given, {r.lib.area}, dumped, B)
<1> DEFINE s == Returned([r EXCEPT !.ctl = r.lib.kcov_fd])
<1>1. s \in Process /\ r \in Process
  <2>1. r \in Process
    BY DEF Sound
  <2>2. s \in Process
    BY <2>1, FdFacts, KcovAssumption DEF Process, Lib, Steps, Starting, CleaningUp, Descriptor, Files, Returned
  <2> QED BY <2>1, <2>2
<1>2. AreaOK(s)
  BY <1>1, FdFacts, KcovAssumption DEF Process, Lib, Sound, AreaOK, CleaningUp, Descriptor, Returned
<1>3. FilesOK(s, given)
  BY <1>1, FdFacts, KcovAssumption DEF Process, Lib, Sound, AreaOK, FilesOK, HarmOK, GivingUp, CleaningUp, Descriptor, Returned
<1>4. OwnedOK(s, {r.lib.area})
  BY <1>1, FdFacts, KcovAssumption DEF Process, Lib, Sound, FilesOK, HarmOK, GivingUp, OwnedOK, CleaningUp, Descriptor, Returned, AreaOK
<1>5. RanOK(s, dumped \/ given = "stray", B)
  BY <1>1, FdFacts, KcovAssumption DEF Process, Lib, Sound, RanOK, Starting, CleaningUp, Descriptor, Returned
<1> QED BY <1>1, <1>2, <1>3, <1>4, <1>5 DEF Sound, EnabledNow

-----------------------------------------------------------------------------
(* finish_kcov *)
LEMMA FinishSound ==
  ASSUME NEW r, NEW given, NEW K \in SUBSET Instances, NEW dumped \in BOOLEAN, NEW B \in SUBSET Instances,
         Sound(r, given, K, dumped, B), r.st = "live", r.pc = "finish", r.lib.kcov_fd > 0
  PROVE  Sound(Dumping(r), given, {k \in K : FileAt(r, r.lib.kcov_fd) # k}, dumped, B)
<1> DEFINE s == [r EXCEPT !.pc = "dump"]
<1>1. s \in Process /\ r \in Process
  <2>1. r \in Process
    BY DEF Sound
  <2>2. s \in Process
    BY <2>1, FdFacts DEF Process, Lib, Steps, Starting, CleaningUp, Descriptor, Files
  <2> QED BY <2>1, <2>2
<1>2. AreaOK(s)
  BY <1>1, FdFacts DEF Process, Lib, Sound, AreaOK, CleaningUp, Descriptor
<1>3. FilesOK(s, given)
  BY <1>1, FdFacts DEF Process, Lib, Sound, AreaOK, FilesOK, HarmOK, GivingUp, CleaningUp, Descriptor
<1>4. OwnedOK(s, {k \in K : FileAt(r, r.lib.kcov_fd) # k})
  BY <1>1, FdFacts DEF Process, Lib, Sound, FilesOK, HarmOK, GivingUp, OwnedOK, CleaningUp, Descriptor, FileAt
<1>5. RanOK(s, dumped \/ given = "stray", B)
  BY <1>1, FdFacts DEF Process, Lib, Sound, RanOK, Starting, CleaningUp, Descriptor
<1> QED BY <1>1, <1>2, <1>3, <1>4, <1>5 DEF Sound, Dumping

LEMMA NotStartedFields ==
  /\ NotStarted \in Process /\ NotStarted.fds = [fd \in Fds |-> "closed"] /\ NotStarted.lib = Image /\ NotStarted.st = "unused"
  /\ NotStarted.ctl = -1 /\ NotStarted.out = -1 /\ ~NotStarted.fault /\ NotStarted.lost = {} /\ NotStarted.wrote = {} /\ ~NotStarted.ran
  /\ ~NotStarted.in_fork /\ Image \in Lib /\ Image.kcov_fd = 0 /\ ~Image.foreign_fd
<1> DEFINE n == NotStarted
           f == [fd \in Fds |-> "closed"]
<1>1. f \in [Fds -> Files]
  BY DEF Files
<1>2. Image \in Lib /\ Image.kcov_fd = 0 /\ ~Image.foreign_fd
  BY FdFacts DEF Image, Lib, Descriptor
<1> HIDE DEF f
<1>3. n = [lib |-> Image, st |-> "unused", pc |-> "run", then |-> "run", in_fork |-> FALSE,
           fds |-> f, ctl |-> -1, out |-> -1, sigterm |-> "default", blocked |-> FALSE, pending |-> FALSE,
           ran |-> FALSE, handled |-> FALSE, meddled |-> FALSE, lost |-> {}, wrote |-> {}, fault |-> FALSE]
  BY DEF f, NotStarted
<1> HIDE DEF n
<1>4. n \in Process
  BY <1>1, <1>2, <1>3, FdFacts DEF Process, Steps, Descriptor
<1>5. /\ n.fds = f /\ n.lib = Image /\ n.st = "unused" /\ n.ctl = -1 /\ n.out = -1 /\ ~n.fault /\ n.lost = {} /\ n.wrote = {} /\ ~n.ran
      /\ ~n.in_fork
  BY <1>3
<1> QED BY <1>2, <1>4, <1>5 DEF n, f

LEMMA DeadFields ==
  ASSUME NEW r \in Process, NEW how \in {"finished", "killed"}
  PROVE  LET s == Dead(r, how) IN
         /\ s \in Process /\ s.st = how /\ s.ran = r.ran /\ s.handled = r.handled /\ s.in_fork = r.in_fork
         /\ s.meddled = r.meddled /\ s.lost = r.lost /\ s.wrote = r.wrote /\ s.fault = r.fault /\ s.lib.kcov_fd = r.lib.kcov_fd
<1> DEFINE n == NotStarted
<1>3. n \in Process
  BY NotStartedFields
<1> HIDE DEF n
<1>4. Dead(r, how) = [n EXCEPT !.st = how, !.ran = r.ran, !.handled = r.handled, !.in_fork = r.in_fork,
                        !.meddled = r.meddled, !.lost = r.lost, !.wrote = r.wrote, !.fault = r.fault, !.lib.kcov_fd = r.lib.kcov_fd]
  BY DEF Dead, n
<1>5. r.lib.kcov_fd \in Descriptor
  BY DEF Process, Lib
<1> DEFINE t == [n.lib EXCEPT !.kcov_fd = r.lib.kcov_fd]
<1>6. t \in Lib /\ t.kcov_fd = r.lib.kcov_fd
  BY <1>3, <1>5 DEF Process, Lib
<1> HIDE DEF t
<1>7. Dead(r, how) = [n EXCEPT !.st = how, !.ran = r.ran, !.handled = r.handled, !.in_fork = r.in_fork,
                        !.meddled = r.meddled, !.lost = r.lost, !.wrote = r.wrote, !.fault = r.fault, !.lib = t]
  BY <1>4 DEF t
<1>8. /\ r.ran \in BOOLEAN /\ r.handled \in BOOLEAN /\ r.in_fork \in BOOLEAN /\ r.meddled \in BOOLEAN
      /\ r.lost \in SUBSET Fds /\ r.wrote \in SUBSET Fds /\ r.fault \in BOOLEAN
  BY DEF Process
<1> DEFINE s == Dead(r, how)
<1>9. s \in Process
  BY <1>3, <1>6, <1>7, <1>8 DEF Process
<1>10. /\ s.st = how /\ s.ran = r.ran /\ s.handled = r.handled /\ s.in_fork = r.in_fork
       /\ s.meddled = r.meddled /\ s.lost = r.lost /\ s.wrote = r.wrote /\ s.fault = r.fault /\ s.lib = t
  BY <1>3, <1>7 DEF Process
<1> QED BY <1>6, <1>9, <1>10

LEMMA FinishedSound ==
  ASSUME NEW r, NEW given, NEW K \in SUBSET Instances, NEW dumped \in BOOLEAN, NEW B \in SUBSET Instances,
         Sound(r, given, K, dumped, B), r.st = "live", r.pc = "finish", ~(r.lib.kcov_fd > 0)
  PROVE  Sound(Dead(r, "finished"), given, {}, dumped, B)
<1> DEFINE s == Dead(r, "finished")
<1>1. r \in Process /\ r.lib.kcov_fd \in Descriptor
  BY DEF Sound, Process, Lib
<1>2. /\ s \in Process /\ s.st = "finished" /\ s.ran = r.ran /\ s.meddled = r.meddled /\ s.lost = r.lost /\ s.wrote = r.wrote
      /\ s.fault = r.fault /\ s.lib.kcov_fd = r.lib.kcov_fd
  BY <1>1, DeadFields
<1> HIDE DEF s
<1>3. ~r.fault /\ HarmOK(r, given)
  BY DEF Sound, AreaOK, FilesOK
<1>4. r.ran /\ ~r.meddled /\ r.lib.kcov_fd # 0 => dumped \/ given = "stray"
  <2>1. r.ran /\ ~r.meddled /\ ~(dumped \/ given = "stray") => r.lib.kcov_fd # -1
    BY DEF Sound, RanOK
  <2>2. r.lib.kcov_fd # -1 => r.lib.kcov_fd = 0
    <3>1. r.lib.kcov_fd # -1 => r.lib.kcov_fd \in Nat
      BY <1>1, FdFacts DEF Descriptor
    <3> QED BY <3>1
  <2> QED BY <2>1, <2>2
<1> QED BY <1>2, <1>3, <1>4 DEF Sound, AreaOK, FilesOK, HarmOK, OwnedOK, RanOK, s

LEMMA KilledSound ==
  ASSUME NEW r, NEW given, NEW K \in SUBSET Instances, NEW dumped \in BOOLEAN, NEW B \in SUBSET Instances,
         Sound(r, given, K, dumped, B), r.st = "live"
  PROVE  Sound(Dead(r, "killed"), given, {}, dumped, B)
<1> DEFINE s == Dead(r, "killed")
<1>1. r \in Process
  BY DEF Sound
<1>2. /\ s \in Process /\ s.st = "killed" /\ s.meddled = r.meddled /\ s.lost = r.lost /\ s.wrote = r.wrote /\ s.fault = r.fault
  BY <1>1, DeadFields
<1> HIDE DEF s
<1>3. ~r.fault /\ HarmOK(r, given)
  BY DEF Sound, AreaOK, FilesOK
<1> QED BY <1>2, <1>3 DEF Sound, AreaOK, FilesOK, HarmOK, OwnedOK, RanOK, s

LEMMA FaultSound ==
  ASSUME NEW r, NEW given, NEW K \in SUBSET Instances, NEW dumped \in BOOLEAN, NEW B \in SUBSET Instances,
         Sound(r, given, K, dumped, B), r.st = "live", r.pc = "dump", r.lib.area = NULL
  PROVE  Sound(Faulted(r), given, {}, dumped, B)
<1> DEFINE u == [r EXCEPT !.fault = TRUE]
           s == Dead(u, "killed")
<1>1. r \in Process /\ u \in Process
  BY DEF Sound, Process
<1>2. u.handled = r.handled /\ u.in_fork = r.in_fork /\ u.meddled = r.meddled /\ u.lost = r.lost /\ u.wrote = r.wrote
  BY <1>1 DEF Process
<1> HIDE DEF u
<1>3. /\ s \in Process /\ s.st = "killed" /\ s.handled = u.handled /\ s.in_fork = u.in_fork
      /\ s.meddled = u.meddled /\ s.lost = u.lost /\ s.wrote = u.wrote
  BY <1>1, DeadFields
<1> HIDE DEF s
<1>4. r.handled /\ ~r.in_fork /\ HarmOK(r, given)
  BY DEF Sound, AreaOK, FilesOK
<1> QED BY <1>2, <1>3, <1>4 DEF Sound, AreaOK, FilesOK, HarmOK, OwnedOK, RanOK, s, u, Faulted

LEMMA DumpSound ==
  ASSUME NEW r, NEW given, NEW K \in SUBSET Instances, NEW dumped \in BOOLEAN, NEW B \in SUBSET Instances,
         Sound(r, given, K, dumped, B), r.st = "live", r.pc = "dump"
  PROVE  Sound(Dumped(r), given, K, dumped \/ (r.lib.area \in B /\ FileAt(r, r.lib.out_fd) = "out"), B)
<1> DEFINE w == r.wrote \cup Writes(r)
           s == [r EXCEPT !.pc = "cleanup", !.then = "finish", !.wrote = w]
<1>0. r \in Process /\ r.wrote \subseteq Fds /\ Writes(r) \subseteq Fds
  BY DEF Sound, Process, Writes, FileAt
<1>6. HarmOK(s, given)
  <2>1. ~r.meddled => Writes(r) \subseteq IF given = "stray" THEN {ForeignFd} ELSE {}
    <3> SUFFICES ASSUME ~r.meddled, FileAt(r, r.lib.out_fd) = "program"
                 PROVE  given = "stray" /\ r.lib.out_fd = ForeignFd
      BY DEF Writes
    <3>1. r.lib.out_fd \in Fds /\ r.fds[r.lib.out_fd] = "program"
      BY DEF FileAt
    <3>2. r.lib.foreign_fd \/ r.lib.out_fd = -1 \/ r.fds[r.lib.out_fd] = "out"
      BY DEF Sound, FilesOK, GivingUp, CleaningUp
    <3>3. /\ r.lib.foreign_fd => r.lib.out_fd = ForeignFd /\ given \in {"fd", "stray"}
          /\ given = "fd" => r.fds[ForeignFd] = "out"
      BY DEF Sound, FilesOK
    <3> QED BY <3>1, <3>2, <3>3, FdFacts
  <2>2. HarmOK(r, given)
    BY DEF Sound, FilesOK
  <2>3. s.meddled = r.meddled /\ s.lost = r.lost /\ s.wrote = r.wrote \cup Writes(r)
    BY <1>0 DEF Process
  <2> HIDE DEF s
  <2> QED BY <2>1, <2>2, <2>3 DEF HarmOK
<1>7. w \in SUBSET Fds
  BY <1>0
<1> HIDE DEF w
<1>1. s \in Process /\ r \in Process
  BY <1>0, <1>7 DEF Process, Steps, CleaningUp
<1>2. AreaOK(s)
  BY <1>1, FdFacts, KcovAssumption DEF Process, Lib, Sound, AreaOK, CleaningUp, Descriptor, FileAt
<1>3. FilesOK(s, given)
  <2>1. /\ s.lib = r.lib /\ s.ctl = r.ctl /\ s.out = r.out /\ s.fds = r.fds /\ s.st = "live" /\ s.meddled = r.meddled
        /\ s.pc = "cleanup" /\ s.then = "finish"
    BY <1>1 DEF Process
  <2>2. r.lib.kcov_fd > 0
    BY DEF Sound, AreaOK
  <2> HIDE DEF s
  <2> QED BY <1>6, <2>1, <2>2 DEF Sound, FilesOK, GivingUp, CleaningUp
<1>4. OwnedOK(s, K)
  BY <1>1, FdFacts, KcovAssumption DEF Process, Lib, Sound, FilesOK, HarmOK, GivingUp, OwnedOK, CleaningUp, Descriptor, FileAt
<1>5. RanOK(s, (dumped \/ (r.lib.area \in B /\ FileAt(r, r.lib.out_fd) = "out")) \/ given = "stray", B)
  BY <1>1, FdFacts, KcovAssumption DEF Process, Lib, Sound, RanOK, Starting, CleaningUp, Descriptor, FileAt
<1> QED BY <1>1, <1>2, <1>3, <1>4, <1>5 DEF Sound, Dumped, w

-----------------------------------------------------------------------------
(* signal_handler and the programs *)
LEMMA IgnoredSound ==
  ASSUME NEW r, NEW given, NEW K \in SUBSET Instances, NEW dumped \in BOOLEAN, NEW B \in SUBSET Instances,
         NEW b \in BOOLEAN,
         Sound(r, given, K, dumped, B), r.st = "live"
  PROVE  Sound(PendingIs(r, b), given, K, dumped, B)
<1> DEFINE s == [r EXCEPT !.pending = b]
<1>1. s \in Process /\ r \in Process
  <2>1. r \in Process
    BY DEF Sound
  <2>2. s \in Process
    BY <2>1, FdFacts DEF Process, Lib, Steps, Starting, CleaningUp, Descriptor, Files
  <2> QED BY <2>1, <2>2
<1>2. AreaOK(s)
  BY <1>1, FdFacts DEF Process, Lib, Sound, AreaOK, CleaningUp, Descriptor
<1>3. FilesOK(s, given)
  BY <1>1, FdFacts DEF Process, Lib, Sound, AreaOK, FilesOK, HarmOK, GivingUp, CleaningUp, Descriptor
<1>4. OwnedOK(s, K)
  BY <1>1, FdFacts DEF Process, Lib, Sound, FilesOK, HarmOK, GivingUp, OwnedOK, CleaningUp, Descriptor
<1>5. RanOK(s, dumped \/ given = "stray", B)
  BY <1>1, FdFacts DEF Process, Lib, Sound, RanOK, Starting, CleaningUp, Descriptor
<1> QED BY <1>1, <1>2, <1>3, <1>4, <1>5 DEF Sound, PendingIs

LEMMA HandlerSound ==
  ASSUME NEW r, NEW given, NEW K \in SUBSET Instances, NEW dumped \in BOOLEAN, NEW B \in SUBSET Instances,
         Sound(r, given, K, dumped, B), r.st = "live", ~r.blocked
  PROVE  Sound(InHandler(r), given, K, dumped, B)
<1> DEFINE s == [r EXCEPT !.pending = FALSE, !.sigterm = "default", !.blocked = TRUE, !.handled = TRUE,
                         !.pc = "finish"]
<1>1. s \in Process /\ r \in Process
  <2>1. r \in Process
    BY DEF Sound
  <2>2. s \in Process
    BY <2>1, FdFacts DEF Process, Lib, Steps, Starting, CleaningUp, Descriptor, Files
  <2> QED BY <2>1, <2>2
<1>2. AreaOK(s)
  BY <1>1, FdFacts DEF Process, Lib, Sound, AreaOK, CleaningUp, Descriptor
<1>3. FilesOK(s, given)
  BY <1>1, FdFacts DEF Process, Lib, Sound, AreaOK, FilesOK, HarmOK, GivingUp, CleaningUp, Descriptor
<1>4. OwnedOK(s, K)
  <2>1. s.pc = "finish" /\ s.st = "live" /\ s.lib = r.lib /\ s.fds = r.fds /\ s.ctl = r.ctl /\ s.meddled = r.meddled
    BY <1>1 DEF Process
  <2>2. r.lib.kcov_fd > 0 /\ ~r.meddled /\ K # {} => r.pc \in {"run", "cleanup", "finish"}
    <3>1. r.lib.kcov_fd \in Descriptor /\ r.pc \in Steps
      BY <1>1 DEF Process, Lib
    <3>2. r.lib.kcov_fd > 0 => r.pc \notin {"start", "parse_env", "output", "no_output", "open"}
      <4>1. r.lib.kcov_fd \in Int
        BY <3>1, DescriptorInt
      <4>2. r.pc \in {"start", "parse_env", "output", "no_output", "open"} => r.lib.kcov_fd <= 0
        BY DEF Sound, AreaOK
      <4> QED BY <4>1, <4>2
    <3>3. ~r.meddled /\ K # {} => r.ctl # -1 /\ r.pc \notin {"dump", "munmap", "close", "fork_child"}
      BY DEF Sound, OwnedOK
    <3>4. ~r.meddled /\ r.ctl # -1 => r.pc \notin {"mode", "mmap", "enable"}
      BY DEF Sound, FilesOK
    <3> QED BY <3>1, <3>2, <3>3, <3>4 DEF Steps, Starting, CleaningUp
  <2> HIDE DEF s
  <2> QED BY <2>1, <2>2 DEF Sound, OwnedOK
<1>5. RanOK(s, dumped \/ given = "stray", B)
  BY <1>1, FdFacts DEF Process, Lib, Sound, RanOK, Starting, CleaningUp, Descriptor
<1> QED BY <1>1, <1>2, <1>3, <1>4, <1>5 DEF Sound, InHandler

LEMMA ExecuteSound ==
  ASSUME NEW r, NEW given, NEW K \in SUBSET Instances, NEW dumped \in BOOLEAN, NEW B \in SUBSET Instances,
         NEW k \in Instances, NEW C, k \in C,
         Sound(r, given, K, dumped, B), r.st = "live", r.pc = "run", k \in K
  PROVE  Sound(HasRun(r), given, K, dumped, C)
<1> DEFINE s == [r EXCEPT !.ran = TRUE]
<1>1. s \in Process /\ r \in Process
  <2>1. r \in Process
    BY DEF Sound
  <2>2. s \in Process
    BY <2>1, FdFacts DEF Process, Lib, Steps, Starting, CleaningUp, Descriptor, Files
  <2> QED BY <2>1, <2>2
<1>2. AreaOK(s)
  BY <1>1, FdFacts DEF Process, Lib, Sound, AreaOK, CleaningUp, Descriptor
<1>3. FilesOK(s, given)
  BY <1>1, FdFacts DEF Process, Lib, Sound, AreaOK, FilesOK, HarmOK, GivingUp, CleaningUp, Descriptor
<1>4. OwnedOK(s, K)
  BY <1>1, FdFacts DEF Process, Lib, Sound, FilesOK, HarmOK, GivingUp, OwnedOK, CleaningUp, Descriptor
<1>5. RanOK(s, dumped \/ given = "stray", C)
  BY <1>1, FdFacts DEF Process, Lib, Sound, RanOK, Starting, CleaningUp, Descriptor, OwnedOK, FilesOK, GivingUp
<1> QED BY <1>1, <1>2, <1>3, <1>4, <1>5 DEF Sound, HasRun

LEMMA OpenFileSound ==
  ASSUME NEW r, NEW given, NEW K \in SUBSET Instances, NEW dumped \in BOOLEAN, NEW B \in SUBSET Instances,
         NEW m \in Fds,
         Sound(r, given, K, dumped, B), r.st = "live", r.pc = "run", r.fds[m] = "closed"
  PROVE  Sound(FileOpened(r, m), given, K, dumped, B)
<1> DEFINE s == [r EXCEPT !.fds[m] = "program"]
<1>1. s \in Process /\ r \in Process
  <2>1. r \in Process
    BY DEF Sound
  <2>2. s \in Process
    BY <2>1, FdFacts, KcovAssumption DEF Process, Lib, Steps, Starting, CleaningUp, Descriptor, Files
  <2> QED BY <2>1, <2>2
<1>2. AreaOK(s)
  BY <1>1, FdFacts, KcovAssumption DEF Process, Lib, Sound, AreaOK, CleaningUp, Descriptor
<1>3. FilesOK(s, given)
  BY <1>1, FdFacts, KcovAssumption DEF Process, Lib, Sound, AreaOK, FilesOK, HarmOK, GivingUp, CleaningUp, Descriptor
<1>4. OwnedOK(s, K)
  BY <1>1, FdFacts, KcovAssumption DEF Process, Lib, Sound, FilesOK, HarmOK, GivingUp, OwnedOK, CleaningUp, Descriptor
<1>5. RanOK(s, dumped \/ given = "stray", B)
  BY <1>1, FdFacts, KcovAssumption DEF Process, Lib, Sound, RanOK, Starting, CleaningUp, Descriptor, FilesOK
<1> QED BY <1>1, <1>2, <1>3, <1>4, <1>5 DEF Sound, FileOpened

LEMMA CloseFileSound ==
  ASSUME NEW r, NEW given, NEW K \in SUBSET Instances, NEW dumped \in BOOLEAN, NEW B \in SUBSET Instances,
         NEW m \in Fds,
         Sound(r, given, K, dumped, B), r.st = "live", r.pc = "run"
  PROVE  Sound(FileClosed(r, m), given, K, dumped, B)
<1> DEFINE f == [r.fds EXCEPT ![m] = "closed"]
           meddled == r.meddled \/ r.fds[m] # "program"
           s == [r EXCEPT !.fds = f, !.meddled = meddled]
<1>1. /\ r \in Process /\ meddled \in BOOLEAN /\ f \in [Fds -> Files]
      /\ r.lib.out_fd \in Descriptor /\ r.lib.kcov_fd \in Descriptor /\ r.ctl \in Descriptor /\ r.out \in Descriptor
  BY DEF Sound, Process, Lib, Files
<1>2. ~meddled => ~r.meddled /\ \A fd \in Fds : r.fds[fd] \in Instances \cup {"out"} => f[fd] = r.fds[fd]
  BY <1>1, KcovAssumption DEF Process
<1>0. r.meddled => meddled
  OBVIOUS
<1> HIDE DEF f, meddled
<1>3. /\ s \in Process /\ s.fds = f /\ s.meddled = meddled /\ s.lib = r.lib /\ s.ctl = r.ctl /\ s.out = r.out
      /\ s.pc = "run" /\ s.st = "live" /\ s.lost = r.lost /\ s.wrote = r.wrote /\ s.ran = r.ran /\ s.fault = r.fault
      /\ s.blocked = r.blocked /\ s.in_fork = r.in_fork
  BY <1>1 DEF Process
<1> HIDE DEF s
<1>4. AreaOK(s)
  BY <1>3 DEF Sound, AreaOK, CleaningUp
<1>5. FilesOK(s, given)
  <2>1. HarmOK(s, given)
    BY <1>0, <1>3 DEF Sound, FilesOK, HarmOK
  <2>2. ~meddled =>
          /\ r.ctl # -1 => r.fds[r.ctl] \in Instances
          /\ r.out # -1 => r.fds[r.out] = "out" /\ given = "file"
          /\ given = "fd" => r.fds[ForeignFd] = "out"
          /\ r.lib.kcov_fd > 0 => r.fds[r.lib.kcov_fd] \in Instances
          /\ r.lib.foreign_fd => r.lib.out_fd = ForeignFd /\ given \in {"fd", "stray"}
          /\ r.lib.foreign_fd \/ r.lib.out_fd = -1 \/ (r.fds[r.lib.out_fd] = "out" /\ given = "file")
    BY <1>2 DEF Sound, FilesOK, GivingUp, CleaningUp
  <2>3. ~meddled =>
          /\ r.ctl # -1 => f[r.ctl] \in Instances
          /\ r.out # -1 => f[r.out] = "out" /\ given = "file"
          /\ given = "fd" => f[ForeignFd] = "out"
    BY <1>1, <1>2, <2>2, FdFacts DEF Descriptor
  <2>4. ~meddled => (r.lib.kcov_fd > 0 => r.lib.kcov_fd \in Fds /\ f[r.lib.kcov_fd] \in Instances)
    <3> DEFINE fd == r.lib.kcov_fd
    <3>1. ~meddled => (fd > 0 => r.fds[fd] \in Instances)
      BY <2>2
    <3>2. fd \in Descriptor
      BY <1>1
    <3> HIDE DEF fd
    <3>3. fd > 0 => fd \in Fds
      BY <3>2, FdFacts DEF Descriptor
    <3> QED BY <1>2, <3>1, <3>3 DEF fd
  <2>5. ~meddled => r.lib.foreign_fd \/ r.lib.out_fd = -1 \/ (f[r.lib.out_fd] = "out" /\ given = "file")
    <3>1. ~meddled /\ ~r.lib.foreign_fd /\ r.lib.out_fd # -1 => r.fds[r.lib.out_fd] = "out" /\ given = "file"
      BY <2>2
    <3>2. r.lib.out_fd # -1 => r.lib.out_fd \in Fds
      BY <1>1 DEF Descriptor
    <3> QED BY <1>2, <3>1, <3>2
  <2> QED BY <1>3, <2>1, <2>2, <2>3, <2>4, <2>5 DEF FilesOK, GivingUp, CleaningUp
<1>6. OwnedOK(s, K)
  <2>1. ~r.meddled => \A k \in K : /\ r.ctl # -1 /\ r.fds[r.ctl] = k /\ r.lib.kcov_fd \in Fds /\ r.fds[r.lib.kcov_fd] = k
                                   /\ r.lib.area = k /\ r.lib.out_fd # -1
    BY DEF Sound, OwnedOK
  <2>2. ~meddled => \A k \in K : /\ r.ctl # -1 /\ f[r.ctl] = k /\ r.lib.kcov_fd \in Fds /\ f[r.lib.kcov_fd] = k
                                 /\ r.lib.area = k /\ r.lib.out_fd # -1
    BY <1>1, <1>2, <2>1 DEF Descriptor
  <2> QED BY <1>3, <2>2 DEF OwnedOK
<1>7. RanOK(s, dumped \/ given = "stray", B)
  BY <1>1, <1>2, <1>3 DEF Sound, RanOK, Starting, CleaningUp, Descriptor
<1>8. s = [r EXCEPT !.fds[m] = "closed", !.meddled = @ \/ r.fds[m] # "program"]
  BY DEF s, f, meddled
<1> QED BY <1>3, <1>4, <1>5, <1>6, <1>7, <1>8 DEF Sound, FileClosed

LEMMA IgnoreTermSound ==
  ASSUME NEW r, NEW given, NEW K \in SUBSET Instances, NEW dumped \in BOOLEAN, NEW B \in SUBSET Instances,
         Sound(r, given, K, dumped, B), r.st = "live", r.pc = "run"
  PROVE  Sound(Ignoring(r), given, K, dumped, B)
<1> DEFINE s == [r EXCEPT !.sigterm = "ignored"]
<1>1. s \in Process /\ r \in Process
  <2>1. r \in Process
    BY DEF Sound
  <2>2. s \in Process
    BY <2>1, FdFacts DEF Process, Lib, Steps, Starting, CleaningUp, Descriptor, Files
  <2> QED BY <2>1, <2>2
<1>2. AreaOK(s)
  BY <1>1, FdFacts DEF Process, Lib, Sound, AreaOK, CleaningUp, Descriptor
<1>3. FilesOK(s, given)
  BY <1>1, FdFacts DEF Process, Lib, Sound, AreaOK, FilesOK, HarmOK, GivingUp, CleaningUp, Descriptor
<1>4. OwnedOK(s, K)
  BY <1>1, FdFacts DEF Process, Lib, Sound, FilesOK, HarmOK, GivingUp, OwnedOK, CleaningUp, Descriptor
<1>5. RanOK(s, dumped \/ given = "stray", B)
  BY <1>1, FdFacts DEF Process, Lib, Sound, RanOK, Starting, CleaningUp, Descriptor
<1> QED BY <1>1, <1>2, <1>3, <1>4, <1>5 DEF Sound, Ignoring

LEMMA ExecSound ==
  ASSUME NEW r, NEW given, NEW K \in SUBSET Instances, NEW dumped \in BOOLEAN, NEW B \in SUBSET Instances,
         Sound(r, given, K, dumped, B), r.st = "live", r.pc = "run"
  PROVE  Sound(AfterExec(r), given, K, dumped, B)
<1> DEFINE s == AfterExec(r)
<1>1. s \in Process /\ r \in Process
  <2>1. r \in Process /\ Image \in Lib
    BY FdFacts DEF Sound, Image, Lib, Descriptor
  <2> DEFINE sig == IF r.sigterm = "library" THEN "default" ELSE r.sigterm
  <2>2. sig \in {"default", "ignored", "library"}
    BY <2>1 DEF Process
  <2> HIDE DEF sig
  <2>3. [r EXCEPT !.lib = Image, !.pc = "start", !.ran = FALSE, !.sigterm = sig] \in Process
    BY <2>1, <2>2 DEF Process, Steps, Starting
  <2>4. AfterExec(r) = [r EXCEPT !.lib = Image, !.pc = "start", !.ran = FALSE, !.sigterm = sig]
    BY DEF AfterExec, sig
  <2> QED BY <2>1, <2>3, <2>4 DEF Process
<1>2. AreaOK(s)
  BY <1>1, FdFacts DEF Process, Lib, Sound, AreaOK, CleaningUp, Descriptor, AfterExec, Image
<1>3. FilesOK(s, given)
  BY <1>1, FdFacts DEF Process, Lib, Sound, AreaOK, FilesOK, HarmOK, GivingUp, CleaningUp, Descriptor, AfterExec, Image
<1>4. OwnedOK(s, K)
  BY <1>1, FdFacts DEF Process, Lib, Sound, FilesOK, HarmOK, GivingUp, OwnedOK, CleaningUp, Descriptor, AfterExec, Image
<1>5. RanOK(s, dumped \/ given = "stray", B)
  BY <1>1, FdFacts DEF Process, Lib, Sound, RanOK, Starting, CleaningUp, Descriptor, AfterExec, Image
<1> QED BY <1>1, <1>2, <1>3, <1>4, <1>5 DEF Sound

LEMMA ExitSound ==
  ASSUME NEW r, NEW given, NEW K \in SUBSET Instances, NEW dumped \in BOOLEAN, NEW B \in SUBSET Instances,
         Sound(r, given, K, dumped, B), r.st = "live", r.pc = "run"
  PROVE  Sound(Exiting(r), given, K, dumped, B)
<1> DEFINE s == [r EXCEPT !.pc = "finish"]
<1>1. s \in Process /\ r \in Process
  <2>1. r \in Process
    BY DEF Sound
  <2>2. s \in Process
    BY <2>1, FdFacts DEF Process, Lib, Steps, Starting, CleaningUp, Descriptor, Files
  <2> QED BY <2>1, <2>2
<1>2. AreaOK(s)
  BY <1>1, FdFacts DEF Process, Lib, Sound, AreaOK, CleaningUp, Descriptor
<1>3. FilesOK(s, given)
  BY <1>1, FdFacts DEF Process, Lib, Sound, AreaOK, FilesOK, HarmOK, GivingUp, CleaningUp, Descriptor
<1>4. OwnedOK(s, K)
  BY <1>1, FdFacts DEF Process, Lib, Sound, FilesOK, HarmOK, GivingUp, OwnedOK, CleaningUp, Descriptor
<1>5. RanOK(s, dumped \/ given = "stray", B)
  BY <1>1, FdFacts DEF Process, Lib, Sound, RanOK, Starting, CleaningUp, Descriptor
<1> QED BY <1>1, <1>2, <1>3, <1>4, <1>5 DEF Sound, Exiting

LEMMA ForkSound ==
  ASSUME NEW r, NEW given, NEW K \in SUBSET Instances, NEW dumped \in BOOLEAN, NEW B \in SUBSET Instances,
         NEW d, NEW C,
         Sound(r, given, K, dumped, B), r.st = "live", r.pc = "run"
  PROVE  Sound(ForkedChild(r), given, {}, d, C)
<1> DEFINE s == [[r EXCEPT !.pc = "fork_child", !.in_fork = TRUE] EXCEPT !.ran = FALSE, !.pending = FALSE]
<1>1. s \in Process /\ r \in Process
  <2>1. r \in Process
    BY DEF Sound
  <2>2. s \in Process
    BY <2>1, FdFacts DEF Process, Lib, Steps, Starting, CleaningUp, Descriptor, Files
  <2> QED BY <2>1, <2>2
<1>2. AreaOK(s)
  BY <1>1, FdFacts DEF Process, Lib, Sound, AreaOK, CleaningUp, Descriptor
<1>3. FilesOK(s, given)
  BY <1>1, FdFacts DEF Process, Lib, Sound, AreaOK, FilesOK, HarmOK, GivingUp, CleaningUp, Descriptor
<1>4. OwnedOK(s, {})
  BY <1>1, FdFacts DEF Process, Lib, Sound, FilesOK, HarmOK, GivingUp, OwnedOK, CleaningUp, Descriptor
<1>5. RanOK(s, d \/ given = "stray", C)
  BY <1>1, FdFacts DEF Process, Lib, Sound, RanOK, Starting, CleaningUp, Descriptor
<1> QED BY <1>1, <1>2, <1>3, <1>4, <1>5 DEF Sound, ForkedChild

LEMMA SpawnSound ==
  ASSUME NEW r, NEW given, NEW K \in SUBSET Instances, NEW dumped \in BOOLEAN, NEW B \in SUBSET Instances,
         NEW d, NEW C,
         Sound(r, given, K, dumped, B), r.st = "live", r.pc = "run"
  PROVE  Sound(SpawnedChild(r), given, {}, d, C)
<1> DEFINE s == [AfterExec(r) EXCEPT !.ran = FALSE, !.pending = FALSE]
<1>1. s \in Process /\ r \in Process
  <2>1. r \in Process /\ Image \in Lib
    BY FdFacts DEF Sound, Image, Lib, Descriptor
  <2> DEFINE sig == IF r.sigterm = "library" THEN "default" ELSE r.sigterm
  <2>2. sig \in {"default", "ignored", "library"}
    BY <2>1 DEF Process
  <2> HIDE DEF sig
  <2>3. [r EXCEPT !.lib = Image, !.pc = "start", !.ran = FALSE, !.sigterm = sig] \in Process
    BY <2>1, <2>2 DEF Process, Steps, Starting
  <2>4. AfterExec(r) = [r EXCEPT !.lib = Image, !.pc = "start", !.ran = FALSE, !.sigterm = sig]
    BY DEF AfterExec, sig
  <2> QED BY <2>1, <2>3, <2>4 DEF Process
<1>2. AreaOK(s)
  BY <1>1, FdFacts DEF Process, Lib, Sound, AreaOK, CleaningUp, Descriptor, AfterExec, Image
<1>3. FilesOK(s, given)
  BY <1>1, FdFacts DEF Process, Lib, Sound, AreaOK, FilesOK, HarmOK, GivingUp, CleaningUp, Descriptor, AfterExec, Image
<1>4. OwnedOK(s, {})
  BY <1>1, FdFacts DEF Process, Lib, Sound, FilesOK, HarmOK, GivingUp, OwnedOK, CleaningUp, Descriptor, AfterExec, Image
<1>5. RanOK(s, d \/ given = "stray", C)
  BY <1>1, FdFacts DEF Process, Lib, Sound, RanOK, Starting, CleaningUp, Descriptor, AfterExec, Image
<1> QED BY <1>1, <1>2, <1>3, <1>4, <1>5 DEF Sound, SpawnedChild

LEMMA ForkChildSound ==
  ASSUME NEW r, NEW given, NEW K \in SUBSET Instances, NEW dumped \in BOOLEAN, NEW B \in SUBSET Instances,
         Sound(r, given, K, dumped, B), r.st = "live", r.pc = "fork_child", r.lib.kcov_fd > 0
  PROVE  Sound(ChildCleansUp(r), given, K, dumped, B)
<1> DEFINE s == [r EXCEPT !.blocked = Blocked, !.pc = "cleanup", !.then = "start"]
<1>1. s \in Process /\ r \in Process
  <2>1. r \in Process
    BY DEF Sound
  <2>2. s \in Process
    BY <2>1, FdFacts DEF Process, Lib, Steps, Starting, CleaningUp, Descriptor, Files, Blocked
  <2> QED BY <2>1, <2>2
<1>2. AreaOK(s)
  BY <1>1, FdFacts DEF Process, Lib, Sound, AreaOK, CleaningUp, Descriptor, Blocked
<1>3. FilesOK(s, given)
  BY <1>1, FdFacts DEF Process, Lib, Sound, AreaOK, FilesOK, HarmOK, GivingUp, CleaningUp, Descriptor, Blocked
<1>4. OwnedOK(s, K)
  BY <1>1, FdFacts DEF Process, Lib, Sound, FilesOK, HarmOK, GivingUp, OwnedOK, CleaningUp, Descriptor, Blocked
<1>5. RanOK(s, dumped \/ given = "stray", B)
  BY <1>1, FdFacts DEF Process, Lib, Sound, RanOK, Starting, CleaningUp, Descriptor, Blocked
<1> QED BY <1>1, <1>2, <1>3, <1>4, <1>5 DEF Sound, ChildCleansUp

LEMMA ForkUntraced ==
  ASSUME NEW r, NEW given, NEW K \in SUBSET Instances, NEW dumped \in BOOLEAN, NEW B \in SUBSET Instances,
         Sound(r, given, K, dumped, B), r.st = "live", r.pc = "fork_child", ~(r.lib.kcov_fd > 0)
  PROVE  Sound(Returned(r), given, K, dumped, B)
<1> DEFINE s == Returned(r)
<1>1. s \in Process /\ r \in Process
  <2>1. r \in Process
    BY DEF Sound
  <2>2. s \in Process
    BY <2>1, FdFacts DEF Process, Lib, Steps, Starting, CleaningUp, Descriptor, Files, Returned
  <2> QED BY <2>1, <2>2
<1>2. AreaOK(s)
  BY <1>1, FdFacts DEF Process, Lib, Sound, AreaOK, CleaningUp, Descriptor, Returned
<1>3. FilesOK(s, given)
  BY <1>1, FdFacts DEF Process, Lib, Sound, AreaOK, FilesOK, HarmOK, GivingUp, CleaningUp, Descriptor, Returned
<1>4. OwnedOK(s, K)
  BY <1>1, FdFacts DEF Process, Lib, Sound, FilesOK, HarmOK, GivingUp, OwnedOK, CleaningUp, Descriptor, Returned
<1>5. RanOK(s, dumped \/ given = "stray", B)
  BY <1>1, FdFacts DEF Process, Lib, Sound, RanOK, Starting, CleaningUp, Descriptor, Returned
<1> QED BY <1>1, <1>2, <1>3, <1>4, <1>5 DEF Sound

-----------------------------------------------------------------------------
(* The processes do not disturb each other *)

(* What others record and write leaves a process as it was.                   *)
LEMMA FrameSound ==
  ASSUME NEW r, NEW given, NEW K, NEW dumped, NEW B, Sound(r, given, K, dumped, B),
         NEW d, NEW C, dumped => d, r.lib.area \in B => r.lib.area \in C
  PROVE  Sound(r, given, K, d, C)
BY DEF Sound, RanOK

LEMMA StepSound ==
  ASSUME KInv, NEW p \in Procs, NEW s,
         proc' = [proc EXCEPT ![p] = s], setting' = setting,
         owner' \in [Instances -> Procs \cup {NoProc}], buffer' \in [Instances -> SUBSET Procs],
         output \subseteq output', output' \subseteq Procs,
         Sound(s, setting.out, OwnedIn(owner', p), p \in output', RecordedIn(buffer', p)),
         \A q \in Procs \ {p} : /\ OwnedIn(owner', q) = OwnedIn(owner, q)
                                /\ proc[q].lib.area \in RecordedIn(buffer,
                                  q) => proc[q].lib.area \in RecordedIn(buffer', q)
  PROVE  KInv'
<1>1. proc \in [Procs -> Process] /\ s \in Process /\ setting \in Settings
  BY DEF KInv, KcovTypeOK, Sound
<1>2. KcovTypeOK'
  BY <1>1 DEF KcovTypeOK
<1>3. ASSUME NEW q \in Procs
      PROVE  Sound(proc'[q], setting.out, OwnedIn(owner', q), q \in output', RecordedIn(buffer', q))
  <2>1. CASE q = p
    BY <1>1, <2>1
  <2>2. CASE q # p
    <3>1. proc'[q] = proc[q]
      BY <1>1, <2>2
    <3>2. Sound(proc[q], setting.out, OwnedIn(owner, q), q \in output, RecordedIn(buffer, q))
      BY DEF KInv
    <3>4. /\ OwnedIn(owner', q) = OwnedIn(owner, q)
          /\ proc[q].lib.area \in RecordedIn(buffer, q) => proc[q].lib.area \in RecordedIn(buffer', q)
          /\ q \in output => q \in output'
      BY <2>2
    <3>5. Sound(proc[q], setting.out, OwnedIn(owner, q), q \in output', RecordedIn(buffer', q))
      BY <3>2, <3>4, FrameSound, Zenon
    <3> QED BY <3>1, <3>4, <3>5, Zenon
  <2> QED BY <2>1, <2>2
<1> QED BY <1>2, <1>3 DEF KInv

LEMMA ChangeSound ==
  ASSUME KInv, NEW p \in Procs, NEW s,
         proc' = [proc EXCEPT ![p] = s] /\ UNCHANGED <<kernel, output, setting>>,
         Sound(s, setting.out, OwnedIn(owner, p), p \in output, RecordedIn(buffer, p))
  PROVE  KInv'
<1>1. owner \in [Instances -> Procs \cup {NoProc}] /\ buffer \in [Instances -> SUBSET Procs] /\ output \subseteq Procs
  BY DEF KInv, KcovTypeOK
<1>2. owner' = owner /\ buffer' = buffer /\ output' = output /\ setting' = setting /\ proc' = [proc EXCEPT ![p] = s]
  BY DEF kernel
<1> QED BY <1>1, <1>2, StepSound

LEMMA BecomeSound ==
  ASSUME KInv, NEW p \in Procs, NEW s, Become(p, s),
         Sound(s, setting.out, OwnedIn(owner, p), p \in output, RecordedIn(buffer, p))
  PROVE  KInv'
BY ChangeSound DEF Become

(* A process that is gone owns nothing.                                       *)
LEMMA EndsSound ==
  ASSUME KInv, NEW p \in Procs, NEW s, Ends(p, s),
         Sound(s, setting.out, {}, p \in output, RecordedIn(buffer, p))
  PROVE  KInv'
<1>1. /\ owner \in [Instances -> Procs \cup {NoProc}] /\ buffer \in [Instances -> SUBSET Procs] /\ output \subseteq Procs
      /\ NoProc \notin Procs
  BY KcovAssumption DEF KInv, KcovTypeOK, NoProc
<1>2. /\ owner' = [k \in Instances |-> IF owner[k] = p THEN NoProc ELSE owner[k]]
      /\ proc' = [proc EXCEPT ![p] = s] /\ buffer' = buffer /\ output' = output /\ setting' = setting
  BY DEF Ends
<1>3. /\ owner' \in [Instances -> Procs \cup {NoProc}] /\ OwnedIn(owner', p) = {}
      /\ \A q \in Procs \ {p} : OwnedIn(owner', q) = OwnedIn(owner, q)
  BY <1>1, <1>2 DEF OwnedIn
<1> QED BY <1>1, <1>2, <1>3, StepSound

(* KCOV_DISABLE takes the instance behind a descriptor from its owner only.   *)
LEMMA DisabledOwned ==
  ASSUME KInv, NEW p \in Procs, NEW fd, owner' = Disabled(p, fd)
  PROVE  /\ owner' \in [Instances -> Procs \cup {NoProc}]
         /\ OwnedIn(owner', p) = {k \in OwnedIn(owner, p) : FileAt(proc[p], fd) # k}
         /\ \A q \in Procs \ {p} : OwnedIn(owner', q) = OwnedIn(owner, q)
<1>1. owner \in [Instances -> Procs \cup {NoProc}] /\ NoProc \notin Procs
  BY KcovAssumption DEF KInv, KcovTypeOK, NoProc
<1>2. owner' = [k \in Instances |-> IF FileAt(proc[p], fd) = k /\ owner[k] = p THEN NoProc ELSE owner[k]]
  BY DEF Disabled
<1> QED BY <1>1, <1>2 DEF OwnedIn

LEMMA DisablingStep ==
  ASSUME KInv, NEW p \in Procs, NEW s, NEW fd, owner' = Disabled(p, fd),
         proc' = [proc EXCEPT ![p] = s] /\ UNCHANGED <<buffer, output, setting>>,
         Sound(s, setting.out, {k \in OwnedIn(owner, p) : FileAt(proc[p], fd) # k}, p \in output,
           RecordedIn(buffer, p))
  PROVE  KInv'
<1>1. /\ owner' \in [Instances -> Procs \cup {NoProc}]
      /\ OwnedIn(owner', p) = {k \in OwnedIn(owner, p) : FileAt(proc[p], fd) # k}
      /\ \A q \in Procs \ {p} : OwnedIn(owner', q) = OwnedIn(owner, q)
  BY DisabledOwned
<1>2. buffer \in [Instances -> SUBSET Procs] /\ output \subseteq Procs
  BY DEF KInv, KcovTypeOK
<1>3. Sound(s, setting.out, OwnedIn(owner', p), p \in output, RecordedIn(buffer, p))
  BY <1>1, Zenon
<1> QED BY <1>1, <1>2, <1>3, StepSound

(* What the invariant says of one process.                                    *)
LEMMA ProcSound ==
  ASSUME KInv, NEW p \in Procs
  PROVE  /\ Sound(proc[p], setting.out, OwnedIn(owner, p), p \in output, RecordedIn(buffer, p))
         /\ OwnedIn(owner, p) \in SUBSET Instances /\ RecordedIn(buffer, p) \in SUBSET Instances
         /\ (p \in output) \in BOOLEAN /\ proc[p] \in Process /\ proc \in [Procs -> Process]
BY DEF KInv, KcovTypeOK, OwnedIn, RecordedIn

-----------------------------------------------------------------------------
(* Every step keeps the invariant *)

LEMMA CleanupStep ==
  ASSUME KInv, NEW p \in Procs, CleanupDisable(p) \/ CleanupUnmap(p) \/ CleanupClose(p)
  PROVE  KInv'
<1> DEFINE r == proc[p]
           given == setting.out
           K == OwnedIn(owner, p)
           dumped == p \in output
           B == RecordedIn(buffer, p)
<1>1. /\ Sound(r, given, K, dumped, B) /\ K \in SUBSET Instances /\ B \in SUBSET Instances /\ dumped \in BOOLEAN
      /\ proc \in [Procs -> Process] /\ r \in Process
  BY ProcSound, Zenon
<1>2. CASE CleanupDisable(p)
  <2>1. /\ r.st = "live" /\ r.pc = "cleanup" /\ proc' = [proc EXCEPT ![p] = Disabling(r)]
        /\ owner' = Disabled(p, r.lib.kcov_fd) /\ buffer' = buffer /\ output' = output /\ setting' = setting
    BY <1>2 DEF CleanupDisable, At, Disabling
  <2>2. Sound(Disabling(r), given, {k \in K : FileAt(r, r.lib.kcov_fd) # k}, dumped, B)
    BY <1>1, <2>1, DisableSound, Zenon
  <2> QED BY <2>1, <2>2, DisablingStep
<1>3. CASE CleanupUnmap(p)
  <2>1. r.st = "live" /\ r.pc = "munmap" /\ Become(p, Unmapped(r))
    BY <1>3 DEF CleanupUnmap, At, Unmapped
  <2> QED BY <1>1, <2>1, UnmapSound, BecomeSound, Zenon
<1>4. CASE CleanupClose(p)
  <2>1. r.st = "live" /\ r.pc = "close" /\ Become(p, ClosedAll(r, given))
    BY <1>4 DEF CleanupClose, At, ClosedAll, ForeignFiles, NotOurs, GivenFd
  <2> QED BY <1>1, <2>1, CloseSound, BecomeSound, Zenon
<1> QED BY <1>2, <1>3, <1>4

LEMMA StartStep ==
  ASSUME KInv, NEW p \in Procs, start_kcov(p) \/ parse_env(p) \/ no_output(p)
  PROVE  KInv'
<1> DEFINE r == proc[p]
           given == setting.out
           K == OwnedIn(owner, p)
           dumped == p \in output
           B == RecordedIn(buffer, p)
<1>1. /\ Sound(r, given, K, dumped, B) /\ K \in SUBSET Instances /\ B \in SUBSET Instances /\ dumped \in BOOLEAN
      /\ proc \in [Procs -> Process] /\ r \in Process
  BY ProcSound, Zenon
<1>2. CASE start_kcov(p)
  <2>1. r.st = "live" /\ r.pc = "start" /\ ~(r.lib.kcov_fd > 0)
    <3>1. r.st = "live" /\ r.pc = "start" /\ r.lib.kcov_fd \in Descriptor
      BY <1>1, <1>2 DEF start_kcov, At, Process, Lib
    <3>2. r.lib.kcov_fd <= 0
      BY <1>1, <3>1 DEF Sound, AreaOK
    <3> DEFINE fd == r.lib.kcov_fd
    <3>3. fd \in Int /\ fd <= 0
      BY <3>1, <3>2, DescriptorInt
    <3> HIDE DEF fd
    <3>4. ~(fd > 0)
      BY <3>3
    <3> QED BY <3>1, <3>4 DEF fd
  <2>2. Become(p, Begun(r))
    BY <1>2, <2>1 DEF start_kcov, Begun
  <2> QED BY <1>1, <2>1, <2>2, StartSound, BecomeSound, Zenon
<1>3. CASE parse_env(p)
  <2> DEFINE gone == FileAt(r, r.ctl) = "closed" \/ (r.out # -1 /\ FileAt(r, r.out) = "closed")
  <2>1. r.st = "live" /\ r.pc = "parse_env"
    BY <1>3 DEF parse_env, At
  <2>2. CASE r.ctl = -1
    <3>1. Become(p, NoneInherited(r))
      BY <1>3, <2>2 DEF parse_env, NoneInherited
    <3> QED BY <1>1, <2>1, <2>2, <3>1, ParseEnvNone, BecomeSound, Zenon
  <2>3. CASE r.ctl # -1 /\ gone
    <3>1. Become(p, InheritedGone(r))
      BY <1>3, <2>3 DEF parse_env, InheritedGone
    <3> QED BY <1>1, <2>1, <2>3, <3>1, ParseEnvGone, BecomeSound, Zenon
  <2>4. CASE r.ctl # -1 /\ ~gone
    <3> DEFINE i == [r EXCEPT !.lib.kcov_fd = r.ctl, !.lib.out_fd = r.out]
    <3>1. Become(p, [i EXCEPT !.pc = "cleanup", !.then = "output"])
      BY <1>3, <2>4 DEF parse_env
    <3>2. [i EXCEPT !.pc = "cleanup", !.then = "output"] = InheritedFiles(r)
      BY <1>1 DEF InheritedFiles, Process, Lib
    <3>3. Become(p, InheritedFiles(r))
      BY <3>1, <3>2, Zenon
    <3> QED BY <1>1, <2>1, <2>4, <3>3, ParseEnvInherited, BecomeSound, Zenon
  <2> QED BY <2>2, <2>3, <2>4
<1>4. CASE no_output(p)
  <2>1. r.st = "live" /\ r.pc \in {"output", "no_output"} /\ Become(p, Returned(r))
    BY <1>4 DEF no_output, At
  <2> QED BY <1>1, <2>1, ReturnedSound, BecomeSound, Zenon
<1> QED BY <1>2, <1>3, <1>4

LEMMA OutputStep ==
  ASSUME KInv, NEW p \in Procs, open_output(p)
  PROVE  KInv'
<1> DEFINE r == proc[p]
           given == setting.out
           K == OwnedIn(owner, p)
           dumped == p \in output
           B == RecordedIn(buffer, p)
<1>1. /\ Sound(r, given, K, dumped, B) /\ K \in SUBSET Instances /\ B \in SUBSET Instances /\ dumped \in BOOLEAN
      /\ proc \in [Procs -> Process] /\ r \in Process
  BY ProcSound, Zenon
<1>2. r.st = "live" /\ r.pc = "output" /\ r.pc \in {"output", "no_output"}
  BY DEF open_output, At
<1>3. CASE Become(p, Returned(r))
  BY <1>1, <1>2, <1>3, ReturnedSound, BecomeSound, Zenon
<1>4. CASE given \in {"fd", "stray"} /\ FileAt(r, ForeignFd) = "closed" /\ Become(p, OutputLost(r))
  BY <1>1, <1>2, <1>4, OutputClosed, BecomeSound, Zenon
<1>5. CASE given \in {"fd", "stray"} /\ Become(p, OutputForeign(r))
  BY <1>1, <1>2, <1>5, OutputGiven, BecomeSound, Zenon
<1>6. CASE given = "file" /\ Free(r) # {} /\ Become(p, OutputAt(r, Min(Free(r))))
  <2>1. Min(Free(r)) \in Fds /\ r.fds[Min(Free(r))] = "closed"
    BY <1>6, FreeMin
  <2> QED BY <1>1, <1>2, <1>6, <2>1, OutputOpened, BecomeSound, Zenon
<1> QED BY <1>3, <1>4, <1>5, <1>6, Zenon DEF open_output, GivenFd, OutputLost, OutputForeign, OutputAt

(* The device hands out an instance nobody uses, and clears it.               *)
LEMMA OpenStep ==
  ASSUME KInv, NEW p \in Procs, open_kcov(p)
  PROVE  KInv'
<1> DEFINE r == proc[p]
           given == setting.out
           K == OwnedIn(owner, p)
           dumped == p \in output
           B == RecordedIn(buffer, p)
<1>1. /\ Sound(r, given, K, dumped, B) /\ K \in SUBSET Instances /\ B \in SUBSET Instances /\ dumped \in BOOLEAN
      /\ proc \in [Procs -> Process] /\ r \in Process
  BY ProcSound, Zenon
<1>2. r.st = "live" /\ r.pc = "open"
  BY DEF open_kcov, At
<1>3. CASE Become(p, DeviceFailed(r))
  BY <1>1, <1>2, <1>3, OpenFailed, BecomeSound, Zenon
<1>4. ASSUME Free(r) # {}, NEW k \in Unreferenced, proc' = [proc EXCEPT ![p] = DeviceAt(r, Min(Free(r)), k)],
             buffer' = [buffer EXCEPT ![k] = {}], UNCHANGED <<owner, output, setting, calls>>
      PROVE  KInv'
  <2> DEFINE C == RecordedIn(buffer', p)
             m == Min(Free(r))
  <2>1. m \in Fds /\ r.fds[m] = "closed"
    BY <1>4, FreeMin
  <2>2. k \in Instances /\ \A q \in Procs : proc[q].lib.area # k
    BY DEF Unreferenced
  <2>3. /\ owner \in [Instances -> Procs \cup {NoProc}] /\ buffer \in [Instances -> SUBSET Procs] /\ output \subseteq Procs
    BY DEF KInv, KcovTypeOK
  <2>4. buffer' \in [Instances -> SUBSET Procs]
    BY <1>4, <2>2, <2>3
  <2>5. \A q \in Procs : proc[q].lib.area \in RecordedIn(buffer, q) => proc[q].lib.area \in RecordedIn(buffer', q)
    BY <1>4, <2>2, <2>3 DEF RecordedIn
  <2> HIDE DEF m
  <2>6. r.lib.area \in B => r.lib.area \in C
    BY <2>5
  <2> HIDE DEF C
  <2>7. Sound(DeviceAt(r, m, k), given, K, dumped, C)
    BY <1>1, <1>2, <2>1, <2>2, <2>6, OpenSound, Zenon
  <2>8. owner' = owner /\ output' = output /\ setting' = setting /\ proc' = [proc EXCEPT ![p] = DeviceAt(r, m, k)]
    BY <1>4 DEF m
  <2> DEFINE s == DeviceAt(r, m, k)
  <2>9. Sound(s, given, OwnedIn(owner', p), p \in output', RecordedIn(buffer', p))
    BY <2>7, <2>8, Zenon DEF C
  <2> HIDE DEF s
  <2>10. \A q \in Procs \ {p} :
           /\ OwnedIn(owner', q) = OwnedIn(owner, q)
           /\ proc[q].lib.area \in RecordedIn(buffer, q) => proc[q].lib.area \in RecordedIn(buffer', q)
    BY <2>5, <2>8
  <2>11. /\ owner' \in [Instances -> Procs \cup {NoProc}] /\ output \subseteq output' /\ output' \subseteq Procs
         /\ proc' = [proc EXCEPT ![p] = s] /\ setting' = setting
    BY <2>3, <2>8 DEF s
  <2> QED BY <2>4, <2>9, <2>10, <2>11, StepSound, Zenon
<1>5. \/ Become(p, DeviceFailed(r))
      \/ /\ Free(r) # {}
         /\ \E k \in Unreferenced :
              /\ proc' = [proc EXCEPT ![p] = DeviceAt(r, Min(Free(r)), k)]
              /\ buffer' = [buffer EXCEPT ![k] = {}] /\ UNCHANGED <<owner, output, setting, calls>>
  BY DEF open_kcov, DeviceAt, DeviceFailed
<1> QED BY <1>3, <1>4, <1>5

LEMMA InitTraceStep ==
  ASSUME KInv, NEW p \in Procs, init_trace(p) \/ map_area(p)
  PROVE  KInv'
<1> DEFINE r == proc[p]
           given == setting.out
           K == OwnedIn(owner, p)
           dumped == p \in output
           B == RecordedIn(buffer, p)
<1>1. /\ Sound(r, given, K, dumped, B) /\ K \in SUBSET Instances /\ B \in SUBSET Instances /\ dumped \in BOOLEAN
      /\ proc \in [Procs -> Process] /\ r \in Process
  BY ProcSound, Zenon
<1>2. r.lib.kcov_mode \in {"unique", "order"} /\ r.lib.area \in Instances \cup {NULL} /\ r.lib.pcs_size \in {0, 1}
  BY <1>1 DEF Process, Lib
<1>3. CASE init_trace(p)
  <2> DEFINE mode == IF setting.mode = "order" THEN "order" ELSE "unique"
             size == IF setting.mode = "unique" THEN 1 ELSE r.lib.pcs_size
             t == [r EXCEPT !.lib.kcov_mode = mode]
  <2>1. r.st = "live" /\ r.pc = "mode" /\ r.pc \in {"mode", "mmap", "enable"}
    BY <1>3 DEF init_trace, At
  <2>2. mode \in {"unique", "order"} /\ size \in {0, 1}
    BY <1>2
  <2>3. t.lib.pcs_size = r.lib.pcs_size
    BY <1>1 DEF Process, Lib
  <2>4. \/ Become(p, [t EXCEPT !.lib.pcs_size = size, !.pc = "mmap"])
        \/ Become(p, Given_up(t))
    BY <1>3, <2>3 DEF init_trace
  <2> HIDE DEF mode, size
  <2>5. [t EXCEPT !.lib.pcs_size = size, !.pc = "mmap"] = ModeSet(r, mode, size)
    BY <1>1 DEF ModeSet, Process, Lib
  <2>6. t = [r EXCEPT !.lib.kcov_mode = mode, !.lib.area = r.lib.area]
    BY <1>1 DEF Process, Lib
  <2>7. Given_up(t) = GivenUpWith(r, mode, r.lib.area)
    BY <2>6, Zenon DEF GivenUpWith
  <2> HIDE DEF t
  <2>8. CASE Become(p, ModeSet(r, mode, size))
    BY <1>1, <2>1, <2>2, <2>8, ModeSound, BecomeSound, Zenon
  <2>9. CASE Become(p, GivenUpWith(r, mode, r.lib.area))
    BY <1>1, <1>2, <2>1, <2>2, <2>9, GivenUpSound, BecomeSound, Zenon
  <2> DEFINE u == [t EXCEPT !.lib.pcs_size = size, !.pc = "mmap"]
  <2>10. Become(p, u) \/ Become(p, Given_up(t))
    BY <2>4
  <2>11. u = ModeSet(r, mode, size)
    BY <2>5
  <2> HIDE DEF u
  <2> QED BY <2>7, <2>8, <2>9, <2>10, <2>11, Zenon
<1>4. CASE map_area(p)
  <2>1. r.st = "live" /\ r.pc = "mmap" /\ r.pc \in {"mode", "mmap", "enable"}
    BY <1>4 DEF map_area, At
  <2>2. Become(p, Mapped(r)) \/ Become(p, Given_up(r))
    BY <1>4 DEF map_area, Mapped
  <2>3. r = [r EXCEPT !.lib.kcov_mode = r.lib.kcov_mode, !.lib.area = r.lib.area]
    BY <1>1 DEF Process, Lib
  <2>4. Given_up(r) = GivenUpWith(r, r.lib.kcov_mode, r.lib.area)
    BY <2>3, Zenon DEF GivenUpWith
  <2>5. CASE Become(p, Mapped(r))
    BY <1>1, <2>1, <2>5, MapSound, BecomeSound, Zenon
  <2>6. CASE Become(p, GivenUpWith(r, r.lib.kcov_mode, r.lib.area))
    <3> DEFINE mode == r.lib.kcov_mode
               area == r.lib.area
    <3>1. mode \in {"unique", "order"} /\ area \in Instances \cup {NULL} /\ Become(p, GivenUpWith(r, mode, area))
      BY <1>2, <2>6
    <3> HIDE DEF mode, area
    <3> QED BY <1>1, <2>1, <3>1, GivenUpSound, BecomeSound, Zenon
  <2> QED BY <2>2, <2>4, <2>5, <2>6, Zenon
<1> QED BY <1>3, <1>4

LEMMA EnableStep ==
  ASSUME KInv, NEW p \in Procs, enable(p)
  PROVE  KInv'
<1> DEFINE r == proc[p]
           given == setting.out
           K == OwnedIn(owner, p)
           dumped == p \in output
           B == RecordedIn(buffer, p)
<1>1. /\ Sound(r, given, K, dumped, B) /\ K \in SUBSET Instances /\ B \in SUBSET Instances /\ dumped \in BOOLEAN
      /\ proc \in [Procs -> Process] /\ r \in Process
  BY ProcSound, Zenon
<1> DEFINE k == r.lib.area
<1>2. r.st = "live" /\ r.pc = "enable" /\ r.pc \in {"mode", "mmap", "enable"}
  BY DEF enable, At
<1>3. k \in Instances /\ r.lib.kcov_mode \in {"unique", "order"}
  BY <1>1, <1>2 DEF Sound, AreaOK, Process, Lib
<1>4. CASE Become(p, Given_up([r EXCEPT !.lib.area = NULL]))
  <2>1. [r EXCEPT !.lib.area = NULL] = [r EXCEPT !.lib.kcov_mode = r.lib.kcov_mode, !.lib.area = NULL]
    BY <1>1 DEF Process, Lib
  <2>2. Become(p, GivenUpWith(r, r.lib.kcov_mode, NULL))
    BY <1>4, <2>1, Zenon DEF GivenUpWith
  <2>3. NULL \in Instances \cup {NULL}
    OBVIOUS
  <2> QED BY <1>1, <1>2, <1>3, <2>2, <2>3, GivenUpSound, BecomeSound, Zenon
<1>5. ASSUME owner[k] = NoProc, \A j \in Instances : owner[j] # p, owner' = [owner EXCEPT ![k] = p],
             proc' = [proc EXCEPT ![p] = EnabledNow(r)], UNCHANGED <<buffer, output, setting, calls>>
      PROVE  KInv'
  <2>1. /\ owner \in [Instances -> Procs \cup {NoProc}] /\ buffer \in [Instances -> SUBSET Procs] /\ output \subseteq Procs
        /\ NoProc \notin Procs
    BY KcovAssumption DEF KInv, KcovTypeOK, NoProc
  <2>2. K = {}
    BY <1>5 DEF OwnedIn
  <2>3. /\ owner' \in [Instances -> Procs \cup {NoProc}] /\ OwnedIn(owner', p) = {k}
        /\ \A q \in Procs \ {p} : OwnedIn(owner', q) = OwnedIn(owner, q)
    BY <1>3, <1>5, <2>1 DEF OwnedIn
  <2>4. Sound(EnabledNow(r), given, {k}, dumped, B)
    BY <1>1, <1>2, <2>2, EnableSound, Zenon
  <2> DEFINE s == EnabledNow(r)
  <2>5. Sound(s, given, OwnedIn(owner', p), p \in output', RecordedIn(buffer', p))
    BY <1>5, <2>3, <2>4, Zenon
  <2> HIDE DEF s
  <2>6. proc' = [proc EXCEPT ![p] = s] /\ buffer' = buffer /\ output' = output /\ setting' = setting
    BY <1>5 DEF s
  <2> QED BY <2>1, <2>3, <2>5, <2>6, StepSound
<1> QED BY <1>4, <1>5, Zenon DEF enable, EnabledNow

LEMMA FinishStep ==
  ASSUME KInv, NEW p \in Procs, finish_kcov(p)
  PROVE  KInv'
<1> DEFINE r == proc[p]
           given == setting.out
           K == OwnedIn(owner, p)
           dumped == p \in output
           B == RecordedIn(buffer, p)
<1>1. /\ Sound(r, given, K, dumped, B) /\ K \in SUBSET Instances /\ B \in SUBSET Instances /\ dumped \in BOOLEAN
      /\ proc \in [Procs -> Process] /\ r \in Process
  BY ProcSound, Zenon
<1>2. r.st = "live" /\ r.pc = "finish"
  BY DEF finish_kcov, At
<1>3. r.lib.kcov_fd < 1 <=> ~(r.lib.kcov_fd > 0)
  <2> DEFINE fd == r.lib.kcov_fd
  <2>1. fd \in Int
    BY <1>1, DescriptorInt DEF Process, Lib
  <2> HIDE DEF fd
  <2> QED BY <2>1 DEF fd
<1>4. CASE ~(r.lib.kcov_fd > 0)
  <2>1. Ends(p, Dead(r, "finished"))
    BY <1>3, <1>4 DEF finish_kcov
  <2> QED BY <1>1, <1>2, <1>4, <2>1, FinishedSound, EndsSound, Zenon
<1>5. CASE r.lib.kcov_fd > 0
  <2>1. /\ owner' = Disabled(p, r.lib.kcov_fd) /\ proc' = [proc EXCEPT ![p] = Dumping(r)]
        /\ buffer' = buffer /\ output' = output /\ setting' = setting
    BY <1>3, <1>5 DEF finish_kcov, Dumping
  <2>2. Sound(Dumping(r), given, {k \in K : FileAt(r, r.lib.kcov_fd) # k}, dumped, B)
    BY <1>1, <1>2, <1>5, FinishSound, Zenon
  <2> QED BY <2>1, <2>2, DisablingStep
<1> QED BY <1>4, <1>5

LEMMA DumpStep ==
  ASSUME KInv, NEW p \in Procs, dump(p)
  PROVE  KInv'
<1> DEFINE r == proc[p]
           given == setting.out
           K == OwnedIn(owner, p)
           dumped == p \in output
           B == RecordedIn(buffer, p)
<1>1. /\ Sound(r, given, K, dumped, B) /\ K \in SUBSET Instances /\ B \in SUBSET Instances /\ dumped \in BOOLEAN
      /\ proc \in [Procs -> Process] /\ r \in Process
  BY ProcSound, Zenon
<1>2. r.st = "live" /\ r.pc = "dump"
  BY DEF dump, At
<1>3. CASE Faults(r)
  <2>1. r.lib.area = NULL /\ Ends(p, Faulted(r))
    BY <1>3 DEF dump, Faults, Faulted
  <2> QED BY <1>1, <1>2, <2>1, FaultSound, EndsSound, Zenon
<1>4. CASE ~Faults(r)
  <2> DEFINE written == r.lib.area # NULL /\ FileAt(r, r.lib.out_fd) = "out"
             s == Dumped(r)
  <2>1. /\ output' = IF written THEN output \cup buffer[r.lib.area] ELSE output
        /\ proc' = [proc EXCEPT ![p] = s]
        /\ owner' = owner /\ buffer' = buffer /\ setting' = setting
    BY <1>4 DEF dump, Dumped, Writes
  <2>2. /\ owner \in [Instances -> Procs \cup {NoProc}] /\ buffer \in [Instances -> SUBSET Procs] /\ output \subseteq Procs
        /\ r.lib.area \in Instances \cup {NULL} /\ NULL \notin Instances
    BY <1>1, KcovAssumption DEF KInv, KcovTypeOK, Process, Lib
  <2>3. output \subseteq output' /\ output' \subseteq Procs
    BY <2>1, <2>2
  <2>4. (dumped \/ (r.lib.area \in B /\ FileAt(r, r.lib.out_fd) = "out")) => p \in output'
    BY <2>1, <2>2 DEF RecordedIn
  <2>5. Sound(s, given, K, dumped \/ (r.lib.area \in B /\ FileAt(r, r.lib.out_fd) = "out"), B)
    BY <1>1, <1>2, DumpSound, Zenon
  <2> HIDE DEF s
  <2>6. Sound(s, given, K, p \in output', B)
    BY <2>4, <2>5, FrameSound, Zenon
  <2>7. Sound(s, given, OwnedIn(owner', p), p \in output', RecordedIn(buffer', p))
    BY <2>1, <2>6, Zenon
  <2>8. \A q \in Procs \ {p} :
           /\ OwnedIn(owner', q) = OwnedIn(owner, q)
           /\ proc[q].lib.area \in RecordedIn(buffer, q) => proc[q].lib.area \in RecordedIn(buffer', q)
    BY <2>1
  <2>9. owner' \in [Instances -> Procs \cup {NoProc}] /\ buffer' \in [Instances -> SUBSET Procs]
    BY <2>1, <2>2
  <2> QED BY <2>1, <2>3, <2>7, <2>8, <2>9, StepSound, Zenon
<1> QED BY <1>3, <1>4

LEMMA SignalStep ==
  ASSUME KInv, NEW p \in Procs, signal_handler(p) \/ Terminate(p)
  PROVE  KInv'
<1> DEFINE r == proc[p]
           given == setting.out
           K == OwnedIn(owner, p)
           dumped == p \in output
           B == RecordedIn(buffer, p)
<1>1. /\ Sound(r, given, K, dumped, B) /\ K \in SUBSET Instances /\ B \in SUBSET Instances /\ dumped \in BOOLEAN
      /\ proc \in [Procs -> Process] /\ r \in Process
  BY ProcSound, Zenon
<1>2. CASE signal_handler(p)
  <2>1. /\ r.st = "live" /\ ~r.blocked
        /\ Ends(p, Dead(r, "killed")) \/ Become(p, PendingIs(r, FALSE)) \/ Become(p, InHandler(r))
    BY <1>2 DEF signal_handler, PendingIs, InHandler
  <2>2. CASE Ends(p, Dead(r, "killed"))
    BY <1>1, <2>1, <2>2, KilledSound, EndsSound, Zenon
  <2>3. CASE Become(p, PendingIs(r, FALSE))
    <3>1. FALSE \in BOOLEAN
      OBVIOUS
    <3> QED BY <1>1, <2>1, <2>3, <3>1, IgnoredSound, BecomeSound, Zenon
  <2>4. CASE Become(p, InHandler(r))
    BY <1>1, <2>1, <2>4, HandlerSound, BecomeSound, Zenon
  <2> QED BY <2>1, <2>2, <2>3, <2>4
<1>3. CASE Terminate(p)
  <2>1. /\ r.st = "live" /\ TRUE \in BOOLEAN
        /\ proc' = [proc EXCEPT ![p] = PendingIs(r, TRUE)] /\ UNCHANGED <<kernel, output, setting>>
    BY <1>3 DEF Terminate, PendingIs
  <2>2. Sound(PendingIs(r, TRUE), given, K, dumped, B)
    BY <1>1, <2>1, IgnoredSound, Zenon
  <2> QED BY <2>1, <2>2, ChangeSound
<1> QED BY <1>2, <1>3

LEMMA ExecuteStep ==
  ASSUME KInv, NEW p \in Procs, Execute(p)
  PROVE  KInv'
<1> DEFINE r == proc[p]
           given == setting.out
           K == OwnedIn(owner, p)
           dumped == p \in output
           B == RecordedIn(buffer, p)
<1>1. /\ Sound(r, given, K, dumped, B) /\ K \in SUBSET Instances /\ B \in SUBSET Instances /\ dumped \in BOOLEAN
      /\ proc \in [Procs -> Process] /\ r \in Process
  BY ProcSound, Zenon
<1>2. PICK k \in Instances : owner[k] = p /\ buffer' = [buffer EXCEPT ![k] = @ \cup {p}]
  BY DEF Execute
<1> DEFINE s == HasRun(r)
           C == RecordedIn(buffer', p)
<1>3. /\ r.st = "live" /\ r.pc = "run" /\ proc' = [proc EXCEPT ![p] = s]
      /\ owner' = owner /\ output' = output /\ setting' = setting
  BY DEF Execute, At, HasRun
<1>4. /\ owner \in [Instances -> Procs \cup {NoProc}] /\ buffer \in [Instances -> SUBSET Procs] /\ output \subseteq Procs
  BY DEF KInv, KcovTypeOK
<1>5. k \in K /\ k \in C
  BY <1>2, <1>4 DEF OwnedIn, RecordedIn
<1>6. buffer' \in [Instances -> SUBSET Procs]
  BY <1>2, <1>4
<1> HIDE DEF C
<1>7. Sound(s, given, K, dumped, C)
  BY <1>1, <1>3, <1>5, ExecuteSound, Zenon
<1> HIDE DEF s
<1>8. Sound(s, given, OwnedIn(owner', p), p \in output', RecordedIn(buffer', p))
  BY <1>3, <1>7, Zenon DEF C
<1>9. \A q \in Procs \ {p} :
         /\ OwnedIn(owner', q) = OwnedIn(owner, q)
         /\ proc[q].lib.area \in RecordedIn(buffer, q) => proc[q].lib.area \in RecordedIn(buffer', q)
  BY <1>2, <1>3, <1>4 DEF RecordedIn
<1>10. owner' \in [Instances -> Procs \cup {NoProc}] /\ output \subseteq output' /\ output' \subseteq Procs
  BY <1>3, <1>4
<1> QED BY <1>3, <1>6, <1>8, <1>9, <1>10, StepSound, Zenon

LEMMA ProgramStep ==
  ASSUME KInv, NEW p \in Procs,
         OpenFile(p) \/ CloseFile(p) \/ IgnoreTerm(p) \/ exec(p) \/ Exit(p) \/ fork_child(p)
  PROVE  KInv'
<1> DEFINE r == proc[p]
           given == setting.out
           K == OwnedIn(owner, p)
           dumped == p \in output
           B == RecordedIn(buffer, p)
<1>1. /\ Sound(r, given, K, dumped, B) /\ K \in SUBSET Instances /\ B \in SUBSET Instances /\ dumped \in BOOLEAN
      /\ proc \in [Procs -> Process] /\ r \in Process
  BY ProcSound, Zenon
<1>2. ASSUME NEW s, Program(p, s), Sound(s, given, K, dumped, B)
      PROVE  KInv'
  BY <1>2, ChangeSound DEF Program
<1>3. ASSUME NEW s, Program(p, s)
      PROVE  r.st = "live" /\ r.pc = "run"
  BY <1>3 DEF Program, At
<1>4. CASE OpenFile(p)
  <2>1. Free(r) # {} /\ Program(p, FileOpened(r, Min(Free(r))))
    BY <1>4 DEF OpenFile, FileOpened
  <2>2. Min(Free(r)) \in Fds /\ r.fds[Min(Free(r))] = "closed"
    BY <2>1, FreeMin
  <2> QED BY <1>1, <1>2, <1>3, <2>1, <2>2, OpenFileSound, Zenon
<1>5. CASE CloseFile(p)
  <2>1. PICK fd \in Fds : Program(p, FileClosed(r, fd))
    BY <1>5 DEF CloseFile, FileClosed
  <2> QED BY <1>1, <1>2, <1>3, <2>1, CloseFileSound, Zenon
<1>6. CASE IgnoreTerm(p)
  <2>1. Program(p, Ignoring(r))
    BY <1>6 DEF IgnoreTerm, Ignoring
  <2> QED BY <1>1, <1>2, <1>3, <2>1, IgnoreTermSound, Zenon
<1>7. CASE exec(p)
  <2>1. Program(p, AfterExec(r))
    BY <1>7 DEF exec
  <2> QED BY <1>1, <1>2, <1>3, <2>1, ExecSound, Zenon
<1>8. CASE Exit(p)
  <2>1. r.st = "live" /\ r.pc = "run" /\ Become(p, Exiting(r))
    BY <1>8 DEF Exit, At, Exiting
  <2> QED BY <1>1, <2>1, ExitSound, BecomeSound, Zenon
<1>9. CASE fork_child(p)
  <2>1. r.st = "live" /\ r.pc = "fork_child"
    BY <1>9 DEF fork_child, At
  <2>2. CASE r.lib.kcov_fd > 0
    <3>1. Become(p, ChildCleansUp(r))
      BY <1>9, <2>2 DEF fork_child, ChildCleansUp
    <3> QED BY <1>1, <2>1, <2>2, <3>1, ForkChildSound, BecomeSound, Zenon
  <2>3. CASE ~(r.lib.kcov_fd > 0)
    <3>1. Become(p, Returned(r))
      BY <1>9, <2>3 DEF fork_child
    <3> QED BY <1>1, <2>1, <2>3, <3>1, ForkUntraced, BecomeSound, Zenon
  <2> QED BY <2>2, <2>3
<1> QED BY <1>4, <1>5, <1>6, <1>7, <1>8, <1>9

(* A new process owns nothing and has recorded nothing.                       *)
LEMMA NewProcessStep ==
  ASSUME KInv, NEW p \in Procs, fork(p) \/ Spawn(p)
  PROVE  KInv'
<1> DEFINE r == proc[p]
           given == setting.out
           K == OwnedIn(owner, p)
           dumped == p \in output
           B == RecordedIn(buffer, p)
<1>1. /\ Sound(r, given, K, dumped, B) /\ K \in SUBSET Instances /\ B \in SUBSET Instances /\ dumped \in BOOLEAN
      /\ proc \in [Procs -> Process] /\ r \in Process
  BY ProcSound, Zenon
<1>2. ASSUME NEW q \in Procs, proc[q].st = "unused", NEW s, proc' = [proc EXCEPT ![q] = s],
             UNCHANGED <<kernel, output, setting>>,
             \A d, C : Sound(s, given, {}, d, C)
      PROVE  KInv'
  <2>1. Sound(proc[q], given, OwnedIn(owner, q), q \in output, RecordedIn(buffer, q))
    BY ProcSound, Zenon
  <2>2. OwnedIn(owner, q) = {}
    BY <1>2, <2>1 DEF Sound, OwnedOK
  <2>3. Sound(s, given, OwnedIn(owner, q), q \in output, RecordedIn(buffer, q))
    BY <1>2, <2>2, Zenon
  <2> QED BY <1>2, <2>3, ChangeSound
<1>3. CASE fork(p)
  <2>1. PICK q \in Procs : proc[q].st = "unused" /\ proc' = [proc EXCEPT ![q] = ForkedChild(r)]
    BY <1>3 DEF fork, NewProcess, ForkedChild
  <2>2. r.st = "live" /\ r.pc = "run" /\ UNCHANGED <<kernel, output, setting>>
    BY <1>3 DEF fork, NewProcess, At
  <2>3. \A d, C : Sound(ForkedChild(r), given, {}, d, C)
    BY <1>1, <2>2, ForkSound, Zenon
  <2> QED BY <1>2, <2>1, <2>2, <2>3, Zenon
<1>4. CASE Spawn(p)
  <2>1. PICK q \in Procs : proc[q].st = "unused" /\ proc' = [proc EXCEPT ![q] = SpawnedChild(r)]
    BY <1>4 DEF Spawn, NewProcess, SpawnedChild
  <2>2. r.st = "live" /\ r.pc = "run" /\ UNCHANGED <<kernel, output, setting>>
    BY <1>4 DEF Spawn, NewProcess, At
  <2>3. \A d, C : Sound(SpawnedChild(r), given, {}, d, C)
    BY <1>1, <2>2, SpawnSound, Zenon
  <2> QED BY <1>2, <2>1, <2>2, <2>3, Zenon
<1> QED BY <1>3, <1>4

LEMMA KInvStep == KInv /\ [KcovNext]_kcov_vars => KInv'
<1> SUFFICES ASSUME KInv, [KcovNext]_kcov_vars PROVE KInv'
  OBVIOUS
<1>1. CASE UNCHANGED kcov_vars
  <2>1. proc' = proc /\ owner' = owner /\ buffer' = buffer /\ output' = output /\ setting' = setting
    BY <1>1 DEF kcov_vars
  <2> QED BY <2>1, Zenon DEF KInv, KcovTypeOK
<1>2. CASE KcovNext
  <2>1. PICK p \in Procs :
          \/ CleanupDisable(p) \/ CleanupUnmap(p) \/ CleanupClose(p)
          \/ start_kcov(p) \/ parse_env(p) \/ open_output(p) \/ no_output(p) \/ open_kcov(p) \/ init_trace(p)
          \/ map_area(p) \/ enable(p)
          \/ finish_kcov(p) \/ dump(p) \/ signal_handler(p)
          \/ Execute(p) \/ OpenFile(p) \/ CloseFile(p) \/ IgnoreTerm(p) \/ exec(p) \/ Exit(p) \/ Terminate(p)
          \/ fork(p) \/ Spawn(p) \/ fork_child(p)
    BY <1>2, Zenon DEF KcovNext
  <2> QED BY <2>1, CleanupStep, StartStep, OutputStep, OpenStep, InitTraceStep, EnableStep, FinishStep, DumpStep,
             SignalStep, ExecuteStep, ProgramStep, NewProcessStep, Zenon
<1> QED BY <1>1, <1>2

LEMMA KInvInit == KcovInit => KInv
<1> SUFFICES ASSUME KcovInit PROVE KInv
  OBVIOUS
<1> DEFINE given == setting.out
           n == NotStarted
<1>1. /\ setting \in Settings /\ owner = [k \in Instances |-> NoProc] /\ buffer = [k \in Instances |-> {}]
      /\ output = {} /\ NoProc \notin Procs
  BY KcovAssumption DEF KcovInit, NoProc
<1>2. PICK stdin \in {"program", "closed"} : \E sig \in {"default", "ignored"} :
        proc = [p \in Procs |->
          IF p # First THEN NotStarted
          ELSE [NotStarted EXCEPT !.st = "live", !.pc = "start", !.sigterm = sig,
                  !.fds = [fd \in Fds |-> IF fd = ForeignFd /\ GivenFd THEN Passed
                                          ELSE IF fd = 0 THEN stdin ELSE "closed"]]]
  BY DEF KcovInit
<1>3. PICK sig \in {"default", "ignored"} :
        proc = [p \in Procs |->
          IF p # First THEN NotStarted
          ELSE [NotStarted EXCEPT !.st = "live", !.pc = "start", !.sigterm = sig,
                  !.fds = [fd \in Fds |-> IF fd = ForeignFd /\ GivenFd THEN Passed
                                          ELSE IF fd = 0 THEN stdin ELSE "closed"]]]
  BY <1>2
<1> DEFINE f == [fd \in Fds |-> IF fd = ForeignFd /\ GivenFd THEN Passed ELSE IF fd = 0 THEN stdin ELSE "closed"]
           s == [n EXCEPT !.st = "live", !.pc = "start", !.sigterm = sig, !.fds = f]
<1>4. proc = [p \in Procs |-> IF p # First THEN n ELSE s]
  BY <1>3
<1>5. /\ n \in Process /\ n.fds \in [Fds -> Files] /\ n.lib = Image /\ n.st = "unused" /\ n.ctl = -1 /\ n.out = -1
      /\ ~n.fault /\ n.lost = {} /\ n.wrote = {} /\ ~n.ran /\ ~n.in_fork /\ Image.kcov_fd = 0 /\ ~Image.foreign_fd
  BY NotStartedFields DEF Process
<1> HIDE DEF n
<1>6. f \in [Fds -> Files] /\ (given = "fd" => f[ForeignFd] = "out")
  BY <1>5, FdFacts DEF Files, GivenFd, Passed
<1> HIDE DEF f
<1>7. /\ s \in Process /\ s.st = "live" /\ s.pc = "start" /\ s.fds = f /\ s.lib = Image /\ s.ctl = -1 /\ s.out = -1
      /\ ~s.fault /\ s.lost = {} /\ s.wrote = {} /\ ~s.ran /\ ~s.in_fork
  BY <1>5, <1>6 DEF Process, Steps, Starting
<1> HIDE DEF s
<1>8. \A d, C : Sound(n, given, {}, d, C)
  BY <1>5 DEF Sound, AreaOK, FilesOK, HarmOK, OwnedOK, RanOK
<1>9. \A d, C : Sound(s, given, {}, d, C)
  <2>1. AreaOK(s)
    BY <1>5, <1>7 DEF AreaOK, CleaningUp
  <2>2. FilesOK(s, given)
    BY <1>5, <1>6, <1>7 DEF FilesOK, HarmOK, GivingUp, CleaningUp
  <2>3. OwnedOK(s, {}) /\ \A d, C : RanOK(s, d, C)
    BY <1>7 DEF OwnedOK, RanOK
  <2> QED BY <1>7, <2>1, <2>2, <2>3 DEF Sound
<1>10. \A p \in Procs : OwnedIn(owner, p) = {}
  BY <1>1 DEF OwnedIn
<1>11. \A p \in Procs : proc[p] = n \/ proc[p] = s
  BY <1>4
<1>12. \A p \in Procs : Sound(proc[p], given, OwnedIn(owner, p), p \in output, RecordedIn(buffer, p))
  BY <1>8, <1>9, <1>10, <1>11, Zenon
<1>13. KcovTypeOK
  BY <1>1, <1>4, <1>5, <1>7 DEF KcovTypeOK
<1> QED BY <1>12, <1>13 DEF KInv

LEMMA KInvAlways == KcovSpec => []KInv
BY KInvInit, KInvStep, PTL DEF KcovSpec

(* What a process did in the kernel is in the output when it ends by exit or  *)
(* SIGTERM, for any number of processes and kcov instances, any descriptor    *)
(* numbers and any sequence of calls, with SIGTERM at any step: start_kcov,   *)
(* finish_kcov, cleanup_kcov, signal_handler and the fork wrapper; except     *)
(* where KCOV_OUT names a descriptor that is not open.                        *)
THEOREM KcovDumpComplete == KcovSpec => []DumpComplete
<1>1. KInv => DumpComplete
  BY DEF KInv, Sound, RanOK, DumpComplete
<1> QED BY <1>1, KInvAlways, PTL

(* The library closes and writes no file of the program, as long as the       *)
(* program closed none of the library's descriptors: cleanup_kcov and the     *)
(* dump of finish_kcov, with descriptors passed on by fork, spawn and exec,   *)
(* from an environment where KCOV_OUT=fd:N may name a descriptor that is not  *)
(* open: then it closes descriptor 0 and writes descriptor N, and no other.   *)
THEOREM KcovOwnFilesOnly == KcovSpec => []OwnFilesOnly
<1>1. KInv => OwnFilesOnly
  BY DEF KInv, Sound, FilesOK, HarmOK, OwnFilesOnly
<1> QED BY <1>1, KInvAlways, PTL

(* finish_kcov reads a buffer that is not mapped only in a SIGTERM handler,   *)
(* and never in the child that the fork wrapper is restarting: fork blocks    *)
(* the signal while it cleans up and starts again.                            *)
THEOREM KcovFaultsOnlyAtEnds == KcovSpec => []FaultsOnlyAtEnds
<1>1. KInv => FaultsOnlyAtEnds
  BY DEF KInv, Sound, AreaOK, FaultsOnlyAtEnds
<1> QED BY <1>1, KInvAlways, PTL

-----------------------------------------------------------------------------
(* Bb2lines: the blocks of the .gcno files and the addresses found in them *)

(* A block has the lines of its files only, and what it has is coverable.    *)
BlockOK(c, files, coverable) ==
  /\ c = [file |-> c.file, start |-> c.start, files |-> c.files, lines |-> c.lines]
  /\ \A l \in c.lines : l[1] \in c.files
  /\ c.files \subseteq files
  /\ c.lines \subseteq coverable

(* Every block read or remembered is sound and is counted.                   *)
BlocksOK ==
  /\ \A c \in basic_blocks_map : BlockOK(c, covered_files, coverable_lines)
  /\ \A a \in Hits : BlockOK(basic_blocks_addr_map[a], covered_files, coverable_lines)

(* The addresses looked up so far are finitely many.                         *)
MapOK ==
  /\ IsFiniteSet(DOMAIN basic_blocks_addr_map)
  /\ basic_blocks_addr_map = [a \in DOMAIN basic_blocks_addr_map |-> basic_blocks_addr_map[a]]
  /\ {input_addr_count, unique_input_addr_count, not_found_count, null_count} \subseteq Nat

BInv == BlocksMerged /\ BlocksOK /\ MapOK /\ CoverageAddsUp

LEMMA BbInitially == BbInit => BInv
<1> SUFFICES ASSUME BbInit PROVE BInv
  OBVIOUS
<1>1. DOMAIN basic_blocks_addr_map = {}
  BY DEF BbInit, BbStart
<1>2. Hits = {}
  BY <1>1 DEF Hits
<1>3. IsFiniteSet({}) /\ Cardinality({}) = 0
  BY FS_EmptySet
<1>4. BlocksMerged
  BY DEF BlocksMerged, BbInit, BbStart
<1>5. BlocksOK
  BY <1>2 DEF BlocksOK, BbInit, BbStart
<1>6. MapOK
  BY <1>1, <1>3 DEF MapOK, BbInit, BbStart
<1>7. CoverageAddsUp
  BY <1>1, <1>2, <1>3 DEF CoverageAddsUp, BbInit, BbStart
<1> QED
  BY <1>4, <1>5, <1>6, <1>7 DEF BInv

(* Two blocks with one start make a sound block with the lines of both.      *)
LEMMA MergedOK ==
  ASSUME NEW b \in Blocks, BInv
  PROVE  /\ Merged(b).file = b.file /\ Merged(b).start = b.start
         /\ Merged(b).lines = UNION {x.lines : x \in {c \in basic_blocks_map : SameBlock(b, c)} \cup {b}}
         /\ BlockOK(Merged(b), covered_files \cup b.files, coverable_lines \cup LinesOf(b))
<1> DEFINE old == {c \in basic_blocks_map : SameBlock(b, c)}
           fs == UNION {c.files : c \in old \cup {b}}
           ls == UNION {c.lines : c \in old \cup {b}}
<1>1. Merged(b) = [b EXCEPT !.files = fs, !.lines = ls]
  BY DEF Merged
<1> HIDE DEF fs, ls
<1>2. b = [file |-> b.file, start |-> b.start, files |-> b.files, lines |-> b.lines]
      /\ \A l \in b.lines : l[1] \in b.files
  BY BbAssumption
<1>3. Merged(b) = [file |-> b.file, start |-> b.start, files |-> fs, lines |-> ls]
  BY <1>1, <1>2
<1>4. \A c \in old : BlockOK(c, covered_files, coverable_lines)
  BY DEF BInv, BlocksOK
<1>5. \A l \in ls : l[1] \in fs
  BY <1>2, <1>4 DEF ls, fs, BlockOK
<1>6. fs \subseteq covered_files \cup b.files
  BY <1>4 DEF fs, BlockOK
<1>7. ls \subseteq coverable_lines \cup LinesOf(b)
  BY <1>4 DEF ls, BlockOK, LinesOf
<1>8. BlockOK(Merged(b), covered_files \cup b.files, coverable_lines \cup LinesOf(b))
  BY <1>3, <1>5, <1>6, <1>7 DEF BlockOK
<1>9. Merged(b).file = b.file /\ Merged(b).start = b.start /\ Merged(b).lines = ls
  BY <1>3
<1> QED
  BY <1>8, <1>9 DEF ls

LEMMA ReadLinesKeeps == BInv /\ ReadLines => BInv'
<1> SUFFICES ASSUME BInv, ReadLines PROVE BInv'
  OBVIOUS
<1> PICK b \in Blocks :
       /\ basic_blocks_map' = {c \in basic_blocks_map : ~SameBlock(b, c)} \cup {Merged(b)}
       /\ coverable_lines' = coverable_lines \cup LinesOf(b)
       /\ covered_files' = covered_files \cup b.files
       /\ read' = read \cup {b}
  BY DEF ReadLines
<1> DEFINE m == Merged(b)
<1>u. UNCHANGED <<covered_lines, basic_blocks_addr_map, input_addr_count, unique_input_addr_count, not_found_count,
                  null_count, rows, convert>>
  BY DEF ReadLines, counts
<1>m. /\ m.file = b.file /\ m.start = b.start
      /\ m.lines = UNION {x.lines : x \in {c \in basic_blocks_map : SameBlock(b, c)} \cup {b}}
      /\ BlockOK(m, covered_files', coverable_lines')
  BY MergedOK
<1>n. basic_blocks_map' = {c \in basic_blocks_map : ~SameBlock(b, c)} \cup {m}
  OBVIOUS
<1> HIDE DEF m
<1>b. BlocksMerged
  BY DEF BInv
<1>1. BlocksMerged'
  <2>1. ASSUME NEW x \in read' PROVE \E c \in basic_blocks_map' : SameBlock(x, c)
    <3>1. CASE SameBlock(x, b)
      BY <3>1, <1>n, <1>m DEF SameBlock
    <3>2. CASE ~SameBlock(x, b)
      <4>1. x \in read
        BY <3>2 DEF SameBlock
      <4>2. PICK c \in basic_blocks_map : SameBlock(x, c)
        BY <4>1, <1>b DEF BlocksMerged
      <4>3. ~SameBlock(b, c)
        BY <3>2, <4>2 DEF SameBlock
      <4> QED
        BY <4>2, <4>3, <1>n
    <3> QED
      BY <3>1, <3>2
  <2>2. ASSUME NEW x \in basic_blocks_map', NEW c \in basic_blocks_map', SameBlock(x, c) PROVE x = c
    BY <2>2, <1>n, <1>m, <1>b DEF BlocksMerged, SameBlock
  <2>3. ASSUME NEW c \in basic_blocks_map'
        PROVE  c.lines = UNION {x.lines : x \in {y \in read' : SameBlock(y, c)}}
    <3>1. CASE c = m
      <4>1. ASSUME NEW l, l \in m.lines PROVE \E y \in read' : SameBlock(y, m) /\ l \in y.lines
        <5>1. CASE l \in b.lines
          BY <5>1, <1>m DEF SameBlock
        <5>2. CASE l \notin b.lines
          <6>1. PICK x \in basic_blocks_map : SameBlock(b, x) /\ l \in x.lines
            BY <4>1, <5>2, <1>m
          <6>2. PICK y \in read : SameBlock(y, x) /\ l \in y.lines
            BY <6>1, <1>b DEF BlocksMerged
          <6> QED
            BY <6>1, <6>2, <1>m DEF SameBlock
        <5> QED
          BY <5>1, <5>2
      <4>2. ASSUME NEW y \in read', SameBlock(y, m), NEW l \in y.lines PROVE l \in m.lines
        <5>1. CASE y = b
          BY <5>1, <1>m
        <5>2. CASE y \in read
          <6>1. PICK x \in basic_blocks_map : SameBlock(y, x)
            BY <5>2, <1>b DEF BlocksMerged
          <6>2. l \in x.lines
            BY <5>2, <6>1, <1>b DEF BlocksMerged
          <6>3. SameBlock(b, x)
            BY <4>2, <6>1, <1>m DEF SameBlock
          <6> QED
            BY <6>2, <6>3, <1>m
        <5> QED
          BY <5>1, <5>2
      <4> QED
        BY <3>1, <4>1, <4>2
    <3>2. CASE c # m
      <4>1. c \in basic_blocks_map /\ ~SameBlock(b, c)
        BY <2>3, <3>2, <1>n
      <4>2. {y \in read' : SameBlock(y, c)} = {y \in read : SameBlock(y, c)}
        BY <4>1 DEF SameBlock
      <4> QED
        BY <4>1, <4>2, <1>b DEF BlocksMerged
    <3> QED
      BY <3>1, <3>2
  <2> QED
    BY <2>1, <2>2, <2>3, <1>n DEF BlocksMerged, SameBlock
<1>h. Hits' = Hits
  BY <1>u DEF Hits
<1>2. BlocksOK'
  <2>1. ASSUME NEW c, BlockOK(c, covered_files, coverable_lines) PROVE BlockOK(c, covered_files', coverable_lines')
    BY <2>1 DEF BlockOK
  <2>2. \A c \in basic_blocks_map' : BlockOK(c, covered_files', coverable_lines')
    BY <2>1, <1>m, <1>n DEF BInv, BlocksOK
  <2>3. \A a \in Hits : BlockOK(basic_blocks_addr_map[a], covered_files', coverable_lines')
    BY <2>1 DEF BInv, BlocksOK
  <2> QED
    BY <2>2, <2>3, <1>h, <1>u DEF BlocksOK
<1>3. MapOK'
  BY <1>u DEF BInv, MapOK
<1>4. CoverageAddsUp'
  BY <1>u, <1>h DEF BInv, CoverageAddsUp
<1> QED
  BY <1>1, <1>2, <1>3, <1>4 DEF BInv

(* An address seen before adds nothing.                                      *)
LEMMA FoundAgainKeeps ==
  ASSUME NEW a, BInv, FoundAgain(a)
  PROVE  BInv'
<1>u. UNCHANGED <<basic_blocks_map, coverable_lines, covered_files, read, basic_blocks_addr_map,
                  unique_input_addr_count, not_found_count, null_count, convert>>
      /\ input_addr_count' = input_addr_count + 1 /\ a \in DOMAIN basic_blocks_addr_map
  BY DEF FoundAgain, tables, Input
<1>h. Hits' = Hits
  BY <1>u DEF Hits
<1>1. BlocksMerged'
  BY <1>u DEF BInv, BlocksMerged
<1>2. BlocksOK'
  BY <1>u, <1>h DEF BInv, BlocksOK
<1>3. MapOK'
  BY <1>u DEF BInv, MapOK
<1> DEFINE b == basic_blocks_addr_map[a]
<1>c. CoverageAddsUp /\ {input_addr_count, unique_input_addr_count} \subseteq Nat
  BY DEF BInv, MapOK
<1>4. CASE b = Invalid
  <2>1. UNCHANGED <<covered_lines, rows>>
    BY <1>4 DEF FoundAgain, Use
  <2> QED
    BY <2>1, <1>u, <1>h, <1>c, <1>1, <1>2, <1>3 DEF BInv, CoverageAddsUp
<1>5. CASE b # Invalid
  <2>1. a \in Hits
    BY <1>5, <1>u DEF Hits
  <2>2. /\ covered_lines' = IF convert THEN covered_lines ELSE covered_lines \cup b.lines
        /\ rows' = IF convert THEN rows \cup {<<a, l>> : l \in b.lines} ELSE rows
    BY <1>5 DEF FoundAgain, Use
  <2>3. ~convert => b.lines \subseteq covered_lines
    BY <2>1, <1>c DEF CoverageAddsUp
  <2>4. convert => {<<a, l>> : l \in b.lines} \subseteq rows
    BY <2>1, <1>c DEF CoverageAddsUp
  <2>5. UNCHANGED <<covered_lines, rows>>
    BY <2>2, <2>3, <2>4
  <2> QED
    BY <2>5, <1>u, <1>h, <1>c, <1>1, <1>2, <1>3 DEF BInv, CoverageAddsUp
<1> QED
  BY <1>4, <1>5

LEMMA FileIsNullKeeps ==
  ASSUME NEW a, BInv, FileIsNull(a)
  PROVE  BInv'
<1>u. UNCHANGED <<basic_blocks_map, coverable_lines, covered_files, read, basic_blocks_addr_map,
                  covered_lines, rows, convert>>
      /\ input_addr_count' = input_addr_count + 1 /\ unique_input_addr_count' = unique_input_addr_count + 1
      /\ null_count' = null_count + 1 /\ not_found_count' = not_found_count + 1
  BY DEF FileIsNull, tables, Input
<1>h. Hits' = Hits
  BY <1>u DEF Hits
<1>1. BlocksMerged'
  BY <1>u DEF BInv, BlocksMerged
<1>2. BlocksOK'
  BY <1>u, <1>h DEF BInv, BlocksOK
<1>3. MapOK'
  BY <1>u DEF BInv, MapOK
<1>n. Cardinality(DOMAIN basic_blocks_addr_map) \in Nat /\ Cardinality(DOMAIN basic_blocks_addr_map \ Hits) \in Nat
  BY FS_CardinalityType, FS_Subset DEF BInv, MapOK
<1> DEFINE n == Cardinality(DOMAIN basic_blocks_addr_map)
           h == Cardinality(DOMAIN basic_blocks_addr_map \ Hits)
<1>4. /\ n' = n /\ h' = h
  BY <1>u, <1>h
<1> HIDE DEF n, h
<1>5. /\ unique_input_addr_count' = n + null_count'
      /\ not_found_count' = h + null_count'
      /\ unique_input_addr_count' <= input_addr_count'
  BY <1>u, <1>n DEF BInv, MapOK, CoverageAddsUp, n, h
<1>6. CoverageAddsUp'
  BY <1>u, <1>h, <1>4, <1>5 DEF BInv, CoverageAddsUp, n, h
<1> QED
  BY <1>1, <1>2, <1>3, <1>6 DEF BInv

(* A new address is counted once, found or not.                              *)
LEMMA LookupKeeps ==
  ASSUME NEW a, BInv, Lookup(a)
  PROVE  BInv'
<1> PICK b \in IF Candidates(a) = {} THEN {Invalid} ELSE Candidates(a) :
       /\ Remember(a, b)
       /\ Use(a, b)
       /\ not_found_count' = IF b = Invalid THEN not_found_count + 1 ELSE not_found_count
  BY DEF Lookup
<1> DEFINE D == DOMAIN basic_blocks_addr_map
<1>u. /\ UNCHANGED <<basic_blocks_map, coverable_lines, covered_files, read, null_count, convert>>
      /\ input_addr_count' = input_addr_count + 1 /\ unique_input_addr_count' = unique_input_addr_count + 1
      /\ a \notin D
  BY DEF Lookup, tables, Input
<1>b. b # Invalid => b \in basic_blocks_map
  BY DEF Candidates, StartsBelow, InFile, find_line_and_file_in_bb_map
<1>r. /\ D' = D \cup {a}
      /\ basic_blocks_addr_map' = [x \in D' |-> basic_blocks_addr_map'[x]]
      /\ basic_blocks_addr_map'[a] = b
      /\ \A x \in D : basic_blocks_addr_map'[x] = basic_blocks_addr_map[x]
  BY <1>u DEF Remember
<1>h. Hits' = IF b = Invalid THEN Hits ELSE Hits \cup {a}
  BY <1>r, <1>u DEF Hits
<1>s. Hits \subseteq D
  BY DEF Hits
<1>f. IsFiniteSet(D) /\ IsFiniteSet(D \ Hits)
  BY FS_Subset DEF BInv, MapOK
<1>n. /\ Cardinality(D) \in Nat /\ Cardinality(D \ Hits) \in Nat
      /\ IsFiniteSet(D') /\ Cardinality(D') = Cardinality(D) + 1
  BY <1>f, <1>u, <1>r, FS_CardinalityType, FS_AddElement
<1>m. Cardinality(D' \ Hits') = IF b = Invalid THEN Cardinality(D \ Hits) + 1 ELSE Cardinality(D \ Hits)
  <2>1. CASE b = Invalid
    <3>1. D' \ Hits' = (D \ Hits) \cup {a} /\ a \notin D \ Hits
      BY <2>1, <1>h, <1>r, <1>u, <1>s
    <3> QED
      BY <2>1, <3>1, <1>f, FS_AddElement
  <2>2. CASE b # Invalid
    <3>1. D' \ Hits' = D \ Hits
      BY <2>2, <1>h, <1>r, <1>u, <1>s
    <3> QED
      BY <2>2, <3>1
  <2> QED
    BY <2>1, <2>2
<1>e. \A x \in Hits : basic_blocks_addr_map'[x] = basic_blocks_addr_map[x]
  BY <1>r, <1>s
<1>k. b # Invalid => BlockOK(b, covered_files, coverable_lines)
  BY <1>b DEF BInv, BlocksOK
<1>1. BlocksMerged'
  BY <1>u DEF BInv, BlocksMerged
<1>2. BlocksOK'
  <2>1. \A x \in Hits' : BlockOK(basic_blocks_addr_map'[x], covered_files, coverable_lines)
    BY <1>h, <1>e, <1>r, <1>k DEF BInv, BlocksOK
  <2>2. \A c \in basic_blocks_map : BlockOK(c, covered_files, coverable_lines)
    BY DEF BInv, BlocksOK
  <2> QED
    BY <2>1, <2>2, <1>u DEF BlocksOK
<1>3. MapOK'
  BY <1>u, <1>n, <1>r DEF BInv, MapOK
<1>c. CoverageAddsUp /\ {input_addr_count, unique_input_addr_count, not_found_count, null_count} \subseteq Nat
  BY DEF BInv, MapOK
<1>4. /\ unique_input_addr_count' = Cardinality(D') + null_count'
      /\ not_found_count' = Cardinality(D' \ Hits') + null_count'
      /\ unique_input_addr_count' <= input_addr_count'
  <2> DEFINE d == Cardinality(D)  e == Cardinality(D \ Hits)  dd == Cardinality(D')  ee == Cardinality(D' \ Hits')
  <2>1. /\ d \in Nat /\ e \in Nat /\ dd = d + 1 /\ ee = IF b = Invalid THEN e + 1 ELSE e
        /\ unique_input_addr_count = d + null_count /\ not_found_count = e + null_count
        /\ unique_input_addr_count <= input_addr_count
    BY <1>n, <1>m, <1>c DEF CoverageAddsUp
  <2> HIDE DEF D, d, e, dd, ee
  <2>2. /\ unique_input_addr_count' = dd + null_count'
        /\ not_found_count' = ee + null_count'
        /\ unique_input_addr_count' <= input_addr_count'
    BY <2>1, <1>u, <1>c
  <2> QED
    BY <2>2 DEF dd, ee
<1>5. /\ covered_lines' \subseteq coverable_lines'
      /\ \A l \in covered_lines' : l[1] \in covered_files'
  BY <1>u, <1>c, <1>k DEF CoverageAddsUp, Use, BlockOK
<1>6. ~convert' => covered_lines' = UNION {basic_blocks_addr_map'[x].lines : x \in Hits'}
  <2> SUFFICES ASSUME ~convert PROVE covered_lines' = UNION {basic_blocks_addr_map'[x].lines : x \in Hits'}
    BY <1>u
  <2>1. covered_lines = UNION {basic_blocks_addr_map[x].lines : x \in Hits}
    BY <1>c DEF CoverageAddsUp
  <2>2. UNION {basic_blocks_addr_map[x].lines : x \in Hits} = UNION {basic_blocks_addr_map'[x].lines : x \in Hits}
    BY <1>e
  <2>3. covered_lines' = IF b = Invalid THEN covered_lines ELSE covered_lines \cup b.lines
    BY DEF Use
  <2> QED
    BY <2>1, <2>2, <2>3, <1>h, <1>r
<1>7. convert' => rows' = UNION {{<<x, l>> : l \in basic_blocks_addr_map'[x].lines} : x \in Hits'}
  <2> SUFFICES ASSUME convert PROVE rows' = UNION {{<<x, l>> : l \in basic_blocks_addr_map'[x].lines} : x \in Hits'}
    BY <1>u
  <2> DEFINE R(x, c) == {<<x, l>> : l \in c.lines}
  <2>1. rows = UNION {R(x, basic_blocks_addr_map[x]) : x \in Hits}
    BY <1>c DEF CoverageAddsUp
  <2>3. rows' = IF b = Invalid THEN rows ELSE rows \cup R(a, b)
    BY DEF Use
  <2> HIDE DEF R
  <2>2. UNION {R(x, basic_blocks_addr_map[x]) : x \in Hits} = UNION {R(x, basic_blocks_addr_map'[x]) : x \in Hits}
    BY <1>e
  <2>4. rows' = UNION {R(x, basic_blocks_addr_map'[x]) : x \in Hits'}
    BY <2>1, <2>2, <2>3, <1>h, <1>r
  <2> QED
    BY <2>4 DEF R
<1>8. CoverageAddsUp'
  BY <1>4, <1>5, <1>6, <1>7 DEF CoverageAddsUp
<1> QED
  BY <1>1, <1>2, <1>3, <1>8 DEF BInv

LEMMA OthersKeep ==
  ASSUME BInv,
         UNCHANGED <<tables, covered_lines, basic_blocks_addr_map, counts, rows, convert>>
  PROVE  BInv'
<1>h. Hits' = Hits
  BY DEF Hits
<1>1. BlocksMerged'
  BY DEF BInv, BlocksMerged, tables
<1>2. BlocksOK'
  BY <1>h DEF BInv, BlocksOK, tables
<1>3. MapOK'
  BY DEF BInv, MapOK, counts
<1>4. CoverageAddsUp'
  BY <1>h DEF BInv, CoverageAddsUp, tables, counts
<1> QED
  BY <1>1, <1>2, <1>3, <1>4 DEF BInv

LEMMA BbStep == BInv /\ [BbNext]_bb_vars => BInv'
<1> SUFFICES ASSUME BInv, [BbNext]_bb_vars PROVE BInv'
  OBVIOUS
<1>1. CASE ReadFunction
  BY <1>1, OthersKeep DEF ReadFunction
<1>2. CASE ReadLines
  BY <1>2, ReadLinesKeeps
<1>3. CASE EndOfGcno
  BY <1>3, OthersKeep DEF EndOfGcno
<1>4. ASSUME NEW a \in Addresses, FoundAgain(a) \/ FileIsNull(a) \/ Lookup(a) PROVE BInv'
  BY <1>4, FoundAgainKeeps, FileIsNullKeeps, LookupKeeps
<1>5. CASE Report_bb
  BY <1>5, OthersKeep DEF Report_bb
<1>6. CASE UNCHANGED bb_vars
  BY <1>6, OthersKeep DEF bb_vars, tables, counts
<1> QED
  BY <1>1, <1>2, <1>3, <1>4, <1>5, <1>6 DEF BbNext

(* Whatever blocks the .gcno files hold and in whatever order they are read,  *)
(* read_graph_file ends with one block per start line and file, and it has    *)
(* the lines of all blocks read with that start.                              *)
THEOREM BbBlocksMerged == BbSpec => []BlocksMerged
<1>1. BInv => BlocksMerged
  BY DEF BInv
<1> QED
  BY BbInitially, BbStep, <1>1, PTL DEF BbSpec

(* For every set of blocks and every list of addresses: covered lines are     *)
(* coverable, they are those of the blocks found, and the counters that       *)
(* get_basic_block and determine_coverage print add up.                       *)
THEOREM BbCoverageAddsUp == BbSpec => []CoverageAddsUp
<1>1. BInv => CoverageAddsUp
  BY DEF BInv
<1> QED
  BY BbInitially, BbStep, <1>1, PTL DEF BbSpec
=============================================================================
