------------------------------- MODULE GcovIO -------------------------------
(* The buffered reader of .gcno files (coverage/bb2lines/gcov-io.cpp).  The  *)
(* file is a row of words; a word is named by its position.                  *)
EXTENDS Integers, Sequences

CONSTANTS
  FileLength,    \* words in the file
  BlockSize,     \* GCOV_BLOCK_SIZE
  MaxWords,      \* bound on the length of a string
  MaxReads       \* bound on the calls

ASSUME GcovAssumption == {FileLength, BlockSize, MaxWords, MaxReads} \subseteq Nat

VARIABLES
  gcov_var,      \* [mode, start, offset, length, alloc, buffer, overread]
  position,      \* of the FILE: words read or skipped by fseek
  result,        \* words the last read returned, <<>> for NULL
  asked,         \* history: position and number of words of the last read, and
                 \* whether one before it went beyond the end of the file
  reads

gcov_vars == <<gcov_var, position, result, asked, reads>>

Closed_gcov == [mode |-> 0, start |-> 0, offset |-> 0, length |-> 0, alloc |-> 0, buffer |-> <<>>,
                overread |-> FALSE]

Nothing == [at |-> 0, words |-> 0, overread |-> FALSE]

GcovOff == gcov_var = Closed_gcov /\ position = 0 /\ result = <<>> /\ asked = Nothing /\ reads = -1
GcovInit == gcov_var = Closed_gcov /\ position = 0 /\ result = <<>> /\ asked = Nothing /\ reads = 0

Called_gcov == reads \in 0 .. MaxReads - 1 /\ reads' = reads + 1

gcov_open ==
  /\ Called_gcov /\ gcov_var.mode = 0
  /\ gcov_var' = [Closed_gcov EXCEPT !.mode = 1]
  /\ position' = 0 /\ result' = <<>> /\ asked' = Nothing

(* Words from..from+n-1 of the file, cut off at its end.                     *)
fread(from, n) == [i \in 1 .. IF from + n <= FileLength THEN n ELSE IF from < FileLength THEN FileLength - from ELSE 0
                     |-> from + i - 1]

gcov_allocate(alloc, length) == ((IF alloc = 0 THEN BlockSize ELSE alloc) + length) * 2

(* The words left in the buffer move to its front and the rest is filled.    *)
ForgetsStart(v, left) == v.start               \* mutant
StartAfterMove(v, left) == v.start + v.offset

Refilled(v, words) ==
  LET left == SubSeq(v.buffer, v.offset + 1, v.length)
      need == Len(left) + words
      alloc == IF need > v.alloc THEN gcov_allocate(v.alloc, need) ELSE v.alloc
      new == left \o fread(position, alloc - Len(left))
  IN [v EXCEPT !.start = StartAfterMove(v, left), !.offset = 0, !.alloc = alloc,
               !.buffer = IF Len(new) < words THEN <<>> ELSE new,
               !.length = IF Len(new) < words THEN 0 ELSE Len(new),
               !.overread = @ \/ Len(new) < words]

gcov_read_words(words) ==
  LET v == gcov_var
      refill == v.length - v.offset < words
      w == IF refill THEN Refilled(v, words) ELSE v
      enough == w.length - w.offset >= words
  IN
  /\ Called_gcov /\ v.mode > 0
  /\ gcov_var' = IF enough THEN [w EXCEPT !.offset = @ + words] ELSE w
  /\ result' = IF enough THEN SubSeq(w.buffer, w.offset + 1, w.offset + words) ELSE <<>>
  /\ position' = IF refill THEN position + Len(fread(position, w.alloc - (v.length - v.offset))) ELSE position
  /\ asked' = [at |-> v.start + v.offset, words |-> words, overread |-> v.overread]

(* Forward within the buffer, else fseek; base - start is unsigned.          *)
gcov_sync(base) ==
  LET v == gcov_var IN
  /\ Called_gcov /\ v.mode > 0
  /\ IF base >= v.start /\ base - v.start <= v.length
     THEN gcov_var' = [v EXCEPT !.offset = base - v.start] /\ UNCHANGED position
     ELSE gcov_var' = [v EXCEPT !.offset = 0, !.length = 0, !.buffer = <<>>, !.start = base] /\ position' = base
  /\ result' = <<>> /\ asked' = [Nothing EXCEPT !.at = base]

gcov_close ==
  /\ Called_gcov /\ gcov_var.mode > 0
  /\ gcov_var' = Closed_gcov
  /\ result' = <<>> /\ asked' = Nothing
  /\ UNCHANGED position

GcovNext ==
  \/ gcov_open \/ gcov_close
  \/ \E words \in 1 .. MaxWords : gcov_read_words(words)
  \/ \E base \in 0 .. FileLength + 1 : gcov_sync(base)

GcovSpec == GcovInit /\ [][GcovNext]_gcov_vars

----------------------------------------------------------------------------
(* Buffering shows in no result: a read returns the words of the file at the *)
(* position the reader reports, after any refills and seeks, and fails only  *)
(* at the end of the file or after an earlier read went beyond it.           *)
ReadsTheFile ==
  /\ result # <<>> => /\ result = [i \in 1 .. asked.words |-> asked.at + i - 1]
                      /\ asked.at + asked.words <= FileLength
  /\ result = <<>> /\ asked.words > 0 => asked.at + asked.words > FileLength \/ asked.overread
=============================================================================
