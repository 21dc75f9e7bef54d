------------------------------ MODULE Bb2lines ------------------------------
(* bb2lines (coverage/bb2lines/main.cpp): reads the basic blocks of .gcno    *)
(* files, looks up the block of every address on stdin and either converts   *)
(* the addresses to lines or sums up the coverage per file.                  *)
(* A basic block is its first file and line, all its files and its lines;    *)
(* file names are written without the prefix that main adds on one side of   *)
(* every comparison.                                                         *)
EXTENDS Integers, FiniteSets

CONSTANTS
  Blocks,        \* basic blocks in the .gcno files: [file, start, files, lines]
  Addresses,     \* addresses on stdin
  addr_to_line,  \* what libbfd finds for an address: [file, line] or NoFile
  NoFile,
  Searched,      \* files that match the regular expression of -e
  Invalid,       \* the block with is_valid = false
  MaxRecords,    \* bound on the records in the .gcno files
  MaxInput       \* bound on the lines on stdin

(* The lines of a block are pairs of a file and a number; every line belongs *)
(* to one of the block's source_lines.                                       *)
ASSUME BbAssumption ==
  /\ \A b \in Blocks : /\ b = [file |-> b.file, start |-> b.start, files |-> b.files, lines |-> b.lines]
                        /\ \A l \in b.lines : l[1] \in b.files
  /\ {MaxRecords, MaxInput} \subseteq Nat

VARIABLES
  bb_phase,
  fn,            \* a function record was read and its blocks may follow
  records,       \* records read so far
  basic_blocks_map, coverable_lines, covered_lines, covered_files,
  basic_blocks_addr_map,   \* block found for an address, Invalid if none
  input_addr_count, unique_input_addr_count, not_found_count, null_count,
  rows,          \* lines printed with --convert
  convert,
  read           \* history: the blocks that were read

bb_vars == <<bb_phase, fn, records, basic_blocks_map, coverable_lines, covered_lines, covered_files,
             basic_blocks_addr_map, input_addr_count, unique_input_addr_count, not_found_count, null_count,
             rows, convert, read>>
counts == <<input_addr_count, unique_input_addr_count, not_found_count, null_count>>
tables == <<basic_blocks_map, coverable_lines, covered_files, read>>

BbStart ==
  /\ fn = FALSE /\ records = 0
  /\ basic_blocks_map = {} /\ coverable_lines = {} /\ covered_lines = {} /\ covered_files = {}
  /\ basic_blocks_addr_map = <<>>
  /\ input_addr_count = 0 /\ unique_input_addr_count = 0 /\ not_found_count = 0 /\ null_count = 0
  /\ rows = {} /\ read = {}

BbOff == bb_phase = "off" /\ convert = FALSE /\ BbStart
BbInit == bb_phase = "gcno" /\ convert \in BOOLEAN /\ BbStart

----------------------------------------------------------------------------
(* read_graph_file.                                                         *)

Record == bb_phase = "gcno" /\ records < MaxRecords /\ records' = records + 1

(* A function record, or any other: a record without names and one that is   *)
(* no part of the function end the function, a subtag leaves it.             *)
ReadFunction ==
  /\ Record
  /\ fn' \in BOOLEAN
  /\ UNCHANGED <<bb_phase, tables, covered_lines, basic_blocks_addr_map, counts, rows, convert>>

(* Blocks of one file are ordered by their start lines: equal starts are one *)
(* block with the lines of both.                                             *)
SameBlock(b, c) == b.file = c.file /\ b.start = c.start

NotMerged(b) == b                              \* mutant: the old lines are lost
Merged(b) ==
  LET old == {c \in basic_blocks_map : SameBlock(b, c)} IN
  [b EXCEPT !.files = UNION {c.files : c \in old \cup {b}}, !.lines = UNION {c.lines : c \in old \cup {b}}]

FirstFileOnly(b) == {l \in b.lines : l[1] = b.file}      \* mutant
LinesOf(b) == b.lines

ReadLines ==
  /\ Record /\ fn
  /\ \E b \in Blocks :
       /\ basic_blocks_map' = {c \in basic_blocks_map : ~SameBlock(b, c)} \cup {Merged(b)}
       /\ coverable_lines' = coverable_lines \cup LinesOf(b)
       /\ covered_files' = covered_files \cup b.files
       /\ read' = read \cup {b}
  /\ UNCHANGED <<bb_phase, fn, covered_lines, basic_blocks_addr_map, counts, rows, convert>>

(* The end of a file, also of a corrupt one; the next one begins anew.       *)
EndOfGcno ==
  /\ bb_phase = "gcno"
  /\ fn' = FALSE
  /\ bb_phase' \in IF fn THEN {"gcno", "stdin"} ELSE {"stdin"}
  /\ UNCHANGED <<records, tables, covered_lines, basic_blocks_addr_map, counts, rows, convert>>

----------------------------------------------------------------------------
(* get_basic_block.                                                         *)

InFile(f) == {b \in basic_blocks_map : b.file = f}

(* The last block that starts at or before the line.                         *)
StartsBelow(file, line) ==
  {b \in InFile(file) : b.start <= line /\ \A c \in InFile(file) : c.start <= line => c.start <= b.start}

(* Any block that has the line; the files are searched in no fixed order.    *)
find_line_and_file_in_bb_map(file, line) == {b \in basic_blocks_map : <<file, line>> \in b.lines}

(* A line before all blocks of its file is looked for everywhere, and so is  *)
(* every line of a file that the regular expression selects.                 *)
Candidates(a) ==
  LET at == addr_to_line[a] IN
  IF StartsBelow(at.file, at.line) # {} THEN StartsBelow(at.file, at.line)
  ELSE IF InFile(at.file) # {} \/ at.file \in Searched THEN find_line_and_file_in_bb_map(at.file, at.line)
  ELSE {}

(* What the two modes do with a block that was found.                        *)
Use(a, b) ==
  /\ covered_lines' = IF convert \/ b = Invalid THEN covered_lines ELSE covered_lines \cup b.lines
  /\ rows' = IF convert /\ b # Invalid THEN rows \cup {<<a, l>> : l \in b.lines} ELSE rows

Input == bb_phase = "stdin" /\ input_addr_count < MaxInput /\ input_addr_count' = input_addr_count + 1

FoundAgain(a) ==
  /\ Input /\ a \in DOMAIN basic_blocks_addr_map
  /\ Use(a, basic_blocks_addr_map[a])
  /\ UNCHANGED <<bb_phase, fn, records, tables, basic_blocks_addr_map, unique_input_addr_count,
                 not_found_count, null_count, convert>>

(* Not remembered: the same address is counted again the next time.          *)
FileIsNull(a) ==
  /\ Input /\ a \notin DOMAIN basic_blocks_addr_map /\ addr_to_line[a] = NoFile
  /\ unique_input_addr_count' = unique_input_addr_count + 1
  /\ null_count' = null_count + 1
  /\ not_found_count' = not_found_count + 1
  /\ UNCHANGED <<bb_phase, fn, records, tables, covered_lines, basic_blocks_addr_map, rows, convert>>

Remember(a, b) ==
  basic_blocks_addr_map' = [x \in DOMAIN basic_blocks_addr_map \cup {a} |->
                              IF x = a THEN b ELSE basic_blocks_addr_map[x]]

Lookup(a) ==
  /\ Input /\ a \notin DOMAIN basic_blocks_addr_map /\ addr_to_line[a] # NoFile
  /\ unique_input_addr_count' = unique_input_addr_count + 1
  /\ \E b \in IF Candidates(a) = {} THEN {Invalid} ELSE Candidates(a) :
       /\ Remember(a, b)
       /\ Use(a, b)
       /\ not_found_count' = IF b = Invalid THEN not_found_count + 1 ELSE not_found_count
  /\ UNCHANGED <<bb_phase, fn, records, tables, null_count, convert>>

(* determine_coverage prints the files of covered_lines with both counts.    *)
Report_bb ==
  /\ bb_phase = "stdin"
  /\ bb_phase' = "done"
  /\ UNCHANGED <<fn, records, tables, covered_lines, basic_blocks_addr_map, counts, rows, convert>>

BbNext ==
  \/ ReadFunction \/ ReadLines \/ EndOfGcno
  \/ \E a \in Addresses : FoundAgain(a) \/ FileIsNull(a) \/ Lookup(a)
  \/ Report_bb

BbSpec == BbInit /\ [][BbNext]_bb_vars

----------------------------------------------------------------------------
(* The order and the number of .gcno files do not matter: a file has one     *)
(* block per start line and it has the lines of all blocks read with it.     *)
BlocksMerged ==
  /\ \A b \in read : \E c \in basic_blocks_map : SameBlock(b, c)
  /\ \A b, c \in basic_blocks_map : SameBlock(b, c) => b = c
  /\ \A c \in basic_blocks_map : c.lines = UNION {b.lines : b \in {x \in read : SameBlock(x, c)}}

Hits == {a \in DOMAIN basic_blocks_addr_map : basic_blocks_addr_map[a] # Invalid}

(* No percentage above 100: what is covered is coverable, in a file that is  *)
(* listed, and is what the addresses found so far stand for, however often   *)
(* each was seen; the counters of the summary add up.                        *)
CoverageAddsUp ==
  /\ covered_lines \subseteq coverable_lines
  /\ \A l \in covered_lines : l[1] \in covered_files
  /\ ~convert => covered_lines = UNION {basic_blocks_addr_map[a].lines : a \in Hits}
  /\ convert => rows = UNION {{<<a, l>> : l \in basic_blocks_addr_map[a].lines} : a \in Hits}
  /\ unique_input_addr_count = Cardinality(DOMAIN basic_blocks_addr_map) + null_count
  /\ not_found_count = Cardinality(DOMAIN basic_blocks_addr_map \ Hits) + null_count
  /\ unique_input_addr_count <= input_addr_count
=============================================================================
