--------------------------- MODULE DwarvesTables ---------------------------
(* The containers of dwarves: the list of strings (dutil.c), the functions   *)
(* of a unit by address (dwarves.c) and the interned strings (strings.c,     *)
(* gobuffer.c).                                                              *)
EXTENDS Rbtree, FiniteSets, FiniteSetsExt, SequencesExt

CONSTANTS
  Strings,       \* strings for a strlist; a node is named after its string
  ListFiles,         \* sequences of strings, the lines of a file
  Functions,     \* functions of a unit, from 1
  FunctionAt,    \* [addr, size] of a function
  Names,         \* strings to intern
  LengthOf,      \* length of a name with its final 0
  Chunk          \* GOBUFFER__BCHUNK

VARIABLES
  user,          \* "strlist", "functions", "strings" or "off": who works
  tree,          \* the red-black tree
  gb             \* the buffer: [index, allocated, entries]

tables_vars == <<user, tree, gb>>

EmptyBuffer == [index |-> 1, allocated |-> 0, entries |-> <<>>]
TablesStart == tree = RB_ROOT /\ gb = EmptyBuffer
TablesOff == user = "off" /\ TablesStart
TablesInit == user \in {"strlist", "functions", "strings"} /\ TablesStart

By(u) == user = u /\ UNCHANGED user

----------------------------------------------------------------------------
(* Where the search for a new node ends, [parent, side]; way[n] is the side  *)
(* it turns to at node n.                                                    *)
RECURSIVE Descent(_, _, _, _)
Descent(t, p, d, way) ==
  LET at == IF p = NIL THEN t.root ELSE t.child[p][d] IN
  IF at = NIL THEN [parent |-> p, side |-> d] ELSE Descent(t, at, way[at], way)

Inserted(t, n, way) ==
  LET end == Descent(t, NIL, "left", way) IN rb_insert_color(rb_link_node(t, n, end.parent, end.side), n)

(* The search ends at the string itself: -EEXIST.                            *)
strlist__has_entry(t, s) ==
  LET Reach[k \in 0 .. Cardinality(InTree(t))] ==
        IF k = 0 THEN t.root
        ELSE LET n == Reach[k - 1] IN
             IF n \in {NIL, s} THEN n ELSE t.child[n][IF s < n THEN "left" ELSE "right"]
  IN t.root # NIL /\ Reach[Cardinality(InTree(t))] = s

WithString(t, s) == Inserted(t, s, [n \in InTree(t) |-> IF s < n THEN "left" ELSE "right"])

(* The string is there already, or there is no memory: nothing happens.      *)
strlist__add(s) ==
  /\ By("strlist")
  /\ \/ strlist__has_entry(tree, s) /\ UNCHANGED tree
     \/ ~strlist__has_entry(tree, s) /\ tree' = WithString(tree, s)
     \/ ~strlist__has_entry(tree, s) /\ UNCHANGED tree
  /\ UNCHANGED gb

(* The lines of a file, up to the first that is in the list.                 *)
RECURSIVE WithLines(_, _)
WithLines(t, lines) ==
  IF lines = <<>> \/ (lines # <<>> /\ strlist__has_entry(t, Head(lines))) THEN t
  ELSE WithLines(WithString(t, Head(lines)), Tail(lines))

strlist__load(lines) ==
  /\ By("strlist")
  /\ tree' = WithLines(tree, lines)
  /\ UNCHANGED gb

strlist__remove(s) ==
  /\ By("strlist") /\ s \in InTree(tree)
  /\ tree' = rb_erase(tree, s)
  /\ UNCHANGED gb

(* The strings that the deletion of a list releases from node n on: it looks *)
(* for the next one before it removes one, and the removal rebalances.       *)
RECURSIVE RemovedFrom(_, _)
RemovedFrom(t, n) == IF n = NIL THEN {} ELSE {n} \cup RemovedFrom(rb_erase(t, n), rb_neighbour(t, n, "right"))

strlist__delete ==
  /\ By("strlist") /\ tree' = RB_ROOT /\ UNCHANGED gb

(* Equal addresses go to the right.                                          *)
cu__insert_function(f) ==
  /\ By("functions") /\ f \notin InTree(tree)
  /\ tree' = Inserted(tree, f, [n \in InTree(tree) |-> IF FunctionAt[f].addr < FunctionAt[n].addr THEN "left" ELSE "right"])
  /\ UNCHANGED gb

RECURSIVE FunctionBelow(_, _, _)
FunctionBelow(t, n, addr) ==
  IF n = NIL THEN NIL
  ELSE IF addr < FunctionAt[n].addr THEN FunctionBelow(t, t.child[n]["left"], addr)
  ELSE IF addr >= FunctionAt[n].addr + FunctionAt[n].size THEN FunctionBelow(t, t.child[n]["right"], addr)
  ELSE n
cu__find_function_at_addr(t, addr) == FunctionBelow(t, t.root, addr)

----------------------------------------------------------------------------
(* strings__add: a name that is known keeps its index; a new one gets the    *)
(* place behind the last, in a buffer that grows by a chunk at least.        *)
Known(name) == {i \in DOMAIN gb.entries : gb.entries[i] = name}

GrownTooLate(g, index) == g.allocated          \* mutant
Grown(g, index) ==
  IF index < g.allocated THEN g.allocated
  ELSE IF g.allocated + Chunk < index THEN index + Chunk ELSE g.allocated + Chunk

gobuffer__add(name) ==
  LET index == gb.index + LengthOf[name] IN
  [index |-> index, allocated |-> Grown(gb, index), entries |-> With(gb.entries, gb.index, name)]

strings__add(name) ==
  /\ By("strings")
  /\ gb' = IF Known(name) # {} THEN gb ELSE gobuffer__add(name)
  /\ UNCHANGED tree

TablesNext ==
  \/ \E s \in Strings : strlist__add(s) \/ strlist__remove(s)
  \/ \E lines \in ListFiles : strlist__load(lines)
  \/ strlist__delete
  \/ \E f \in Functions : cu__insert_function(f)
  \/ \E name \in Names : strings__add(name)

----------------------------------------------------------------------------
Walk == WalkFrom(tree, rb_end(tree, "left"), "right")
Key(n) == IF user = "functions" THEN FunctionAt[n].addr ELSE n
Covers(f, addr) == FunctionAt[f].addr <= addr /\ addr < FunctionAt[f].addr + FunctionAt[f].size

(* After any insertions and removals the tree is a red-black tree, a walk in *)
(* either direction meets all its nodes in order (rb_first, rb_next, ...), a *)
(* deletion of the list releases all of them, and the searches find what is  *)
(* in it: a string, and the function at an address, also among the           *)
(* declarations, which all have address 0.                                   *)
TreeSound ==
  /\ IsRedBlack(tree)
  /\ Range(Walk) = InTree(tree) /\ Len(Walk) = Cardinality(InTree(tree))
  /\ \A i \in 1 .. Len(Walk) - 1 : Key(Walk[i]) <= Key(Walk[i + 1])
  /\ WalkFrom(tree, rb_end(tree, "right"), "left") = Reverse(Walk)
  /\ RemovedFrom(tree, rb_end(tree, "left")) = InTree(tree)
  /\ user = "strlist" => \A s \in Strings : strlist__has_entry(tree, s) <=> s \in InTree(tree)
  /\ user = "functions" =>
       \A addr \in 0 .. Max({FunctionAt[f].addr + FunctionAt[f].size : f \in Functions}) :
         LET f == cu__find_function_at_addr(tree, addr) IN
         IF f = NIL THEN \A g \in InTree(tree) : ~Covers(g, addr) ELSE Covers(f, addr)

(* A string has one index for good: the entries do not overlap, lie in the   *)
(* allocated memory, and hold different strings; index 0 stays free.         *)
StringsInterned ==
  /\ gb.entries # <<>> => gb.index <= gb.allocated
  /\ \A i \in DOMAIN gb.entries :
       /\ i > 0 /\ i + LengthOf[gb.entries[i]] <= gb.index
       /\ \A j \in DOMAIN gb.entries \ {i} :
            gb.entries[i] # gb.entries[j] /\ (i < j => i + LengthOf[gb.entries[i]] <= j)
=============================================================================
