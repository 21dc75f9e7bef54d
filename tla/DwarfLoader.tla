---------------------------- MODULE DwarfLoader ----------------------------
(* The loader of debug information (convert/dwarves/dwarf_loader.c and the   *)
(* tables of dwarves.c), for units of C code.  A first pass makes a tag of   *)
(* every DIE, children first, and enters it in a table; its number there is  *)
(* its id.  A second pass walks the tables and replaces the references       *)
(* between DIEs by ids; for a bitfield it looks for, or makes, types of the  *)
(* width of the bitfield.  Memory is never short.  Left out is what C units  *)
(* do not have: namespaces, imported and template DIEs, specifications,      *)
(* pointers to members, type units; bitfields are of integers or             *)
(* enumerations.                                                             *)
EXTENDS Integers, Sequences, FiniteSets, FiniteSetsExt, SequencesExt, TLC

CONSTANTS
  Die,      \* the DIEs of the file, [tag, parent, name, type, ...], see MC module
  Units     \* for every unit, the orders its DIEs without parent may have

VARIABLES
  phase,    \* "unit", "dies", "types", "tags", "functions", "finalize", "loaded"
  work,     \* "dies": the DIEs to come, each before its parent
  pos,      \* the other phases: index into the table
  cu,       \* the unit: tags (obj), tables, ids (small)
  cus       \* the units loaded

loader_vars == <<phase, work, pos, cu, cus>>

(* Op over a sequence from the left.                                         *)
Through(Op(_, _), base, seq) ==
  LET f[i \in 0 .. Len(seq)] == IF i = 0 THEN base ELSE Op(f[i - 1], seq[i]) IN f[Len(seq)]
Concat(seqs) == Through(LAMBDA a, b : a \o b, <<>>, seqs)

NoName == ""
Dies == 1 .. Len(Die)
tag__is_type(t) == t \in {"union", "structure", "typedef", "enumeration"}
tag__has_namespace(t) == t \in {"structure", "union", "enumeration"}
tag__is_tag_type(t) == tag__is_type(t) \/ t \in {"array", "base", "const", "pointer", "subroutine", "volatile"}

Kids == [d \in Dies |-> SelectSeq([i \in Dies |-> i], LAMBDA c : Die[c].parent = d)]
Above(d) == IF Die[d].parent = 0 THEN "unit" ELSE Die[Die[d].parent].tag

----------------------------------------------------------------------------
(* The tags.                                                                 *)
tag__init(d) ==
  [die |-> d, tag |-> Die[d].tag, name |-> NoName, type |-> 0, size |-> 0, bits |-> 0, off |-> 0,
   static |-> FALSE, decl |-> FALSE, count |-> <<>>, addr |-> 0, bytes |-> 0]

Named(d) == [tag__init(d) EXCEPT !.name = Die[d].name]
base_type__new(d) == [Named(d) EXCEPT !.bits = Die[d].size * 8]
type__init(d) == [Named(d) EXCEPT !.size = Die[d].size, !.decl = Die[d].decl]
lexblock__init(d, new) == [new EXCEPT !.addr = Die[d].addr, !.size = Die[d].len]
variable__new(d) == [Named(d) EXCEPT !.decl = Die[d].decl, !.addr = IF Die[d].decl THEN 0 ELSE Die[d].addr]
parameter__new(d) == Named(d)
label__new(d) == [Named(d) EXCEPT !.addr = Die[d].addr]
inline_expansion__new(d) == [tag__init(d) EXCEPT !.addr = Die[d].addr, !.size = Die[d].len]
function__new(d) == lexblock__init(d, Named(d))

(* Sizes of enumerations are in bits, 32 without a size.                     *)
die__create_new_enumeration(d) ==
  [type__init(d) EXCEPT !.bits = IF Die[d].size = 0 THEN 32 ELSE Die[d].size * 8]

(* A subrange is its number of elements, 0 without a bound.                  *)
die__create_new_array(d) ==
  [tag__init(d) EXCEPT !.count = [i \in DOMAIN Kids[d] |-> Die[Kids[d][i]].count]]

(* A member without a location is static, except in a union.                 *)
class_member__new(d) ==
  [Named(d) EXCEPT !.static = Above(d) # "union" /\ Die[d].off = -1,
                   !.off = IF Die[d].off = -1 THEN 0 ELSE Die[d].off, !.bits = Die[d].bits]

NewTag(d) ==
  CASE Die[d].tag = "base" -> base_type__new(d)
    [] Die[d].tag \in {"structure", "union", "typedef"} -> type__init(d)
    [] Die[d].tag = "enumeration" -> die__create_new_enumeration(d)
    [] Die[d].tag = "array" -> die__create_new_array(d)
    [] Die[d].tag = "member" -> class_member__new(d)
    [] Die[d].tag = "variable" -> variable__new(d)
    [] Die[d].tag = "formal_parameter" -> parameter__new(d)
    [] Die[d].tag = "label" -> label__new(d)
    [] Die[d].tag = "inlined" -> inline_expansion__new(d)
    [] Die[d].tag = "subprogram" -> function__new(d)
    [] OTHER -> tag__init(d)

----------------------------------------------------------------------------
(* Pass one.                                                                 *)
cu__new == [obj |-> <<>>, types |-> <<0>>, tags |-> <<>>, functions |-> <<>>, small |-> <<>>]

(* The DIEs below d that the loader looks at one by one, d last.             *)
PostOrder[d \in Dies] ==
  IF Die[d].tag \in {"structure", "union", "subprogram", "subroutine", "inlined", "lexical_block"}
  THEN Concat([i \in DOMAIN Kids[d] |-> PostOrder[Kids[d][i]]]) \o <<d>>
  ELSE <<d>>

TableOf(t) == IF tag__is_tag_type(t) THEN "types" ELSE IF t = "subprogram" THEN "functions" ELSE "tags"

Put(f, k, v) == (k :> v) @@ f

(* Appends a tag to its table; the id is a uint16.                           *)
cu__table_add_tag(c, k, new) ==
  LET pt == TableOf(new.tag) IN
  [c EXCEPT !.obj = Put(@, k, new), ![pt] = Append(@, k), !.small = Put(@, k, Len(c[pt]) % 65536)]

(* These DIEs leave no tag: tags that are not supported (with a message),    *)
(* the parameters of an inlined function, what only sets a flag.             *)
Ignored(d) ==
  \/ Die[d].tag \in {"call_site", "restrict", "unspecified_parameters"}
  \/ Die[d].tag = "formal_parameter" /\ Above(d) = "inlined"

ThisDie == phase = "dies" /\ work # <<>> /\ work' = Tail(work)
Same == UNCHANGED <<phase, pos, cus>>

die__process_unit ==
  /\ phase = "unit" /\ Len(cus) < Len(Units)
  /\ \E order \in Units[Len(cus) + 1] :
       work' = Concat([i \in DOMAIN order |-> PostOrder[order[i]]])
  /\ phase' = "dies" /\ cu' = cu__new
  /\ UNCHANGED <<pos, cus>>

die__process_tag ==
  /\ ThisDie /\ ~Ignored(Head(work)) /\ Die[Head(work)].tag \notin {"member", "lexical_block"}
  /\ cu' = cu__table_add_tag(cu, Head(work), NewTag(Head(work)))
  /\ Same

(* A member of a C structure has no table, a block no table and no hash.     *)
die__process_class ==
  /\ ThisDie /\ Die[Head(work)].tag = "member"
  /\ cu' = [cu EXCEPT !.obj = Put(@, Head(work), NewTag(Head(work)))]
  /\ Same

cu__tag_not_handled ==
  /\ ThisDie /\ (Ignored(Head(work)) \/ Die[Head(work)].tag = "lexical_block")
  /\ UNCHANGED cu /\ Same

die__process ==
  /\ phase = "dies" /\ work = <<>>
  /\ phase' = "types" /\ pos' = 1
  /\ UNCHANGED <<work, cu, cus>>

----------------------------------------------------------------------------
(* Pass two: references.                                                     *)
NotFound == -1
hashtags__find(c, d, types) ==
  IF d \in DOMAIN c.small /\ (tag__is_tag_type(Die[d].tag) <=> types) THEN c.small[d] ELSE NotFound
dwarf_cu__find_type_by_ref(c, d) == hashtags__find(c, d, TRUE)
dwarf_cu__find_tag_by_ref(c, d) == hashtags__find(c, d, FALSE)

(* The type of k is the tag that DIE d became, if it is found.               *)
Typed(c, k, id) == IF id = NotFound THEN c ELSE [c EXCEPT !.obj[k].type = id]

(* The ids of the types in the table with the tag, name and width of a type. *)
SizedAnyWidth(c, t, bits) ==      \* mutant
  {i \in 2 .. Len(c.types) : c.obj[c.types[i]].tag = t.tag /\ t.name # NoName /\ c.obj[c.types[i]].name = t.name}
Sized(c, t, bits) ==
  {i \in 2 .. Len(c.types) : c.obj[c.types[i]].tag = t.tag /\ t.name # NoName /\ c.obj[c.types[i]].name = t.name
                             /\ c.obj[c.types[i]].bits = bits}

(* A tag made for a bitfield has no DIE.                                     *)
Recoded(c, new) ==
  LET k == Len(Die) + Len(c.types) IN
  [c |-> [c EXCEPT !.obj = Put(@, k, [new EXCEPT !.die = 0]), !.types = Append(@, k)], id |-> Len(c.types)]

(* [c, id]: the unit and the id of type k narrowed to so many bits.  Through *)
(* a typedef or qualifier it narrows the type below, and makes a typedef or  *)
(* qualifier (volatile in any case) for it, unless that is the same already. *)
RECURSIVE tag__recode_dwarf_bitfield(_, _, _)
tag__recode_dwarf_bitfield(c, k, bits) ==
  LET t == c.obj[k] IN
  IF t.tag \in {"typedef", "const", "volatile"}
  THEN LET r == tag__recode_dwarf_bitfield(c, Die[k].type, bits) IN
       IF r.id = t.type THEN r
       ELSE Recoded(r.c, [tag__init(k) EXCEPT !.tag = IF t.tag = "typedef" THEN @ ELSE "volatile",
                                              !.type = r.id, !.name = t.name])
  ELSE IF Sized(c, t, bits) # {} THEN [c |-> c, id |-> Min(Sized(c, t, bits)) - 1]
       ELSE Recoded(c, [tag__init(k) EXCEPT !.name = t.name, !.bits = bits])

class_member__dwarf_recode_bitfield(c, m) ==
  LET r == tag__recode_dwarf_bitfield(c, Die[m].type, c.obj[m].bits) IN Typed(r.c, m, r.id)

----------------------------------------------------------------------------
(* The parameters of function or subroutine type f: one without a type has   *)
(* the name and type that its abstract origin has by now.                    *)
OriginFound(c, k) == dwarf_cu__find_tag_by_ref(c, Die[k].origin) # NotFound
OriginName(c, k) == IF OriginFound(c, k) THEN [c EXCEPT !.obj[k].name = c.obj[Die[k].origin].name] ELSE c
FromOrigin(c, k) ==
  IF OriginFound(c, k) THEN [OriginName(c, k) EXCEPT !.obj[k].type = c.obj[Die[k].origin].type] ELSE c

OneParameter(c, k) ==
  IF Die[k].type # 0 THEN Typed(c, k, dwarf_cu__find_type_by_ref(c, Die[k].type))
  ELSE IF Die[k].origin = 0 THEN [c EXCEPT !.obj[k].type = 0] ELSE FromOrigin(c, k)

ftype__recode_dwarf_types(c, f) ==
  Through(OneParameter, c, SelectSeq(Kids[f], LAMBDA k : Die[k].tag = "formal_parameter"))

(* What an inlined call puts in the block around it.                         *)
RECURSIVE InlineTags(_)
InlineTags(i) ==
  Concat([j \in DOMAIN Kids[i] |->
    LET k == Kids[i][j] IN
    CASE Die[k].tag \in {"label", "lexical_block"} -> <<k>>
      [] Die[k].tag = "inlined" -> InlineTags(k) \o <<k>>
      [] OTHER -> <<>>])

LexTags(b) ==
  Concat([j \in DOMAIN Kids[b] |->
    LET k == Kids[b][j] IN
    CASE Die[k].tag \in {"variable", "label", "lexical_block"} -> <<k>>
      [] Die[k].tag = "formal_parameter" /\ Die[b].tag = "lexical_block" -> <<k>>
      [] Die[k].tag = "inlined" -> InlineTags(k) \o <<k>>
      [] OTHER -> <<>>])

RECURSIVE lexblock__recode_dwarf_types(_, _)
lexblock__recode_dwarf_types(c, b) ==
  Through(LAMBDA u, k :
    CASE Die[k].tag = "lexical_block" -> lexblock__recode_dwarf_types(u, k)
      [] Die[k].tag = "inlined" -> IF dwarf_cu__find_tag_by_ref(u, Die[k].origin) = NotFound THEN u
                                   ELSE ftype__recode_dwarf_types(u, Die[k].origin)
      [] Die[k].tag = "label" -> IF Die[k].origin = 0 THEN u ELSE OriginName(u, k)
      [] Die[k].type # 0 -> Typed(u, k, dwarf_cu__find_type_by_ref(u, Die[k].type))
      [] OTHER -> IF Die[k].origin = 0 THEN u ELSE FromOrigin(u, k),
    c, LexTags(b))

(* The members of a structure or union, and of those inside.                 *)
RECURSIVE namespace__recode_dwarf_types(_, _)
namespace__recode_dwarf_types(c, s) ==
  Through(LAMBDA u, k :
    CASE tag__has_namespace(Die[k].tag) -> namespace__recode_dwarf_types(u, k)
      [] Die[k].tag = "member" /\ u.obj[k].bits # 0 -> class_member__dwarf_recode_bitfield(u, k)
      [] Die[k].type = 0 -> u
      [] OTHER -> Typed(u, k, dwarf_cu__find_type_by_ref(u, Die[k].type)),
    c, IF Die[s].tag = "enumeration" THEN <<>> ELSE Kids[s])

----------------------------------------------------------------------------
(* A function without a name has that of its abstract origin.                *)
NameFound(c, k) == IF c.obj[k].name = NoName THEN OriginName(c, k) ELSE c

OwnType(c, k) ==
  CASE Die[k].tag = "inlined" -> Typed(c, k, dwarf_cu__find_tag_by_ref(c, Die[k].origin))
    [] Die[k].tag # "inlined" /\ Die[k].type = 0 -> [c EXCEPT !.obj[k].type = 0]
    [] OTHER -> Typed(c, k, dwarf_cu__find_type_by_ref(c, Die[k].type))

(* A function without name and origin is left alone.                         *)
tag__recode_dwarf_type(c, k) ==
  CASE k = 0 -> c
    [] k # 0 /\ c.obj[k].die = 0 -> c
    [] k \in Dies /\ tag__has_namespace(Die[k].tag) -> namespace__recode_dwarf_types(c, k)
    [] k \in Dies /\ Die[k].tag = "subprogram" ->
         IF Die[k].name = NoName /\ Die[k].origin = 0 THEN c
         ELSE OwnType(ftype__recode_dwarf_types(lexblock__recode_dwarf_types(NameFound(c, k), k), k), k)
    [] k \in Dies /\ Die[k].tag = "subroutine" -> OwnType(ftype__recode_dwarf_types(c, k), k)
    [] OTHER -> OwnType(c, k)

(* The tables, one after the other; mutant: functions before tags.           *)
FunctionsFirst(p) == CASE p = "types" -> "functions" [] p = "functions" -> "tags" [] p = "tags" -> "finalize"
cu__recode_dwarf_types(p) == CASE p = "types" -> "tags" [] p = "tags" -> "functions" [] p = "functions" -> "finalize"

cu__recode_dwarf_types_table ==
  /\ phase \in {"types", "tags", "functions"}
  /\ IF pos < Len(cu[phase])
     THEN cu' = tag__recode_dwarf_type(cu, cu[phase][pos + 1]) /\ pos' = pos + 1 /\ UNCHANGED phase
     ELSE phase' = cu__recode_dwarf_types(phase) /\ pos' = 0 /\ UNCHANGED cu
  /\ UNCHANGED <<work, cus>>
=============================================================================
