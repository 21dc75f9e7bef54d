---------------------------- MODULE StructLayout ----------------------------
(* What convert takes from the debug information: sizes of members and holes *)
(* of structures (dwarf_loader.c, dwarves.c), and the rows of                *)
(* structs_layout.csv for the data types of interest (dwarves_fprintf.c,     *)
(* binaryread.cc, expand_type of convert.cc).  The strings of the rows are   *)
(* left out; a row is a member with its offset and size.                     *)
EXTENDS DwarfLoader

CONSTANTS
  DataTypes,       \* names of the data types, a sequence
  NameToSize,   \* bits of the base types known by name, 0 for those of a pointer
  AddrSize,     \* bytes of a pointer
  FakeSize      \* size given to a last member of no elements

VARIABLES
  looked,       \* units that extractStructDefs has been through
  layout        \* for a data type found: [unit, struct, rows]

layout_vars == <<looked, layout>>

Members == [s \in Dies |-> SelectSeq(Kids[s], LAMBDA k : Die[k].tag = "member")]
TypeOf(c, k) == c.types[c.obj[k].type + 1]

----------------------------------------------------------------------------
(* Sizes.                                                                    *)
Product(seq) == Through(LAMBDA a, b : a * b, 1, seq)

RECURSIVE tag__size(_, _)
tag__size(c, k) ==
  LET t == c.obj[k] IN
  CASE t.tag = "member" /\ t.static -> 0
    [] t.tag = "pointer" -> AddrSize
    [] t.tag \in {"base", "enumeration"} -> t.bits \div 8
    [] t.tag \in {"structure", "union"} -> IF t.size = 1 /\ Members[k] = <<>> THEN 0 ELSE t.size
    [] OTHER -> tag__size(c, TypeOf(c, k)) * Product(t.count)

(* The type below typedefs and qualifiers.                                   *)
RECURSIVE tag__follow_typedef(_, _)
tag__follow_typedef(c, k) ==
  IF c.obj[k].tag \in {"typedef", "const", "volatile"} THEN tag__follow_typedef(c, TypeOf(c, k)) ELSE k

base_type__name_to_size(t) ==
  IF t.name \notin DOMAIN NameToSize THEN 0
  ELSE IF NameToSize[t.name] = 0 THEN AddrSize * 8 ELSE NameToSize[t.name]

(* The type of a bitfield is as narrow as the bitfield: its storage is that  *)
(* of an int for every enumeration, for a base type what its name says.      *)
class_member__cache_byte_size(c, m) ==
  LET t == c.obj[tag__follow_typedef(c, TypeOf(c, m))] IN
  IF c.obj[m].bits = 0 \/ c.obj[m].static THEN tag__size(c, m)
  ELSE (IF t.tag = "enumeration" THEN 32 ELSE base_type__name_to_size(t)) \div 8

Cached(c) ==
  [c EXCEPT !.obj = [k \in DOMAIN @ |->
     IF @[k].tag = "member" THEN [@[k] EXCEPT !.bytes = class_member__cache_byte_size(c, k)] ELSE @[k]]]

----------------------------------------------------------------------------
(* Holes.  The walk keeps the last member, the size that counts for it, the  *)
(* bits of the bitfields since the last hole, and where a bitfield that      *)
(* began inside its predecessor really began.                                *)
HoleStart == [last |-> 0, size |-> 0, sum |-> 0, real |-> 0, hole |-> <<>>, bithole |-> <<>>]

(* Mutant: the offset of the last member only.                               *)
EndsAtOnce(o, m, a) == o[m].bytes
LastSize(o, m, a) ==
  IF a.last = 0 THEN o[m].bytes
  ELSE IF o[a.last].off # o[m].off \/ o[m].bits = 0 \/ o[a.last].bits = 0 THEN o[m].bytes
  ELSE IF o[m].bytes > a.size THEN o[m].bytes ELSE a.size

OneHole(o, a, m) ==
  LET gap == o[m].off - o[a.last].off
      size == IF gap < a.size THEN gap ELSE a.size
      whole == IF a.sum # 0 /\ a.real # 0 THEN a.real - o[a.last].off ELSE size
      after == IF a.last = 0 \/ (a.last # 0 /\ gap = 0) THEN a
               ELSE IF gap < 0 THEN IF a.sum = 0 THEN [a EXCEPT !.real = o[a.last].off + a.size] ELSE a
               ELSE [a EXCEPT !.hole = Put(@, a.last, gap - size), !.size = whole,
                              !.bithole = IF a.sum = 0 THEN @ ELSE Put(@, a.last, whole * 8 - a.sum),
                              !.real = IF a.sum = 0 THEN @ ELSE 0, !.sum = 0]
  IN [after EXCEPT !.last = m, !.sum = @ + o[m].bits, !.size = LastSize(o, m, after)]

(* [hole, bithole, padding, bitpadding] of structure s.                      *)
class__find_holes(c, s) ==
  LET o == c.obj
      a == Through(LAMBDA x, m : OneHole(o, x, m), HoleStart, SelectSeq(Members[s], LAMBDA m : ~o[m].static))
  IN [hole |-> a.hole, bithole |-> a.bithole,
      padding |-> IF a.last = 0 THEN 0 ELSE o[s].size - (o[a.last].off + a.size),
      bitpadding |-> IF a.last = 0 THEN 0 ELSE IF o[a.last].bits = 0 THEN 0 ELSE a.size * 8 - a.sum]

Structs(c) == {k \in DOMAIN c.obj : c.obj[k].tag = "structure"}

finalize_cu_immediately ==
  LET c == Cached(cu) IN
  /\ phase = "finalize"
  /\ cus' = Append(cus, [obj |-> c.obj, types |-> c.types, tags |-> c.tags, functions |-> c.functions,
                         holes |-> [s \in Structs(c) |-> class__find_holes(c, s)]])
  /\ phase' = IF Len(cus) + 1 = Len(Units) THEN "loaded" ELSE "unit"
  /\ UNCHANGED <<work, pos, cu, looked, layout>>

----------------------------------------------------------------------------
(* The type a typedef stands for, 0 for void.                                *)
RECURSIVE resolve_typedef(_, _)
resolve_typedef(c, k) ==
  IF k = 0 THEN 0 ELSE IF c.obj[k].tag = "typedef" THEN resolve_typedef(c, TypeOf(c, k)) ELSE k

(* The first structure or typedef of the name; of a typedef it is not looked *)
(* at whether its structure is only declared.                                *)
cu__find_struct_by_name(c, name) ==
  LET fits == {i \in 2 .. Len(c.types) :
                 LET t == c.obj[c.types[i]] IN
                 t.tag \in {"typedef", "structure"} /\ t.name = name /\ ~t.decl}
  IN IF fits = {} THEN 0 ELSE resolve_typedef(c, c.types[Min(fits)])

expand_type(name) == name \in Range(DataTypes)

(* Rows and whether it went into a structure, for type k at base.  Members   *)
(* that are structures of interest, or have no name, are opened.  The        *)
(* elements of an array start at the structure, not at the array.            *)
RECURSIVE class__fprintf(_, _, _)
RECURSIVE type__fprintf(_, _, _, _)
array_type__fprintf(c, k, base) ==
  LET elem == TypeOf(c, k)
      count == c.obj[k].count
      first == type__fprintf(c, elem, base, 0)
  IN IF ~first.inside \/ Len(count) # 1 THEN [rows |-> first.rows, inside |-> FALSE]
     ELSE [rows |-> first.rows \o Concat([i \in 1 .. count[1] - 1 |->
                      type__fprintf(c, elem, base, i * tag__size(c, elem)).rows]),
           inside |-> TRUE]

type__fprintf(c, k, base, offset) ==
  LET orig == resolve_typedef(c, k)
      t == IF orig # 0 /\ c.obj[orig].name # NoName THEN orig ELSE k
  IN CASE c.obj[t].tag = "array" -> array_type__fprintf(c, t, base)
       [] c.obj[t].tag = "structure" /\ (c.obj[t].name = NoName \/ expand_type(c.obj[t].name)) ->
            [rows |-> class__fprintf(c, t, base + offset), inside |-> TRUE]
       [] OTHER -> [rows |-> <<>>, inside |-> FALSE]

RowInStruct(c, m, base) == c.obj[m].off       \* mutant
RowOffset(c, m, base) == base + c.obj[m].off

struct_member__fprintf(c, m, base, is_last) ==
  LET t == TypeOf(c, m)
      p == type__fprintf(c, t, base, c.obj[m].off)
      fake == is_last /\ c.obj[t].tag = "array" /\ Head(c.obj[t].count) = 0
      row == [member |-> m, off |-> RowOffset(c, m, base), size |-> IF fake THEN FakeSize ELSE c.obj[m].bytes]
  IN IF c.obj[m].static THEN <<>> ELSE IF p.inside THEN p.rows ELSE Append(p.rows, row)

class__fprintf(c, s, base) ==
  Concat([i \in DOMAIN Members[s] |->
    LET m == Members[s][i] IN
    IF TypeOf(c, m) = 0 THEN <<>> ELSE struct_member__fprintf(c, m, base, m = Last(Kids[s]))])

(* A structure with members will do; mutant: a declaration too.              *)
AnyStructure(c, s) == s # 0 /\ c.obj[s].tag = "structure"
Usable(c, s) == s # 0 /\ c.obj[s].tag = "structure" /\ Members[s] # <<>>

(* One unit: every data type that is not found yet.                          *)
convert_cus_iterator ==
  LET c == cus[looked + 1]
      hit == [i \in DOMAIN DataTypes |-> cu__find_struct_by_name(c, DataTypes[i])]
      new == {i \in DOMAIN DataTypes \ DOMAIN layout : Usable(c, hit[i])}
  IN /\ phase = "loaded" /\ looked < Len(cus) /\ DOMAIN layout # DOMAIN DataTypes
     /\ layout' = [i \in DOMAIN layout \cup new |-> IF i \in DOMAIN layout THEN layout[i]
                    ELSE [unit |-> looked + 1, struct |-> hit[i], rows |-> class__fprintf(c, hit[i], 0)]]
     /\ looked' = looked + 1
     /\ UNCHANGED loader_vars

----------------------------------------------------------------------------
LoaderStart == phase = "unit" /\ work = <<>> /\ pos = 0 /\ cu = cu__new /\ cus = <<>> /\ looked = 0 /\ layout = <<>>
LoaderNext ==
  \/ (die__process_unit \/ die__process_tag \/ die__process_class \/ cu__tag_not_handled \/ die__process
      \/ cu__recode_dwarf_types_table) /\ UNCHANGED layout_vars
  \/ finalize_cu_immediately
  \/ convert_cus_iterator

(* What the DIE of k says its type is: its own, or that of its origin; of a  *)
(* function only the name comes from there.                                  *)
DeclaredType(k) == IF Die[k].type = 0 /\ Die[k].origin # 0 /\ Die[k].tag # "subprogram" THEN Die[Die[k].origin].type ELSE Die[k].type
DeclaredName(k) == IF Die[k].name = NoName /\ Die[k].origin # 0 THEN Die[Die[k].origin].name ELSE Die[k].name

(* In a loaded unit the type of every tag is the tag of the DIE it refers    *)
(* to, whatever the order of the DIEs; a parameter or variable of an         *)
(* out-of-line or inlined copy has the name and the type of its original.    *)
(* Void are references to a DIE of a kind that is not supported, and the     *)
(* variables directly in an inlined call, which no pass gives a type.        *)
TypesResolved ==
  phase = "loaded" => \A u \in DOMAIN cus : \A k \in Dies \cap DOMAIN cus[u].obj :
    LET c == cus[u]
        t == c.obj[k]
        want == DeclaredType(k)
    IN CASE Die[k].tag = "inlined" -> c.functions[t.type + 1] = Die[k].origin
         [] Die[k].tag = "member" /\ Die[k].bits # 0 -> TRUE
         [] Die[k].tag = "variable" /\ Above(k) = "inlined" /\ Die[k].type = 0 -> t.type = 0
         [] OTHER -> /\ IF want = 0 THEN t.type = 0 ELSE IF Ignored(want) THEN t.type = 0 ELSE TypeOf(c, k) = want
                     /\ t.name = DeclaredName(k)

RECURSIVE Below(_)
Below(d) == IF Die[d].tag \in {"typedef", "const", "volatile"} THEN Below(Die[d].type) ELSE d

(* The type of a bitfield leads through typedefs and qualifiers to a type of *)
(* the kind and name that the bitfield was declared with and exactly as wide *)
(* as the bitfield, although all bitfields share the narrow types.  Its byte *)
(* size is that of the declared type, with two exceptions: 4 for every       *)
(* enumeration, and 0 for a base type whose name is not in the table.        *)
BitfieldsExact ==
  phase = "loaded" => \A u \in DOMAIN cus : \A m \in {k \in Dies \cap DOMAIN cus[u].obj : Die[k].tag = "member" /\ Die[k].bits # 0} :
    LET c == cus[u]
        t == c.obj[tag__follow_typedef(c, TypeOf(c, m))]
        d == Die[Below(Die[m].type)]
    IN /\ t.tag = d.tag /\ t.name = d.name /\ t.bits = Die[m].bits
       /\ c.obj[m].bytes = IF d.tag = "enumeration" THEN 4 ELSE IF d.name \in DOMAIN NameToSize THEN d.size ELSE 0

Total(f) == FoldFunction(+, 0, f)
Placed(c, s) == {m \in Range(Members[s]) : ~c.obj[m].static}
Bytes(off, size) == off .. off + size - 1
Combined(c, s) ==
  \E m, n \in Placed(c, s) : c.obj[m].bits # 0 /\ c.obj[n].bits = 0
    /\ Bytes(c.obj[m].off, c.obj[m].bytes) \cap Bytes(c.obj[n].off, c.obj[n].bytes) # {}

(* A bitfield whose byte size is not that of its declared type.              *)
Missized(c, s) == \E m \in Placed(c, s) : c.obj[m].bits # 0 /\ c.obj[m].bytes # Die[Below(Die[m].type)].size

(* class__find_holes: the members, holes and padding of a structure add up   *)
(* to its size, counted in bits, and the holes in bytes are the bytes of no  *)
(* member, not even of the storage of a bitfield; unless a bitfield lies in  *)
(* the bytes of a member that is none, or has not the size of its type.      *)
HolesAddUp ==
  phase = "loaded" => \A u \in DOMAIN cus : \A s \in Structs(cus[u]) :
    LET c == cus[u]
        h == c.holes[s]
        bits(m) == IF c.obj[m].bits = 0 THEN c.obj[m].bytes * 8 ELSE c.obj[m].bits
    IN Placed(c, s) = {} \/ Combined(c, s) \/ Missized(c, s) \/
       /\ 8 * c.obj[s].size = Total([m \in Placed(c, s) |-> bits(m)]) + Total(h.bithole) + h.bitpadding
                              + 8 * (Total(h.hole) + h.padding)
       /\ Total(h.hole) + h.padding
            = Cardinality(Bytes(0, c.obj[s].size) \ UNION {Bytes(c.obj[m].off, c.obj[m].bytes) : m \in Placed(c, s)})

Opened(c, k) == LET t == resolve_typedef(c, k) IN type__fprintf(c, k, 0, 0).inside /\ c.obj[t].tag = "structure"
RECURSIVE Uncovered(_, _)
Uncovered(c, s) ==
  Total(c.holes[s].hole) + c.holes[s].padding
  + Total([m \in {k \in Placed(c, s) : Opened(c, TypeOf(c, k))} |-> Uncovered(c, resolve_typedef(c, TypeOf(c, m)))])
RECURSIVE OpenArray(_, _)
OpenArray(c, s) ==
  \E m \in Placed(c, s) : LET t == TypeOf(c, m) IN
    \/ c.obj[t].tag = "array" /\ Opened(c, TypeOf(c, t))
    \/ Opened(c, t) /\ OpenArray(c, resolve_typedef(c, t))

(* The rows of a data type tile it: they lie inside it, rows share bytes     *)
(* only if they are bitfields, and the bytes in no row are the holes and the *)
(* padding of the structure and of those opened in it.  Not so with arrays   *)
(* of opened structures, whose elements are written from the beginning of    *)
(* the structure on, nor with the bitfields that HolesAddUp leaves out.      *)
LayoutTiles ==
  \A w \in DOMAIN layout :
    LET c == cus[layout[w].unit]
        s == layout[w].struct
        rows == {r \in Range(layout[w].rows) : r.size # FakeSize}
        bytes(r) == Bytes(r.off, r.size)
    IN OpenArray(c, s) \/ Combined(c, s) \/ Missized(c, s) \/
       /\ \A r \in rows : bytes(r) \subseteq Bytes(0, c.obj[s].size)
       /\ \A r, q \in rows : r = q \/ bytes(r) \cap bytes(q) = {} \/ (c.obj[r.member].bits # 0 /\ c.obj[q.member].bits # 0)
       /\ Cardinality(UNION {bytes(r) : r \in rows}) = c.obj[s].size - Uncovered(c, s)

(* Entry i of the types of a unit, of the name, means a structure with       *)
(* members, or something else: a typedef of another type, say.               *)
Means(c, i, name) ==
  LET t == c.obj[c.types[i]]
      s == resolve_typedef(c, c.types[i])
  IN t.tag \in {"typedef", "structure"} /\ t.name = name
     /\ s # 0 /\ c.obj[s].tag = "structure" /\ Members[s] # <<>>
Shadows(c, i, name) == c.obj[c.types[i]].tag = "typedef" /\ c.obj[c.types[i]].name = name /\ ~Means(c, i, name)

Defines(c, name) == {i \in 2 .. Len(c.types) : Means(c, i, name) /\ \A j \in 2 .. i - 1 : ~Shadows(c, j, name)}

(* Every data type that some unit defines with members, by its name or as a  *)
(* typedef of a structure without a name, is found in the first such unit    *)
(* and is that structure, even if units before it only declare it; except in *)
(* a unit where a typedef of the name for something else comes before it.    *)
TypesFound ==
  \A w \in DOMAIN DataTypes :
    /\ phase = "loaded" => \A u \in 1 .. looked : Defines(cus[u], DataTypes[w]) # {} => w \in DOMAIN layout
    /\ w \in DOMAIN layout =>
         LET c == cus[layout[w].unit] IN
         \E i \in Defines(c, DataTypes[w]) : resolve_typedef(c, c.types[i]) = layout[w].struct
=============================================================================
