----------------------------- MODULE MCDwarves -----------------------------
(* Model values for the tables and the loader of dwarves.                    *)
EXTENDS DwarvesTables, StructLayout

MCStrings == 1 .. 9
MCListFiles == {<<2, 1, 3>>, <<5, 5, 6>>}
MCFunctions == 1 .. 6
MCFunctionAt ==
  <<[addr |-> 0, size |-> 0], [addr |-> 0, size |-> 0], [addr |-> 2, size |-> 2],
    [addr |-> 4, size |-> 1], [addr |-> 6, size |-> 3], [addr |-> 9, size |-> 2]>>
MCNames == {"a", "i_lock", "s_list"}
MCLengthOf == [a |-> 2, i_lock |-> 10, s_list |-> 4]

----------------------------------------------------------------------------
Plain == [tag |-> "base", parent |-> 0, name |-> NoName, type |-> 0, origin |-> 0, size |-> 0, bits |-> 0,
          off |-> -1, count |-> 0, addr |-> 0, len |-> 0, decl |-> FALSE]
T(tag, name, type) == [Plain EXCEPT !.tag = tag, !.name = name, !.type = type]
In(tag, parent, name, type) == [T(tag, name, type) EXCEPT !.parent = parent]
Copy(tag, parent, origin) == [In(tag, parent, NoName, 0) EXCEPT !.origin = origin]
M(parent, name, type, off) == [In("member", parent, name, type) EXCEPT !.off = off]
B(parent, name, type, off, bits) == [M(parent, name, type, off) EXCEPT !.bits = bits]
Sz(die, size) == [die EXCEPT !.size = size]

MCDie == <<
  (* unit 1: struct inode is only declared, through a typedef of its name *)
  [T("structure", "inode", 0) EXCEPT !.decl = TRUE],         \* 1
  T("typedef", "inode", 1),                                  \* 2
  Sz(T("base", "char", 0), 1),                               \* 3
  (* unit 3 *)
  Sz(T("base", "int", 0), 4),                                \* 4
  Sz(T("base", "unsigned char", 0), 1),                      \* 5
  Sz(T("enumeration", "mode", 0), 4),                        \* 6
  T("typedef", "u8", 5),                                     \* 7
  T("const", NoName, 7),                                          \* 8
  Sz(T("structure", "list", 0), 16),                         \* 9
  M(9, "next", 12, 0),                                       \* 10
  M(9, "prev", 12, 8),                                       \* 11
  T("pointer", NoName, 9),                                        \* 12
  Sz(T("structure", "inode", 0), 40),                        \* 13
  B(13, "i_kind", 4, 0, 3),                                  \* 14
  B(13, "i_mode", 6, 0, 3),                                  \* 15
  B(13, "i_flag", 8, 0, 2),                                  \* 16
  M(13, "i_count", 4, 4),                                    \* 17
  M(13, "i_list", 9, 8),                                     \* 18
  M(13, "i_byte", 7, 24),                                    \* 19
  B(13, "i_more", 7, 25, 2),                                 \* 20
  M(13, "i_data", 22, 32),                                   \* 21
  T("array", NoName, 4),                                          \* 22
  [In("subrange", 22, NoName, 0) EXCEPT !.count = 1],             \* 23
  (* an inline function, its copy out of line, and a caller *)
  T("subprogram", "get", 4),                                 \* 24
  In("formal_parameter", 24, "p", 12),                       \* 25
  In("variable", 24, "v", 8),                                \* 26
  In("label", 24, "out", 0),                                 \* 27
  [Copy("subprogram", 0, 24) EXCEPT !.addr = 2, !.len = 2],    \* 28
  Copy("formal_parameter", 28, 25),                            \* 29
  In("lexical_block", 28, NoName, 0),                             \* 30
  Copy("variable", 30, 26),                                    \* 31
  Copy("label", 28, 27),                                       \* 32
  [T("subprogram", "use", 0) EXCEPT !.addr = 4, !.len = 3],  \* 33
  In("formal_parameter", 33, "q", 44),                       \* 34
  In("unspecified_parameters", 33, NoName, 0),                    \* 35
  Copy("inlined", 33, 24),                                     \* 36
  Copy("formal_parameter", 36, 25),                            \* 37
  Copy("variable", 36, 26),                                    \* 38
  In("lexical_block", 36, NoName, 0),                             \* 39
  Copy("variable", 39, 26),                                    \* 40
  In("call_site", 33, NoName, 0),                                 \* 41
  In("lexical_block", 33, NoName, 0),                             \* 42
  Copy("formal_parameter", 42, 25),                            \* 43
  T("restrict", NoName, 12),                                      \* 44
  (* unit 2 *)
  Sz(T("base", "int", 0), 4),                                \* 45
  Sz(T("structure", "dentry", 0), 40),                       \* 46
  M(46, "d_count", 45, 0),                                   \* 47
  M(46, "d_u", 51, 8),                                       \* 48
  M(46, NoName, 54, 16),                                          \* 49
  M(46, "d_name", 61, 40),                                   \* 50
  Sz(T("union", NoName, 0), 8),                                   \* 51
  M(51, "a", 45, 0),                                         \* 52
  M(51, "b", 58, -1),                                        \* 53
  Sz(T("structure", NoName, 0), 24),                              \* 54
  M(54, "x", 45, 0),                                         \* 55
  M(54, "y", 57, 4),                                         \* 56
  T("typedef", "int_t", 45),                                 \* 57
  T("pointer", NoName, 59),                                       \* 58
  T("subroutine", NoName, 45),                                    \* 59
  In("formal_parameter", 59, NoName, 57),                         \* 60
  T("array", NoName, 45),                                         \* 61
  In("subrange", 61, NoName, 0),                                  \* 62
  M(54, "z", 58, 16),                                        \* 63
  [T("variable", "root", 46) EXCEPT !.addr = 8],             \* 64
  Sz(T("structure", "super", 0), 24),                        \* 65
  M(65, "s_id", 45, 0),                                      \* 66
  M(65, "s_two", 68, 4),                                     \* 67
  T("array", NoName, 70),                                         \* 68
  [In("subrange", 68, NoName, 0) EXCEPT !.count = 2],             \* 69
  Sz(T("structure", "pair", 0), 8),                          \* 70
  M(70, "fst", 45, 0),                                       \* 71
  M(70, "snd", 45, 4),                                       \* 72
  (* storage of bitfields that the loader misjudges, and of one it does not *)
  Sz(T("enumeration", "tiny", 0), 1),                        \* 73
  Sz(T("base", "__int128", 0), 16),                          \* 74
  Sz(T("base", "long unsigned int", 0), 8),                  \* 75
  Sz(T("structure", "small", 0), 1),                         \* 76
  B(76, "m_tiny", 73, 0, 2),                                 \* 77
  Sz(T("structure", "wide", 0), 48),                         \* 78
  B(78, "w_bits", 74, 0, 3),                                 \* 79
  M(78, "w_kuid", 84, 16),                                   \* 80
  Sz(T("structure", NoName, 0), 16),                              \* 81
  B(81, "val", 75, 0, 5),                                    \* 82
  M(81, "ns", 45, 8),                                        \* 83
  T("typedef", "kuid", 81),                                  \* 84
  (* int known by the name of a structure *)
  T("typedef", "pair", 45)                                   \* 85
>>

(* The types that the bitfields refer to come in any order, the copy of a    *)
(* function before or after its origin, and the functions before or after    *)
(* the types they use.  A typedef comes before or after a structure of its   *)
(* name.                                                                     *)
MCUnits ==
  LET orders(s) == {[i \in DOMAIN s |-> s[f[i]]] : f \in Permutations(DOMAIN s)}
      types == orders(<<6, 7, 8, 13>>)
      functions == orders(<<24, 28>>)
  IN <<{<<1, 2, 3>>, <<2, 1, 3>>},
       {<<45, 46, 51, 54, 57, 58, 59, 61, 64, 65, 68, 73, 74, 75, 76, 78, 81, 84>> \o p : p \in orders(<<70, 85>>)},
       {<<4, 9>> \o t \o f \o <<5, 12, 22, 33, 44>> : t \in types, f \in functions}
       \cup {f \o <<4, 9, 6, 7, 8, 13, 5, 12, 22, 33, 44>> : f \in functions}>>
MCDataTypes == <<"inode", "list", "dentry", "super", "pair", "small", "wide", "kuid", "ghost">>
MCNameToSize == [int |-> 32] @@ ("unsigned char" :> 8) @@ ("char" :> 8) @@ ("long unsigned int" :> 0)

LoaderOff == phase = "off" /\ work = <<>> /\ pos = 0 /\ cu = cu__new /\ cus = <<>> /\ looked = 0 /\ layout = <<>>
DwarvesInit == (TablesInit /\ LoaderOff) \/ (TablesOff /\ LoaderStart)
DwarvesNext ==
  \/ TablesNext /\ UNCHANGED <<loader_vars, layout_vars>>
  \/ LoaderNext /\ UNCHANGED tables_vars
DwarvesOff == LoaderOff /\ TablesOff
=============================================================================
