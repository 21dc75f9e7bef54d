------------------------------ MODULE MCTools ------------------------------
(* The parts of the repository that convert reads its data types with, and   *)
(* the coverage tools.  They share no state: a behaviour runs one of them.   *)
EXTENDS MCCoverage, MCDwarves

CoverageOff == KcovOff /\ SfcOff /\ BbOff /\ GcovOff
coverage_vars == <<kcov_vars, sfc_vars, bb_vars, gcov_vars>>
dwarves_vars == <<loader_vars, layout_vars, tables_vars>>

ToolsInit == (CoverageInit /\ DwarvesOff) \/ (CoverageOff /\ DwarvesInit)
ToolsNext == (CoverageNext /\ UNCHANGED dwarves_vars) \/ (DwarvesNext /\ UNCHANGED coverage_vars)
ToolsSpec == ToolsInit /\ [][ToolsNext]_<<coverage_vars, dwarves_vars>>
=============================================================================
