---------------------------- MODULE MCTableData ----------------------------
(***************************************************************************)
(* TableData for TLC.  The names of columns are interchangeable.           *)
(***************************************************************************)
EXTENDS TableData

Symmetry == Permutations(Names)
=============================================================================
