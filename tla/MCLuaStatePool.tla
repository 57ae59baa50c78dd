-------------------------- MODULE MCLuaStatePool ---------------------------
(***************************************************************************)
(* LuaStatePool for TLC.  Threads are interchangeable, and so are names.   *)
(***************************************************************************)
EXTENDS LuaStatePool, TLC

Symmetry == Permutations(Threads) \cup Permutations(Names)
=============================================================================
