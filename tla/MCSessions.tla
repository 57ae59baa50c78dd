----------------------------- MODULE MCSessions -----------------------------
(***************************************************************************)
(* Sessions for TLC.  Threads are interchangeable, and so are uuids.       *)
(***************************************************************************)
EXTENDS Sessions, TLC

Symmetry == Permutations(Threads) \cup Permutations(Uuids)
=============================================================================
