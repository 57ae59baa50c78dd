---------------------------- MODULE MCDraggable -----------------------------
(***************************************************************************)
(* Draggable for TLC: two plates, three handles, a pointer that reaches    *)
(* the edge of the window and both bounds, which may change between moves. *)
(***************************************************************************)
EXTENDS Draggable, TLC

\* The window, and the window that is narrower or a plate that is wider.
MCBoxes == {[low |-> 0, high |-> 2], [low |-> 0, high |-> 1]}

Symmetry == Permutations(Element) \cup Permutations(Handle)
=============================================================================
