----------------------------- MODULE Draggable ------------------------------
(***************************************************************************)
(* UIDraggable (target/WEB/admin/http/js/classes/gd_ui_draggable.js): the  *)
(* plates of a page, each of which the pointer moves by its handle.  A     *)
(* draggable listens to its handle for the press and to the document for   *)
(* moves and releases, so every draggable sees every move, and one whose   *)
(* release is lost (outside the window, or a touch that is cancelled) goes *)
(* on moving while another one is pressed.                                 *)
(*                                                                         *)
(* A position is what the styles of a plate say of it, left and transform  *)
(* together: the offset from the place the layout gives the plate, and not *)
(* a place on the screen.  A plate that is pressed becomes relative and    *)
(* joins the flow, one that is released leaves it; what that does to the   *)
(* places, and to the rectangles the bounds are measured from, is left     *)
(* open: a move may find any of Boxes as the bounds of a plate.            *)
(*                                                                         *)
(* One axis stands for both, whose offsets the code treats alike; they are *)
(* set by a transform, as on the page.  A coordinate 0 of the mouse counts *)
(* as no coordinate and makes a position NaN; a style that is not a number *)
(* is not applied, so the old one stays.  The styles a drag puts on a      *)
(* plate (cursor, opacity, position and transition, in oDraggingStyles)    *)
(* come and go together, and position relative stands for them.            *)
(***************************************************************************)
EXTENDS Integers

CONSTANTS
    Element,            \* the plates
    Handle,             \* elements that may serve as a handle
    NaN,
    MaxClient,          \* pointer coordinates are 0..MaxClient
    Start,              \* where the plates are when the page is loaded
    Boxes,              \* what the bounds of a plate may be at a move
    GridSize,
    MaxPresses          \* bound of the model

ASSUME DraggableAssumption ==
    /\ Start \in Int
    /\ Boxes \subseteq [low : Int, high : Int]
    /\ {MaxClient, GridSize, MaxPresses} \subseteq Nat \ {0}

ASSUME NaNIsNoNumber == NaN \notin Int

VARIABLES
    iCurrent,           \* iCurrentX and iXOffset, which are always the same
    iInitial,           \* iInitialX: from the position to the pointer
    bDragging,
    at,                 \* the offset the styles give the element
    oOriginal,          \* the left and the transform of oOriginalElementStyle
    relative,           \* the elements with oDraggingStyles
    zIndex, iZIndex_s,
    eDragHandle,
    disabled,           \* the handles with pointerEvents none
    bSnapToGrid,
    live,               \* the draggables that are not destroyed
    grabbed             \* ghost: the pointer and the offset of the last press

moveVars == <<iCurrent, iInitial, bDragging, at, oOriginal, relative>>
zVars == <<zIndex, iZIndex_s>>
optionVars == <<eDragHandle, disabled, bSnapToGrid>>
vars == <<moveVars, zVars, optionVars, live, grabbed>>

Clients == 0..MaxClient
Minus(a, b) == IF NaN \in {a, b} THEN NaN ELSE a - b

\* clientX of an event, read as clientX || touches?.[0]?.clientX.
ClientX(c) == IF c = 0 THEN NaN ELSE c

\* Math.round rounds a half up.
Snapped(e, x) ==
    IF bSnapToGrid[e]
    THEN ((2 * x + GridSize) \div (2 * GridSize)) * GridSize
    ELSE x

_apply_bounds(x, box) == LET most == IF x < box.high THEN x ELSE box.high
                         IN  IF most > box.low THEN most ELSE box.low

\* The position for a pointer.
Placed(e, x, box) == IF x = NaN THEN NaN ELSE _apply_bounds(Snapped(e, x), box)

\* _set_position of an element that is shown somewhere.
_set_position(x, old) == IF x = NaN THEN old ELSE x

NotGrabbed == [by |-> 0, at |-> 0]

\* The original transform is not among the styles that are saved.
Init ==
    /\ iCurrent = [e \in Element |-> Start]
    /\ iInitial = [e \in Element |-> 0]
    /\ bDragging = [e \in Element |-> FALSE]
    /\ at = iCurrent
    /\ oOriginal = [e \in Element |-> [left |-> Start, transform |-> NaN]]
    /\ relative = {}
    /\ zIndex = [e \in Element |-> 0]
    /\ iZIndex_s = 10
    /\ eDragHandle \in {f \in [Element -> Handle] :
                         \A d, e \in Element : f[d] = f[e] => d = e}
    /\ disabled = {}
    /\ bSnapToGrid = [e \in Element |-> FALSE]
    /\ live = Element
    /\ grabbed = [e \in Element |-> NotGrabbed]

\* Mutation of _on_pointer_down: an element counts its own presses.
_on_pointer_down_OwnCount(e, c) ==
    /\ e \in live
    /\ eDragHandle[e] \notin disabled
    /\ iZIndex_s < 10 + MaxPresses
    /\ iInitial' = [iInitial EXCEPT ![e] = Minus(ClientX(c), iCurrent[e])]
    /\ bDragging' = [bDragging EXCEPT ![e] = TRUE]
    /\ iZIndex_s' = iZIndex_s + 1
    /\ zIndex' = [zIndex EXCEPT ![e] = @ + 1]
    /\ relative' = relative \cup {e}
    /\ grabbed' = [grabbed EXCEPT ![e] = [by |-> c, at |-> at[e]]]
    /\ UNCHANGED <<iCurrent, at, oOriginal, optionVars, live>>

\* The dragging setter raises the element above those pressed before.
_on_pointer_down(e, c) ==
    /\ e \in live
    /\ eDragHandle[e] \notin disabled
    /\ iZIndex_s < 10 + MaxPresses
    /\ iInitial' = [iInitial EXCEPT ![e] = Minus(ClientX(c), iCurrent[e])]
    /\ bDragging' = [bDragging EXCEPT ![e] = TRUE]
    /\ iZIndex_s' = iZIndex_s + 1
    /\ zIndex' = [zIndex EXCEPT ![e] = iZIndex_s']
    /\ relative' = relative \cup {e}
    /\ grabbed' = [grabbed EXCEPT ![e] = [by |-> c, at |-> at[e]]]
    /\ UNCHANGED <<iCurrent, at, oOriginal, optionVars, live>>

Dragged == {e \in live : bDragging[e]}

\* Mutation of _on_pointer_move: a stopped element changes its grip.
_on_pointer_move_Regrips(c, box) ==
    /\ Dragged # {}
    /\ iCurrent' = [e \in Element |->
                     IF e \in Dragged
                     THEN Placed(e, Minus(ClientX(c), iInitial[e]), box[e])
                     ELSE iCurrent[e]]
    /\ iInitial' = [e \in Element |->
                     IF e \in Dragged /\ iCurrent'[e] # NaN
                     THEN Minus(ClientX(c), iCurrent'[e]) ELSE iInitial[e]]
    /\ at' = [e \in Element |-> IF e \in Dragged
                                THEN _set_position(iCurrent'[e], at[e])
                                ELSE at[e]]
    /\ UNCHANGED <<bDragging, oOriginal, relative, zVars, optionVars, live,
                   grabbed>>

\* Every draggable that is dragging moves.
_on_pointer_move(c, box) ==
    /\ Dragged # {}
    /\ iCurrent' = [e \in Element |->
                     IF e \in Dragged
                     THEN Placed(e, Minus(ClientX(c), iInitial[e]), box[e])
                     ELSE iCurrent[e]]
    /\ at' = [e \in Element |-> IF e \in Dragged
                                THEN _set_position(iCurrent'[e], at[e])
                                ELSE at[e]]
    /\ UNCHANGED <<iInitial, bDragging, oOriginal, relative, zVars, optionVars,
                   live, grabbed>>

\* Mutation of _on_pointer_up: the position is not among the styles put back.
_on_pointer_up_StaysRelative ==
    /\ Dragged # {}
    /\ bDragging' = [e \in Element |-> bDragging[e] /\ e \notin live]
    /\ iInitial' = [e \in Element |-> IF e \in Dragged THEN iCurrent[e]
                                      ELSE iInitial[e]]
    /\ oOriginal' = [e \in Element |->
                      IF e \in Dragged
                      THEN [left |-> 0, transform |-> iCurrent[e]]
                      ELSE oOriginal[e]]
    /\ at' = [e \in Element |-> IF e \in Dragged
                                THEN _set_position(iCurrent[e], at[e])
                                ELSE at[e]]
    /\ grabbed' = [e \in Element |-> IF e \in Dragged THEN NotGrabbed
                                     ELSE grabbed[e]]
    /\ UNCHANGED <<iCurrent, relative, zVars, optionVars, live>>

\* Mutation of _on_pointer_up: the left from before the drag is put back too,
\* and adds to the transform.
_on_pointer_up_SnapsBack ==
    /\ Dragged # {}
    /\ bDragging' = [e \in Element |-> bDragging[e] /\ e \notin live]
    /\ iInitial' = [e \in Element |-> IF e \in Dragged THEN iCurrent[e]
                                      ELSE iInitial[e]]
    /\ at' = [e \in Element |-> IF e \in Dragged THEN oOriginal[e].left + at[e]
                                ELSE at[e]]
    /\ relative' = relative \ Dragged
    /\ grabbed' = [e \in Element |-> IF e \in Dragged THEN NotGrabbed
                                     ELSE grabbed[e]]
    /\ UNCHANGED <<iCurrent, oOriginal, zVars, optionVars, live>>

\* The styles from before the drag are put back, but for the place.
_on_pointer_up ==
    /\ Dragged # {}
    /\ bDragging' = [e \in Element |-> bDragging[e] /\ e \notin live]
    /\ iInitial' = [e \in Element |-> IF e \in Dragged THEN iCurrent[e]
                                      ELSE iInitial[e]]
    /\ oOriginal' = [e \in Element |->
                      IF e \in Dragged
                      THEN [left |-> 0, transform |-> iCurrent[e]]
                      ELSE oOriginal[e]]
    /\ at' = [e \in Element |-> IF e \in Dragged
                                THEN _set_position(iCurrent[e], at[e])
                                ELSE at[e]]
    /\ relative' = relative \ Dragged
    /\ grabbed' = [e \in Element |-> IF e \in Dragged THEN NotGrabbed
                                     ELSE grabbed[e]]
    /\ UNCHANGED <<iCurrent, zVars, optionVars, live>>

\* The grip of a drag that goes on is kept.
SetPosition(e, x) ==
    /\ e \in live
    /\ iCurrent' = [iCurrent EXCEPT ![e] = x]
    /\ at' = [at EXCEPT ![e] = x]
    /\ UNCHANGED <<iInitial, bDragging, oOriginal, relative, zVars, optionVars,
                   live, grabbed>>

ResetPosition(e) == SetPosition(e, 0)

Enable(e) ==
    /\ e \in live
    /\ disabled' = disabled \ {eDragHandle[e]}
    /\ UNCHANGED <<moveVars, zVars, eDragHandle, bSnapToGrid, live, grabbed>>

Disable(e) ==
    /\ e \in live
    /\ disabled' = disabled \cup {eDragHandle[e]}
    /\ UNCHANGED <<moveVars, zVars, eDragHandle, bSnapToGrid, live, grabbed>>

\* Another handle, or another grid.  A handle belongs to one element; what
\* Disable did to the old one stays there.
UpdateOptions(e, h, bSnap) ==
    /\ e \in live
    /\ \A d \in Element \ {e} : eDragHandle[d] # h
    /\ eDragHandle' = [eDragHandle EXCEPT ![e] = h]
    /\ bSnapToGrid' = [bSnapToGrid EXCEPT ![e] = bSnap]
    /\ UNCHANGED <<moveVars, zVars, disabled, live, grabbed>>

\* The left that was saved adds to a transform that was not.
Destroy(e) ==
    /\ e \in live
    /\ live' = live \ {e}
    /\ at' = [at EXCEPT ![e] = oOriginal[e].left
                                 + _set_position(oOriginal[e].transform, @)]
    /\ relative' = relative \ {e}
    /\ UNCHANGED <<iCurrent, iInitial, bDragging, oOriginal, zVars, optionVars,
                   grabbed>>

Move == \E c \in Clients, box \in [Dragged -> Boxes] : _on_pointer_move(c, box)

Next ==
    \/ \E e \in Element :
        \/ \E c \in Clients : _on_pointer_down(e, c)
        \/ \E x \in Clients : SetPosition(e, x)
        \/ ResetPosition(e) \/ Enable(e) \/ Disable(e) \/ Destroy(e)
        \/ \E h \in Handle, bSnap \in BOOLEAN : UpdateOptions(e, h, bSnap)
    \/ Move
    \/ _on_pointer_up

Spec == Init /\ [][Next]_vars

-----------------------------------------------------------------------------
(* Properties.                                                             *)

\* A drag keeps its grip: when the pointer comes back to where it took an
\* element, the offset is the one at which it was taken, brought to the grid
\* and inside the bounds of that move, however far outside the bounds, to the
\* edge of the window or over another drag the pointer went, and whatever
\* SetPosition did between.  A press at the edge takes the element without a
\* grip, and is not spoken of.
GripHolds ==
    [][\A e \in Dragged : grabbed[e].by # 0 /\ iInitial[e] # NaN =>
        \A box \in [Dragged -> Boxes] : _on_pointer_move(grabbed[e].by, box) =>
            at'[e] = Placed(e, grabbed[e].at, box[e])]_vars

\* An element has the styles of a drag, which take it into the flow of the
\* page, exactly while it is dragged: a release or a Destroy takes them away,
\* also those of a drag whose own release was lost.
DragStylesEnd == relative = Dragged

\* "Get the current position of the element" (gd_ui_draggable.js:345): what
\* GetPosition answers is the offset the element has, also when a release has
\* put the saved styles back ("It should stay at the current position", :253),
\* or it is no number, which only a mouse coordinate 0 does, and the element
\* has stayed where it was.
PositionIsShown == \A e \in live : iCurrent[e] \in {at[e], NaN}

\* The one element that is dragged is above all the others, also those that
\* were pressed before it and not released.
DraggedIsOnTop ==
    \A e \in Dragged : Dragged = {e} =>
        \A d \in live \ {e} : zIndex[d] < zIndex[e]
=============================================================================
