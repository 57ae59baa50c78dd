-------------------------- MODULE DraggableProofs ---------------------------
(***************************************************************************)
(* Proofs about Draggable, for any plates, handles, bounds and grid.       *)
(***************************************************************************)
EXTENDS Draggable, TLAPS

Number == Int \cup {NaN}

TypeOK ==
    /\ iCurrent \in [Element -> Number]
    /\ iInitial \in [Element -> Number]
    /\ bDragging \in [Element -> BOOLEAN]
    /\ at \in [Element -> Int]
    /\ oOriginal \in [Element -> [left : Int, transform : Number]]
    /\ relative \subseteq Element
    /\ zIndex \in [Element -> Int]
    /\ iZIndex_s \in Int
    /\ bSnapToGrid \in [Element -> BOOLEAN]
    /\ live \subseteq Element
    /\ grabbed \in [Element -> [by : Clients, at : Int]]

\* Those that are dragged were pressed after the last release, so after those
\* that are not.
DraggedAboveOthers ==
    /\ \A e \in Element : zIndex[e] <= iZIndex_s
    /\ \A e \in Dragged : \A d \in live \ Dragged : zIndex[d] < zIndex[e]

\* An element whose position is a number has that offset.
ShownWhereItIs == \A e \in live : iCurrent[e] # NaN => at[e] = iCurrent[e]

\* The grip is the distance at which the pointer took the element.
GripIsDistance ==
    \A e \in Dragged : iInitial[e] # NaN =>
        grabbed[e].by # 0 /\ iInitial[e] = grabbed[e].by - grabbed[e].at

DraggableInv ==
    /\ TypeOK
    /\ DraggedAboveOthers
    /\ ShownWhereItIs
    /\ GripIsDistance
    /\ DragStylesEnd

-----------------------------------------------------------------------------

\* Bounds and grid place a number at a number.
LEMMA PlacedIsNumber ==
    ASSUME NEW e, NEW x \in Int, NEW box \in Boxes
    PROVE  Placed(e, x, box) \in Int
<1>1. GridSize \in Nat /\ GridSize > 0 /\ box.low \in Int /\ box.high \in Int
  BY DraggableAssumption
<1>2. Snapped(e, x) \in Int
  <2>1. 2 * x + GridSize \in Int /\ 2 * GridSize \in Nat /\ 2 * GridSize > 0
    BY <1>1
  <2>2. (2 * x + GridSize) \div (2 * GridSize) \in Int
    BY <2>1
  <2>3. ((2 * x + GridSize) \div (2 * GridSize)) * GridSize \in Int
    BY <1>1, <2>2
  <2> QED  BY <2>3 DEF Snapped
<1>3. \A y \in Int : _apply_bounds(y, box) \in Int
  BY <1>1 DEF _apply_bounds
<1>4. x # NaN
  BY NaNIsNoNumber
<1> QED  BY <1>2, <1>3, <1>4 DEF Placed

LEMMA Differences ==
    /\ \A a, b \in Number : Minus(a, b) \in Number
    /\ \A a, b \in Int : Minus(a, b) = a - b
    /\ \A a, b \in Number : Minus(a, b) # NaN => a \in Int /\ b \in Int
    /\ \A c \in Clients : c \in Int /\ ClientX(c) \in Number
                          /\ (c # 0 => ClientX(c) = c) /\ (c = 0 => ClientX(c) = NaN)
  BY NaNIsNoNumber, DraggableAssumption DEF Minus, Number, ClientX, Clients

LEMMA DraggableInvInit == Init => DraggableInv
<1> SUFFICES ASSUME Init PROVE DraggableInv
  OBVIOUS
<1>1. Start \in Int /\ 0 \in Clients
  BY DraggableAssumption DEF Clients
<1>2. TypeOK
  BY <1>1 DEF Init, TypeOK, Number, NotGrabbed
<1>3. Dragged = {}
  BY DEF Init, Dragged
<1> QED  BY <1>2, <1>3
         DEF Init, DraggableInv, DraggedAboveOthers, ShownWhereItIs, GripIsDistance,
             DragStylesEnd

LEMMA DraggableInvNext == DraggableInv /\ [Next]_vars => DraggableInv'
<1> SUFFICES ASSUME DraggableInv, [Next]_vars PROVE DraggableInv'
  OBVIOUS
<1>0. TypeOK /\ DraggedAboveOthers /\ ShownWhereItIs /\ GripIsDistance /\ DragStylesEnd
  BY DEF DraggableInv
<1> USE DEF moveVars, zVars, optionVars
<1>1. ASSUME NEW e \in Element, NEW c \in Clients, _on_pointer_down(e, c)
      PROVE  DraggableInv'
  <2> DEFINE grip == Minus(ClientX(c), iCurrent[e])
  <2>1. /\ grip \in Number
        /\ grip # NaN => c # 0 /\ iCurrent[e] \in Int /\ iCurrent[e] # NaN
                         /\ grip = c - iCurrent[e]
    <3>1. iCurrent[e] \in Number /\ ClientX(c) \in Number
      BY <1>0, Differences DEF TypeOK
    <3>2. grip \in Number
      BY <3>1, Differences
    <3>3. ASSUME grip # NaN
          PROVE  c # 0 /\ iCurrent[e] \in Int /\ iCurrent[e] # NaN /\ grip = c - iCurrent[e]
      <4>1. ClientX(c) \in Int /\ iCurrent[e] \in Int
        BY <3>1, <3>3, Differences
      <4>2. c # 0 /\ ClientX(c) = c /\ iCurrent[e] # NaN
        BY <4>1, Differences, NaNIsNoNumber
      <4> QED  BY <4>1, <4>2, Differences
    <3> QED  BY <3>2, <3>3
  <2> HIDE DEF grip
  <2>2. TypeOK'
    BY <1>0, <1>1, <2>1 DEF _on_pointer_down, TypeOK, grip
  <2>3. Dragged' = Dragged \cup {e}
    BY <1>0, <1>1 DEF _on_pointer_down, TypeOK, Dragged
  <2>4. DraggedAboveOthers'
    BY <1>0, <1>1, <2>3 DEF _on_pointer_down, TypeOK, DraggedAboveOthers, Dragged
  <2>5. ShownWhereItIs'
    BY <1>0, <1>1 DEF _on_pointer_down, ShownWhereItIs
  <2>6. GripIsDistance'
    <3>1. /\ iInitial'[e] = grip /\ grabbed'[e].by = c /\ grabbed'[e].at = at[e]
          /\ \A d \in Element \ {e} : iInitial'[d] = iInitial[d] /\ grabbed'[d] = grabbed[d]
          /\ e \in live
      BY <1>0, <1>1 DEF _on_pointer_down, TypeOK, grip
    <3>2. grip # NaN => at[e] = iCurrent[e]
      BY <1>0, <2>1, <3>1 DEF ShownWhereItIs
    <3> QED  BY <1>0, <2>1, <2>3, <3>1, <3>2 DEF GripIsDistance, Dragged, TypeOK
  <2>7. DragStylesEnd'
    BY <1>0, <1>1, <2>3 DEF _on_pointer_down, DragStylesEnd
  <2> QED  BY <2>2, <2>4, <2>5, <2>6, <2>7 DEF DraggableInv
<1>2. ASSUME NEW c \in Clients, NEW box \in [Dragged -> Boxes], _on_pointer_move(c, box)
      PROVE  DraggableInv'
  <2>1. \A e \in Dragged : Placed(e, Minus(ClientX(c), iInitial[e]), box[e]) \in Number
    <3>1. ASSUME NEW e \in Dragged
          PROVE  Placed(e, Minus(ClientX(c), iInitial[e]), box[e]) \in Number
      <4>1. box[e] \in Boxes /\ Minus(ClientX(c), iInitial[e]) \in Number
        BY <1>0, Differences DEF TypeOK, Dragged
      <4>2. CASE Minus(ClientX(c), iInitial[e]) = NaN
        BY <4>2 DEF Placed, Number
      <4>3. CASE Minus(ClientX(c), iInitial[e]) # NaN
        BY <4>1, <4>3, PlacedIsNumber DEF Number
      <4> QED  BY <4>2, <4>3
    <3> QED  BY <3>1
  <2>2. TypeOK' /\ ShownWhereItIs'
    BY <1>0, <1>2, <2>1
    DEF _on_pointer_move, _set_position, TypeOK, ShownWhereItIs, Number, Dragged
  <2>3. Dragged' = Dragged
    BY <1>2 DEF _on_pointer_move, Dragged
  <2>4. DraggedAboveOthers' /\ GripIsDistance' /\ DragStylesEnd'
    BY <1>0, <1>2, <2>3
    DEF _on_pointer_move, DraggedAboveOthers, GripIsDistance, DragStylesEnd
  <2> QED  BY <2>2, <2>4 DEF DraggableInv
<1>3. CASE _on_pointer_up
  <2>1. TypeOK' /\ ShownWhereItIs'
    BY <1>0, <1>3, DraggableAssumption
    DEF _on_pointer_up, _set_position, TypeOK, ShownWhereItIs, Number, NotGrabbed, Clients
  <2>2. Dragged' = {}
    BY <1>0, <1>3 DEF _on_pointer_up, Dragged, TypeOK
  <2>3. DraggedAboveOthers' /\ GripIsDistance' /\ DragStylesEnd'
    BY <1>0, <1>3, <2>2
    DEF _on_pointer_up, DraggedAboveOthers, GripIsDistance, DragStylesEnd
  <2> QED  BY <2>1, <2>3 DEF DraggableInv
<1>4. ASSUME NEW e \in Element, NEW x \in Clients, SetPosition(e, x) PROVE DraggableInv'
  <2>1. TypeOK' /\ ShownWhereItIs'
    BY <1>0, <1>4, Differences DEF SetPosition, TypeOK, ShownWhereItIs, Number
  <2>2. Dragged' = Dragged
    BY <1>4 DEF SetPosition, Dragged
  <2>3. DraggedAboveOthers' /\ GripIsDistance' /\ DragStylesEnd'
    BY <1>0, <1>4, <2>2 DEF SetPosition, DraggedAboveOthers, GripIsDistance, DragStylesEnd
  <2> QED  BY <2>1, <2>3 DEF DraggableInv
<1>5. ASSUME NEW e \in Element, Destroy(e) PROVE DraggableInv'
  <2>1. oOriginal[e].left + _set_position(oOriginal[e].transform, at[e]) \in Int
    BY <1>0 DEF TypeOK, Number, _set_position
  <2>2. TypeOK' /\ ShownWhereItIs'
    BY <1>0, <1>5, <2>1 DEF Destroy, TypeOK, ShownWhereItIs
  <2>3. Dragged' = Dragged \ {e}
    BY <1>5 DEF Destroy, Dragged
  <2>4. DraggedAboveOthers' /\ GripIsDistance' /\ DragStylesEnd'
    BY <1>0, <1>5, <2>3
    DEF Destroy, DraggedAboveOthers, GripIsDistance, DragStylesEnd, Dragged
  <2> QED  BY <2>2, <2>4 DEF DraggableInv
<1>6. ASSUME NEW e \in Element,
             \/ Enable(e) \/ Disable(e)
             \/ \E h \in Handle, bSnap \in BOOLEAN : UpdateOptions(e, h, bSnap)
      PROVE  DraggableInv'
  <2>1. UNCHANGED <<moveVars, zVars, live, grabbed>> /\ bSnapToGrid' \in [Element -> BOOLEAN]
    <3>1. CASE Enable(e) \/ Disable(e)
      BY <1>0, <3>1 DEF Enable, Disable, TypeOK
    <3>2. ASSUME NEW h \in Handle, NEW bSnap \in BOOLEAN, UpdateOptions(e, h, bSnap)
          PROVE  /\ UNCHANGED <<moveVars, zVars, live, grabbed>>
                 /\ bSnapToGrid' \in [Element -> BOOLEAN]
      BY <1>0, <3>2 DEF UpdateOptions, TypeOK
    <3> QED  BY <1>6, <3>1, <3>2
  <2>2. TypeOK'
    BY <1>0, <2>1 DEF TypeOK, moveVars, zVars
  <2>3. Dragged' = Dragged
    BY <2>1 DEF Dragged, moveVars
  <2>4. DraggedAboveOthers' /\ ShownWhereItIs'
    BY <1>0, <2>1, <2>3 DEF DraggedAboveOthers, ShownWhereItIs, moveVars, zVars
  <2>5. GripIsDistance' /\ DragStylesEnd'
    BY <1>0, <2>1, <2>3 DEF GripIsDistance, DragStylesEnd, moveVars
  <2> QED  BY <2>2, <2>4, <2>5 DEF DraggableInv
<1>7. CASE UNCHANGED vars
  BY <1>0, <1>7
  DEF vars, DraggableInv, TypeOK, DraggedAboveOthers, ShownWhereItIs, GripIsDistance,
      DragStylesEnd, Dragged
<1>8. 0 \in Clients
  BY DraggableAssumption DEF Clients
<1> QED
  BY <1>1, <1>2, <1>3, <1>4, <1>5, <1>6, <1>7, <1>8 DEF Next, Move, ResetPosition

\* The inductive invariant of UIDraggable.
THEOREM DraggableInvariant == Spec => []DraggableInv
  BY DraggableInvInit, DraggableInvNext, PTL DEF Spec

\* The element that alone is dragged is above all the others (the dragging
\* setter of UIDraggable and its counter iZIndex_s).
THEOREM DraggedElementIsOnTop == Spec => []DraggedIsOnTop
<1>1. DraggableInv => DraggedIsOnTop
  BY DEF DraggableInv, DraggedAboveOthers, DraggedIsOnTop
<1> QED  BY DraggableInvariant, <1>1, PTL

\* What GetPosition answers is the offset the element has, or no number
\* (_set_position and _on_pointer_up of UIDraggable).
THEOREM PositionsAreShown == Spec => []PositionIsShown
<1>1. DraggableInv => PositionIsShown
  BY DEF DraggableInv, ShownWhereItIs, PositionIsShown
<1> QED  BY DraggableInvariant, <1>1, PTL

\* The styles of a drag are on exactly the elements that are dragged
\* (oDraggingStyles and oOriginalElementStyle of UIDraggable).
THEOREM StylesEndWithTheDrag == Spec => []DragStylesEnd
<1>1. DraggableInv => DragStylesEnd
  BY DEF DraggableInv
<1> QED  BY DraggableInvariant, <1>1, PTL

\* A pointer that comes back to where it took an element gives the element the
\* offset it was taken at, whatever the layout made of the bounds meanwhile
\* (_on_pointer_down and _on_pointer_move).
THEOREM DragKeepsItsGrip == Spec => GripHolds
<1> DEFINE Back ==
      \A e \in Dragged : grabbed[e].by # 0 /\ iInitial[e] # NaN =>
          \A box \in [Dragged -> Boxes] : _on_pointer_move(grabbed[e].by, box) =>
              at'[e] = Placed(e, grabbed[e].at, box[e])
<1>1. ASSUME DraggableInv PROVE Back
  <2> SUFFICES ASSUME NEW e \in Dragged, grabbed[e].by # 0, iInitial[e] # NaN,
                      NEW box \in [Dragged -> Boxes],
                      _on_pointer_move(grabbed[e].by, box)
               PROVE  at'[e] = Placed(e, grabbed[e].at, box[e])
    OBVIOUS
  <2> DEFINE c == grabbed[e].by
  <2>1. TypeOK /\ GripIsDistance
    BY <1>1 DEF DraggableInv
  <2>2. e \in Element /\ c \in Clients /\ c \in Int /\ grabbed[e].at \in Int
    BY <2>1, Differences DEF TypeOK, Dragged
  <2>3. iInitial[e] = c - grabbed[e].at /\ iInitial[e] \in Int
    BY <2>1, <2>2 DEF GripIsDistance
  <2>4. Minus(ClientX(c), iInitial[e]) = grabbed[e].at
    <3>1. ClientX(c) = c
      BY <2>2, Differences
    <3>2. Minus(c, iInitial[e]) = c - iInitial[e]
      BY <2>2, <2>3, Differences
    <3> QED  BY <2>2, <2>3, <3>1, <3>2
  <2>5. Placed(e, grabbed[e].at, box[e]) # NaN
    BY <2>2, PlacedIsNumber, NaNIsNoNumber
  <2>6. iCurrent'[e] = Placed(e, Minus(ClientX(c), iInitial[e]), box[e])
    BY <2>2 DEF _on_pointer_move
  <2>7. at'[e] = _set_position(iCurrent'[e], at[e])
    BY <2>2 DEF _on_pointer_move
  <2> QED  BY <2>4, <2>5, <2>6, <2>7 DEF _set_position
<1>2. DraggableInv /\ [Next]_vars => [Back]_vars
  BY <1>1
<1> QED  BY DraggableInvariant, <1>1, PTL DEF GripHolds, Back
=============================================================================
