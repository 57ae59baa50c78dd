------------------------- MODULE EndpointPageProofs -------------------------
(***************************************************************************)
(* Proofs about the endpoint page: its tab control, for any finite set of  *)
(* tabs, and its table of commands with the list that shows it, for any    *)
(* words, values and number of rows.                                       *)
(***************************************************************************)
EXTENDS EndpointPage, SequenceTheorems, FiniteSetTheorems, WellFoundedInduction,
        TLAPS

\* The three places that name the active tab agree: what each is, as the
\* control keeps it between two events.
TabsTypeOK ==
    /\ aTabs \in Seq(Tab)
    /\ iActiveIndex \in Int
    /\ label \in [Tab -> Int]
    /\ live \in BOOLEAN

\* No tab is in the row twice.
NoTabTwice ==
    \A i, j \in DOMAIN aTabs : aTabs[i] = aTabs[j] => i = j

\* The button of a tab carries the position of that tab.
ButtonsAreNumbered ==
    \A i \in DOMAIN aTabs : label[aTabs[i]] = i - 1

\* A control with tabs has an active one.
OneTabIsActive ==
    aTabs # <<>> => iActiveIndex \in 0..(Len(aTabs) - 1)

\* A control that is destroyed has no tabs.
DestroyedIsEmpty ==
    ~live => aTabs = <<>>

\* The panel on display is the one at the active index.
ActivePanelShown ==
    shown = Tabs!GetTab(iActiveIndex)

TabsInv ==
    /\ TabsTypeOK
    /\ NoTabTwice
    /\ ButtonsAreNumbered
    /\ OneTabIsActive
    /\ DestroyedIsEmpty
    /\ ActivePanelShown

-----------------------------------------------------------------------------
(* The operators on the row of tabs.                                       *)

\* Array.splice(k, 1) as RemoveTab calls it: the tabs before the place stay,
\* those behind it move one to the front.
LEMMA SpliceMovesUp ==
    ASSUME NEW S, NEW s \in Seq(S), NEW k \in 1..Len(s)
    PROVE  /\ Tabs!RemoveAt(s, k) \in Seq(S)
           /\ Len(Tabs!RemoveAt(s, k)) = Len(s) - 1
           /\ \A j \in 1..(Len(s) - 1) :
                 Tabs!RemoveAt(s, k)[j] = s[IF j < k THEN j ELSE j + 1]
<1> DEFINE front == SubSeq(s, 1, k - 1)
           back == SubSeq(s, k + 1, Len(s))
<1>1. Len(s) \in Nat
  BY LenProperties
<1>2. /\ front \in Seq(S)
      /\ Len(front) = k - 1
      /\ \A j \in 1..(k - 1) : front[j] = s[j]
  BY <1>1, SubSeqProperties
<1>3. /\ back \in Seq(S)
      /\ Len(back) = Len(s) - k
      /\ \A j \in 1..(Len(s) - k) : back[j] = s[k + j]
  BY <1>1, SubSeqProperties
<1>4. Tabs!RemoveAt(s, k) = front \o back
  BY DEF Tabs!RemoveAt
<1> HIDE DEF front, back
<1>5. /\ front \o back \in Seq(S)
      /\ Len(front \o back) = Len(front) + Len(back)
      /\ \A j \in 1..(Len(front) + Len(back)) :
            (front \o back)[j] = IF j <= Len(front) THEN front[j]
                                                    ELSE back[j - Len(front)]
  BY <1>2, <1>3, ConcatProperties
<1>6. ASSUME NEW j \in 1..(Len(s) - 1), j < k
      PROVE  (front \o back)[j] = s[j]
  BY <1>1, <1>2, <1>3, <1>5, <1>6
<1>7. ASSUME NEW j \in 1..(Len(s) - 1), ~(j < k)
      PROVE  (front \o back)[j] = s[j + 1]
  <2>1. j - (k - 1) \in 1..(Len(s) - k) /\ k + (j - (k - 1)) = j + 1
    BY <1>1, <1>7
  <2>2. (front \o back)[j] = back[j - (k - 1)]
    BY <1>1, <1>2, <1>3, <1>5, <1>7
  <2> QED  BY <1>3, <2>1, <2>2
<1> QED  BY <1>1, <1>2, <1>3, <1>4, <1>5, <1>6, <1>7

\* findIndex of a tab in a row that holds it once answers its place: this is
\* what SelectInSeq is of it.
LEMMA SearchFindsThePlace ==
    ASSUME NEW S, NEW s \in Seq(S), NEW k \in 1..Len(s),
           \A i, j \in DOMAIN s : s[i] = s[j] => i = j
    PROVE  LET I == {i \in 1..Len(s) : s[i] = s[k]}
           IN  (IF I # {} THEN Tabs!Min(I) ELSE 0) = k
<1> DEFINE I == {i \in 1..Len(s) : s[i] = s[k]}
<1>1. Len(s) \in Nat /\ DOMAIN s = 1..Len(s)
  BY LenProperties
<1>2. I = {k}
  BY <1>1
<1>3. Tabs!Min({k}) = k
  BY <1>1 DEF Tabs!Min
<1> QED  BY <1>2, <1>3

\* The tabs at an index: one, or none.
LEMMA TabAtIndex ==
    ASSUME TabsTypeOK
    PROVE  /\ Len(aTabs) \in Nat
           /\ DOMAIN aTabs = 1..Len(aTabs)
           /\ \A k \in DOMAIN aTabs : aTabs[k] \in Tab
           /\ aTabs = <<>> <=> Len(aTabs) = 0
           /\ \A i \in Int : Tabs!GetTab(i) = IF i + 1 \in DOMAIN aTabs
                                              THEN {aTabs[i + 1]} ELSE {}
<1>1. /\ Len(aTabs) \in Nat
      /\ DOMAIN aTabs = 1..Len(aTabs)
      /\ \A k \in DOMAIN aTabs : aTabs[k] \in Tab
      /\ aTabs = <<>> <=> Len(aTabs) = 0
  BY LenProperties, EmptySeq DEF TabsTypeOK
<1>2. \A i \in Int : Tabs!GetTab(i) = IF i + 1 \in DOMAIN aTabs
                                      THEN {aTabs[i + 1]} ELSE {}
  BY DEF Tabs!GetTab
<1> QED  BY <1>1, <1>2

-----------------------------------------------------------------------------
(* The steps.                                                              *)

\* The control is made with its buttons numbered and its first tab active.
LEMMA TabsInitially ==
    ASSUME Tabs!Init
    PROVE  TabsInv
<1>1. PICK T \in SUBSET Tab : aTabs \in Tabs!SetToSeqs(T)
  BY DEF Tabs!Init
<1>2. Tabs!Cardinality(T) = Cardinality(T)
  BY DEF Tabs!Cardinality, Cardinality
<1>3. Cardinality(T) \in Nat
  BY TabsAreFinite, FS_Subset, FS_CardinalityType
<1>4. /\ aTabs \in [1..Cardinality(T) -> T]
      /\ NoTabTwice
  BY <1>1, <1>2 DEF Tabs!SetToSeqs, NoTabTwice
<1>5. /\ aTabs \in Seq(Tab)
      /\ Len(aTabs) = Cardinality(T)
      /\ DOMAIN aTabs = 1..Len(aTabs)
  BY <1>3, <1>4, IsASeq, LenProperties
<1>6. \A k \in DOMAIN aTabs : label[aTabs[k]] = k - 1
  <2>1. SUFFICES ASSUME NEW k \in DOMAIN aTabs
                 PROVE  label[aTabs[k]] = k - 1
    OBVIOUS
  <2>2. aTabs[k] \in Tab /\ aTabs[k] \in Tabs!AddedTabs
    BY <1>5 DEF Tabs!AddedTabs, Tabs!ToSet
  <2>3. Tabs!SelectInSeq(aTabs, LAMBDA u : u = aTabs[k]) = k
    BY <1>4, <1>5, SearchFindsThePlace DEF NoTabTwice, Tabs!SelectInSeq
  <2> QED  BY <2>2, <2>3 DEF Tabs!Init
<1>7. label \in [Tab -> Int]
  <2>1. \A t \in Tab : t \in Tabs!AddedTabs =>
           \E k \in DOMAIN aTabs : t = aTabs[k]
    BY DEF Tabs!AddedTabs, Tabs!ToSet
  <2>2. \A t \in Tab : label[t] \in Int
    <3>1. SUFFICES ASSUME NEW t \in Tab
                   PROVE  label[t] \in Int
      OBVIOUS
    <3>2. CASE t \in Tabs!AddedTabs
      BY <1>5, <1>6, <2>1, <3>2
    <3>3. CASE t \notin Tabs!AddedTabs
      BY <3>3 DEF Tabs!Init
    <3> QED  BY <3>2, <3>3
  <2> QED  BY <2>2 DEF Tabs!Init
<1>8. /\ iActiveIndex = IF aTabs = <<>> THEN -1 ELSE 0
      /\ shown = IF aTabs = <<>> THEN {} ELSE {aTabs[1]}
      /\ live = TRUE
  BY DEF Tabs!Init
<1>9. TabsTypeOK
  BY <1>5, <1>7, <1>8 DEF TabsTypeOK
<1>10. OneTabIsActive /\ ActivePanelShown
  <2>1. /\ Len(aTabs) \in Nat
        /\ DOMAIN aTabs = 1..Len(aTabs)
        /\ aTabs = <<>> <=> Len(aTabs) = 0
    BY <1>9, TabAtIndex
  <2>2. Tabs!GetTab(iActiveIndex) = IF iActiveIndex + 1 \in DOMAIN aTabs
                                    THEN {aTabs[iActiveIndex + 1]} ELSE {}
    BY <1>9, TabAtIndex DEF TabsTypeOK
  <2>3. CASE aTabs = <<>>
    BY <1>8, <2>1, <2>2, <2>3 DEF OneTabIsActive, ActivePanelShown
  <2>4. CASE aTabs # <<>>
    <3>1. iActiveIndex = 0 /\ shown = {aTabs[1]} /\ 0 + 1 \in DOMAIN aTabs
      BY <1>8, <2>1, <2>4
    <3> QED  BY <2>1, <2>2, <3>1 DEF OneTabIsActive, ActivePanelShown
  <2> QED  BY <2>3, <2>4
<1> QED
  BY <1>4, <1>6, <1>8, <1>9, <1>10
  DEF TabsInv, ButtonsAreNumbered, DestroyedIsEmpty

\* Activating a tab, by the program or by a click, hides the panel on display
\* and shows that of the tab, or changes nothing.
LEMMA ActivationKeepsInv ==
    ASSUME TabsInv,
           NEW iIndex \in Int, Tabs!SetActiveTab(aTabs, iIndex, shown),
           UNCHANGED <<aTabs, label, live>>
    PROVE  TabsInv'
<1>1. CASE iIndex \notin 0..(Len(aTabs) - 1)
  BY <1>1
  DEF Tabs!SetActiveTab, Tabs!Indexes, Tabs!GetTab, TabsInv, TabsTypeOK, NoTabTwice,
      ButtonsAreNumbered, OneTabIsActive, DestroyedIsEmpty, ActivePanelShown
<1>2. CASE iIndex \in 0..(Len(aTabs) - 1)
  <2>1. /\ shown' = (shown \ Tabs!GetTab(iActiveIndex)) \cup {aTabs[iIndex + 1]}
        /\ iActiveIndex' = iIndex
    BY <1>2 DEF Tabs!SetActiveTab, Tabs!Indexes, Tabs!GetTab
  <2>2. shown' = {aTabs[iIndex + 1]}
    BY <2>1 DEF TabsInv, ActivePanelShown
  <2>3. Tabs!GetTab(iIndex) = {aTabs[iIndex + 1]}
    BY <1>2, TabAtIndex DEF TabsInv
  <2>4. Tabs!GetTab(iActiveIndex)' = Tabs!GetTab(iIndex)
    BY <2>1 DEF Tabs!GetTab
  <2> QED
    BY <1>2, <2>1, <2>2, <2>3, <2>4
    DEF TabsInv, TabsTypeOK, NoTabTwice, ButtonsAreNumbered, OneTabIsActive,
        DestroyedIsEmpty, ActivePanelShown
<1> QED  BY <1>1, <1>2

\* A tab that is added stands last; it is shown if it is the only one.
LEMMA AddTabKeepsInv ==
    ASSUME TabsInv, NEW t \in Tab, Tabs!AddTab(t)
    PROVE  TabsInv'
<1>1. /\ Len(aTabs) \in Nat
      /\ DOMAIN aTabs = 1..Len(aTabs)
      /\ aTabs = <<>> <=> Len(aTabs) = 0
      /\ \A k \in DOMAIN aTabs : aTabs[k] \in Tab
  BY TabAtIndex DEF TabsInv
<1>2. /\ aTabs' \in Seq(Tab)
      /\ Len(aTabs') = Len(aTabs) + 1
      /\ \A k \in 1..Len(aTabs) : aTabs'[k] = aTabs[k]
      /\ aTabs'[Len(aTabs) + 1] = t
  BY <1>1, AppendProperties DEF Tabs!AddTab, TabsInv, TabsTypeOK
<1>3. DOMAIN aTabs' = 1..(Len(aTabs) + 1)
  BY <1>2, LenProperties
<1>4. \A k \in DOMAIN aTabs : aTabs[k] # t
  BY DEF Tabs!AddTab, Tabs!AddedTabs, Tabs!ToSet
<1>5. NoTabTwice'
  BY <1>1, <1>2, <1>3, <1>4 DEF TabsInv, NoTabTwice
<1>6. label' \in [Tab -> Int] /\ ButtonsAreNumbered'
  <2>1. label' = [label EXCEPT ![t] = Len(aTabs)]
    BY DEF Tabs!AddTab
  <2>2. label' \in [Tab -> Int]
    BY <1>1, <2>1 DEF TabsInv, TabsTypeOK
  <2>3. \A k \in 1..Len(aTabs) : label'[aTabs'[k]] = k - 1
    BY <1>1, <1>2, <1>4, <2>1 DEF TabsInv, TabsTypeOK, ButtonsAreNumbered
  <2>4. label'[aTabs'[Len(aTabs) + 1]] = Len(aTabs)
    BY <1>2, <2>1 DEF TabsInv, TabsTypeOK
  <2> QED
    BY <1>1, <1>3, <2>2, <2>3, <2>4 DEF ButtonsAreNumbered
<1>7. CASE aTabs = <<>>
  <2>1. Tabs!SetActiveTab(aTabs', 0, shown)
    BY <1>7 DEF Tabs!AddTab
  <2>2. 0 \in Tabs!Indexes(aTabs')
    BY <1>1, <1>2, <1>7 DEF Tabs!Indexes
  <2>3. shown = {}
    BY <1>1, <1>7, TabAtIndex DEF TabsInv, TabsTypeOK, ActivePanelShown
  <2>4. shown' = {aTabs'[1]} /\ iActiveIndex' = 0
    BY <2>1, <2>2, <2>3 DEF Tabs!SetActiveTab
  <2>5. Tabs!GetTab(iActiveIndex)' = {aTabs'[1]}
    BY <1>1, <1>3, <1>7, <2>4 DEF Tabs!GetTab
  <2> QED
    BY <1>1, <1>2, <1>5, <1>6, <1>7, <2>4, <2>5
    DEF Tabs!AddTab, TabsInv, TabsTypeOK, OneTabIsActive, DestroyedIsEmpty,
        ActivePanelShown
<1>8. CASE aTabs # <<>>
  <2>1. UNCHANGED <<iActiveIndex, shown>>
    BY <1>8 DEF Tabs!AddTab
  <2>2. iActiveIndex \in 0..(Len(aTabs) - 1)
    BY <1>8 DEF TabsInv, OneTabIsActive
  <2>3. Tabs!GetTab(iActiveIndex)' = Tabs!GetTab(iActiveIndex)
    BY <1>1, <1>2, <1>3, <2>1, <2>2 DEF Tabs!GetTab
  <2> QED
    BY <1>1, <1>2, <1>5, <1>6, <2>1, <2>2, <2>3
    DEF Tabs!AddTab, TabsInv, TabsTypeOK, OneTabIsActive, DestroyedIsEmpty,
        ActivePanelShown
<1> QED  BY <1>7, <1>8

\* What RemoveTab leaves: the row without the tab, and the buttons of the
\* other tabs numbered anew.
LEMMA RemovalRenumbers ==
    ASSUME TabsInv, NEW iIndex \in 0..(Len(aTabs) - 1), Tabs!RemoveTab(iIndex)
    PROVE  /\ aTabs' \in Seq(Tab)
           /\ Len(aTabs') = Len(aTabs) - 1
           /\ DOMAIN aTabs' = 1..(Len(aTabs) - 1)
           /\ \A j \in 1..(Len(aTabs) - 1) :
                 aTabs'[j] = aTabs[IF j < iIndex + 1 THEN j ELSE j + 1]
           /\ \A j \in DOMAIN aTabs' : aTabs'[j] # aTabs[iIndex + 1]
           /\ NoTabTwice'
           /\ label' \in [Tab -> Int]
           /\ ButtonsAreNumbered'
<1>1. /\ Len(aTabs) \in Nat
      /\ DOMAIN aTabs = 1..Len(aTabs)
      /\ \A k \in DOMAIN aTabs : aTabs[k] \in Tab
  BY TabAtIndex DEF TabsInv
<1>2. aTabs' = Tabs!RemoveAt(aTabs, iIndex + 1) /\ iIndex + 1 \in 1..Len(aTabs)
  BY <1>1 DEF Tabs!RemoveTab
<1>3. /\ aTabs' \in Seq(Tab)
      /\ Len(aTabs') = Len(aTabs) - 1
      /\ \A j \in 1..(Len(aTabs) - 1) :
            aTabs'[j] = aTabs[IF j < iIndex + 1 THEN j ELSE j + 1]
  BY <1>2, SpliceMovesUp DEF TabsInv, TabsTypeOK
<1>4. DOMAIN aTabs' = 1..(Len(aTabs) - 1)
  BY <1>3, LenProperties
<1> DEFINE Old(j) == IF j < iIndex + 1 THEN j ELSE j + 1
<1>11. /\ \A j \in DOMAIN aTabs' : /\ Old(j) \in DOMAIN aTabs \ {iIndex + 1}
                                  /\ aTabs'[j] = aTabs[Old(j)]
      /\ \A i, j \in DOMAIN aTabs' : Old(i) = Old(j) => i = j
  BY <1>1, <1>3, <1>4
<1> HIDE DEF Old
<1>12. \A i, j \in DOMAIN aTabs : aTabs[i] = aTabs[j] => i = j
  BY DEF TabsInv, NoTabTwice
<1>5. \A j \in DOMAIN aTabs' : aTabs'[j] # aTabs[iIndex + 1]
  BY <1>1, <1>2, <1>11, <1>12
<1>6. \A i, j \in DOMAIN aTabs' : aTabs'[i] = aTabs'[j] => i = j
  BY <1>11, <1>12
<1>7. label' = [u \in Tab |-> IF u \in Tabs!AddedTabs \ {aTabs[iIndex + 1]}
                              THEN Tabs!SelectInSeq(aTabs', LAMBDA v : v = u) - 1
                              ELSE label[u]]
  BY DEF Tabs!RemoveTab
<1>8. \A j \in DOMAIN aTabs' : label'[aTabs'[j]] = j - 1
  <2>1. SUFFICES ASSUME NEW j \in DOMAIN aTabs'
                 PROVE  label'[aTabs'[j]] = j - 1
    OBVIOUS
  <2>2. PICK u \in Tab : u = aTabs'[j]
    BY <1>3, <1>4, ElementOfSeq
  <2>3. u \in Tabs!AddedTabs \ {aTabs[iIndex + 1]}
    BY <1>1, <1>3, <1>4, <1>5, <2>2 DEF Tabs!AddedTabs, Tabs!ToSet
  <2>4. Tabs!SelectInSeq(aTabs', LAMBDA v : v = aTabs'[j]) = j
    <3>1. PICK row \in Seq(Tab) : row = aTabs'
      BY <1>3
    <3>2. j \in 1..Len(row) /\ \A i, k \in DOMAIN row : row[i] = row[k] => i = k
      BY <1>3, <1>4, <1>6, <3>1
    <3>3. Tabs!SelectInSeq(row, LAMBDA v : v = row[j]) = j
      BY <3>2, SearchFindsThePlace DEF Tabs!SelectInSeq
    <3> QED  BY <3>1, <3>3
  <2>5. label'[u] = Tabs!SelectInSeq(aTabs', LAMBDA v : v = u) - 1
    BY <1>7, <2>3
  <2> QED  BY <2>2, <2>4, <2>5
<1>9. \A u \in Tabs!AddedTabs \ {aTabs[iIndex + 1]} :
         \E j \in DOMAIN aTabs' : u = aTabs'[j]
  <2>1. SUFFICES ASSUME NEW k \in DOMAIN aTabs, k # iIndex + 1
                 PROVE  \E j \in DOMAIN aTabs' : aTabs[k] = aTabs'[j]
    BY DEF Tabs!AddedTabs, Tabs!ToSet
  <2>2. CASE k < iIndex + 1
    BY <1>1, <1>3, <1>4, <2>1, <2>2
  <2>3. CASE k > iIndex + 1
    <3>1. k - 1 \in DOMAIN aTabs' /\ aTabs'[k - 1] = aTabs[k]
      BY <1>1, <1>3, <1>4, <2>1, <2>3
    <3> QED  BY <3>1
  <2> QED  BY <1>1, <2>1, <2>2, <2>3
<1>10. label' \in [Tab -> Int]
  <2>1. ASSUME NEW u \in Tab
        PROVE  label'[u] \in Int
    <3>1. CASE u \in Tabs!AddedTabs \ {aTabs[iIndex + 1]}
      BY <1>4, <1>8, <1>9, <3>1
    <3>2. CASE u \notin Tabs!AddedTabs \ {aTabs[iIndex + 1]}
      BY <1>7, <3>2 DEF TabsInv, TabsTypeOK
    <3> QED  BY <3>1, <3>2
  <2> QED  BY <1>7, <2>1
<1> QED
  BY <1>3, <1>4, <1>5, <1>6, <1>8, <1>10 DEF NoTabTwice, ButtonsAreNumbered

\* The removal of the active tab activates its neighbour; the removal of
\* another one leaves the panel on display, whose tab may have moved.
LEMMA RemovalKeepsTheActive ==
    ASSUME TabsInv, NEW iIndex \in 0..(Len(aTabs) - 1), Tabs!RemoveTab(iIndex)
    PROVE  /\ iActiveIndex' \in Int
           /\ OneTabIsActive'
           /\ ActivePanelShown'
           /\ iIndex = iActiveIndex => shown = {aTabs[iIndex + 1]}
           /\ iIndex # iActiveIndex => shown' = shown
<1>1. /\ Len(aTabs) \in Nat \ {0}
      /\ DOMAIN aTabs = 1..Len(aTabs)
      /\ aTabs # <<>>
  BY TabAtIndex DEF TabsInv
<1>2. /\ aTabs' \in Seq(Tab)
      /\ Len(aTabs') = Len(aTabs) - 1
      /\ DOMAIN aTabs' = 1..(Len(aTabs) - 1)
      /\ \A j \in 1..(Len(aTabs) - 1) :
            aTabs'[j] = aTabs[IF j < iIndex + 1 THEN j ELSE j + 1]
  BY RemovalRenumbers
<1>3. aTabs' = <<>> <=> Len(aTabs) = 1
  BY <1>1, <1>2, EmptySeq
<1>4. /\ iActiveIndex \in 0..(Len(aTabs) - 1)
      /\ shown = {aTabs[iActiveIndex + 1]}
  BY <1>1, TabAtIndex DEF TabsInv, TabsTypeOK, OneTabIsActive, ActivePanelShown
<1>5. CASE iActiveIndex = iIndex /\ Len(aTabs) > 1
  <2> DEFINE last == Len(aTabs) - 2
             next == IF iIndex < last THEN iIndex ELSE last
  <2>1. Tabs!SetActiveTab(aTabs', next, shown \ {aTabs[iIndex + 1]})
    BY <1>1, <1>5 DEF Tabs!RemoveTab
  <2>2. next \in 0..(Len(aTabs') - 1) /\ next \in Tabs!Indexes(aTabs')
    BY <1>1, <1>2, <1>5 DEF Tabs!Indexes
  <2> HIDE DEF next
  <2>3. shown \ {aTabs[iIndex + 1]} = {}
    BY <1>4, <1>5
  <2>4. shown' = {aTabs'[next + 1]} /\ iActiveIndex' = next
    BY <2>1, <2>2, <2>3 DEF Tabs!SetActiveTab
  <2>5. Tabs!GetTab(iActiveIndex)' = {aTabs'[next + 1]}
    BY <1>1, <1>2, <2>2, <2>4 DEF Tabs!GetTab
  <2> QED
    BY <1>1, <1>2, <1>4, <1>5, <2>2, <2>4, <2>5 DEF OneTabIsActive, ActivePanelShown
<1>6. CASE ~(iActiveIndex = iIndex /\ Len(aTabs) > 1)
  <2>1. /\ shown' = shown \ {aTabs[iIndex + 1]}
        /\ iActiveIndex' = IF iActiveIndex < iIndex THEN iActiveIndex
                                                    ELSE iActiveIndex - 1
    BY <1>1, <1>6 DEF Tabs!RemoveTab
  <2>2. CASE iActiveIndex = iIndex
    <3>1. Len(aTabs) = 1 /\ iActiveIndex' = -1 /\ shown' = {}
      BY <1>1, <1>4, <1>6, <2>1, <2>2
    <3>2. Tabs!GetTab(iActiveIndex)' = {}
      BY <1>2, <3>1 DEF Tabs!GetTab
    <3> QED
      BY <1>3, <1>4, <2>2, <3>1, <3>2 DEF OneTabIsActive, ActivePanelShown
  <2>3. CASE iActiveIndex # iIndex
    <3>1. aTabs[iActiveIndex + 1] # aTabs[iIndex + 1]
      BY <1>1, <1>4, <2>3 DEF TabsInv, NoTabTwice
    <3>2. shown' = {aTabs[iActiveIndex + 1]}
      BY <1>4, <2>1, <3>1
    <3>3. /\ iActiveIndex' \in 0..(Len(aTabs') - 1)
          /\ aTabs'[iActiveIndex' + 1] = aTabs[iActiveIndex + 1]
      BY <1>1, <1>2, <1>4, <2>1, <2>3
    <3>4. Tabs!GetTab(iActiveIndex)' = {aTabs[iActiveIndex + 1]}
      BY <1>1, <1>2, <3>3, SMTT(30) DEF Tabs!GetTab
    <3> QED
      BY <1>4, <2>3, <3>2, <3>3, <3>4 DEF OneTabIsActive, ActivePanelShown
  <2> QED  BY <2>2, <2>3
<1> QED  BY <1>5, <1>6

\* Together: RemoveTab.
LEMMA RemoveTabKeepsInv ==
    ASSUME TabsInv, NEW iIndex \in 0..(Len(aTabs) - 1), Tabs!RemoveTab(iIndex)
    PROVE  TabsInv'
<1>1. UNCHANGED live /\ live
  <2>1. aTabs # <<>>
    BY TabAtIndex DEF TabsInv
  <2> QED  BY <2>1 DEF Tabs!RemoveTab, TabsInv, DestroyedIsEmpty
<1> QED
  BY <1>1, RemovalRenumbers, RemovalKeepsTheActive
  DEF TabsInv, TabsTypeOK, DestroyedIsEmpty

\* Destroy leaves nothing to show.
LEMMA DestroyKeepsInv ==
    ASSUME TabsInv, Tabs!Destroy
    PROVE  TabsInv'
<1>1. aTabs' \in Seq(Tab) /\ DOMAIN aTabs' = {}
  BY EmptySeq DEF Tabs!Destroy
<1>2. Tabs!GetTab(iActiveIndex)' = {}
  BY <1>1 DEF Tabs!GetTab
<1> QED
  BY <1>1, <1>2
  DEF Tabs!Destroy, TabsInv, TabsTypeOK, NoTabTwice, ButtonsAreNumbered,
      OneTabIsActive, DestroyedIsEmpty, ActivePanelShown

-----------------------------------------------------------------------------
(* The theorems.                                                           *)

\* Whatever a user and the page do in whatever order, the active index, the
\* numbers on the buttons and the panel on display name the same tabs.
THEOREM TabsInvariant == PageSpec => []TabsInv
<1>1. PageInit => TabsInv
  BY TabsInitially DEF PageInit
<1>2. TabsInv /\ [PageNext]_pageVars => TabsInv'
  <2> SUFFICES ASSUME TabsInv, [PageNext]_pageVars
               PROVE  TabsInv'
    OBVIOUS
  <2>1. CASE UNCHANGED tabVars
    BY <2>1
    DEF tabVars, Tabs!GetTab, TabsInv, TabsTypeOK, NoTabTwice, ButtonsAreNumbered,
        OneTabIsActive, DestroyedIsEmpty, ActivePanelShown
  <2>2. CASE Tabs!Activate
    <3>1. PICK iIndex \in -1..Tabs!Cardinality(Tab) :
             Tabs!SetActiveTab(aTabs, iIndex, shown)
      BY <2>2 DEF Tabs!Activate
    <3>2. iIndex \in Int
      OBVIOUS
    <3> QED  BY <2>2, <3>1, <3>2, ActivationKeepsInv DEF Tabs!Activate
  <2>3. ASSUME NEW t \in Tab, Tabs!_on_click(t)
        PROVE  TabsInv'
    <3>1. label[t] \in Int
      BY DEF TabsInv, TabsTypeOK
    <3> QED  BY <2>3, <3>1, ActivationKeepsInv DEF Tabs!_on_click
  <2>4. ASSUME NEW t \in Tab, Tabs!AddTab(t)
        PROVE  TabsInv'
    BY <2>4, AddTabKeepsInv
  <2>5. ASSUME NEW iIndex \in Tabs!Indexes(aTabs), Tabs!RemoveTab(iIndex)
        PROVE  TabsInv'
    BY <2>5, RemoveTabKeepsInv DEF Tabs!Indexes
  <2>6. CASE Tabs!Destroy
    BY <2>6, DestroyKeepsInv
  <2> QED
    BY <2>1, <2>2, <2>3, <2>4, <2>5, <2>6 DEF PageNext, pageVars, tabVars, Tabs!Next
<1> QED  BY <1>1, <1>2, PTL DEF PageSpec

\* UITabControl shows one panel, that of the active tab, and a click on a
\* button opens the panel of that button.
THEOREM ButtonsOpenTheirPanels == PageSpec => []OnePanelShown
<1>1. TabsInv => OnePanelShown
  <2> SUFFICES ASSUME TabsInv
               PROVE  Tabs!OnePanelShown
    BY DEF OnePanelShown
  <2>1. /\ DOMAIN aTabs = 1..Len(aTabs)
        /\ \A i \in Int : Tabs!GetTab(i) = IF i + 1 \in DOMAIN aTabs
                                           THEN {aTabs[i + 1]} ELSE {}
    BY TabAtIndex DEF TabsInv
  <2>2. ASSUME aTabs # <<>>
        PROVE  Tabs!Cardinality(shown) = 1
    <3>1. PICK t \in Tab : shown = {t}
      BY <2>1, <2>2, TabAtIndex, SMTT(30)
      DEF TabsInv, TabsTypeOK, OneTabIsActive, ActivePanelShown
    <3>2. Tabs!Cardinality(shown) = Cardinality(shown)
      BY DEF Tabs!Cardinality, Cardinality
    <3> QED  BY <3>1, <3>2, FS_Singleton
  <2>3. ASSUME NEW t \in Tabs!AddedTabs
        PROVE  Tabs!GetTab(label[t]) = {t}
    <3>1. PICK k \in DOMAIN aTabs : t = aTabs[k]
      BY DEF Tabs!AddedTabs, Tabs!ToSet
    <3>2. label[t] = k - 1
      BY <3>1 DEF TabsInv, ButtonsAreNumbered
    <3>3. k - 1 \in Int /\ (k - 1) + 1 = k
      BY <2>1
    <3> QED  BY <2>1, <3>1, <3>2, <3>3
  <2> QED  BY <2>2, <2>3 DEF Tabs!OnePanelShown, TabsInv, ActivePanelShown
<1> QED  BY <1>1, TabsInvariant, PTL

\* A tab that is added, or another one that is removed, leaves the panel the
\* user looks at.
THEOREM LookedAtPanelStays == PageSpec => ShownTabStays
<1>1. TabsInv /\ [PageNext]_pageVars =>
         [aTabs' # aTabs /\ shown # {} /\ shown \subseteq Tabs!ToSet(aTabs')
            => shown' = shown]_Tabs!vars
  <2> SUFFICES ASSUME TabsInv, [PageNext]_pageVars,
                      aTabs' # aTabs, shown # {}, shown \subseteq Tabs!ToSet(aTabs')
               PROVE  shown' = shown
    BY DEF Tabs!vars
  <2>1. ASSUME NEW t \in Tab, Tabs!AddTab(t)
        PROVE  shown' = shown
    <3>1. aTabs # <<>>
      BY TabAtIndex DEF TabsInv, TabsTypeOK, ActivePanelShown
    <3> QED  BY <2>1, <3>1 DEF Tabs!AddTab
  <2>2. ASSUME NEW iIndex \in Tabs!Indexes(aTabs), Tabs!RemoveTab(iIndex)
        PROVE  shown' = shown
    <3>1. iIndex \in 0..(Len(aTabs) - 1)
      BY DEF Tabs!Indexes
    <3>2. iIndex # iActiveIndex
      BY <2>2, <3>1, RemovalKeepsTheActive, RemovalRenumbers, SMTT(30) DEF Tabs!ToSet
    <3> QED  BY <2>2, <3>1, <3>2, RemovalKeepsTheActive
  <2>3. ASSUME Tabs!Destroy
        PROVE  FALSE
    <3>1. DOMAIN aTabs' = {}
      BY <2>3 DEF Tabs!Destroy
    <3> QED  BY <3>1 DEF Tabs!ToSet
  <2> QED
    BY <2>1, <2>2, <2>3
    DEF PageNext, pageVars, tabVars, Tabs!Next, Tabs!Activate, Tabs!_on_click
<1> QED
  BY <1>1, TabsInvariant, PTL DEF PageSpec, ShownTabStays, Tabs!ShownTabStays
-----------------------------------------------------------------------------
(* Loops.  FindAll and Clone walk over an array and push what they select; *)
(* the lemmas say what a function holds that is defined from one index to  *)
(* the next.                                                               *)

\* Induction on the natural numbers, as a statement on a set.
LEMMA EveryIndex ==
    ASSUME NEW P \in SUBSET Nat, 0 \in P, \A n \in P : n + 1 \in P
    PROVE  P = Nat
<1> DEFINE Rest == Nat \ P
<1>1. SUFFICES ASSUME Rest # {}
               PROVE  FALSE
  OBVIOUS
<1>2. \E n \in Rest : \A m \in Rest : ~(<<m, n>> \in OpToRel(<, Nat))
  BY <1>1, NatLessThanWellFounded, WFMin
<1>3. PICK n \in Rest : \A m \in Rest : ~(m < n)
  BY <1>2 DEF OpToRel
<1>4. n # 0 /\ n - 1 \in Nat /\ n - 1 < n /\ (n - 1) + 1 = n
  OBVIOUS
<1>5. n - 1 \in P
  BY <1>3, <1>4
<1> QED  BY <1>3, <1>4, <1>5

\* The states of a loop of n turns.
LoopOf(n, S, start, turn, f) ==
    /\ f \in [0..n -> S]
    /\ \A i \in 0..n : f[i] = IF i = 0 THEN start ELSE turn[<<i, f[i - 1]>>]

\* A loop of n turns that starts in a set and whose turns stay in it has a
\* state after every turn.
LEMMA LoopRuns ==
    ASSUME NEW n \in Nat, NEW S, NEW start \in S, NEW turn \in [(1..n) \X S -> S]
    PROVE  \E f : LoopOf(n, S, start, turn, f)
<1> DEFINE Runs(k) ==
        \E f \in [0..k -> S] :
            \A i \in 0..k : f[i] = IF i = 0 THEN start ELSE turn[<<i, f[i - 1]>>]
           P == {k \in Nat : k <= n => Runs(k)}
<1>1. 0 \in P
  <2>1. Runs(0)
    <3>1. [i \in 0..0 |-> start] \in [0..0 -> S]
      OBVIOUS
    <3>2. \A i \in 0..0 : i = 0
      OBVIOUS
    <3> QED  BY <3>1, <3>2
  <2> QED  BY <2>1
<1>2. ASSUME NEW k \in P
      PROVE  k + 1 \in P
  <2>1. SUFFICES ASSUME k + 1 <= n
                 PROVE  Runs(k + 1)
    OBVIOUS
  <2>2. PICK f \in [0..k -> S] :
           \A i \in 0..k : f[i] = IF i = 0 THEN start ELSE turn[<<i, f[i - 1]>>]
    BY <2>1
  <2> DEFINE g == [i \in 0..(k + 1) |->
                      IF i = k + 1 THEN turn[<<k + 1, f[k]>>] ELSE f[i]]
  <2>3. turn[<<k + 1, f[k]>>] \in S
    BY <2>1
  <2>4. g \in [0..(k + 1) -> S]
    BY <2>3
  <2>5. ASSUME NEW i \in 0..(k + 1)
        PROVE  g[i] = IF i = 0 THEN start ELSE turn[<<i, g[i - 1]>>]
    <3>1. CASE i = k + 1
      <4>1. g[k + 1] = turn[<<k + 1, f[k]>>] /\ g[k] = f[k]
        OBVIOUS
      <4>2. i # 0 /\ i - 1 = k
        BY <3>1
      <4> HIDE DEF g
      <4> QED  BY <3>1, <4>1, <4>2
    <3>2. CASE i # k + 1
      <4>1. i \in 0..k /\ g[i] = f[i] /\ (i # 0 => i - 1 \in 0..k /\ g[i - 1] = f[i - 1])
        BY <3>2
      <4> QED  BY <2>2, <4>1
    <3> QED  BY <3>1, <3>2
  <2> QED  BY <2>4, <2>5
<1>3. P = Nat
  <2> HIDE DEF P
  <2>1. P \in SUBSET Nat
    BY DEF P
  <2> QED  BY <1>1, <1>2, <2>1, EveryIndex
<1>4. Runs(n)
  BY <1>3
<1> QED  BY <1>4 DEF LoopOf

\* Whatever a loop starts in and keeps holds after every turn.
LEMMA LoopKeeps ==
    ASSUME NEW n \in Nat, NEW S, NEW f, f[0] \in S,
           \A i \in 1..n : f[i - 1] \in S => f[i] \in S
    PROVE  \A i \in 0..n : f[i] \in S
<1> DEFINE P == {k \in Nat : k <= n => f[k] \in S}
<1>1. 0 \in P
  OBVIOUS
<1>2. ASSUME NEW k \in P
      PROVE  k + 1 \in P
  <2>1. k + 1 <= n => k + 1 \in 1..n /\ (k + 1) - 1 = k /\ k <= n
    OBVIOUS
  <2> QED  BY <2>1
<1>3. P = Nat
  <2> HIDE DEF P
  <2>1. P \in SUBSET Nat
    BY DEF P
  <2> QED  BY <1>1, <1>2, <2>1, EveryIndex
<1> QED  BY <1>3

\* FindAll returns numbers.
LEMMA FindAllReturnsIndexes ==
    ASSUME NEW t, Size(t) \in Nat, NEW found
    PROVE  FindAll(t, found) \in Seq(Int)
<1> DEFINE n == Size(t)
           turn == [p \in (1..n) \X Seq(Int) |->
                      IF GetRow(t, p[1] - 1) \in found THEN Append(p[2], p[1] - 1)
                      ELSE p[2]]
<1>1. turn \in [(1..n) \X Seq(Int) -> Seq(Int)]
  <2>1. ASSUME NEW p \in (1..n) \X Seq(Int)
        PROVE  Append(p[2], p[1] - 1) \in Seq(Int) /\ p[2] \in Seq(Int)
    <3>1. p[2] \in Seq(Int) /\ p[1] - 1 \in Int
      OBVIOUS
    <3> QED  BY <3>1, AppendProperties
  <2> QED  BY <2>1
<1>2. <<>> \in Seq(Int)
  BY EmptySeq
<1>3. PICK f \in [0..n -> Seq(Int)] :
         \A i \in 0..n : f[i] = IF i = 0 THEN <<>> ELSE turn[<<i, f[i - 1]>>]
  <2> HIDE DEF turn, n
  <2>1. n \in Nat
    BY DEF n
  <2>2. \E f : LoopOf(n, Seq(Int), <<>>, turn, f)
    BY <1>1, <1>2, <2>1, LoopRuns
  <2> QED  BY <2>2 DEF LoopOf
<1>4. f = [i \in 0..Size(t) |->
              IF i = 0 THEN <<>>
              ELSE IF GetRow(t, i - 1) \in found THEN Append(f[i - 1], i - 1)
              ELSE f[i - 1]]
  <2>1. ASSUME NEW i \in 0..n, i # 0
        PROVE  f[i] = IF GetRow(t, i - 1) \in found THEN Append(f[i - 1], i - 1)
                      ELSE f[i - 1]
    <3>1. <<i, f[i - 1]>> \in (1..n) \X Seq(Int)
      BY <2>1
    <3> QED  BY <1>3, <2>1, <3>1
  <2> QED  BY <1>3, <2>1
<1> DEFINE F == CHOOSE aFind : aFind = [i \in 0..Size(t) |->
                    IF i = 0 THEN <<>>
                    ELSE IF GetRow(t, i - 1) \in found THEN Append(aFind[i - 1], i - 1)
                    ELSE aFind[i - 1]]
<1>5. F = [i \in 0..Size(t) |->
              IF i = 0 THEN <<>>
              ELSE IF GetRow(t, i - 1) \in found THEN Append(F[i - 1], i - 1)
              ELSE F[i - 1]]
  BY <1>4
<1> HIDE DEF F
<1>6. F[0] \in Seq(Int)
  BY <1>2, <1>5
<1>7. ASSUME NEW i \in 1..n, F[i - 1] \in Seq(Int)
      PROVE  F[i] \in Seq(Int)
  <2>1. i - 1 \in Int /\ Append(F[i - 1], i - 1) \in Seq(Int)
    BY <1>7, AppendProperties
  <2>2. i \in 0..Size(t) /\ i # 0
    OBVIOUS
  <2>3. F[i] = IF GetRow(t, i - 1) \in found THEN Append(F[i - 1], i - 1)
               ELSE F[i - 1]
    BY <1>5, <2>2
  <2> HIDE DEF turn, n
  <2> QED  BY <1>7, <2>1, <2>3
<1>8. \A i \in 0..n : F[i] \in Seq(Int)
  <2> HIDE DEF n
  <2>1. n \in Nat
    BY DEF n
  <2> QED  BY <1>6, <1>7, <2>1, LoopKeeps
<1>9. FindAll(t, found) = F[Size(t)]
  BY DEF FindAll, F
<1> QED  BY <1>8, <1>9

\* Clone takes rows of the table, and no others, into one with its columns.
LEMMA CloneTakesRows ==
    ASSUME NEW t, NEW aRows \in Seq(Int)
    PROVE  \E rows \in Seq({t.aTable[k + 1] : k \in RowIndexes(t)}) :
              Clone(t, aRows) = [t EXCEPT !.aTable = rows]
<1> DEFINE n == Len(aRows)
           S == Seq({t.aTable[k + 1] : k \in RowIndexes(t)})
           turn == [p \in (1..n) \X S |->
                      IF aRows[p[1]] \in RowIndexes(t)
                      THEN Append(p[2], t.aTable[aRows[p[1]] + 1])
                      ELSE p[2]]
<1>1. n \in Nat
  BY LenProperties
<1>2. ASSUME NEW s \in S, NEW k \in RowIndexes(t)
      PROVE  Append(s, t.aTable[k + 1]) \in S
  BY AppendProperties
<1>3. <<>> \in S
  BY EmptySeq
<1> HIDE DEF S
<1>4. turn \in [(1..n) \X S -> S]
  BY <1>2
<1>5. PICK f \in [0..n -> S] :
         \A i \in 0..n : f[i] = IF i = 0 THEN <<>> ELSE turn[<<i, f[i - 1]>>]
  <2> HIDE DEF turn, n
  <2>1. \E f : LoopOf(n, S, <<>>, turn, f)
    BY <1>1, <1>3, <1>4, LoopRuns
  <2> QED  BY <2>1 DEF LoopOf
<1>6. f = [i \in 0..Len(aRows) |->
              IF i = 0 THEN <<>>
              ELSE IF aRows[i] \in RowIndexes(t)
              THEN Append(f[i - 1], t.aTable[aRows[i] + 1])
              ELSE f[i - 1]]
  <2>1. ASSUME NEW i \in 0..n, i # 0
        PROVE  f[i] = IF aRows[i] \in RowIndexes(t)
                      THEN Append(f[i - 1], t.aTable[aRows[i] + 1])
                      ELSE f[i - 1]
    <3>1. <<i, f[i - 1]>> \in (1..n) \X S
      BY <1>1, <2>1
    <3> QED  BY <1>5, <2>1, <3>1
  <2> QED  BY <1>5, <2>1
<1> DEFINE F == CHOOSE aTable : aTable = [i \in 0..Len(aRows) |->
                    IF i = 0 THEN <<>>
                    ELSE IF aRows[i] \in RowIndexes(t)
                    THEN Append(aTable[i - 1], t.aTable[aRows[i] + 1])
                    ELSE aTable[i - 1]]
<1>7. F = [i \in 0..Len(aRows) |->
              IF i = 0 THEN <<>>
              ELSE IF aRows[i] \in RowIndexes(t)
              THEN Append(F[i - 1], t.aTable[aRows[i] + 1])
              ELSE F[i - 1]]
  BY <1>6
<1> HIDE DEF F
<1>8. F[0] \in S
  BY <1>1, <1>3, <1>7
<1>9. ASSUME NEW i \in 1..n, F[i - 1] \in S
      PROVE  F[i] \in S
  <2>1. i \in 0..Len(aRows) /\ i # 0
    BY <1>1
  <2>2. F[i] = IF aRows[i] \in RowIndexes(t)
               THEN Append(F[i - 1], t.aTable[aRows[i] + 1])
               ELSE F[i - 1]
    BY <1>7, <2>1
  <2> HIDE DEF turn, n
  <2> QED  BY <1>2, <1>9, <2>2
<1>10. F[n] \in S
  <2> HIDE DEF n, turn
  <2>1. \A i \in 0..n : F[i] \in S
    BY <1>1, <1>8, <1>9, LoopKeeps
  <2> QED  BY <1>1, <2>1
<1>11. Clone(t, aRows) = [t EXCEPT !.aTable = F[Len(aRows)]]
  BY DEF Clone, F
<1> QED  BY <1>10, <1>11 DEF S

-----------------------------------------------------------------------------
(* The table of endpoints and the list that shows it.                      *)

\* A row has two cells, the alias and the tags.
EndpointRow ==
    [1..2 -> [value : Values \cup Words \cup {NoWord, Undefined},
              key : Nat \cup {NoKey}]]

EndpointTable ==
    [aColumn : {Columns}, aTable : Seq(EndpointRow)]

\* Every row has its own index in its first cell.
RowsAreNumbered(t) ==
    \A i \in DOMAIN t.aTable : t.aTable[i][1].key = i - 1

\* Local storage never gets a row: Save throws for a table that has one.  A
\* document without the mark is one without rows.
EndpointsInv ==
    /\ oTable \in EndpointTable
    /\ bModified \in BOOLEAN
    /\ RowsAreNumbered(oTable)
    /\ ListNamesItsRows
    /\ storage \in {NoCache, <<>>}
    /\ ~bModified => oTable.aTable = <<>>

NoRows == [aColumn |-> Columns, aTable |-> <<>>]

\* What a table with rows consists of.
LEMMA TableElements ==
    ASSUME NEW t \in EndpointTable
    PROVE  /\ t = [aColumn |-> Columns, aTable |-> t.aTable]
           /\ Size(t) \in Nat
           /\ t.aTable \in Seq(EndpointRow)
           /\ DOMAIN t.aTable = 1..Size(t)
           /\ \A k \in RowIndexes(t) : k \in Nat /\ k + 1 \in DOMAIN t.aTable
           /\ \A i \in DOMAIN t.aTable : t.aTable[i] \in EndpointRow
<1>1. t.aTable \in Seq(EndpointRow) /\ t = [aColumn |-> Columns, aTable |-> t.aTable]
  BY DEF EndpointTable
<1>2. /\ Len(t.aTable) \in Nat
      /\ DOMAIN t.aTable = 1..Len(t.aTable)
      /\ \A i \in DOMAIN t.aTable : t.aTable[i] \in EndpointRow
  BY <1>1, LenProperties
<1> QED  BY <1>1, <1>2 DEF Size, RowIndexes

LEMMA NoRowsIsTable ==
    /\ NoRows \in EndpointTable
    /\ RowsAreNumbered(NoRows)
    /\ NoRows.aTable = <<>>
<1>1. <<>> \in Seq(EndpointRow)
  BY EmptySeq
<1> QED  BY <1>1 DEF NoRows, EndpointTable, RowsAreNumbered

\* Numbering the rows keeps the table, and numbers them.
LEMMA IndexedNumbersRows ==
    ASSUME NEW t \in EndpointTable
    PROVE  /\ Indexed(t) \in EndpointTable
           /\ RowsAreNumbered(Indexed(t))
           /\ t.aTable = <<>> => Indexed(t).aTable = <<>>
<1> DEFINE numbered(i) ==
              [t.aTable[i] EXCEPT ![1] = Keyed(_GetCellValue(t, i - 1, 0), i - 1)]
           rows == [i \in DOMAIN t.aTable |-> numbered(i)]
<1>1. /\ Size(t) \in Nat
      /\ DOMAIN t.aTable = 1..Size(t)
      /\ \A i \in DOMAIN t.aTable : t.aTable[i] \in EndpointRow
      /\ t = [aColumn |-> Columns, aTable |-> t.aTable]
  BY TableElements
<1>2. ASSUME NEW i \in DOMAIN t.aTable
      PROVE  numbered(i) \in EndpointRow /\ numbered(i)[1].key = i - 1
  <2>1. t.aTable[i] \in EndpointRow /\ i - 1 \in Nat /\ (i - 1) + 1 = i
    BY <1>1
  <2>2. _GetCellValue(t, i - 1, 0) = t.aTable[i][1].value
    BY <2>1 DEF _GetCellValue, _GetCell
  <2> QED  BY <2>1, <2>2 DEF EndpointRow, Keyed
<1> HIDE DEF numbered
<1>3. rows \in Seq(EndpointRow)
  BY <1>1, <1>2, IsASeq
<1>4. Indexed(t) = [aColumn |-> Columns, aTable |-> rows]
  BY <1>1, SMTT(30) DEF Indexed, numbered
<1>5. RowsAreNumbered(Indexed(t))
  BY <1>1, <1>2, <1>4 DEF RowsAreNumbered
<1>6. ASSUME t.aTable = <<>>
      PROVE  rows = <<>>
  <2>1. DOMAIN rows = {}
    BY <1>6
  <2> QED  BY <1>3, <2>1, LenProperties, EmptySeq
<1> QED  BY <1>3, <1>4, <1>5, <1>6 DEF EndpointTable

\* Load gives the table it has, or one without rows.
LEMMA LoadedIsNumbered ==
    ASSUME NEW t \in EndpointTable, RowsAreNumbered(t), storage \in {NoCache, <<>>}
    PROVE  /\ Loaded(t) \in EndpointTable
           /\ RowsAreNumbered(Loaded(t))
           /\ Loaded(t) \in {t, NoRows}
<1>1. CASE storage = NoCache
  BY <1>1 DEF Loaded
<1>2. CASE storage # NoCache
  <2>1. AddRows(Clear(t), storage) = NoRows
    <3>1. t = [aColumn |-> Columns, aTable |-> t.aTable] /\ storage = <<>>
      BY <1>2, TableElements
    <3>2. <<>> \o <<>> = <<>>
      BY <<>> \in Seq(EndpointRow), ConcatEmptySeq
    <3>3. Clear(t) = NoRows
      BY <3>1 DEF Clear, NoRows
    <3>4. AddRows(NoRows, <<>>) = [NoRows EXCEPT !.aTable = <<>> \o <<>>]
      BY DEF AddRows, NoRows
    <3> QED  BY <3>1, <3>2, <3>3, <3>4 DEF NoRows
  <2>2. Loaded(t) = Indexed(NoRows)
    BY <1>2, <2>1 DEF Loaded
  <2>3. /\ Indexed(NoRows) \in EndpointTable
        /\ RowsAreNumbered(Indexed(NoRows))
        /\ Indexed(NoRows).aTable = <<>>
    BY NoRowsIsTable, IndexedNumbersRows DEF NoRows
  <2>4. Indexed(NoRows) = NoRows
    BY <2>3, TableElements DEF NoRows
  <2> QED  BY <2>2, <2>3, <2>4
<1> QED  BY <1>1, <1>2

\* A list of a table names the rows of any table that has its rows.
LEMMA ListOfRows ==
    ASSUME NEW t \in EndpointTable, RowsAreNumbered(t),
           NEW u, u.aColumn = t.aColumn,
           NEW n \in Nat, DOMAIN u.aTable = 1..n,
           \A i \in 1..n : \E k \in RowIndexes(t) : u.aTable[i] = t.aTable[k + 1],
           NEW i \in DOMAIN Listed(u)
    PROVE  /\ Listed(u)[i].key \in RowIndexes(t)
           /\ AsObject(t, Listed(u)[i].key) = Listed(u)[i].command
<1>1. i \in 1..n /\ (i - 1) + 1 = i
  BY DEF Listed
<1>2. PICK k \in RowIndexes(t) : u.aTable[i] = t.aTable[k + 1]
  BY <1>1
<1>3. t.aTable[k + 1][1].key = k
  BY TableElements DEF RowsAreNumbered
<1>4. Listed(u)[i] = [command |-> AsObject(u, i - 1), key |-> _GetCell(u, i - 1, 0).key]
  BY <1>1 DEF Listed
<1>5. _GetCell(u, i - 1, 0).key = k
  BY <1>1, <1>2, <1>3 DEF _GetCell
<1>6. AsObject(u, i - 1) = AsObject(t, k)
  BY <1>1, <1>2 DEF AsObject, _GetCellValue, _GetCell, GetColumnIndex
<1> QED  BY <1>4, <1>5, <1>6

\* The list of all rows names them.
LEMMA ListOfTable ==
    ASSUME NEW t \in EndpointTable, RowsAreNumbered(t), NEW i \in DOMAIN Listed(t)
    PROVE  /\ Listed(t)[i].key \in RowIndexes(t)
           /\ AsObject(t, Listed(t)[i].key) = Listed(t)[i].command
<1>1. Size(t) \in Nat /\ DOMAIN t.aTable = 1..Size(t)
  BY TableElements
<1>2. \A j \in 1..Size(t) : \E k \in RowIndexes(t) : t.aTable[j] = t.aTable[k + 1]
  <2>1. \A j \in 1..Size(t) : j - 1 \in RowIndexes(t) /\ (j - 1) + 1 = j
    BY <1>1 DEF RowIndexes
  <2> QED  BY <2>1
<1> QED  BY <1>1, <1>2, ListOfRows

\* A filtered list names the rows it was made of.
LEMMA ListOfClone ==
    ASSUME NEW t \in EndpointTable, RowsAreNumbered(t), NEW found,
           NEW i \in DOMAIN Listed(Clone(t, FindAll(t, found)))
    PROVE  LET l == Listed(Clone(t, FindAll(t, found)))
           IN  /\ l[i].key \in RowIndexes(t)
               /\ AsObject(t, l[i].key) = l[i].command
<1> DEFINE T == {t.aTable[k + 1] : k \in RowIndexes(t)}
<1>1. FindAll(t, found) \in Seq(Int)
  BY TableElements, FindAllReturnsIndexes
<1>2. PICK rows \in Seq(T) :
         Clone(t, FindAll(t, found)) = [t EXCEPT !.aTable = rows]
  BY <1>1, CloneTakesRows
<1>3. PICK u : u = [t EXCEPT !.aTable = rows]
  OBVIOUS
<1>4. u.aColumn = t.aColumn /\ u.aTable = rows
  BY <1>3, TableElements
<1>5. /\ Len(rows) \in Nat
      /\ DOMAIN rows = 1..Len(rows)
      /\ \A j \in 1..Len(rows) : rows[j] \in T
  BY LenProperties
<1>6. \A j \in 1..Len(rows) : \E k \in RowIndexes(t) : u.aTable[j] = t.aTable[k + 1]
  BY <1>4, <1>5
<1>7. i \in DOMAIN Listed(u)
  BY <1>2, <1>3
<1>8. /\ Listed(u)[i].key \in RowIndexes(t)
      /\ AsObject(t, Listed(u)[i].key) = Listed(u)[i].command
  BY <1>4, <1>5, <1>6, <1>7, ListOfRows
<1> QED  BY <1>2, <1>3, <1>8

\* A page that is made or loaded again shows the table it then has.
LEMMA MadePageIsRight ==
    ASSUME NEW t \in EndpointTable, RowsAreNumbered(t), oTable' = t, list' = Listed(t)
    PROVE  ListNamesItsRows'
BY ListOfTable DEF ListNamesItsRows

\* The page starts without rows.
LEMMA PageStartsEmpty ==
    ASSUME storage \in {NoCache, <<>>}
    PROVE  PAGE_Initialize = NoRows
<1>1. Table(Columns) = NoRows
  BY DEF Table, NoRows
<1> QED  BY <1>1, NoRowsIsTable, LoadedIsNumbered DEF PAGE_Initialize

\* A kept command becomes the last row, with its own index.
LEMMA KeepNumbersTheRow ==
    ASSUME EndpointsInv, Keep
    PROVE  oTable' \in EndpointTable /\ RowsAreNumbered(oTable')
<1> DEFINE n == Size(oTable)
<1>1. PICK oCommand \in Objects :
         LET t == AddObject(oTable, oCommand)
             iLastRow == Size(t) - 1
         IN  oTable' = SetCellValue(t, iLastRow, 0,
                         Keyed(_GetCellValue(t, iLastRow, 0), iLastRow))
  BY DEF Keep
<1>2. /\ oTable \in EndpointTable
      /\ oTable = [aColumn |-> Columns, aTable |-> oTable.aTable]
      /\ n \in Nat
      /\ oTable.aTable \in Seq(EndpointRow)
      /\ DOMAIN oTable.aTable = 1..n
  BY TableElements DEF EndpointsInv
<1>3. PICK row \in EndpointRow :
         AddObject(oTable, oCommand) = [oTable EXCEPT !.aTable = @ \o <<row>>]
  <2> DEFINE row == [c \in DOMAIN oTable.aColumn |->
                       IF oTable.aColumn[c] \in DOMAIN oCommand
                       THEN Plain(oCommand[oTable.aColumn[c]])
                       ELSE Plain(Undefined)]
  <2>1. row \in EndpointRow
    <3>1. oTable.aColumn = <<"alias", "tags">>
      BY <1>2 DEF Columns
    <3>2. DOMAIN oCommand = {"alias", "tags"}
          /\ oCommand.alias \in Values /\ oCommand.tags \in Words \cup {NoWord}
      BY DEF Objects
    <3>3. \A v \in Values \cup Words \cup {NoWord, Undefined} :
             Plain(v) \in [value : Values \cup Words \cup {NoWord, Undefined},
                           key : Nat \cup {NoKey}]
      BY DEF Plain
    <3> QED  BY <3>1, <3>2, <3>3 DEF EndpointRow
  <2> QED  BY <2>1 DEF AddObject, AddRows
<1>4. /\ oTable.aTable \o <<row>> \in Seq(EndpointRow)
      /\ Len(oTable.aTable \o <<row>>) = n + 1
      /\ \A i \in 1..n : (oTable.aTable \o <<row>>)[i] = oTable.aTable[i]
      /\ (oTable.aTable \o <<row>>)[n + 1] = row
  BY <1>2 DEF Size
<1>5. PICK rows \in Seq(EndpointRow) : rows = oTable.aTable \o <<row>>
  BY <1>4
<1>6. PICK t \in EndpointTable :
         /\ t = AddObject(oTable, oCommand)
         /\ t = [aColumn |-> Columns, aTable |-> rows]
  BY <1>2, <1>3, <1>5 DEF EndpointTable
<1>7. Size(t) = n + 1 /\ Size(t) - 1 = n /\ InTable(t, n, 0)
  BY <1>2, <1>4, <1>5, <1>6 DEF Size, InTable, RowIndexes, ColumnIndexes, Columns
<1>8. _GetCellValue(t, n, 0) = row[1].value
  BY <1>4, <1>5, <1>6 DEF _GetCellValue, _GetCell
<1> DEFINE last == [row EXCEPT ![1] = Keyed(row[1].value, n)]
<1>9. last \in EndpointRow /\ last[1].key = n
  BY <1>2 DEF EndpointRow, Keyed
<1>10. oTable' = [aColumn |-> Columns, aTable |-> [rows EXCEPT ![n + 1] = last]]
  <2>1. oTable' = SetCellValue(t, n, 0, Keyed(row[1].value, n))
    BY <1>1, <1>6, <1>7, <1>8
  <2>2. oTable' = [t EXCEPT !.aTable[n + 1][1] = Keyed(row[1].value, n)]
    BY <2>1, <1>7 DEF SetCellValue
  <2>3. n + 1 \in DOMAIN rows /\ rows[n + 1] = row
    BY <1>2, <1>4, <1>5, LenProperties
  <2>4. oTable' = [aColumn |-> Columns,
                   aTable |-> [rows EXCEPT ![n + 1] =
                                 [rows[n + 1] EXCEPT ![1] = Keyed(row[1].value, n)]]]
    <3>1. oTable' = [[aColumn |-> Columns, aTable |-> rows]
                        EXCEPT !.aTable[n + 1][1] = Keyed(row[1].value, n)]
      BY <1>6, <2>2
    <3> HIDE DEF n
    <3> QED  BY <3>1
  <2> QED  BY <2>3, <2>4
<1>11. /\ [rows EXCEPT ![n + 1] = last] \in Seq(EndpointRow)
       /\ DOMAIN [rows EXCEPT ![n + 1] = last] = 1..(n + 1)
       /\ \A i \in 1..n : [rows EXCEPT ![n + 1] = last][i] = oTable.aTable[i]
       /\ [rows EXCEPT ![n + 1] = last][n + 1] = last
  <2>1. n + 1 \in 1..Len(rows) /\ DOMAIN rows = 1..(n + 1)
    BY <1>2, <1>4, <1>5, LenProperties
  <2>2. [rows EXCEPT ![n + 1] = last] \in Seq(EndpointRow)
    BY <2>1, <1>9, ExceptSeq
  <2>3. DOMAIN [rows EXCEPT ![n + 1] = last] = 1..(n + 1)
    BY <2>1
  <2>4. [rows EXCEPT ![n + 1] = last][n + 1] = last
    BY <1>2, <2>1
  <2>5. ASSUME NEW i \in 1..n
        PROVE  [rows EXCEPT ![n + 1] = last][i] = oTable.aTable[i]
    <3>1. i # n + 1 /\ i \in DOMAIN rows
      BY <1>2, <2>1
    <3> QED  BY <1>4, <1>5, <3>1
  <2> QED  BY <2>2, <2>3, <2>4, <2>5
<1>12. \A i \in 1..n : oTable.aTable[i][1].key = i - 1
  BY <1>2 DEF EndpointsInv, RowsAreNumbered
<1>13. PICK new \in Seq(EndpointRow) : new = [rows EXCEPT ![n + 1] = last]
  BY <1>11
<1> HIDE DEF last, n
<1>14. ASSUME NEW i \in 1..(n + 1)
       PROVE  new[i][1].key = i - 1
  <2>1. CASE i \in 1..n
    BY <1>11, <1>12, <1>13, <2>1
  <2>2. CASE i = n + 1
    BY <1>2, <1>9, <1>11, <1>13, <2>2
  <2> QED  BY <1>2, <2>1, <2>2
<1>15. oTable' = [aColumn |-> Columns, aTable |-> new] /\ DOMAIN new = 1..(n + 1)
  BY <1>10, <1>11, <1>13
<1> QED  BY <1>14, <1>15 DEF EndpointTable, RowsAreNumbered

\* The rows behind a deleted one get their new indexes.
LEMMA DeleteNumbersTheRows ==
    ASSUME EndpointsInv, DeleteCommand
    PROVE  oTable' \in EndpointTable /\ RowsAreNumbered(oTable')
<1>1. PICK i \in DOMAIN list : oTable' = Indexed(Delete(oTable, list[i].key, 1))
  BY DEF DeleteCommand
<1>2. PICK k \in RowIndexes(oTable) : k = list[i].key
  BY DEF EndpointsInv, ListNamesItsRows
<1>3. /\ oTable = [aColumn |-> Columns, aTable |-> oTable.aTable]
      /\ Size(oTable) \in Nat
      /\ oTable.aTable \in Seq(EndpointRow)
      /\ k \in 0..(Size(oTable) - 1)
  BY TableElements DEF EndpointsInv, RowIndexes
<1>4. SubSeq(oTable.aTable, 1, k) \o SubSeq(oTable.aTable, k + 1 + 1, Len(oTable.aTable))
         \in Seq(EndpointRow)
  <2>1. \A j \in 1..Len(oTable.aTable) : oTable.aTable[j] \in EndpointRow
    BY <1>3, ElementOfSeq
  <2>2. SubSeq(oTable.aTable, 1, k) \in Seq(EndpointRow)
    BY <1>3, <2>1, SubSeqProperties DEF Size
  <2>3. SubSeq(oTable.aTable, k + 1 + 1, Len(oTable.aTable)) \in Seq(EndpointRow)
    BY <1>3, <2>1, SubSeqProperties DEF Size
  <2> QED  BY <2>2, <2>3, ConcatProperties
<1>5. Delete(oTable, k, 1) \in EndpointTable
  <2>1. ~(1 < Size(oTable) - k) => Size(oTable) - k = 1
    BY <1>3
  <2>2. Delete(oTable, k, 1) =
          [oTable EXCEPT !.aTable = SubSeq(oTable.aTable, 1, k) \o
             SubSeq(oTable.aTable, k + 1 + 1, Len(oTable.aTable))]
    BY <1>3, <2>1 DEF Delete
  <2> DEFINE left == SubSeq(oTable.aTable, 1, k) \o
                       SubSeq(oTable.aTable, k + 1 + 1, Len(oTable.aTable))
  <2>3. left \in Seq(EndpointRow)
    BY <1>4
  <2> HIDE DEF left
  <2>4. Delete(oTable, k, 1) = [oTable EXCEPT !.aTable = left]
    BY <2>2 DEF left
  <2>5. PICK old : oTable = [aColumn |-> Columns, aTable |-> old]
    BY <1>3
  <2>6. [oTable EXCEPT !.aTable = left] = [aColumn |-> Columns, aTable |-> left]
    BY <2>5
  <2> QED  BY <2>3, <2>4, <2>6 DEF EndpointTable
<1> QED  BY <1>1, <1>2, <1>5, IndexedNumbersRows

\* The page of endpoints in between two events: the list is in step with the
\* table, and nothing is kept that the mark does not tell of.
THEOREM EndpointsInvariant == PageSpec => []EndpointsInv
<1>1. PageInit => EndpointsInv
  <2> SUFFICES ASSUME Init
               PROVE  EndpointsInv
    BY DEF PageInit
  <2>1. oTable = NoRows
    BY PageStartsEmpty DEF Init
  <2>2. ListNamesItsRows
    BY <2>1, NoRowsIsTable, ListOfTable DEF Init, ListNamesItsRows
  <2> QED
    BY <2>1, <2>2, NoRowsIsTable DEF Init, EndpointsInv
<1>2. EndpointsInv /\ [PageNext]_pageVars => EndpointsInv'
  <2> SUFFICES ASSUME EndpointsInv, [PageNext]_pageVars
               PROVE  EndpointsInv'
    OBVIOUS
  <2>1. CASE Reload
    <3>1. oTable' = NoRows
      BY <2>1, PageStartsEmpty DEF Reload, EndpointsInv
    <3>2. ListNamesItsRows'
      BY <2>1, <3>1, NoRowsIsTable, MadePageIsRight DEF Reload, PAGE_Update
    <3> QED
      BY <2>1, <3>1, <3>2, NoRowsIsTable DEF Reload, EndpointsInv
  <2>2. CASE Keep
    <3>1. oTable' \in EndpointTable /\ RowsAreNumbered(oTable')
      BY <2>2, KeepNumbersTheRow
    <3>2. ListNamesItsRows'
      BY <2>2, <3>1, MadePageIsRight DEF Keep, PAGE_Update
    <3> QED
      BY <2>2, <3>1, <3>2 DEF Keep, EndpointsInv, RowsAreNumbered
  <2>3. CASE DeleteCommand
    <3>1. oTable' \in EndpointTable /\ RowsAreNumbered(oTable')
      BY <2>3, DeleteNumbersTheRows
    <3>2. ListNamesItsRows'
      BY <2>3, <3>1, MadePageIsRight DEF DeleteCommand, PAGE_Update
    <3> QED
      BY <2>3, <3>1, <3>2 DEF DeleteCommand, EndpointsInv, RowsAreNumbered
  <2>4. CASE FilterHistory
    <3>1. oTable' = oTable /\ oTable \in EndpointTable /\ RowsAreNumbered(oTable)
      BY <2>4 DEF FilterHistory, EndpointsInv
    <3>2. ASSUME list' = Listed(oTable)
          PROVE  ListNamesItsRows'
      BY <3>1, <3>2, MadePageIsRight
    <3>3. ASSUME NEW found, list' = Listed(Clone(oTable, FindAll(oTable, found)))
          PROVE  ListNamesItsRows'
      BY <3>1, <3>3, ListOfClone DEF ListNamesItsRows
    <3>4. ListNamesItsRows'
      BY <2>4, <3>2, <3>3 DEF FilterHistory, PAGE_Update
    <3> QED
      BY <2>4, <3>4 DEF FilterHistory, EndpointsInv, RowsAreNumbered
  <2>5. CASE LoadPage
    <3>1. /\ oTable' \in EndpointTable
          /\ RowsAreNumbered(oTable')
          /\ oTable' \in {oTable, NoRows}
      BY <2>5, LoadedIsNumbered DEF LoadPage, EndpointsInv
    <3>2. ListNamesItsRows'
      BY <2>5, <3>1, MadePageIsRight DEF LoadPage, PAGE_Update
    <3> QED
      BY <2>5, <3>1, <3>2 DEF LoadPage, EndpointsInv, RowsAreNumbered, NoRows
  <2>6. CASE SavePage
    <3>1. Size(oTable) \in Nat /\ (Size(oTable) = 0 => oTable.aTable = <<>>)
      BY TableElements, EmptySeq DEF EndpointsInv, Size
    <3> QED
      BY <2>6, <3>1 DEF SavePage, Saved, EndpointsInv, RowsAreNumbered, ListNamesItsRows
  <2>7. CASE PAGE_OnIdle
    BY <2>7 DEF PAGE_OnIdle, EndpointsInv, RowsAreNumbered, ListNamesItsRows
  <2>8. CASE UNCHANGED vars
    BY <2>8 DEF vars, EndpointsInv, RowsAreNumbered, ListNamesItsRows
  <2> QED
    BY <2>1, <2>2, <2>3, <2>4, <2>5, <2>6, <2>7, <2>8 DEF PageNext, pageVars, Next
<1> QED  BY <1>1, <1>2, PTL DEF PageSpec

\* A click on an element of the list, or its delete button, acts on the row
\* the element shows, filtered or not.
THEOREM ClicksReachTheirRows == PageSpec => []ListNamesItsRows
<1>1. EndpointsInv => ListNamesItsRows
  BY DEF EndpointsInv
<1> QED  BY <1>1, EndpointsInvariant, PTL

\* A page that is not marked as modified has nothing a reload would lose.
THEOREM UnmarkedPagesAreSaved == PageSpec => []ReloadLosesNothing
<1>1. EndpointsInv => ReloadLosesNothing
  <2> SUFFICES ASSUME EndpointsInv, ~bModified
               PROVE  Kept(PAGE_Initialize) = Kept(oTable)
    BY DEF ReloadLosesNothing
  <2>1. oTable = NoRows
    BY TableElements DEF EndpointsInv, NoRows
  <2> QED  BY <2>1, PageStartsEmpty DEF EndpointsInv
<1> QED  BY <1>1, EndpointsInvariant, PTL
-----------------------------------------------------------------------------
(* Sorting.                                                                *)

\* R orders 1..n: of two numbers exactly one goes in front of the other.
Orders(R, n) ==
    /\ \A i, j \in 1..n : i # j => <<i, j>> \in R \/ <<j, i>> \in R
    /\ \A i, j \in 1..n : ~(<<i, j>> \in R /\ <<j, i>> \in R)
    /\ \A i, j, k \in 1..n : <<i, j>> \in R /\ <<j, k>> \in R => <<i, k>> \in R

\* The first k numbers in the order R.
IsArranged(p, k, R) ==
    /\ p \in Bijection(1..k, 1..k)
    /\ \A i, j \in 1..k : i < j => <<p[i], p[j]>> \in R

\* Max of some positions of a sequence is the last of them.
LEMMA LastOf ==
    ASSUME NEW n \in Nat, NEW S \in SUBSET (1..n), S # {}
    PROVE  Max(S) \in S /\ \A x \in S : x <= Max(S)
<1> DEFINE B == {k \in Nat : \A y \in S : y <= k}
<1>1. B \in SUBSET Nat /\ n \in B
  OBVIOUS
<1>2. \E k \in B : \A y \in B : ~(<<y, k>> \in OpToRel(<, Nat))
  <2> HIDE DEF B
  <2> QED  BY <1>1, NatLessThanWellFounded, WFMin
<1>3. PICK k \in B : \A y \in B : ~(y < k)
  BY <1>2 DEF OpToRel
<1>4. k \in S
  <2>1. SUFFICES ASSUME k \notin S
                 PROVE  FALSE
    OBVIOUS
  <2>2. k # 0 /\ k - 1 \in Nat /\ k - 1 < k
    <3>1. PICK y \in S : TRUE
      OBVIOUS
    <3>2. y \in 1..n /\ y <= k /\ k \in Nat
      BY <3>1
    <3> QED  BY <3>2
  <2>3. \A y \in S : y \in Nat /\ y <= k /\ y # k
    BY <2>1
  <2>4. \A y \in S : y <= k - 1
    BY <2>2, <2>3
  <2> QED  BY <1>3, <2>2, <2>4
<1>5. \E x \in S : \A y \in S : x >= y
  BY <1>4
<1>6. Max(S) \in S /\ \A y \in S : Max(S) >= y
  BY <1>5 DEF Max
<1> QED  BY <1>6

\* What it takes to make a bijection.
LEMMA IsBijection ==
    ASSUME NEW k \in Nat, NEW p \in [1..k -> 1..k],
           \A i, j \in 1..k : p[i] = p[j] => i = j,
           \A w \in 1..k : \E i \in 1..k : p[i] = w
    PROVE  p \in Bijection(1..k, 1..k)
  BY DEF Bijection, Injection, Surjection, IsInjective

\* What a bijection is.
LEMMA BijectionIs ==
    ASSUME NEW k \in Nat, NEW p \in Bijection(1..k, 1..k)
    PROVE  /\ p \in [1..k -> 1..k]
           /\ \A i, j \in 1..k : p[i] = p[j] => i = j
           /\ \A w \in 1..k : \E i \in 1..k : p[i] = w
  BY DEF Bijection, Injection, Surjection, IsInjective

\* The next number has its place: behind all that go in front of it.
LEMMA ArrangesOneMore ==
    ASSUME NEW n \in Nat, NEW R, Orders(R, n), NEW k \in Nat, k + 1 <= n,
           NEW p, IsArranged(p, k, R)
    PROVE  \E q : IsArranged(q, k + 1, R)
<1> DEFINE new == k + 1
           Ahead == {i \in 1..k : <<p[i], new>> \in R}
           at == IF Ahead = {} THEN 0 ELSE Max(Ahead)
           q == [i \in 1..new |-> IF i <= at THEN p[i]
                                  ELSE IF i = at + 1 THEN new ELSE p[i - 1]]
<1>1. /\ p \in [1..k -> 1..k]
      /\ \A i, j \in 1..k : p[i] = p[j] => i = j
      /\ \A w \in 1..k : \E i \in 1..k : p[i] = w
      /\ \A i, j \in 1..k : i < j => <<p[i], p[j]>> \in R
  BY BijectionIs DEF IsArranged
<1>2. /\ at \in 0..k
      /\ at # 0 => <<p[at], new>> \in R
      /\ \A i \in 1..k : i > at => ~(<<p[i], new>> \in R)
  <2>1. Ahead \in SUBSET (1..k)
    OBVIOUS
  <2>2. CASE Ahead = {}
    <3>1. at = 0 /\ \A i \in 1..k : i \notin Ahead
      BY <2>2
    <3>2. \A i \in 1..k : ~(<<p[i], new>> \in R)
      BY <3>1
    <3> HIDE DEF at, Ahead
    <3> QED  BY <3>1, <3>2
  <2>3. CASE Ahead # {}
    <3>1. Max(Ahead) \in Ahead /\ \A x \in Ahead : x <= Max(Ahead)
      <4> HIDE DEF Ahead
      <4> QED  BY <2>1, <2>3, LastOf
    <3>2. at = Max(Ahead)
      BY <2>3
    <3>3. \A i \in 1..k : <<p[i], new>> \in R => i \in Ahead
      OBVIOUS
    <3>4. \A i \in Ahead : i \in 1..k /\ <<p[i], new>> \in R
      OBVIOUS
    <3> HIDE DEF at, Ahead, new
    <3>5. at \in Ahead /\ \A i \in Ahead : i <= at
      BY <3>1, <3>2
    <3>6. at \in 1..k /\ <<p[at], new>> \in R
      BY <3>4, <3>5
    <3>7. \A i \in 1..k : i > at => i \notin Ahead
      BY <3>5, <3>6
    <3> QED  BY <3>3, <3>6, <3>7
  <2> QED  BY <2>2, <2>3
<1> HIDE DEF at
<1>3. new \in 1..n /\ \A i \in 1..k : p[i] \in 1..n /\ p[i] # new
  BY <1>1
<1>4. \A i \in 1..k : i <= at => <<p[i], new>> \in R
  <2> SUFFICES ASSUME NEW i \in 1..k, i <= at
               PROVE  <<p[i], new>> \in R
    OBVIOUS
  <2>1. CASE i = at
    BY <1>2, <2>1
  <2>2. CASE i < at
    <3>1. at \in 1..k /\ <<p[i], p[at]>> \in R /\ <<p[at], new>> \in R
      BY <1>1, <1>2, <2>2
    <3>2. p[i] \in 1..n /\ p[at] \in 1..n /\ new \in 1..n
      BY <1>3, <3>1
    <3> HIDE DEF new
    <3> QED  BY <3>1, <3>2 DEF Orders
  <2> QED  BY <1>2, <2>1, <2>2
<1>5. \A i \in 1..k : i > at => <<new, p[i]>> \in R
  <2> SUFFICES ASSUME NEW i \in 1..k, i > at
               PROVE  <<new, p[i]>> \in R
    OBVIOUS
  <2>1. ~(<<p[i], new>> \in R) /\ p[i] \in 1..n /\ p[i] # new /\ new \in 1..n
    BY <1>2, <1>3
  <2> HIDE DEF new
  <2> QED  BY <2>1 DEF Orders
<1>6. ASSUME NEW i \in 1..new
      PROVE  \/ i <= at /\ i \in 1..k /\ q[i] = p[i]
             \/ i = at + 1 /\ q[i] = new
             \/ i > at + 1 /\ i - 1 \in 1..k /\ i - 1 > at /\ q[i] = p[i - 1]
  BY <1>2
<1>7. q \in [1..new -> 1..new]
  <2>1. ASSUME NEW i \in 1..new
        PROVE  q[i] \in 1..new
    <3>1. \A j \in 1..k : p[j] \in 1..new
      BY <1>1
    <3>2. new \in 1..new
      OBVIOUS
    <3> HIDE DEF new, q
    <3> QED  BY <1>6, <3>1, <3>2
  <2>2. q = [i \in 1..new |-> q[i]]
    OBVIOUS
  <2> QED  BY <2>1, <2>2
<1>8. /\ \A i \in 1..k : i <= at => i \in 1..new /\ q[i] = p[i]
      /\ at + 1 \in 1..new /\ q[at + 1] = new
      /\ \A i \in 1..k : i > at => i + 1 \in 1..new /\ q[i + 1] = p[i]
  BY <1>2
<1> HIDE DEF q
<1>9. \A w \in 1..new : \E i \in 1..new : q[i] = w
  <2> SUFFICES ASSUME NEW w \in 1..new
               PROVE  \E i \in 1..new : q[i] = w
    OBVIOUS
  <2>1. CASE w = new
    BY <1>8, <2>1
  <2>2. CASE w # new
    <3>1. PICK i \in 1..k : p[i] = w
      BY <1>1, <2>2
    <3>2. i <= at \/ i > at
      BY <1>2
    <3> QED  BY <1>8, <3>1, <3>2
  <2> QED  BY <2>1, <2>2
<1>10. \A i, j \in 1..new : i < j => <<q[i], q[j]>> \in R
  <2> SUFFICES ASSUME NEW i \in 1..new, NEW j \in 1..new, i < j
               PROVE  <<q[i], q[j]>> \in R
    OBVIOUS
  <2>1. CASE j <= at
    <3>1. i \in 1..k /\ j \in 1..k /\ i <= at
      BY <1>2, <2>1
    <3>2. q[i] = p[i] /\ q[j] = p[j]
      BY <1>8, <2>1, <3>1
    <3> QED  BY <1>1, <3>1, <3>2
  <2>2. CASE j = at + 1
    <3>1. i <= at /\ i \in 1..k /\ q[i] = p[i] /\ q[j] = new
      BY <1>2, <1>6, <2>2
    <3> QED  BY <1>4, <3>1
  <2>3. CASE j > at + 1
    <3>1. j - 1 \in 1..k /\ j - 1 > at /\ q[j] = p[j - 1]
      BY <1>2, <1>6, <2>3
    <3>2. CASE i <= at
      <4>1. i \in 1..k /\ q[i] = p[i] /\ i < j - 1
        BY <1>2, <1>6, <3>1, <3>2
      <4> QED  BY <1>1, <3>1, <4>1
    <3>3. CASE i = at + 1
      <4>1. q[i] = new
        BY <1>8, <3>3
      <4> QED  BY <1>5, <3>1, <4>1
    <3>4. CASE i > at + 1
      <4>1. i - 1 \in 1..k /\ q[i] = p[i - 1] /\ i - 1 < j - 1
        BY <1>2, <1>6, <3>4
      <4> QED  BY <1>1, <3>1, <4>1
    <3> QED  BY <1>2, <3>2, <3>3, <3>4
  <2> QED  BY <1>2, <2>1, <2>2, <2>3
<1>11. \A i, j \in 1..new : q[i] = q[j] => i = j
  <2>1. \A i \in 1..new : q[i] \in 1..n
    BY <1>3, <1>7
  <2>2. \A i, j \in 1..new : i < j => q[i] # q[j]
    BY <1>10, <2>1 DEF Orders
  <2>3. \A i, j \in 1..new : i < j \/ j < i \/ i = j
    OBVIOUS
  <2> HIDE DEF new
  <2> QED  BY <2>2, <2>3
<1>12. q \in Bijection(1..new, 1..new)
  <2>1. new \in Nat
    OBVIOUS
  <2> HIDE DEF new
  <2> QED  BY <1>7, <1>9, <1>11, <2>1, IsBijection
<1> QED  BY <1>10, <1>12 DEF IsArranged

\* What is ordered can be arranged in that order.
LEMMA OrderArranges ==
    ASSUME NEW n \in Nat, NEW R, Orders(R, n)
    PROVE  \E p : IsArranged(p, n, R)
<1> DEFINE P == {k \in Nat : k <= n => \E p : IsArranged(p, k, R)}
<1>1. 0 \in P
  <2> DEFINE p == [i \in 1..0 |-> i]
  <2>1. 1..0 = {}
    OBVIOUS
  <2>2. p \in [1..0 -> 1..0] /\ \A w \in 1..0 : FALSE
    BY <2>1
  <2> HIDE DEF p
  <2>3. p \in Bijection(1..0, 1..0)
    BY <2>2, IsBijection
  <2>4. IsArranged(p, 0, R)
    BY <2>1, <2>3 DEF IsArranged
  <2> QED  BY <2>4
<1>2. ASSUME NEW k \in P
      PROVE  k + 1 \in P
  <2> SUFFICES ASSUME k + 1 <= n
               PROVE  \E p : IsArranged(p, k + 1, R)
    OBVIOUS
  <2>1. k \in Nat /\ k <= n
    OBVIOUS
  <2>2. PICK p : IsArranged(p, k, R)
    BY <2>1
  <2> QED  BY <2>1, <2>2, ArrangesOneMore
<1>3. P = Nat
  <2> HIDE DEF P
  <2>1. P \in SUBSET Nat
    BY DEF P
  <2> QED  BY <1>1, <1>2, <2>1, EveryIndex
<1>4. n \in P /\ n <= n
  BY <1>3
<1> QED  BY <1>4

\* Numbers order their places, the earlier of two equal ones first.
LEMMA ByValue ==
    ASSUME NEW n \in Nat, NEW R, NEW value,
           \A i \in 1..n : value[i] \in Int,
           \A i, j \in 1..n : <<i, j>> \in R <=>
              value[i] < value[j] \/ (~(value[j] < value[i]) /\ i < j)
    PROVE  Orders(R, n)
<1>1. \A i \in 1..n : ~(<<i, i>> \in R)
  OBVIOUS
<1>2. \A i, j \in 1..n : i # j => <<i, j>> \in R \/ <<j, i>> \in R
  <2> SUFFICES ASSUME NEW i \in 1..n, NEW j \in 1..n, i # j
               PROVE  <<i, j>> \in R \/ <<j, i>> \in R
    OBVIOUS
  <2>1. value[i] \in Int /\ value[j] \in Int
    OBVIOUS
  <2> QED  BY <2>1
<1>3. \A i, j, k \in 1..n :
         <<i, j>> \in R /\ <<j, k>> \in R => <<i, k>> \in R
  <2> SUFFICES ASSUME NEW i \in 1..n, NEW j \in 1..n, NEW k \in 1..n,
                      <<i, j>> \in R, <<j, k>> \in R
               PROVE  <<i, k>> \in R
    OBVIOUS
  <2>1. value[i] \in Int /\ value[j] \in Int /\ value[k] \in Int
    OBVIOUS
  <2>2. value[i] < value[j] \/ (~(value[j] < value[i]) /\ i < j)
    OBVIOUS
  <2>3. value[j] < value[k] \/ (~(value[k] < value[j]) /\ j < k)
    OBVIOUS
  <2> QED  BY <2>1, <2>2, <2>3
<1> QED  BY <1>1, <1>2, <1>3 DEF Orders

\* What a cell counts for in the order of a column.
Rank(x, descending) ==
    LET r == IF x = Undefined THEN -1 ELSE x
    IN  IF descending THEN -r ELSE r

\* The places of the data by what their cells count for, the earlier of two
\* equal ones first.
DataOrder(data, n, column, descending) ==
    {r \in (1..n) \X (1..n) :
        LET a == Rank(data[r[1]][column + 1], descending)
            b == Rank(data[r[2]][column + 1], descending)
        IN  a < b \/ (~(b < a) /\ r[1] < r[2])}

\* A cell of a smaller or equal rank may come first.
LEMMA RankPrecedes ==
    ASSUME NEW data, NEW column, NEW i \in Nat, NEW j \in Nat,
           NEW descending \in BOOLEAN,
           data[i][column + 1] \in Nat \cup {Undefined},
           data[j][column + 1] \in Nat \cup {Undefined}
    PROVE  LET a == Rank(data[i][column + 1], descending)
               b == Rank(data[j][column + 1], descending)
           IN  /\ a \in Int /\ b \in Int
               /\ a < b \/ (~(b < a) /\ i < j)
                     => Precedes(data, i, j, column, descending)
<1> DEFINE a == data[i][column + 1]
           b == data[j][column + 1]
           first(u, v) == IF descending THEN u # Undefined /\ (v = Undefined \/ v < u)
                          ELSE u = Undefined \/ (v # Undefined /\ u < v)
           ra == IF a = Undefined THEN -1 ELSE a
           rb == IF b = Undefined THEN -1 ELSE b
<1>1. /\ SortsBefore(data[i], data[j], column, descending) <=> first(a, b)
      /\ SortsBefore(data[j], data[i], column, descending) <=> first(b, a)
  BY DEF SortsBefore
<1>2. /\ Rank(a, descending) = IF descending THEN -ra ELSE ra
      /\ Rank(b, descending) = IF descending THEN -rb ELSE rb
  BY DEF Rank
<1>3. a \in Nat \cup {Undefined} /\ b \in Nat \cup {Undefined}
  OBVIOUS
<1>4. Precedes(data, i, j, column, descending) <=>
         first(a, b) \/ (~first(b, a) /\ i < j)
  BY <1>1 DEF Precedes
<1>5. /\ ra \in Int /\ (a = Undefined => ra = -1)
      /\ (a # Undefined => ra = a /\ ra \in Nat)
  BY <1>3
<1>6. /\ rb \in Int /\ (b = Undefined => rb = -1)
      /\ (b # Undefined => rb = b /\ rb \in Nat)
  BY <1>3
<1> DEFINE va == Rank(a, descending)
           vb == Rank(b, descending)
<1>7. /\ va \in Int /\ vb \in Int
      /\ descending => va = -ra /\ vb = -rb
      /\ ~descending => va = ra /\ vb = rb
  BY <1>2, <1>5, <1>6
<1> HIDE DEF a, b, ra, rb, va, vb
<1>8. ASSUME descending
      PROVE  va < vb \/ (~(vb < va) /\ i < j) => Precedes(data, i, j, column, descending)
  <2>1. va < vb => rb < ra
    BY <1>5, <1>6, <1>7, <1>8
  <2>2. ~(vb < va) => ~(ra < rb)
    BY <1>5, <1>6, <1>7, <1>8
  <2>3. rb < ra => first(a, b)
    BY <1>5, <1>6, <1>8
  <2>4. ~(ra < rb) => ~first(b, a)
    BY <1>5, <1>6, <1>8
  <2> HIDE DEF first
  <2>5. va < vb \/ (~(vb < va) /\ i < j) => Precedes(data, i, j, column, descending)
    BY <1>4, <2>1, <2>2, <2>3, <2>4
  <2> QED  BY <2>5
<1>9. ASSUME ~descending
      PROVE  va < vb \/ (~(vb < va) /\ i < j) => Precedes(data, i, j, column, descending)
  <2>1. va < vb => first(a, b)
    BY <1>5, <1>6, <1>7, <1>9
  <2>2. ~(vb < va) => first(a, b) \/ ~first(b, a)
    BY <1>5, <1>6, <1>7, <1>9
  <2> HIDE DEF first
  <2>3. va < vb \/ (~(vb < va) /\ i < j) => Precedes(data, i, j, column, descending)
    BY <1>4, <2>1, <2>2
  <2> QED  BY <2>3
<1>10. va < vb \/ (~(vb < va) /\ i < j) => Precedes(data, i, j, column, descending)
  <2> HIDE DEF first
  <2>1. descending \/ ~descending
    OBVIOUS
  <2> QED  BY <1>8, <1>9, <2>1
<1> QED  BY <1>7, <1>10 DEF va, vb, a, b

\* It is an order, whatever is undefined, and one that the sort may return.
LEMMA DataIsOrdered ==
    ASSUME NEW n \in Nat, NEW data, NEW column,
           \A i \in 1..n : data[i][column + 1] \in Nat \cup {Undefined},
           NEW descending \in BOOLEAN
    PROVE  /\ Orders(DataOrder(data, n, column, descending), n)
           /\ \A i, j \in 1..n : <<i, j>> \in DataOrder(data, n, column, descending)
                 => Precedes(data, i, j, column, descending)
<1> DEFINE R == DataOrder(data, n, column, descending)
           value == [i \in 1..n |-> Rank(data[i][column + 1], descending)]
<1>1. ASSUME NEW i \in 1..n, NEW j \in 1..n
      PROVE  /\ value[i] \in Int
             /\ value[i] < value[j] \/ (~(value[j] < value[i]) /\ i < j)
                   => Precedes(data, i, j, column, descending)
  <2>1. /\ i \in Nat /\ j \in Nat
        /\ data[i][column + 1] \in Nat \cup {Undefined}
        /\ data[j][column + 1] \in Nat \cup {Undefined}
    OBVIOUS
  <2>2. /\ value[i] = Rank(data[i][column + 1], descending)
        /\ value[j] = Rank(data[j][column + 1], descending)
    OBVIOUS
  <2> HIDE DEF value
  <2> QED  BY <2>1, <2>2, RankPrecedes
<1>2. ASSUME NEW i \in 1..n, NEW j \in 1..n
      PROVE  <<i, j>> \in R <=>
                value[i] < value[j] \/ (~(value[j] < value[i]) /\ i < j)
  BY DEF DataOrder
<1>3. \A i \in 1..n : value[i] \in Int
  BY <1>1
<1> HIDE DEF R, value
<1>4. Orders(R, n)
  BY <1>2, <1>3, ByValue
<1> QED  BY <1>1, <1>2, <1>4 DEF R

\* r has the elements of data, maybe in other places.
Rearranges(r, data, n) ==
    \E order \in [1..n -> 1..n] :
        /\ \A w \in 1..n : \E i \in 1..n : order[i] = w
        /\ r = [i \in 1..n |-> data[order[i]]]

\* What is sorted are the same rows in other places.
LEMMA SortedMovesRows ==
    ASSUME NEW n \in Nat, NEW data, DOMAIN data = 1..n, NEW column,
           \A i \in 1..n : data[i][column + 1] \in Nat \cup {Undefined},
           NEW descending \in BOOLEAN
    PROVE  Rearranges(Sorted(data, column, descending), data, n)
<1> DEFINE R == DataOrder(data, n, column, descending)
           order == CHOOSE p \in Bijection(1..n, 1..n) :
                        \A i, j \in 1..n :
                            i < j => Precedes(data, p[i], p[j], column, descending)
<1>1. \E p \in Bijection(1..n, 1..n) : \A i, j \in 1..n :
         i < j => Precedes(data, p[i], p[j], column, descending)
  <2>1. /\ Orders(R, n)
        /\ \A i, j \in 1..n :
              <<i, j>> \in R => Precedes(data, i, j, column, descending)
    BY DataIsOrdered
  <2>2. PICK p : IsArranged(p, n, R)
    BY <2>1, OrderArranges
  <2>3. p \in Bijection(1..n, 1..n)
    BY <2>2 DEF IsArranged
  <2>4. ASSUME NEW i \in 1..n, NEW j \in 1..n, i < j
        PROVE  Precedes(data, p[i], p[j], column, descending)
    <3>1. <<p[i], p[j]>> \in R
      BY <2>2, <2>4 DEF IsArranged
    <3>2. p[i] \in 1..n /\ p[j] \in 1..n
      BY <3>1 DEF DataOrder
    <3> HIDE DEF R
    <3> QED  BY <2>1, <3>1, <3>2
  <2> QED  BY <2>3, <2>4
<1>2. order \in Bijection(1..n, 1..n)
  BY <1>1
<1>3. Sorted(data, column, descending) = [i \in 1..n |-> data[order[i]]]
  BY DEF Sorted
<1> HIDE DEF order
<1>4. order \in [1..n -> 1..n] /\ \A w \in 1..n : \E i \in 1..n : order[i] = w
  BY <1>2, BijectionIs
<1> QED  BY <1>3, <1>4 DEF Rearranges

\* A function on the first n positions is a sequence.
LEMMA FunctionIsSequence ==
    ASSUME NEW S, NEW n \in Nat, NEW r \in [1..n -> S]
    PROVE  r \in Seq(S) /\ Len(r) = n
  OBVIOUS

\* A row of two values behind a number.
LEMMA RowBehindIndex ==
    ASSUME NEW S, NEW a \in Int, NEW row \in [1..2 -> S]
    PROVE  /\ (<<a>> \o row)[1] = a
           /\ (<<a>> \o row)[2] = row[1]
           /\ Tail(<<a>> \o row) = row
<1> DEFINE T == S \cup Int
           x == <<a>> \o row
<1>1. row \in [1..2 -> T] /\ a \in T
  OBVIOUS
<1> HIDE DEF T
<1>2. row \in Seq(T) /\ Len(row) = 2
  BY <1>1, FunctionIsSequence
<1>3. <<a>> \in Seq(T) /\ Len(<<a>>) = 1 /\ <<a>>[1] = a
  BY <1>1
<1>4. x \in Seq(T) /\ Len(x) = 3 /\ x[1] = a
      /\ \A c \in 1..2 : x[c + 1] = row[c]
  <2> DEFINE u == <<a>>
  <2>1. u \in Seq(T) /\ Len(u) = 1 /\ u[1] = a
    BY <1>3
  <2> HIDE DEF u
  <2>2. /\ u \o row \in Seq(T) /\ Len(u \o row) = 3
        /\ (u \o row)[1] = a
        /\ \A c \in 1..2 : (u \o row)[c + 1] = row[c]
    <3> DEFINE z == u \o row
    <3>1. /\ z \in Seq(T)
          /\ Len(z) = Len(u) + Len(row)
          /\ \A i \in 1..(Len(u) + Len(row)) :
                z[i] = IF i <= Len(u) THEN u[i] ELSE row[i - Len(u)]
      BY <1>2, <2>1, ConcatProperties
    <3> HIDE DEF z
    <3>2. /\ z \in Seq(T)
          /\ Len(z) = 1 + 2
          /\ \A i \in 1..(1 + 2) : z[i] = IF i <= 1 THEN u[i] ELSE row[i - 1]
      BY <1>2, <2>1, <3>1
    <3>3. z[1] = u[1]
      BY <3>2
    <3>4. \A c \in 1..2 : z[c + 1] = row[(c + 1) - 1] /\ (c + 1) - 1 = c
      BY <3>2
    <3> QED  BY <2>1, <3>2, <3>3, <3>4 DEF z
  <2> QED  BY <2>2 DEF u
<1> HIDE DEF x
<1> DEFINE y == Tail(x)
<1>5. y \in Seq(T) /\ Len(y) = 2 /\ \A c \in 1..2 : y[c] = x[c + 1]
  <2>1. x # <<>>
    BY <1>4
  <2>2. y \in Seq(T) /\ Len(y) = Len(x) - 1 /\ \A c \in 1..Len(y) : y[c] = x[c + 1]
    BY <1>4, <2>1, HeadTailProperties
  <2> HIDE DEF y
  <2>3. Len(y) = 2
    BY <1>4, <2>2
  <2> QED  BY <2>2, <2>3
<1> HIDE DEF y
<1>6. y \in [1..2 -> T] /\ \A c \in 1..2 : y[c] = row[c]
  BY <1>4, <1>5, SMTT(30)
<1>7. y = row
  BY <1>1, <1>6
<1>8. x[2] = row[1]
  <2>1. 1 \in 1..2 /\ 1 + 1 = 2
    OBVIOUS
  <2> QED  BY <1>4, <2>1
<1> QED  BY <1>4, <1>7, <1>8 DEF x, y

\* GetData of all rows with their indexes returns every row once, next to
\* its own index, sorted by any column or not at all.
THEOREM SortingKeepsRows == PageSpec => []GetDataKeepsRows
<1>1. EndpointsInv => GetDataKeepsRows
  <2> DEFINE n == Size(oTable)
             all == [i \in DOMAIN oTable.aTable |-> i - 1]
             rows == RowsOfData(oTable, TRUE, all)
  <2> SUFFICES ASSUME EndpointsInv, NEW iSort \in {-2, -1, 0, 1, 2}
               PROVE  LET data == GetData(oTable, TRUE, iSort, all)
                      IN  /\ {data[i][1] : i \in DOMAIN data} = RowIndexes(oTable)
                          /\ \A i \in DOMAIN data :
                                Tail(data[i]) = GetRow(oTable, data[i][1])
    BY DEF GetDataKeepsRows
  <2> DEFINE data == GetData(oTable, TRUE, iSort, all)
             column == (IF iSort < 0 THEN -iSort ELSE iSort) - 1
             Cells == Values \cup Words \cup {NoWord, Undefined}
  <2>1. /\ n \in Nat /\ DOMAIN oTable.aTable = 1..n /\ RowIndexes(oTable) = 0..(n - 1)
        /\ \A i \in 1..n : oTable.aTable[i] \in EndpointRow
        /\ oTable.aColumn = <<"alias", "tags">>
    BY TableElements DEF EndpointsInv, EndpointTable, RowIndexes, Columns
  <2> HIDE DEF n
  <2>2. ASSUME NEW i \in 1..n
        PROVE  /\ rows[i] = <<i - 1>> \o GetRow(oTable, i - 1)
               /\ rows[i][1] = i - 1
               /\ rows[i][2] \in Cells
               /\ Tail(rows[i]) = GetRow(oTable, i - 1)
    <3> DEFINE row == GetRow(oTable, i - 1)
    <3>1. rows[i] = <<i - 1>> \o row
      BY <2>1 DEF RowsOfData
    <3>2. row = [c \in 1..2 |-> oTable.aTable[(i - 1) + 1][(c - 1) + 1].value]
      BY <2>1 DEF GetRow, _GetCellValue, _GetCell
    <3>3. \A c \in 1..2 : oTable.aTable[i][c].value \in Cells
      BY <2>1 DEF EndpointRow
    <3>4. row \in [1..2 -> Cells]
      <4>1. (i - 1) + 1 = i /\ \A c \in 1..2 : (c - 1) + 1 = c
        BY <2>1
      <4> QED  BY <3>2, <3>3, <4>1
    <3> HIDE DEF row, Cells
    <3>5. i - 1 \in Int
      BY <2>1
    <3>6. /\ (<<i - 1>> \o row)[1] = i - 1
          /\ (<<i - 1>> \o row)[2] = row[1]
          /\ Tail(<<i - 1>> \o row) = row
      BY <3>4, <3>5, RowBehindIndex
    <3>7. row[1] \in Cells
      BY <3>4
    <3> QED  BY <3>1, <3>6, <3>7 DEF row
  <2>3. DOMAIN rows = 1..n
    BY <2>1 DEF RowsOfData
  <2> HIDE DEF rows
  <2>4. Rearranges(data, rows, n)
    <3>1. CASE iSort = 0
      <4> DEFINE same == [i \in 1..n |-> i]
      <4>1. data = rows
        BY <3>1 DEF GetData, rows
      <4>2. rows = [i \in 1..n |-> rows[i]]
        BY <2>3 DEF RowsOfData, rows
      <4>3. same \in [1..n -> 1..n] /\ \A i \in 1..n : same[i] = i
        OBVIOUS
      <4> HIDE DEF same, data
      <4>4. data = [i \in 1..n |-> rows[same[i]]]
        BY <4>1, <4>2, <4>3
      <4> QED  BY <4>3, <4>4 DEF Rearranges
    <3>2. CASE iSort # 0
      <4>1. data = Sorted(rows, column, iSort < 0)
        BY <3>2 DEF GetData, rows
      <4>2. column + 1 \in {1, 2}
        BY <3>2
      <4>3. ASSUME NEW i \in 1..n
            PROVE  rows[i][column + 1] \in Nat \cup {Undefined}
        <5>1. rows[i][1] \in Nat
          <6>1. rows[i][1] = i - 1
            BY <2>2
          <6> QED  BY <2>1, <6>1
        <5>2. \A x \in Cells : x \in Nat \cup {Undefined}
          BY ValuesAreNumbers, WordsAreNumbers
        <5>3. rows[i][2] \in Nat \cup {Undefined}
          BY <2>2, <5>2
        <5> HIDE DEF column
        <5> QED  BY <4>2, <5>1, <5>3
      <4>4. (iSort < 0) \in BOOLEAN
        BY <3>2
      <4> DEFINE descending == iSort < 0
      <4> HIDE DEF column, data
      <4>5. descending \in BOOLEAN /\ data = Sorted(rows, column, descending)
        BY <4>1, <4>4
      <4> HIDE DEF descending
      <4>6. Rearranges(Sorted(rows, column, descending), rows, n)
        BY <2>1, <2>3, <4>3, <4>5, SortedMovesRows
      <4> QED  BY <4>5, <4>6
    <3> QED  BY <3>1, <3>2
  <2> HIDE DEF data
  <2>5. PICK order \in [1..n -> 1..n] :
           /\ \A w \in 1..n : \E i \in 1..n : order[i] = w
           /\ data = [i \in 1..n |-> rows[order[i]]]
    BY <2>4 DEF Rearranges
  <2>6. ASSUME NEW i \in 1..n
        PROVE  /\ order[i] \in 1..n
               /\ data[i][1] = order[i] - 1
               /\ Tail(data[i]) = GetRow(oTable, data[i][1])
    <3>1. order[i] \in 1..n /\ data[i] = rows[order[i]]
      BY <2>5
    <3> QED  BY <2>2, <3>1
  <2>7. {data[i][1] : i \in DOMAIN data} = RowIndexes(oTable)
    <3>1. DOMAIN data = 1..n
      BY <2>5
    <3>2. ASSUME NEW i \in 1..n
          PROVE  data[i][1] \in 0..(n - 1)
      <4>1. data[i][1] = order[i] - 1 /\ order[i] \in 1..n
        BY <2>6
      <4>2. \A m \in 1..n : m - 1 \in 0..(n - 1)
        BY <2>1
      <4> QED  BY <4>1, <4>2
    <3>3. ASSUME NEW k \in 0..(n - 1)
          PROVE  \E i \in 1..n : data[i][1] = k
      <4>1. k + 1 \in 1..n /\ (k + 1) - 1 = k
        BY <2>1
      <4>2. PICK i \in 1..n : order[i] = k + 1
        BY <2>5, <4>1
      <4> QED  BY <2>6, <4>1, <4>2
    <3>4. {data[i][1] : i \in 1..n} = 0..(n - 1)
      BY <3>2, <3>3
    <3> QED  BY <2>1, <3>1, <3>4
  <2>8. DOMAIN data = 1..n
    BY <2>5
  <2> QED  BY <2>6, <2>7, <2>8 DEF data
<1> QED  BY <1>1, EndpointsInvariant, PTL
=============================================================================
