-------------------------------- MODULE Tabs --------------------------------
(***************************************************************************)
(* UITabControl (target/WEB/admin/http/js/classes/gd_ui_tabs.js): a row of *)
(* buttons and a panel for each, one panel shown.  A button carries the    *)
(* index of its tab in an attribute, which a click reads; the control has  *)
(* the index of the active tab; and the panels have their own display      *)
(* style.  The three say the same in different places.                     *)
(*                                                                         *)
(* A tab is a name, its button and its panel; indices count from 0.        *)
(***************************************************************************)
EXTENDS Integers, Sequences, SequencesExt, FiniteSetsExt

CONSTANT Tab

VARIABLES
    aTabs,              \* the tabs, in order
    iActiveIndex,       \* the index of the active tab, or -1
    shown,              \* the tabs whose panel has the display style block
    label,              \* data-tab-index of the button of each tab
    live                \* FALSE once the control is destroyed

vars == <<aTabs, iActiveIndex, shown, label, live>>

Indexes(tabs) == 0..Len(tabs) - 1
AddedTabs == ToSet(aTabs)

\* SetActiveTab of a control whose tabs are given: the tab at the active
\* index, if there is one, is hidden, and the new one shown.
SetActiveTab(tabs, iIndex, display) ==
    IF iIndex \notin Indexes(tabs)
    THEN /\ shown' = display
         /\ UNCHANGED iActiveIndex
    ELSE /\ shown' = (display \ {tabs[i] : i \in {iActiveIndex + 1} \cap DOMAIN tabs})
                         \cup {tabs[iIndex + 1]}
         /\ iActiveIndex' = iIndex

\* A control made with tabs: each is added, and the first one activated.
Init ==
    /\ \E S \in SUBSET Tab : aTabs \in SetToSeqs(S)
    /\ iActiveIndex = IF aTabs = <<>> THEN -1 ELSE 0
    /\ shown = IF aTabs = <<>> THEN {} ELSE {aTabs[1]}
    /\ label = [t \in Tab |-> IF t \in AddedTabs
                              THEN SelectInSeq(aTabs, LAMBDA u : u = t) - 1
                              ELSE -1]
    /\ live = TRUE

Activate ==
    /\ \E iIndex \in -1..Cardinality(Tab) : SetActiveTab(aTabs, iIndex, shown)
    /\ UNCHANGED <<aTabs, label, live>>

\* A click on a button of the header.
_on_click(t) ==
    /\ t \in AddedTabs
    /\ SetActiveTab(aTabs, label[t], shown)
    /\ UNCHANGED <<aTabs, label, live>>

\* AddTab of a control that is destroyed throws on its missing header.
AddTab(t) ==
    /\ live
    /\ t \notin AddedTabs
    /\ aTabs' = Append(aTabs, t)
    /\ label' = [label EXCEPT ![t] = Len(aTabs)]
    /\ IF aTabs = <<>> THEN SetActiveTab(aTabs', 0, shown)
                       ELSE UNCHANGED <<iActiveIndex, shown>>
    /\ UNCHANGED live

\* Mutation of RemoveTab: the buttons keep their labels.
RemoveTab_KeepsLabels(iIndex) ==
    LET t == aTabs[iIndex + 1]
        last == Len(aTabs) - 2
    IN  /\ iIndex \in Indexes(aTabs)
        /\ aTabs' = RemoveAt(aTabs, iIndex + 1)
        /\ IF iActiveIndex = iIndex /\ last >= 0
           THEN SetActiveTab(aTabs', IF iIndex < last THEN iIndex ELSE last,
                             shown \ {t})
           ELSE /\ shown' = shown \ {t}
                /\ iActiveIndex' = IF iActiveIndex < iIndex THEN iActiveIndex
                                   ELSE iActiveIndex - 1
        /\ UNCHANGED <<label, live>>

\* Mutation of RemoveTab: the first tab is activated whichever is removed.
RemoveTab_ToFirst(iIndex) ==
    LET t == aTabs[iIndex + 1]
    IN  /\ iIndex \in Indexes(aTabs)
        /\ aTabs' = RemoveAt(aTabs, iIndex + 1)
        /\ label' = [u \in Tab |-> IF u \in AddedTabs \ {t}
                                   THEN SelectInSeq(aTabs', LAMBDA v : v = u) - 1
                                   ELSE label[u]]
        /\ IF Len(aTabs) > 1
           THEN /\ shown' = {aTabs'[1]}
                /\ iActiveIndex' = 0
           ELSE /\ shown' = {}
                /\ iActiveIndex' = -1
        /\ UNCHANGED live

\* The panel goes from the page before the next tab is activated.
RemoveTab(iIndex) ==
    LET t == aTabs[iIndex + 1]
        last == Len(aTabs) - 2
    IN  /\ iIndex \in Indexes(aTabs)
        /\ aTabs' = RemoveAt(aTabs, iIndex + 1)
        /\ label' = [u \in Tab |-> IF u \in AddedTabs \ {t}
                                   THEN SelectInSeq(aTabs', LAMBDA v : v = u) - 1
                                   ELSE label[u]]
        /\ IF iActiveIndex = iIndex /\ last >= 0
           THEN SetActiveTab(aTabs', IF iIndex < last THEN iIndex ELSE last,
                             shown \ {t})
           ELSE /\ shown' = shown \ {t}    \* the only tab is at 0
                /\ iActiveIndex' = IF iActiveIndex < iIndex THEN iActiveIndex
                                   ELSE iActiveIndex - 1
        /\ UNCHANGED live

\* The active index stays.
Destroy ==
    /\ live
    /\ live' = FALSE
    /\ aTabs' = <<>>
    /\ shown' = {}
    /\ UNCHANGED <<iActiveIndex, label>>

Next ==
    \/ Activate
    \/ \E t \in Tab : _on_click(t) \/ AddTab(t)
    \/ \E iIndex \in Indexes(aTabs) : RemoveTab(iIndex)
    \/ Destroy

Spec == Init /\ [][Next]_vars

-----------------------------------------------------------------------------
(* Properties.                                                             *)

GetTab(iIndex) == {aTabs[i] : i \in {iIndex + 1} \cap DOMAIN aTabs}

\* The panel that is shown is the one of the tab that GetActiveTab names, and
\* a control with tabs shows one; a click on a button shows the panel of that
\* button, after tabs were added and removed in any order.
OnePanelShown ==
    /\ shown = GetTab(iActiveIndex)
    /\ aTabs # <<>> => Cardinality(shown) = 1
    /\ \A t \in AddedTabs : GetTab(label[t]) = {t}

\* Adding a tab, or removing another one, leaves the panel that the user looks
\* at; only the removal of that tab itself shows another.
ShownTabStays ==
    [][aTabs' # aTabs /\ shown # {} /\ shown \subseteq ToSet(aTabs')
        => shown' = shown]_vars
=============================================================================
