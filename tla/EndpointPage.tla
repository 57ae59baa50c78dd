---------------------------- MODULE EndpointPage ----------------------------
(***************************************************************************)
(* The endpoint page as PAGE_Initialize composes it                        *)
(* (target/WEB/admin/http/HttpCallEndpoints.html): the table of kept       *)
(* commands beside the tab control of the plate they are edited in.  Their *)
(* events come from one browser thread and interleave.                     *)
(***************************************************************************)
EXTENDS Endpoints

CONSTANT Tab

ASSUME TabsAreFinite == IsFiniteSet(Tab)

VARIABLES aTabs, iActiveIndex, shown, label, live

Tabs == INSTANCE Tabs

tabVars == <<aTabs, iActiveIndex, shown, label, live>>
pageVars == <<vars, tabVars>>

PageInit == Init /\ Tabs!Init

PageNext ==
    \/ Next /\ UNCHANGED tabVars
    \/ Tabs!Next /\ UNCHANGED vars

PageSpec == PageInit /\ [][PageNext]_pageVars /\ WF_vars(PAGE_OnIdle)

-----------------------------------------------------------------------------
(* Properties.                                                             *)

\* The panel on display is the one of the active tab, and a button opens its
\* own panel.
OnePanelShown == Tabs!OnePanelShown

\* Only the removal of the tab that is shown changes what is shown.
ShownTabStays == Tabs!ShownTabStays
=============================================================================
