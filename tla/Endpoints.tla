----------------------------- MODULE Endpoints -----------------------------
(***************************************************************************)
(* The endpoint page (target/WEB/admin/http/HttpCallEndpoints.html): a     *)
(* table of kept commands, the list of them the page shows, and the copy   *)
(* of the table in the browser's local storage, which a reload of the page *)
(* starts from.  The first cell of a row holds the row's index next to the *)
(* alias; an element of the list carries that index, and a click on it     *)
(* acts on the row at the index.  A timer shows, by a mark on the save     *)
(* button, that there is something to save.                                *)
(*                                                                         *)
(* An action is one event the browser delivers.  Of the columns, alias and *)
(* tags are modelled; a row has one tag at most.                           *)
(*                                                                         *)
(* Bound: MaxRows, the rows of the table.                                  *)
(***************************************************************************)
EXTENDS DataTable

CONSTANTS
    Values,         \* what a user types as an alias; strings are numbers
    Words,          \* the tags of commands and the words of the filter
    NoWord,         \* the empty string as a tag
    NoCache,        \* local storage before the first save
    MaxRows         \* bound on the rows

ASSUME ValuesAreNumbers == Values \subseteq Nat
ASSUME WordsAreNumbers == Words \subseteq Nat /\ NoWord \in Nat \ Words
ASSUME MaxRowsPositive == MaxRows \in Nat \ {0}

VARIABLES
    oTable,         \* the table "endpoint" of the document
    list,           \* the elements of the list: a row's values and its index
    bModified,      \* the document's flag
    marked,         \* bLastModified: the save button is marked
    storage         \* "table-cache" in local storage

vars == <<oTable, list, bModified, marked, storage>>

Columns == <<"alias", "tags">>
Objects == [alias : Values, tags : Words \cup {NoWord}]

\* The list PAGE_Update makes of a table.
Listed(t) ==
    [i \in DOMAIN t.aTable |->
        [command |-> AsObject(t, i - 1), key |-> _GetCell(t, i - 1, 0).key]]

\* Cell 0 of every row gets the row's index as its second element.
Indexed(t) ==
    [t EXCEPT !.aTable =
        [i \in DOMAIN t.aTable |->
            [t.aTable[i] EXCEPT ![1] = Keyed(_GetCellValue(t, i - 1, 0), i - 1)]]]

\* Load: nothing when there is no copy.
Loaded(t) ==
    IF storage = NoCache THEN t ELSE Indexed(AddRows(Clear(t), storage))

PAGE_Initialize == Loaded(Table(Columns))

Init ==
    /\ storage = NoCache
    /\ oTable = PAGE_Initialize
    /\ list = Listed(oTable)
    /\ bModified = FALSE
    /\ marked = FALSE

PAGE_Update(t) == list' = Listed(t)

\* A reload of the page, or a crash of the browser.
Reload ==
    /\ oTable' = PAGE_Initialize
    /\ PAGE_Update(oTable')
    /\ bModified' = FALSE
    /\ marked' = FALSE
    /\ UNCHANGED storage

\* Mutation of Keep: the document is not marked as modified.
Keep_Unmodified ==
    /\ Size(oTable) < MaxRows
    /\ \E oCommand \in Objects :
        LET t == AddObject(oTable, oCommand)
            iLastRow == Size(t) - 1
        IN  oTable' = SetCellValue(t, iLastRow, 0,
                        Keyed(_GetCellValue(t, iLastRow, 0), iLastRow))
    /\ PAGE_Update(oTable')
    /\ UNCHANGED <<bModified, marked, storage>>

Keep ==
    /\ Size(oTable) < MaxRows
    /\ \E oCommand \in Objects :
        LET t == AddObject(oTable, oCommand)
            iLastRow == Size(t) - 1
        IN  oTable' = SetCellValue(t, iLastRow, 0,
                        Keyed(_GetCellValue(t, iLastRow, 0), iLastRow))
    /\ bModified' = TRUE
    /\ PAGE_Update(oTable')
    /\ UNCHANGED <<marked, storage>>

\* Mutation of DeleteCommand: the rows behind keep their indexes.
DeleteCommand_KeepsIndexes ==
    /\ \E i \in DOMAIN list : oTable' = Delete(oTable, list[i].key, 1)
    /\ bModified' = TRUE
    /\ PAGE_Update(oTable')
    /\ UNCHANGED <<marked, storage>>

\* DeleteTableCache, for the index the element carries.
DeleteCommand ==
    /\ \E i \in DOMAIN list : oTable' = Indexed(Delete(oTable, list[i].key, 1))
    /\ bModified' = TRUE
    /\ PAGE_Update(oTable')
    /\ UNCHANGED <<marked, storage>>

\* A choice in the filter; Keep, DeleteCommand and LoadPage list all rows
\* again and leave the choice where it is.
FilterHistory ==
    /\ \/ PAGE_Update(oTable)
       \/ \E sWord \in Words :
            LET iTagsColumn == GetColumnIndex(oTable, "tags")
                rows == {GetRow(oTable, iRow) : iRow \in RowIndexes(oTable)}
                tagged == {aRow \in rows : aRow[iTagsColumn + 1] = sWord}
            IN  PAGE_Update(Clone(oTable, FindAll(oTable, tagged)))
    /\ UNCHANGED <<oTable, bModified, marked, storage>>

LoadPage ==
    /\ oTable' = Loaded(oTable)
    /\ PAGE_Update(oTable')
    /\ UNCHANGED <<bModified, marked, storage>>

\* What local storage holds after Save.  Table has no SetValue: a table with
\* rows makes Save throw before the table is stored; Save catches the error.
Saved(t) == IF Size(t) > 0 THEN storage ELSE t.aTable

SavePage ==
    /\ storage' = Saved(oTable)
    /\ bModified' = (bModified /\ Size(oTable) > 0)
    /\ UNCHANGED <<oTable, list, marked>>

\* Mutation of PAGE_OnIdle: the mark is only taken away.
PAGE_OnIdle_OnlyUnmarks ==
    /\ ~bModified /\ marked
    /\ marked' = FALSE
    /\ UNCHANGED <<oTable, list, bModified, storage>>

PAGE_OnIdle ==
    /\ bModified # marked
    /\ marked' = bModified
    /\ UNCHANGED <<oTable, list, bModified, storage>>

Next ==
    \/ Reload \/ Keep \/ DeleteCommand \/ FilterHistory
    \/ LoadPage \/ SavePage \/ PAGE_OnIdle

\* setInterval calls PAGE_OnIdle every second.
Spec == Init /\ [][Next]_vars /\ WF_vars(PAGE_OnIdle)

-----------------------------------------------------------------------------
(* Properties.                                                             *)

\* A click acts on the command it shows: the row of the table at the index
\* an element of the list carries has the values the element shows, after
\* deletes, a filter and loads in any order.
ListNamesItsRows ==
    \A i \in DOMAIN list :
        /\ list[i].key \in RowIndexes(oTable)
        /\ AsObject(oTable, list[i].key) = list[i].command

Kept(t) == [i \in DOMAIN t.aTable |-> GetRow(t, i - 1)]

\* A reload of a document that is not marked as modified loses nothing: the
\* page starts with the rows it had.
ReloadLosesNothing ==
    ~bModified => Kept(PAGE_Initialize) = Kept(oTable)

\* GetData with an index returns each of the rows it is asked for after that
\* row's own index, sorted or not, with the same rows as without an index.
GetDataKeepsRows ==
    \A iSort \in {-2, -1, 0, 1, 2} :
        LET all == [i \in DOMAIN oTable.aTable |-> i - 1]
            data == GetData(oTable, TRUE, iSort, all)
        IN  /\ {data[i][1] : i \in DOMAIN data} = RowIndexes(oTable)
            /\ \A i \in DOMAIN data :
                Tail(data[i]) = GetRow(oTable, data[i][1])

\* A modification is shown on the save button until it is saved or lost in a
\* reload, though the flag is set while the timer is not running.
ModifiedIsMarked == bModified ~> (marked \/ ~bModified)
=============================================================================
