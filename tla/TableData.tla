----------------------------- MODULE TableData -----------------------------
(***************************************************************************)
(* CTableData (misc/html/js/old-table.js): rows and columns of a table     *)
(* that several user interface objects read and edit.  The program is      *)
(* sequential; what is hard is the bookkeeping between calls.  A row is    *)
(* its key followed by one value for each column.  A caller names a row by *)
(* its key and a column by its position, which m_aColumnIndex, when there  *)
(* is one, translates to the place of the column in m_aColumn.  Keys come  *)
(* from m_iNextKey and Reindex makes them the rows' positions again.       *)
(*                                                                         *)
(* An index of the code is one less than that of the sequence here.  A     *)
(* value is a small number, Undefined or Null; a cell never is an array,   *)
(* and a call that throws leaves what it had changed so far.  Callers name *)
(* columns that exist, read rows as wide as the columns, and do not clear  *)
(* the columns of a table that has an m_aColumnIndex (ClearData keeps it). *)
(*                                                                         *)
(* Bounds: MaxRows, MaxColumns, MaxKey.  At most one column is marked for  *)
(* sorting.                                                                *)
(***************************************************************************)
EXTENDS Integers, SequencesExt

CONSTANTS
    Values,         \* the values callers write, numbers
    Names,          \* the names of columns
    NoName,         \* the name of a column made by InsertColumn
    NoIndex,        \* m_aColumnIndex before COLUMNUpdatePositionIndex
    HeaderSize,     \* options.header_size
    FooterSize,     \* options.footer_size
    MaxRows,        \* bound on the rows
    MaxColumns,     \* bound on the columns
    MaxKey          \* bound on m_iNextKey

ASSUME ValuesAreNumbers == Values \subseteq Nat
ASSUME NamesAreNames == NoName \notin Names
ASSUME SizesAreNumbers == HeaderSize \in Nat /\ FooterSize \in Nat
ASSUME BoundsAreNumbers ==
    {MaxRows, MaxColumns, MaxKey} \subseteq Nat

VARIABLES
    m_aBody,            \* the rows
    m_aColumn,          \* the columns: id, position.hide and state.sort
    m_aColumnIndex,     \* the place of the column at each position
    m_iNextKey,         \* the key of the next row
    m_iHeaderSize,      \* rows at the top that are not data
    m_iFooterSize       \* rows at the bottom that are not data

sizes == <<m_iHeaderSize, m_iFooterSize>>
rowVars == <<m_aBody, m_iNextKey>>
columnVars == <<m_aColumn, m_aColumnIndex>>
vars == <<rowVars, columnVars, sizes>>

Undefined == -1     \* a hole of an array; sorts as the empty string
Null == -2          \* has no toString
None == -1          \* an index that was not found

Init ==
    /\ m_aBody = <<>>
    /\ m_aColumn = <<>>
    /\ m_aColumnIndex = NoIndex
    /\ m_iNextKey = 0
    /\ m_iHeaderSize = HeaderSize
    /\ m_iFooterSize = FooterSize

-----------------------------------------------------------------------------
(* Finding a row and a column.                                             *)

\* Array.splice: a negative start counts from the end.
Splice(s, start, deleteCount, items) ==
    LET at == IF start < 0
              THEN IF Len(s) + start < 0 THEN 0 ELSE Len(s) + start
              ELSE IF start > Len(s) THEN Len(s) ELSE start
    IN  SubSeq(s, 1, at) \o items \o SubSeq(s, at + 1 + deleteCount, Len(s))

Key(row) == row[1]
WithKey(iKey, row) == <<iKey>> \o Tail(row)
Keys(body) == {Key(body[i]) : i \in DOMAIN body}

_row(body, iKey) ==
    IF iKey < Len(body) /\ Key(body[iKey + 1]) = iKey
    THEN iKey
    ELSE SelectInSeq(body, LAMBDA row : Key(row) = iKey) - 1

_indexOfName(column, sName) ==
    SelectLastInSeq(column, LAMBDA c : c.id = sName) - 1

\* Mutation of _index: the position is the place.
_index_NoIndex(iIndex) == iIndex

_index(iIndex) ==
    IF m_aColumnIndex = NoIndex THEN iIndex
    ELSE IF iIndex < Len(m_aColumnIndex) THEN m_aColumnIndex[iIndex + 1]
    ELSE None

\* Undefined is no index of the array: an element named "undefined".
_index2(iIndex) ==
    IF _index(iIndex) >= 0 THEN _index(iIndex) + 1 ELSE Undefined

\* Positions of columns that exist.
Positions == {p \in 0..MaxColumns : _index(p) \in 0..(Len(m_aColumn) - 1)}

ROWGetCount(body) == Len(body) - m_iHeaderSize - m_iFooterSize

Cell(body, iR, iC) == body[iR + 1][iC + 1]

\* aRow[iC] = value, which makes the row longer when iC is past its end.
Assign(row, iC, value) ==
    IF iC = Undefined THEN row
    ELSE [j \in 1..(IF iC < Len(row) THEN Len(row) ELSE iC + 1) |->
            IF j = iC + 1 THEN value
            ELSE IF j <= Len(row) THEN row[j] ELSE Undefined]

SetCell(body, iR, iC, value) ==
    Splice(body, iR, 1, <<Assign(body[iR + 1], iC, value)>>)

-----------------------------------------------------------------------------
(* Rows.                                                                   *)

Blank(iColumnCount) == [j \in 1..(iColumnCount + 1) |-> Undefined]
Blanks(iCount, iColumnCount) == [i \in 1..iCount |-> Blank(iColumnCount)]

\* Rows first.. of a body get the next keys.
Rekey(body, first) ==
    [i \in DOMAIN body |->
        IF i < first THEN body[i]
        ELSE WithKey(m_iNextKey + i - first, body[i])]

\* Rows with room for the key.  The rows of a footer stay last: the rows
\* from the index that is the first footer row's key on get new keys.
Appended(body, aRow) ==
    LET iPosition == Len(body) - m_iFooterSize
        iIndex == IF body = <<>> THEN 0 ELSE Key(body[iPosition + 1])
        Place[i \in 0..Len(aRow)] ==
            IF i = 0 THEN body
            ELSE Splice(Place[i - 1], iPosition + i - 1, 0, <<aRow[i]>>)
    IN  IF m_iFooterSize = 0
        THEN Rekey(body \o aRow, Len(body) + 1)
        ELSE Rekey(Place[Len(aRow)], iIndex + 1)

\* The keys Appended takes.
KeysTaken(body, aRow) ==
    IF m_iFooterSize = 0 \/ body = <<>> THEN Len(aRow)
    ELSE Len(body) + Len(aRow) - Key(body[Len(body) - m_iFooterSize + 1])

RoomForRows(n) == Len(m_aBody) + n <= MaxRows /\ m_iNextKey + n <= MaxKey
FitsBounds == Len(m_aColumn') <= MaxColumns /\ m_iNextKey' <= MaxKey

ROWAppend(aRow) ==
    /\ RoomForRows(Len(aRow))
    /\ m_aBody' = Appended(m_aBody, aRow)
    /\ m_iNextKey' = m_iNextKey + KeysTaken(m_aBody, aRow)
    /\ UNCHANGED <<columnVars, sizes>>
    /\ FitsBounds

\* A row to append by its values: one for each column.
FullRows == [1..Len(m_aColumn) -> Values]

ROWAppendBlank == \E n \in 1..2 : ROWAppend(Blanks(n, Len(m_aColumn)))

ROWAppendValues ==
    \E values \in FullRows : ROWAppend(<< <<Undefined>> \o values >>)

\* The new rows in front of row iRow; a key of no row is position -1.
Inserted(body, iRow, aRow) ==
    LET at == _row(body, iRow)
        Place[i \in 0..Len(aRow)] ==
            IF i = 0 THEN body
            ELSE Splice(Place[i - 1], at + i - 1, 0,
                        <<WithKey(m_iNextKey + i - 1, aRow[i])>>)
    IN  Place[Len(aRow)]

\* Mutation of ROWInsert: the key stays the next one.
ROWInsert_KeyStays(iRow, aRow) ==
    /\ RoomForRows(Len(aRow))
    /\ m_aBody' = Inserted(m_aBody, iRow, aRow)
    /\ UNCHANGED <<m_iNextKey, columnVars, sizes>>

ROWInsert(iRow, aRow) ==
    /\ RoomForRows(Len(aRow))
    /\ m_aBody' = Inserted(m_aBody, iRow, aRow)
    /\ m_iNextKey' = m_iNextKey + Len(aRow)
    /\ UNCHANGED <<columnVars, sizes>>
    /\ FitsBounds

ROWInsertBlank ==
    \E iRow \in 0..m_iNextKey, n \in 1..2 :
        ROWInsert(iRow, Blanks(n, Len(m_aColumn)))

\* The values given first, null for the other columns.
ROWInsertValues ==
    \E iRow \in 0..m_iNextKey, v \in Values :
        /\ m_aColumn # <<>>
        /\ LET padding == [i \in 1..(Len(m_aColumn) - 1) |-> Null]
           IN  ROWInsert(iRow, << <<Undefined, v>> \o padding >>)

\* Mutation of ROWRemove: the keys at the end are given again.
ROWRemove_KeyBack ==
    \E iRow \in 0..m_iNextKey, iLength \in 1..2 :
        /\ m_aBody' = Splice(m_aBody, _row(m_aBody, iRow), iLength, <<>>)
        /\ m_iNextKey' = CHOOSE k \in 0..m_iNextKey :
                            /\ \A j \in Keys(m_aBody') : j < k
                            /\ k = 0 \/ k - 1 \in Keys(m_aBody')
        /\ UNCHANGED <<columnVars, sizes>>

\* The key of no row removes the last rows: splice(-1, iLength).
ROWRemove ==
    \E iRow \in 0..m_iNextKey, iLength \in 1..2 :
        /\ m_aBody' = Splice(m_aBody, _row(m_aBody, iRow), iLength, <<>>)
        /\ UNCHANGED <<m_iNextKey, columnVars, sizes>>

\* One value for all columns; the key of no row throws.
ROWSet ==
    \E iRow \in Keys(m_aBody), v \in Values :
        /\ LET iR == _row(m_aBody, iRow)
               value == [j \in DOMAIN m_aColumn |-> v]
           IN  m_aBody' = Splice(m_aBody, iR, 1,
                                 << <<Key(m_aBody[iR + 1])>> \o value >>)
        /\ UNCHANGED <<m_iNextKey, columnVars, sizes>>

Reindex ==
    /\ m_aBody' = [i \in DOMAIN m_aBody |-> WithKey(i - 1, m_aBody[i])]
    /\ UNCHANGED <<m_iNextKey, columnVars, sizes>>

ClearBody ==
    /\ m_aBody' = <<>>
    /\ m_iNextKey' = 0
    /\ m_iHeaderSize' = 0
    /\ m_iFooterSize' = 0
    /\ UNCHANGED m_aColumnIndex

ClearData ==
    /\ ClearBody
    /\ \/ UNCHANGED m_aColumn
       \/ m_aColumnIndex = NoIndex /\ m_aColumn' = <<>>

-----------------------------------------------------------------------------
(* Columns.                                                                *)

_create_column(name) == [id |-> name, hide |-> FALSE, sort |-> 0]

\* Mutation of ROWExpand: one value for any number of columns.
ROWExpand_One(body, iCount, value, iWhere) ==
    [i \in DOMAIN body |-> Splice(body[i], iWhere, 0, <<value>>)]

\* value in every row at iWhere, in the code's index of the row.
ROWExpand(body, iCount, value, iWhere) ==
    [i \in DOMAIN body |->
        Splice(body[i], iWhere, 0, [j \in 1..iCount |-> value])]

\* m_aColumnIndex stays as it is.
InsertColumn ==
    \E p \in 0..MaxColumns, v \in Values \cup {Undefined}, iCount \in 1..2 :
        /\ _index(p) \in 0..Len(m_aColumn)
        /\ m_aBody' = ROWExpand(m_aBody, iCount, v, _index2(p))
        /\ m_aColumn' = Splice(m_aColumn, _index(p), 0,
                               [j \in 1..iCount |-> _create_column(NoName)])
        /\ UNCHANGED <<m_iNextKey, m_aColumnIndex, sizes>>
        /\ FitsBounds

\* position.hide and state.sort by COLUMNSetPropertyValue.
COLUMNSetPropertyValue ==
    \E c \in DOMAIN m_aColumn :
        /\ \/ \E hide \in BOOLEAN :
                m_aColumn' = Splice(m_aColumn, c - 1, 1,
                                    <<[m_aColumn[c] EXCEPT !.hide = hide]>>)
           \/ \E sort \in {-1, 0, 1} :
                m_aColumn' = [i \in DOMAIN m_aColumn |->
                    [m_aColumn[i] EXCEPT !.sort = IF i = c THEN sort ELSE 0]]
        /\ UNCHANGED <<rowVars, m_aColumnIndex, sizes>>

\* The columns that are not hidden, by their place.
Visible(column) ==
    LET aIndex[i \in 0..Len(column)] ==
            IF i = 0 THEN <<>>
            ELSE IF column[i].hide THEN aIndex[i - 1]
            ELSE Append(aIndex[i - 1], i - 1)
    IN  aIndex[Len(column)]

COLUMNUpdatePositionIndex ==
    /\ m_aColumnIndex' = Visible(m_aColumn)
    /\ UNCHANGED <<rowVars, m_aColumn, sizes>>

-----------------------------------------------------------------------------
(* Reading arrays and objects.                                             *)

\* The columns an empty table takes from the first row.
Headers == {h \in Names \X Names : h[1] # h[2]} \cup {<<n>> : n \in Names}

\* No rows to read still append one: ROWAppend(0) appends ROWAppend(1).
ReadArray ==
    \E header \in Headers, iCount \in 0..1, v \in Values :
        LET column == IF m_aColumn # <<>> THEN m_aColumn
                      ELSE [i \in DOMAIN header |-> _create_column(header[i])]
            aRow == Blanks(IF iCount = 0 THEN 1 ELSE iCount, Len(column))
            iRow == ROWGetCount(m_aBody) + m_iHeaderSize
            body == Appended(m_aBody, aRow)
        IN  /\ RoomForRows(Len(aRow))
            /\ m_aColumn = <<>> => m_aBody = <<>>
            /\ m_aColumn' = column
            /\ m_aBody' = [i \in DOMAIN body |->
                 IF i - 1 \in iRow..(iRow + iCount - 1)
                 THEN [j \in DOMAIN body[i] |-> IF j = 1 THEN body[i][1] ELSE v]
                 ELSE body[i]]
            /\ m_iNextKey' = m_iNextKey + KeysTaken(m_aBody, aRow)
            /\ UNCHANGED <<m_aColumnIndex, sizes>>
            /\ FitsBounds

\* An object is its entries; the objects a caller reads.
Objects ==
    {[i \in DOMAIN h |-> <<h[i], v>>] : h \in Headers, v \in Values}
ObjectLists == {<<o>> : o \in Objects} \cup {<<o, p>> : o, p \in Objects}

\* s: the body and columns reached, and whether the code threw.
AddColumn(s, sName) ==
    IF _indexOfName(s.column, sName) # None THEN s
    ELSE [s EXCEPT !.column = Append(@, _create_column(sName)),
                   !.body = [i \in DOMAIN @ |-> Append(@[i], Undefined)]]

\* CELLSetValue(iRow, iColumn, value): the position of a row as its key, the
\* place of a column as its position.
ReadEntry(s, iRow, entry) ==
    LET t == AddColumn(s, entry[1])
        iR == _row(t.body, iRow)
        iC == _index2(_indexOfName(t.column, entry[1]))
    IN  IF s.threw THEN s
        ELSE IF iR = None THEN [t EXCEPT !.threw = TRUE]
        ELSE [t EXCEPT !.body = SetCell(@, iR, iC, entry[2])]

\* The loop over the entries of an object.
ReadObject(s, iRow, object) ==
    LET entries[i \in 0..Len(object)] ==
            IF i = 0 THEN s ELSE ReadEntry(entries[i - 1], iRow, object[i])
    IN  entries[Len(object)]

FirstColumns(s, object) ==
    LET columns[i \in 0..Len(object)] ==
            IF i = 0 THEN s ELSE AddColumn(columns[i - 1], object[i][1])
    IN  columns[Len(object)]

\* The columns of the first object and blank rows for all of them.
RoomToRead(aList) ==
    LET start == [body |-> m_aBody, column |-> m_aColumn,
                  nextKey |-> m_iNextKey, threw |-> FALSE]
        first == FirstColumns(start, aList[1])
        aRow == Blanks(Len(aList), Len(first.column))
    IN  [first EXCEPT !.body = Appended(@, aRow),
                      !.nextKey = @ + KeysTaken(first.body, aRow)]

\* Mutation of ReadObjects: the row is not moved on.
ReadObjects_OneRow(aList) ==
    LET iRow == ROWGetCount(m_aBody) + m_iHeaderSize
        objects[i \in 0..Len(aList)] ==
            IF i = 0 THEN RoomToRead(aList)
            ELSE ReadObject(objects[i - 1], iRow, aList[i])
    IN  objects[Len(aList)]

\* The first column loop adds no row, so iRow is where the rows are appended.
ReadObjects(aList) ==
    LET iRow == ROWGetCount(m_aBody) + m_iHeaderSize
        objects[i \in 0..Len(aList)] ==
            IF i = 0 THEN RoomToRead(aList)
            ELSE ReadObject(objects[i - 1], iRow + i - 1, aList[i])
    IN  objects[Len(aList)]

Read ==
    \E aList \in ObjectLists :
        /\ RoomForRows(Len(aList))
        /\ LET s == ReadObjects(aList)
           IN  /\ m_aBody' = s.body
               /\ m_aColumn' = s.column
               /\ m_iNextKey' = s.nextKey
        /\ UNCHANGED <<m_aColumnIndex, sizes>>
        /\ FitsBounds

-----------------------------------------------------------------------------
(* Cells and their history.                                                *)

CELLGetValue(iRow, p) == Cell(m_aBody, _row(m_aBody, iRow), _index2(p))

\* The key of no row throws.
CellSet(body, iRow, p, value) ==
    SetCell(body, _row(body, iRow), _index2(p), value)

CELLSetValue ==
    \E iRow \in Keys(m_aBody), p \in Positions, v \in Values :
        /\ m_aBody' = CellSet(m_aBody, iRow, p, v)
        /\ UNCHANGED <<m_iNextKey, columnVars, sizes>>

\* From one corner to another; corners in the wrong order make one row or
\* column, that of the first corner.
UpTo(a, b) == a..(IF a > b THEN a ELSE b)

CELLSetRange ==
    \E iRow1, iRow2 \in Keys(m_aBody), p1, p2 \in Positions, v \in Values :
        LET rows == UpTo(_row(m_aBody, iRow1), _row(m_aBody, iRow2))
            columns == UpTo(_index2(p1), _index2(p2))
        IN  /\ m_aBody' = [i \in DOMAIN m_aBody |->
                 [j \in DOMAIN m_aBody[i] |->
                    IF i - 1 \in rows /\ j - 1 \in columns THEN v
                    ELSE m_aBody[i][j]]]
            /\ UNCHANGED <<m_iNextKey, columnVars, sizes>>

\* Mutation of CountValue: the last row is left out.
CountValue_ShortOfEnd(iRow1, p1, iRow2, p2, value) ==
    LET iR1 == _row(m_aBody, iRow1)
        rows == iR1..(_row(m_aBody, iRow2) - 1)
        columns == UpTo(_index2(p1), _index2(p2))
        aRow(i) == m_aBody[_row(m_aBody, i) + 1]
    IN  {Key(aRow(i)) : i \in
            {r \in rows : \E iC \in columns : aRow(r)[iC + 1] = value}}

\* The keys of the rows that hold a value between two corners.  The place of
\* a row is looked up as if it were a key, after the corners' keys were.
CountValue(iRow1, p1, iRow2, p2, value) ==
    LET rows == UpTo(_row(m_aBody, iRow1), _row(m_aBody, iRow2))
        columns == UpTo(_index2(p1), _index2(p2))
        aRow(i) == m_aBody[_row(m_aBody, i) + 1]
    IN  {Key(aRow(i)) : i \in
            {r \in rows : \E iC \in columns : aRow(r)[iC + 1] = value}}

\* _index, not _index2: the element in front of the column's.
HistoryEntry(iRow, p) ==
    <<iRow, _index(p), Cell(m_aBody, _row(m_aBody, iRow), _index(p))>>

\* A row that is gone throws, when the entry has left the history.
Restored(body, entry) ==
    IF _row(body, entry[1]) = None THEN body
    ELSE SetCell(body, _row(body, entry[1]), entry[2], entry[3])

-----------------------------------------------------------------------------
Next ==
    \/ ROWAppendBlank \/ ROWAppendValues
    \/ ROWInsertBlank \/ ROWInsertValues
    \/ ROWRemove \/ ROWSet
    \/ Reindex \/ ClearData
    \/ InsertColumn \/ COLUMNSetPropertyValue \/ COLUMNUpdatePositionIndex
    \/ ReadArray \/ Read
    \/ CELLSetValue \/ CELLSetRange

Spec == Init /\ [][Next]_vars

-----------------------------------------------------------------------------
(* GetData: the rows as the user interface shows them.                     *)

SortColumns == {c \in DOMAIN m_aColumn : m_aColumn[c].sort # 0}

\* null has no toString; a body of one row is not compared.
SortThrows ==
    /\ Len(m_aBody) > 1
    /\ \E i \in DOMAIN m_aBody, c \in SortColumns : m_aBody[i][c + 1] = Null

\* Row x goes in front of row y.
Before(x, y) ==
    \E c \in SortColumns :
        IF m_aColumn[c].sort = -1 THEN x[c + 1] > y[c + 1]
        ELSE x[c + 1] < y[c + 1]

\* Row i of a body is shown in front of row j.
Precedes(body, i, j) ==
    \/ Before(body[i], body[j])
    \/ ~Before(body[j], body[i]) /\ i < j

\* Mutation of _sort: equal rows change places.
_sort_Unstable(body) ==
    LET order == CHOOSE p \in Bijection(DOMAIN body, DOMAIN body) :
            \A i, j \in DOMAIN body :
                i < j => \/ Before(body[p[i]], body[p[j]])
                         \/ ~Before(body[p[j]], body[p[i]]) /\ p[i] > p[j]
    IN  [i \in DOMAIN body |-> body[order[i]]]

\* A sort of a copy, which keeps the order of equal rows.
_sort(body) ==
    LET order == CHOOSE p \in Bijection(DOMAIN body, DOMAIN body) :
            \A i, j \in DOMAIN body : i < j => Precedes(body, p[i], p[j])
    IN  [i \in DOMAIN body |-> body[order[i]]]

\* The values of the columns that are not hidden.
_get_data(row) ==
    LET shown == Visible(m_aColumn)
    IN  [j \in DOMAIN shown |-> row[shown[j] + 2]]

\* From row iBegin on, at most iMax of them: 0 for an option not given.
GetData(iBegin, iMax) ==
    LET sorted == _sort(m_aBody)
        begin == IF iBegin = 0 THEN m_iHeaderSize ELSE iBegin
        total == Len(m_aBody) - m_iFooterSize
        end == IF iMax # 0 /\ total - begin > iMax THEN begin + iMax ELSE total
        rows == SubSeq(sorted, begin + 1, end)
    IN  [data |-> [i \in DOMAIN rows |-> _get_data(rows[i])],
         key |-> [i \in DOMAIN rows |-> Key(rows[i])]]

-----------------------------------------------------------------------------
(* Properties.                                                             *)

\* A key is the key of one row, and the next row's key is of no row: _row
\* finds the row that a caller means, and its shortcut by position finds the
\* same row as the search.
KeysNameOneRow ==
    /\ \A i, j \in DOMAIN m_aBody :
        Key(m_aBody[i]) = Key(m_aBody[j]) => i = j
    /\ \A k \in Keys(m_aBody) : k \in 0..(m_iNextKey - 1)

\* Between two calls that number the rows again, Reindex and ClearData, a
\* key that leaves the table never comes back for another row: what a user
\* interface or the history still holds of a removed row names no row.  All
\* keys given so far are below m_iNextKey, which never goes back.
NewKeysAreFresh ==
    [][ \/ Reindex \/ ClearData
        \/ /\ m_iNextKey' >= m_iNextKey
           /\ \A k \in Keys(m_aBody') \ Keys(m_aBody) : k >= m_iNextKey ]_vars

\* Every row holds its key and one value for each column, whatever columns
\* were inserted, read with an object or taken from a first row meanwhile.
RowsFitColumns ==
    \A i \in DOMAIN m_aBody : Len(m_aBody[i]) = Len(m_aColumn) + 1

KeysArePositions ==
    /\ m_aColumnIndex = NoIndex
    /\ \A i \in DOMAIN m_aBody : Key(m_aBody[i]) = i - 1
    /\ m_iNextKey = Len(m_aBody)

\* ReadObjects puts each object in a row of its own and leaves the rows that
\* were there as they were, as long as keys are positions; after a ROWRemove
\* they are not, and it writes to rows that were there or throws.
ReadKeepsOldRows ==
    KeysArePositions =>
        \A aList \in ObjectLists :
            LET s == ReadObjects(aList)
                old == Len(m_aBody)
                read(i, e) ==
                    Cell(s.body, old + i - 1, _indexOfName(s.column, e[1]) + 1)
            IN  /\ \A i \in 1..old : IsPrefix(m_aBody[i], s.body[i])
                /\ \A i \in DOMAIN aList : \A e \in Range(aList[i]) :
                        read(i, e) = e[2]

\* CountValue finds, between two corners, the rows in which CELLGetValue
\* returns the value, as long as the keys of the rows are their positions;
\* after a ROWRemove it looks in other rows or throws.
CountFindsCells ==
    m_aColumnIndex = NoIndex
        /\ (\A i \in DOMAIN m_aBody : Key(m_aBody[i]) = i - 1)
    => \A iRow1, iRow2 \in Keys(m_aBody), p1, p2 \in Positions, v \in Values :
        iRow1 <= iRow2 /\ p1 <= p2 =>
            CountValue(iRow1, p1, iRow2, p2, v) =
                {iRow \in iRow1..iRow2 :
                    \E p \in p1..p2 : CELLGetValue(iRow, p) = v}

\* GetData returns every row once, in the order of the column marked for
\* sorting, and equal rows in the order of the body; a page of it is the
\* part of the whole it asks for.
GetDataIsSortedBody ==
    ~SortThrows =>
        LET all == GetData(0, 0).key
            At(i) == m_aBody[_row(m_aBody, all[i]) + 1]
        IN  /\ Len(all) = Len(m_aBody) /\ Range(all) = Keys(m_aBody)
            /\ \A i, j \in DOMAIN all :
                i < j => \/ Before(At(i), At(j))
                         \/ /\ ~Before(At(j), At(i))
                            /\ _row(m_aBody, all[i]) < _row(m_aBody, all[j])
            /\ \A b \in 0..(Len(all) - 1) : GetData(b, 1).key = <<all[b + 1]>>

\* The positions callers use are the columns GetData shows.
IndexIsCurrent ==
    IF m_aColumnIndex = NoIndex THEN \A c \in DOMAIN m_aColumn : ~m_aColumn[c].hide
    ELSE m_aColumnIndex = Visible(m_aColumn)

\* What a user interface shows at row i and position j is the value that
\* CELLGetValue returns for the key GetData gave it for that row and for the
\* same position: an edit of a shown cell is an edit of the cell behind it.
\* It needs m_aColumnIndex to be up to date, which only
\* COLUMNUpdatePositionIndex sees to.
ViewsAgree ==
    ~SortThrows /\ IndexIsCurrent =>
        LET view == GetData(0, 0)
        IN  \A i \in DOMAIN view.key : \A j \in DOMAIN view.data[i] :
                view.data[i][j] = CELLGetValue(view.key[i], j - 1)

\* HISTORYPush, CELLSetValue and HISTORYPop of one cell give its value back
\* ("restore value").
UndoRestoresCell ==
    \A iRow \in Keys(m_aBody), p \in Positions, v \in Values :
        Restored(CellSet(m_aBody, iRow, p, v), HistoryEntry(iRow, p)) = m_aBody
=============================================================================
