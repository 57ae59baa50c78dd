----------------------------- MODULE DataTable -----------------------------
(***************************************************************************)
(* Table (target/WEB/admin/http/js/classes/gd_data_table.js): rows of      *)
(* cells under named columns, the table class of the administration pages. *)
(* A table is a record, a method an operator on it.  A cell is a value, or *)
(* an array whose first element is the value; the pages keep the row's     *)
(* position as the second.  An index of the code is one less than that of  *)
(* the sequence here.  Columns are strings without an alias.               *)
(***************************************************************************)
EXTENDS Integers, SequencesExt

CONSTANTS NoKey,        \* the second element of a cell that is no array
          Undefined     \* a hole of an array

Plain(value) == [value |-> value, key |-> NoKey]
Keyed(value, key) == [value |-> value, key |-> key]

Table(columns) == [aColumn |-> columns, aTable |-> <<>>]

Size(t) == Len(t.aTable)
GetColumnIndex(t, sName) == SelectInSeq(t.aColumn, LAMBDA c : c = sName) - 1

RowIndexes(t) == 0..(Size(t) - 1)
ColumnIndexes(t) == 0..(Len(t.aColumn) - 1)
InTable(t, iRow, iColumn) ==
    iRow \in RowIndexes(t) /\ iColumn \in ColumnIndexes(t)

_GetCell(t, iRow, iColumn) == t.aTable[iRow + 1][iColumn + 1]
_GetCellValue(t, iRow, iColumn) == _GetCell(t, iRow, iColumn).value
GetRow(t, iRow) ==
    [c \in DOMAIN t.aColumn |-> _GetCellValue(t, iRow, c - 1)]

\* The new cell replaces an array; out of the table nothing is set.
SetCellValue(t, iRow, iColumn, cell) ==
    IF InTable(t, iRow, iColumn)
    THEN [t EXCEPT !.aTable[iRow + 1][iColumn + 1] = cell]
    ELSE t

\* The rows of an array, or one row made of an object: its keys that name
\* no column are left out.
AddRows(t, rows) == [t EXCEPT !.aTable = @ \o rows]
AddObject(t, object) ==
    AddRows(t, << [c \in DOMAIN t.aColumn |->
                     IF t.aColumn[c] \in DOMAIN object
                     THEN Plain(object[t.aColumn[c]])
                     ELSE Plain(Undefined)] >>)

\* splice, of at most the rows there are from iPosition on.
Delete(t, iPosition, iLength) ==
    LET left == Size(t) - iPosition
        n == IF iLength < left THEN iLength ELSE left
    IN  [t EXCEPT !.aTable = SubSeq(@, 1, iPosition) \o
                             SubSeq(@, iPosition + n + 1, Len(@))]

Clear(t) == [t EXCEPT !.aTable = <<>>]

\* The indexes, in order, of the rows that a callback finds: found is what
\* it holds of.
FindAll(t, found) ==
    LET aFind[i \in 0..Size(t)] ==
            IF i = 0 THEN <<>>
            ELSE IF GetRow(t, i - 1) \in found THEN Append(aFind[i - 1], i - 1)
            ELSE aFind[i - 1]
    IN  aFind[Size(t)]

\* The rows at the indexes that are in the table; their cells are shared.
Clone(t, aRows) ==
    LET aTable[i \in 0..Len(aRows)] ==
            IF i = 0 THEN <<>>
            ELSE IF aRows[i] \in RowIndexes(t)
            THEN Append(aTable[i - 1], t.aTable[aRows[i] + 1])
            ELSE aTable[i - 1]
    IN  [t EXCEPT !.aTable = aTable[Len(aRows)]]

AsObject(t, iRow) ==
    [sName \in Range(t.aColumn) |->
        _GetCellValue(t, iRow, GetColumnIndex(t, sName))]

\* The comparison of GetData puts row x in front of row y.  Undefined comes
\* first; two of them compare as smaller either way round in ascending order,
\* and as equal in descending order.  Words stand for their places in the
\* order of texts; the index, which the code compares as a text too, is taken
\* as a number, which is the same for the first ten rows.
SortsBefore(x, y, column, descending) ==
    LET a == x[column + 1]
        b == y[column + 1]
    IN  IF descending THEN a # Undefined /\ (b = Undefined \/ b < a)
        ELSE a = Undefined \/ (b # Undefined /\ a < b)

\* Row i of the data may be returned in front of row j: the sort is stable, and
\* where the comparison puts each in front of the other it says nothing.
Precedes(data, i, j, column, descending) ==
    \/ SortsBefore(data[i], data[j], column, descending)
    \/ ~SortsBefore(data[j], data[i], column, descending) /\ i < j

\* The data in such an order.
Sorted(data, column, descending) ==
    LET order == CHOOSE p \in Bijection(DOMAIN data, DOMAIN data) :
            \A i, j \in DOMAIN data :
                i < j => Precedes(data, p[i], p[j], column, descending)
    IN  [i \in DOMAIN data |-> data[order[i]]]

\* The rows' values, each after its index when bIndex is set.
RowsOfData(t, bIndex, aRows) ==
    [i \in DOMAIN aRows |-> IF bIndex THEN <<aRows[i]>> \o GetRow(t, aRows[i])
                            ELSE GetRow(t, aRows[i])]

\* Mutation of GetData: the index is the place among the rows asked for.
GetData_PlaceAsIndex(t, bIndex, iSort, aRows) ==
    LET iFirstColumn == IF bIndex THEN 1 ELSE 0
        column == (IF iSort < 0 THEN -iSort ELSE iSort) - iFirstColumn
        data == RowsOfData(t, bIndex, aRows)
        sorted == Sorted(data, column, iSort < 0)
    IN  IF iSort = 0 THEN data
        ELSE [i \in DOMAIN data |->
                IF bIndex THEN <<i - 1>> \o Tail(sorted[i]) ELSE sorted[i]]

\* Of the rows aRows, in the order of element |iSort| of the row, counted from
\* the first value's element.
GetData(t, bIndex, iSort, aRows) ==
    LET iFirstColumn == IF bIndex THEN 1 ELSE 0
        column == (IF iSort < 0 THEN -iSort ELSE iSort) - iFirstColumn
        data == RowsOfData(t, bIndex, aRows)
    IN  IF iSort = 0 THEN data ELSE Sorted(data, column, iSort < 0)
=============================================================================
