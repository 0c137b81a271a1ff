------------------------------ MODULE KeyMatrix ------------------------------
\* Which row and column of a scanning matrix each key is wired to, worked out
\* from where the keys lie when nobody said.  A board is a sequence of keys with
\* their place and width; rows, columns and halves are counted from 0.
EXTENDS KeyCatalog

CONSTANT Unit            \* the steps a place is measured in that make a key's width

ASSUME UnitAssumption == Unit \in Nat \ {0}

Keys(board) == DOMAIN board

\* columnGroups: keys from left to right; one that leaves a gap to all on its
\* left begins a half of its own.
LeftOf(board, i, j) ==
    board[i].x < board[j].x \/ (board[i].x = board[j].x /\ i < j)
KeysLeftOf(board, i) == {j \in Keys(board) : LeftOf(board, j, i)}
BeginsGroup(board, i) ==
    /\ KeysLeftOf(board, i) # {}
    /\ \A j \in KeysLeftOf(board, i) :
          10 * board[i].x > 10 * (board[j].x + board[j].w) + 6 * Unit
GroupOf(board, i) ==
    Cardinality({s \in KeysLeftOf(board, i) \cup {i} : BeginsGroup(board, s)})
Group(board, g) == {i \in Keys(board) : GroupOf(board, i) = g}
GroupCount(board) == 1 + Cardinality({s \in Keys(board) : BeginsGroup(board, s)})

\* localMatrix: the axis with the fewer bands gives the lines, the place in a
\* line the other number.
Band(v) == (8 * v + Unit) \div (2 * Unit)
XBands(board, G) == {Band(board[i].x) : i \in G}
YBands(board, G) == {Band(board[i].y) : i \in G}
ColumnMajor(board, G) == Cardinality(XBands(board, G)) <= Cardinality(YBands(board, G))

LineBand(board, G, i) == IF ColumnMajor(board, G) THEN Band(board[i].x) ELSE Band(board[i].y)
LineBands(board, G) == IF ColumnMajor(board, G) THEN XBands(board, G) ELSE YBands(board, G)
Line(board, G, i) ==
    Cardinality({b \in LineBands(board, G) : b < LineBand(board, G, i)})

Above(board, i, j) ==
    board[i].y < board[j].y \/ (board[i].y = board[j].y /\ LeftOf(board, i, j))
Ahead(board, G, i, j) ==
    IF ColumnMajor(board, G) THEN Above(board, i, j) ELSE LeftOf(board, i, j)
AheadInLine(board, G, i) ==
    {j \in G : LineBand(board, G, j) = LineBand(board, G, i) /\ Ahead(board, G, j, i)}
Place(board, G, i) == Cardinality(AheadInLine(board, G, i))

\* As many as reach up to the highest.
Places(board, G) ==
    Cardinality({v \in 0..Len(board) : \E i \in G : v <= Place(board, G, i)})
Lines(board, G) == Cardinality(LineBands(board, G))

LocalRow(board, G, i) ==
    IF ColumnMajor(board, G) THEN Place(board, G, i) ELSE Line(board, G, i)
LocalColumn(board, G, i) ==
    IF ColumnMajor(board, G) THEN Line(board, G, i) ELSE Place(board, G, i)
GroupRows(board, G) == IF ColumnMajor(board, G) THEN Places(board, G) ELSE Lines(board, G)
GroupColumns(board, G) == IF ColumnMajor(board, G) THEN Lines(board, G) ELSE Places(board, G)

\* deriveMatrix: each half goes on where the one on its left ends.
\* Mutant: the half's own columns count too.
ColumnsUpTo(board, g) ==
    {p \in (0..g) \X (0..Len(board)) : p[2] < GroupColumns(board, Group(board, p[1]))}

ColumnsBefore(board, g) ==
    {p \in (0..g - 1) \X (0..Len(board)) : p[2] < GroupColumns(board, Group(board, p[1]))}
ColumnOffset(board, g) == Cardinality(ColumnsBefore(board, g))

DerivedCell(board, i) ==
    LET G == Group(board, GroupOf(board, i))
    IN  <<LocalRow(board, G, i), LocalColumn(board, G, i) + ColumnOffset(board, GroupOf(board, i))>>
DerivedMap(board) == <<>> \o [i \in Keys(board) |-> DerivedCell(board, i)]

RowsOf(map) == Cardinality({v \in 0..Len(map) : \E i \in DOMAIN map : v <= map[i][1]})
DeriveMatrix(board) ==
    LET map == DerivedMap(board)
    IN  [rows |-> RowsOf(map), columns |-> ColumnOffset(board, GroupCount(board)), map |-> map]

\* Different keys have different cells of the matrix, and it has all of them.
WiredApart(m) ==
    /\ \A i, j \in DOMAIN m.map : i # j => m.map[i] # m.map[j]
    /\ \A i \in DOMAIN m.map : m.map[i] \in (0..m.rows - 1) \X (0..m.columns - 1)
=============================================================================
