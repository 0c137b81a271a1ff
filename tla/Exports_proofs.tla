--------------------------- MODULE Exports_proofs ---------------------------
\* What a saved configuration is exported as holds together, whatever its keys,
\* layers, definitions and pins are.
EXTENDS Exports, FiniteSetTheorems, TLAPS

----------------------------------------------------------------------------
LEMMA CountedFromZero ==
    ASSUME NEW n \in Nat
    PROVE  /\ IsFiniteSet(0..n - 1) /\ Cardinality(0..n - 1) = n
           /\ IsFiniteSet(0..n) /\ Cardinality(0..n) = n + 1
  BY FS_Interval

LEMMA CellWithin ==
    ASSUME NEW m \in Nat, NEW n \in Nat, NEW a \in Nat, a < m, NEW b \in Nat, b < n,
           NEW cell, cell = <<a, b>>
    PROVE  cell \in (0..m - 1) \X (0..n - 1)
  OBVIOUS

\* A finite set in an order: each element by how many come before it.
Below(S, R, x) == {y \in S : <<y, x>> \in R}
Orders(R, S) ==
    /\ \A x \in S : <<x, x>> \notin R
    /\ \A x, y, z \in S : <<x, y>> \in R /\ <<y, z>> \in R => <<x, z>> \in R
    /\ \A x, y \in S : x = y \/ <<x, y>> \in R \/ <<y, x>> \in R

\* No two have as many before them, and every number below the size is one's.
LEMMA Numbered ==
    ASSUME NEW S, IsFiniteSet(S), NEW R, Orders(R, S)
    PROVE  /\ Cardinality(S) \in Nat
           /\ \A x \in S : Cardinality(Below(S, R, x)) \in 0..Cardinality(S) - 1
           /\ \A x, y \in S :
                 Cardinality(Below(S, R, x)) = Cardinality(Below(S, R, y)) => x = y
           /\ \A n \in 0..Cardinality(S) - 1 :
                 \E x \in S : Cardinality(Below(S, R, x)) = n
  <1> DEFINE T == 0..Cardinality(S) - 1
             f == [x \in S |-> Cardinality(Below(S, R, x))]
  <1>1. Cardinality(S) \in Nat
    BY FS_CardinalityType
  <1>2. ASSUME NEW x \in S
        PROVE  /\ IsFiniteSet(Below(S, R, x)) /\ Cardinality(Below(S, R, x)) \in T
    <2>1. Below(S, R, x) \in SUBSET (S \ {x})
      BY DEF Below, Orders
    <2>2. IsFiniteSet(S \ {x}) /\ Cardinality(S \ {x}) = Cardinality(S) - 1
      BY FS_RemoveElement
    <2>3. /\ IsFiniteSet(Below(S, R, x))
          /\ Cardinality(Below(S, R, x)) <= Cardinality(S \ {x})
      BY <2>1, <2>2, FS_Subset
    <2> QED BY <1>1, <2>2, <2>3, FS_CardinalityType
  <1>3. ASSUME NEW x \in S, NEW y \in S, <<x, y>> \in R
        PROVE  Cardinality(Below(S, R, x)) < Cardinality(Below(S, R, y))
    <2>1. x \notin Below(S, R, x) /\ Below(S, R, x) \cup {x} \in SUBSET Below(S, R, y)
      BY <1>3 DEF Below, Orders
    <2>2. Cardinality(Below(S, R, x) \cup {x}) = Cardinality(Below(S, R, x)) + 1
      BY <1>2, <2>1, FS_AddElement
    <2>3. Cardinality(Below(S, R, x) \cup {x}) <= Cardinality(Below(S, R, y))
      BY <1>2, <2>1, FS_Subset
    <2> QED BY <1>1, <1>2, <2>2, <2>3
  <1>4. \A x, y \in S : Cardinality(Below(S, R, x)) = Cardinality(Below(S, R, y)) => x = y
    <2> SUFFICES ASSUME NEW x \in S, NEW y \in S, x # y
                 PROVE  Cardinality(Below(S, R, x)) # Cardinality(Below(S, R, y))
      OBVIOUS
    <2>1. <<x, y>> \in R \/ <<y, x>> \in R
      BY DEF Orders
    <2> QED BY <1>1, <1>2, <1>3, <2>1
  <1>5. f \in Injection(S, T)
    BY <1>2, <1>4 DEF Injection, IsInjective
  <1>6. IsFiniteSet(T) /\ Cardinality(T) = Cardinality(S)
    BY <1>1, FS_Interval
  <1>7. f \in Surjection(S, T)
    BY <1>5, <1>6, FS_Injection
  <1> QED BY <1>1, <1>2, <1>4, <1>7 DEF Surjection

LEMMA LastOf ==
    ASSUME NEW S, IsFiniteSet(S), S # {}, NEW R, Orders(R, S)
    PROVE  \E x \in S : \A y \in S : y = x \/ <<y, x>> \in R
  <1>1. Cardinality(S) - 1 \in 0..Cardinality(S) - 1
    BY FS_CardinalityType, FS_EmptySet
  <1>2. PICK x \in S : Cardinality(Below(S, R, x)) = Cardinality(S) - 1
    BY <1>1, Numbered
  <1>3. Below(S, R, x) \in SUBSET (S \ {x})
    BY DEF Below, Orders
  <1>4. IsFiniteSet(S \ {x}) /\ Cardinality(S \ {x}) = Cardinality(S) - 1
    BY FS_RemoveElement
  <1>5. Below(S, R, x) = S \ {x}
    BY <1>2, <1>3, <1>4, FS_Subset
  <1> QED BY <1>5 DEF Below

\* Numbers by their size.
Ascending(S) == {p \in S \X S : p[1] < p[2]}

LEMMA AscendingOrders ==
    ASSUME NEW S, \A x \in S : x \in Int
    PROVE  /\ Orders(Ascending(S), S)
           /\ \A x, y \in S : <<x, y>> \in Ascending(S) <=> x < y
           /\ \A x \in S : Below(S, Ascending(S), x) = {y \in S : y < x}
  BY DEF Orders, Ascending, Below

\* Of finitely many numbers one is the greatest.
LEMMA GreatestOf ==
    ASSUME NEW S, \A x \in S : x \in Int, IsFiniteSet(S), S # {}
    PROVE  Max(S) \in S /\ \A x \in S : x <= Max(S)
  <1>1. Orders(Ascending(S), S) /\ \A x, y \in S : <<x, y>> \in Ascending(S) <=> x < y
    BY AscendingOrders
  <1>2. PICK x \in S : \A y \in S : y = x \/ <<y, x>> \in Ascending(S)
    BY <1>1, LastOf
  <1>3. ASSUME NEW y \in S PROVE x >= y
    <2>1. y = x \/ y < x
      BY <1>1, <1>2
    <2> QED BY <2>1
  <1> QED BY <1>3 DEF Max

\* The numbers of a finite set by how many are smaller.
LEMMA NumbersCounted ==
    ASSUME NEW S, \A x \in S : x \in Int, IsFiniteSet(S)
    PROVE  /\ Cardinality(S) \in Nat
           /\ \A x \in S : Cardinality({y \in S : y < x}) \in 0..Cardinality(S) - 1
           /\ \A x, y \in S :
                 Cardinality({z \in S : z < x}) = Cardinality({z \in S : z < y}) => x = y
           /\ \A n \in 0..Cardinality(S) - 1 :
                 \E x \in S : Cardinality({y \in S : y < x}) = n
  <1>1. Orders(Ascending(S), S)
    BY AscendingOrders
  <1>2. \A x \in S : Below(S, Ascending(S), x) = {y \in S : y < x}
    BY AscendingOrders
  <1>3. /\ Cardinality(S) \in Nat
        /\ \A x \in S : Cardinality(Below(S, Ascending(S), x)) \in 0..Cardinality(S) - 1
        /\ \A x, y \in S : Cardinality(Below(S, Ascending(S), x))
                              = Cardinality(Below(S, Ascending(S), y)) => x = y
        /\ \A n \in 0..Cardinality(S) - 1 :
              \E x \in S : Cardinality(Below(S, Ascending(S), x)) = n
    BY <1>1, Numbered
  <1> QED BY <1>2, <1>3

\* A sequence that is said element by element.
LEMMA Spelled ==
    ASSUME NEW n \in Nat, NEW F(_)
    PROVE  /\ <<>> \o [i \in 1..n |-> F(i)] = [i \in 1..n |-> F(i)]
           /\ Len([i \in 1..n |-> F(i)]) = n
  <1> DEFINE s == [i \in 1..n |-> F(i)]
  <1>1. s \in Seq({F(i) : i \in 1..n})
    OBVIOUS
  <1> QED BY <1>1

----------------------------------------------------------------------------
\* The derived matrix.  What it needs of a board is that its keys have places.
Placed(board) ==
    /\ Len(board) \in Nat /\ Keys(board) = 1..Len(board)
    /\ \A i \in Keys(board) : board[i].x \in Int /\ board[i].y \in Int

LEMMA BoardIsPlaced ==
    ASSUME NEW board, IsBoard(board)
    PROVE  Placed(board)
  <1>1. Len(board) \in Nat /\ DOMAIN board = 1..Len(board)
    <2>1. Len(board) \in Nat /\ board = [i \in 1..Len(board) |-> board[i]]
      BY DEF IsBoard, IsList
    <2> QED BY <2>1
  <1>2. \A i \in DOMAIN board : board[i].x \in Int /\ board[i].y \in Int
    BY DEF IsBoard
  <1> QED BY <1>1, <1>2 DEF Placed, Keys

LEMMA FewKeys ==
    ASSUME NEW board, Placed(board), NEW G \in SUBSET Keys(board)
    PROVE  /\ Len(board) \in Nat
           /\ IsFiniteSet(G) /\ Cardinality(G) \in Nat /\ Cardinality(G) <= Len(board)
  <1>1. Len(board) \in Nat /\ Keys(board) = 1..Len(board)
    BY DEF Placed
  <1>2. IsFiniteSet(Keys(board)) /\ Cardinality(Keys(board)) = Len(board)
    BY <1>1, FS_Interval
  <1>3. IsFiniteSet(G) /\ Cardinality(G) <= Cardinality(Keys(board))
    BY <1>2, FS_Subset
  <1> QED BY <1>1, <1>2, <1>3, FS_CardinalityType

\* Every key is in one of the halves.
LEMMA InAHalf ==
    ASSUME NEW board, Placed(board)
    PROVE  /\ GroupCount(board) \in Nat \ {0}
           /\ \A i \in Keys(board) : GroupOf(board, i) \in 0..GroupCount(board) - 1
           /\ \A g : Group(board, g) \in SUBSET Keys(board)
           /\ \A g : \A i \in Keys(board) : i \in Group(board, g) <=> g = GroupOf(board, i)
  <1> DEFINE B == {s \in Keys(board) : BeginsGroup(board, s)}
  <1>1. IsFiniteSet(Keys(board))
    BY FS_Interval DEF Placed
  <1>2. IsFiniteSet(B) /\ Cardinality(B) \in Nat
    BY <1>1, FS_Subset, FS_CardinalityType
  <1>3. ASSUME NEW i \in Keys(board)
        PROVE  GroupOf(board, i) \in 0..Cardinality(B)
    <2> DEFINE T == {s \in KeysLeftOf(board, i) \cup {i} : BeginsGroup(board, s)}
    <2>1. T \in SUBSET B
      BY DEF KeysLeftOf
    <2>2. IsFiniteSet(T) /\ Cardinality(T) <= Cardinality(B)
      BY <1>2, <2>1, FS_Subset
    <2>3. Cardinality(T) \in Nat
      BY <2>2, FS_CardinalityType
    <2> QED BY <1>2, <2>2, <2>3 DEF GroupOf
  <1> QED BY <1>2, <1>3 DEF GroupCount, Group

\* The lines of a half: as many as its bands, and a key's is that of its band.
LEMMA LinesCounted ==
    ASSUME NEW board, Placed(board), NEW G \in SUBSET Keys(board)
    PROVE  /\ Lines(board, G) \in Nat /\ Lines(board, G) <= Len(board)
           /\ \A i \in G : Line(board, G, i) \in 0..Lines(board, G) - 1
           /\ \A i, j \in G : Line(board, G, i) = Line(board, G, j)
                              => LineBand(board, G, i) = LineBand(board, G, j)
  <1> DEFINE f == [i \in G |-> LineBand(board, G, i)]
             B == LineBands(board, G)
  <1>1. IsFiniteSet(G) /\ Cardinality(G) \in Nat /\ Cardinality(G) <= Len(board)
    BY FewKeys
  <1>2. ASSUME NEW i \in G PROVE LineBand(board, G, i) \in Int
    <2>1. board[i].x \in Int /\ board[i].y \in Int
      BY DEF Placed
    <2> QED BY <2>1, UnitAssumption DEF LineBand, Band
  <1>3. B = {LineBand(board, G, i) : i \in G}
    BY DEF LineBands, LineBand, XBands, YBands
  <1>4. f \in Surjection(G, B)
    BY <1>3 DEF Surjection
  <1>5. IsFiniteSet(B) /\ Cardinality(B) <= Cardinality(G)
    BY <1>1, <1>4, FS_Surjection
  <1>6. \A b \in B : b \in Int
    BY <1>2, <1>3
  <1>7. /\ Cardinality(B) \in Nat
        /\ \A b \in B : Cardinality({a \in B : a < b}) \in 0..Cardinality(B) - 1
        /\ \A a, b \in B :
              Cardinality({z \in B : z < a}) = Cardinality({z \in B : z < b}) => a = b
    BY <1>5, <1>6, NumbersCounted
  <1>8. \A i \in G : LineBand(board, G, i) \in B
    BY <1>3
  <1> QED BY <1>1, <1>5, <1>7, <1>8 DEF Lines, Line

\* The places in a line: as many as reach up to the highest, and of two keys in a
\* line one is ahead.
AheadOf(board, G) == {p \in G \X G : Ahead(board, G, p[1], p[2])}
KeysInLine(board, G, b) == {i \in G : LineBand(board, G, i) = b}

LEMMA PlacesCounted ==
    ASSUME NEW board, Placed(board), NEW G \in SUBSET Keys(board)
    PROVE  /\ Places(board, G) \in Nat /\ Places(board, G) <= Len(board) + 1
           /\ \A i \in G : Place(board, G, i) \in 0..Places(board, G) - 1
           /\ \A i \in G : Place(board, G, i) < Len(board)
           /\ \A i, j \in G : (/\ LineBand(board, G, i) = LineBand(board, G, j)
                               /\ Place(board, G, i) = Place(board, G, j)) => i = j
  <1> DEFINE R == AheadOf(board, G)
             K(b) == KeysInLine(board, G, b)
             V == {v \in 0..Len(board) : \E i \in G : v <= Place(board, G, i)}
  <1>1. Len(board) \in Nat /\ Keys(board) = 1..Len(board)
    BY DEF Placed
  <1>2. ASSUME NEW b
        PROVE  Orders(R, K(b)) /\ IsFiniteSet(K(b)) /\ Cardinality(K(b)) <= Len(board)
    <2>1. \A i \in G : i \in Int /\ board[i].x \in Int /\ board[i].y \in Int
      BY <1>1 DEF Placed
    <2>2. \A i, j \in G : <<i, j>> \in R <=> Ahead(board, G, i, j)
      BY DEF AheadOf
    <2>3. /\ \A i \in G : ~Ahead(board, G, i, i)
          /\ \A i, j, k \in G : Ahead(board, G, i, j) /\ Ahead(board, G, j, k)
                                => Ahead(board, G, i, k)
          /\ \A i, j \in G : i = j \/ Ahead(board, G, i, j) \/ Ahead(board, G, j, i)
      BY <2>1 DEF Ahead, Above, LeftOf
    <2>4. Orders(R, K(b))
      BY <2>2, <2>3 DEF Orders, KeysInLine
    <2>5. K(b) \in SUBSET Keys(board)
      BY DEF KeysInLine
    <2> QED BY <2>4, <2>5, FewKeys
  <1>3. ASSUME NEW i \in G
        PROVE  /\ i \in K(LineBand(board, G, i))
               /\ Place(board, G, i) = Cardinality(Below(K(LineBand(board, G, i)), R, i))
    BY DEF Place, AheadInLine, Below, AheadOf, KeysInLine
  <1>4. ASSUME NEW i \in G
        PROVE  Place(board, G, i) \in Nat /\ Place(board, G, i) < Len(board)
    <2> DEFINE b == LineBand(board, G, i)
    <2>1. Place(board, G, i) \in 0..Cardinality(K(b)) - 1 /\ Cardinality(K(b)) \in Nat
      BY <1>2, <1>3, Numbered
    <2> QED BY <1>1, <1>2, <2>1
  <1>5. ASSUME NEW i \in G, NEW j \in G, LineBand(board, G, i) = LineBand(board, G, j),
               Place(board, G, i) = Place(board, G, j)
        PROVE  i = j
    <2> DEFINE b == LineBand(board, G, i)
    <2>1. \A x, y \in K(b) :
             Cardinality(Below(K(b), R, x)) = Cardinality(Below(K(b), R, y)) => x = y
      BY <1>2, Numbered
    <2> QED BY <1>3, <1>5, <2>1
  <1>6. /\ IsFiniteSet(V) /\ Cardinality(V) \in Nat /\ Cardinality(V) <= Len(board) + 1
    <2>1. IsFiniteSet(0..Len(board)) /\ Cardinality(0..Len(board)) = Len(board) + 1
      BY <1>1, FS_Interval
    <2> QED BY <2>1, FS_Subset, FS_CardinalityType
  <1>7. ASSUME NEW i \in G PROVE Place(board, G, i) < Cardinality(V)
    <2>1. 0..Place(board, G, i) \in SUBSET V
      BY <1>1, <1>4
    <2>2. Cardinality(0..Place(board, G, i)) = Place(board, G, i) + 1
      BY <1>4, FS_Interval
    <2>3. Cardinality(0..Place(board, G, i)) <= Cardinality(V)
      BY <1>6, <2>1, FS_Subset
    <2> QED BY <1>4, <1>6, <2>2, <2>3
  <1>8. Places(board, G) = Cardinality(V)
    BY DEF Places
  <1> HIDE DEF V
  <1> QED BY <1>1, <1>4, <1>5, <1>6, <1>7, <1>8

\* The cells of a half: within it, and different for different keys.
LEMMA LocalCells ==
    ASSUME NEW board, Placed(board), NEW G \in SUBSET Keys(board)
    PROVE  /\ GroupColumns(board, G) \in Nat /\ GroupColumns(board, G) <= Len(board) + 1
           /\ GroupRows(board, G) \in Nat
           /\ \A i \in G : /\ LocalRow(board, G, i) \in 0..GroupRows(board, G) - 1
                           /\ LocalRow(board, G, i) <= Len(board)
                           /\ LocalColumn(board, G, i) \in 0..GroupColumns(board, G) - 1
           /\ \A i, j \in G : (/\ LocalRow(board, G, i) = LocalRow(board, G, j)
                               /\ LocalColumn(board, G, i) = LocalColumn(board, G, j)) => i = j
  <1>1. /\ Len(board) \in Nat /\ Lines(board, G) \in Nat /\ Lines(board, G) <= Len(board)
        /\ \A i \in G : Line(board, G, i) \in 0..Lines(board, G) - 1
    BY LinesCounted, FewKeys
  <1>2. \A i, j \in G : Line(board, G, i) = Line(board, G, j)
                        => LineBand(board, G, i) = LineBand(board, G, j)
    BY LinesCounted
  <1>3. /\ Places(board, G) \in Nat /\ Places(board, G) <= Len(board) + 1
        /\ \A i \in G : Place(board, G, i) \in 0..Places(board, G) - 1
        /\ \A i \in G : Place(board, G, i) < Len(board)
    BY PlacesCounted
  <1>4. \A i, j \in G : (/\ LineBand(board, G, i) = LineBand(board, G, j)
                         /\ Place(board, G, i) = Place(board, G, j)) => i = j
    BY PlacesCounted
  <1>5. CASE ColumnMajor(board, G)
    BY <1>1, <1>2, <1>3, <1>4, <1>5 DEF LocalRow, LocalColumn, GroupRows, GroupColumns
  <1>6. CASE ~ColumnMajor(board, G)
    BY <1>1, <1>2, <1>3, <1>4, <1>6 DEF LocalRow, LocalColumn, GroupRows, GroupColumns
  <1> QED BY <1>5, <1>6

\* A half ends where one to its right may begin.
LEMMA HalvesApart ==
    ASSUME NEW board, Placed(board), NEW g \in Nat, NEW h \in Nat, g < h
    PROVE  /\ ColumnOffset(board, g) \in Nat /\ ColumnOffset(board, h) \in Nat
           /\ ColumnOffset(board, g) + GroupColumns(board, Group(board, g))
              <= ColumnOffset(board, h)
  <1> DEFINE n == GroupColumns(board, Group(board, g))
             P == ColumnsBefore(board, g)
             Q == ColumnsBefore(board, h)
             N == {g} \X (0..n - 1)
  <1>1. Len(board) \in Nat /\ n \in Nat /\ n <= Len(board) + 1
    BY InAHalf, LocalCells, FewKeys
  <1>2. ASSUME NEW k \in Nat
        PROVE  IsFiniteSet(ColumnsBefore(board, k)) /\ Cardinality(ColumnsBefore(board, k)) \in Nat
    <2>1. IsFiniteSet(0..k - 1) /\ IsFiniteSet(0..Len(board))
      BY <1>1, FS_Interval
    <2>2. IsFiniteSet((0..k - 1) \X (0..Len(board)))
      BY <2>1, FS_Product
    <2>3. ColumnsBefore(board, k) \in SUBSET ((0..k - 1) \X (0..Len(board)))
      BY DEF ColumnsBefore
    <2> QED BY <2>2, <2>3, FS_Subset, FS_CardinalityType
  <1>3. IsFiniteSet(N) /\ Cardinality(N) = n
    <2>1. IsFiniteSet(0..n - 1) /\ Cardinality(0..n - 1) = n
      BY <1>1, CountedFromZero
    <2>2. IsFiniteSet({g}) /\ Cardinality({g}) = 1
      BY FS_Singleton
    <2>3. IsFiniteSet(N) /\ Cardinality(N) = 1 * n
      BY <2>1, <2>2, FS_Product
    <2> QED BY <1>1, <2>3
  <1>4. P \cap N = {}
    BY DEF ColumnsBefore
  <1>5. P \cup N \in SUBSET Q
    BY <1>1 DEF ColumnsBefore
  <1>6. Cardinality(P \cup N) = Cardinality(P) + n
    <2>1. Cardinality(P \cup N) = Cardinality(P) + Cardinality(N) - Cardinality(P \cap N)
      BY <1>2, <1>3, FS_Union
    <2>2. Cardinality(P \cap N) = 0
      BY <1>4, FS_EmptySet
    <2> HIDE DEF P, N, n
    <2>3. Cardinality(P) \in Nat
      BY <1>2 DEF P
    <2> QED BY <1>1, <1>3, <2>1, <2>2, <2>3
  <1>7. Cardinality(P \cup N) <= Cardinality(Q)
    BY <1>2, <1>5, FS_Subset
  <1> QED BY <1>1, <1>2, <1>6, <1>7 DEF ColumnOffset

\* The cell of a key is one of its half, at the half's columns.
LEMMA CellOfHalf ==
    ASSUME NEW board, Placed(board), NEW i \in Keys(board),
           NEW g, g = GroupOf(board, i)
    PROVE  /\ i \in Group(board, g) /\ g \in Nat /\ g < GroupCount(board)
           /\ DerivedCell(board, i)
              = <<LocalRow(board, Group(board, g), i),
                  LocalColumn(board, Group(board, g), i) + ColumnOffset(board, g)>>
           /\ DerivedCell(board, i)[1] \in 0..GroupRows(board, Group(board, g)) - 1
           /\ DerivedCell(board, i)[1] <= Len(board)
           /\ ColumnOffset(board, g) \in Nat
           /\ DerivedCell(board, i)[2] - ColumnOffset(board, g)
              \in 0..GroupColumns(board, Group(board, g)) - 1
           /\ DerivedCell(board, i)[2] \in Nat
           /\ DerivedCell(board, i)[2]
              < ColumnOffset(board, g) + GroupColumns(board, Group(board, g))
           /\ DerivedCell(board, i)[2] < ColumnOffset(board, GroupCount(board))
  <1>1. /\ GroupCount(board) \in Nat /\ g \in 0..GroupCount(board) - 1
        /\ i \in Group(board, g) /\ Group(board, g) \in SUBSET Keys(board)
    BY InAHalf
  <1> DEFINE G == Group(board, g)
  <1>2. /\ GroupColumns(board, G) \in Nat
        /\ LocalRow(board, G, i) \in 0..GroupRows(board, G) - 1
        /\ LocalRow(board, G, i) <= Len(board)
        /\ LocalColumn(board, G, i) \in 0..GroupColumns(board, G) - 1
    BY <1>1, LocalCells
  <1>3. /\ ColumnOffset(board, g) \in Nat /\ ColumnOffset(board, GroupCount(board)) \in Nat
        /\ ColumnOffset(board, g) + GroupColumns(board, G) <= ColumnOffset(board, GroupCount(board))
    BY <1>1, HalvesApart
  <1>4. DerivedCell(board, i)
        = <<LocalRow(board, G, i), LocalColumn(board, G, i) + ColumnOffset(board, g)>>
    BY DEF DerivedCell
  <1> QED BY <1>1, <1>2, <1>3, <1>4

LEMMA CellsApart ==
    ASSUME NEW board, Placed(board), NEW i \in Keys(board), NEW j \in Keys(board),
           DerivedCell(board, i) = DerivedCell(board, j)
    PROVE  i = j
  <1> DEFINE g == GroupOf(board, i)
             h == GroupOf(board, j)
  <1>1. ASSUME NEW k \in Keys(board), NEW l \in Keys(board),
               GroupOf(board, k) < GroupOf(board, l)
        PROVE  DerivedCell(board, k)[2] < DerivedCell(board, l)[2]
    <2>1. /\ GroupOf(board, k) \in Nat /\ DerivedCell(board, k)[2] \in Nat
          /\ DerivedCell(board, k)[2]
             < ColumnOffset(board, GroupOf(board, k))
               + GroupColumns(board, Group(board, GroupOf(board, k)))
          /\ GroupColumns(board, Group(board, GroupOf(board, k))) \in Nat
      BY CellOfHalf, InAHalf, LocalCells
    <2>2. /\ GroupOf(board, l) \in Nat /\ DerivedCell(board, l)[2] \in Nat
          /\ ColumnOffset(board, GroupOf(board, l)) \in Nat
          /\ DerivedCell(board, l)[2] - ColumnOffset(board, GroupOf(board, l)) \in Nat
      BY CellOfHalf
    <2>3. /\ ColumnOffset(board, GroupOf(board, k)) \in Nat
          /\ ColumnOffset(board, GroupOf(board, k))
             + GroupColumns(board, Group(board, GroupOf(board, k)))
             <= ColumnOffset(board, GroupOf(board, l))
      BY <1>1, <2>1, <2>2, HalvesApart
    <2> QED BY <2>1, <2>2, <2>3
  <1>2. g \in Nat /\ h \in Nat /\ DerivedCell(board, i)[2] \in Nat
    BY CellOfHalf
  <1>3. g = h
    BY <1>1, <1>2
  <1> DEFINE G == Group(board, g)
  <1>4. /\ i \in G /\ j \in G /\ G \in SUBSET Keys(board)
    BY <1>3, InAHalf
  <1>5. /\ LocalRow(board, G, i) = LocalRow(board, G, j)
        /\ LocalColumn(board, G, i) + ColumnOffset(board, g)
           = LocalColumn(board, G, j) + ColumnOffset(board, g)
    BY <1>3, CellOfHalf
  <1>6. /\ LocalColumn(board, G, i) \in Int /\ LocalColumn(board, G, j) \in Int
        /\ ColumnOffset(board, g) \in Int
    BY <1>4, LocalCells, CellOfHalf
  <1>7. LocalColumn(board, G, i) = LocalColumn(board, G, j)
    <2>1. \A a, b, k \in Int : a + k = b + k => a = b
      OBVIOUS
    <2> QED BY <1>5, <1>6, <2>1, Zenon
  <1> QED BY <1>4, <1>5, <1>7, LocalCells

LEMMA DerivedMapSpelled ==
    ASSUME NEW board, Placed(board)
    PROVE  /\ DerivedMap(board) = [i \in Keys(board) |-> DerivedCell(board, i)]
           /\ DOMAIN DerivedMap(board) = Keys(board) /\ Len(DerivedMap(board)) = Len(board)
           /\ \A i \in Keys(board) : DerivedMap(board)[i] = DerivedCell(board, i)
  BY Spelled DEF DerivedMap, Placed

\* The derived matrix has a cell for every key: matrix.ts deriveMatrix.
LEMMA DerivedMatrixWired ==
    ASSUME NEW board, Placed(board)
    PROVE  WiredApart(DeriveMatrix(board))
  <1> DEFINE map == DerivedMap(board)
             V == {v \in 0..Len(map) : \E i \in DOMAIN map : v <= map[i][1]}
  <1>1. /\ Len(board) \in Nat /\ DOMAIN map = Keys(board) /\ Len(map) = Len(board)
        /\ \A i \in Keys(board) : map[i] = DerivedCell(board, i)
    BY DerivedMapSpelled DEF Placed
  <1>2. /\ DeriveMatrix(board).map = map /\ DeriveMatrix(board).rows = Cardinality(V)
        /\ DeriveMatrix(board).columns = ColumnOffset(board, GroupCount(board))
    BY DEF DeriveMatrix, RowsOf
  <1>3. IsFiniteSet(V)
    <2>1. IsFiniteSet(0..Len(board))
      BY <1>1, FS_Interval
    <2>2. V \in SUBSET (0..Len(board))
      BY <1>1
    <2> QED BY <2>1, <2>2, FS_Subset
  <1>4. ASSUME NEW i \in Keys(board)
        PROVE  map[i] \in (0..Cardinality(V) - 1) \X (0..ColumnOffset(board, GroupCount(board)) - 1)
    <2>1. /\ map[i] = <<map[i][1], map[i][2]>> /\ map[i][1] \in Nat /\ map[i][1] <= Len(board)
          /\ map[i][2] \in Nat /\ map[i][2] < ColumnOffset(board, GroupCount(board))
      BY <1>1, CellOfHalf
    <2>2. ColumnOffset(board, GroupCount(board)) \in Nat
      <3>1. GroupCount(board) \in Nat /\ 0 < GroupCount(board) /\ 0 \in Nat
        BY InAHalf
      <3> QED BY <3>1, HalvesApart
    <2>3. 0..map[i][1] \in SUBSET V
      BY <1>1, <2>1
    <2>4. Cardinality(0..map[i][1]) = map[i][1] + 1
      BY <2>1, CountedFromZero
    <2>5. Cardinality(0..map[i][1]) <= Cardinality(V) /\ Cardinality(V) \in Nat
      BY <1>3, <2>3, FS_Subset, FS_CardinalityType
    <2>6. map[i][1] < Cardinality(V)
      BY <2>1, <2>4, <2>5
    <2> QED BY <2>1, <2>2, <2>5, <2>6, CellWithin, Zenon
  <1>5. \A i, j \in Keys(board) : i # j => map[i] # map[j]
    BY <1>1, CellsApart
  <1> QED BY <1>1, <1>2, <1>4, <1>5 DEF WiredApart

\* Of two halves each has the rows and columns its keys are in: matrix.ts matrixSplit.
LEMMA HalvesHaveTheirKeys ==
    ASSUME NEW c, Placed(c.geometry)
    PROVE  HalvesHold(c)
  <1> DEFINE board == c.geometry
             cells == DerivedMap(board)
             halves == MatrixSplit(board)
  <1>1. /\ DOMAIN halves = 0..GroupCount(board) - 1
        /\ \A g \in DOMAIN halves :
              /\ halves[g].keyIndices = Group(board, g)
              /\ halves[g].rows = GroupRows(board, Group(board, g))
              /\ halves[g].columns = GroupColumns(board, Group(board, g))
              /\ halves[g].colOffset = ColumnOffset(board, g)
    BY DEF MatrixSplit
  <1>2. DOMAIN board = UNION {halves[g].keyIndices : g \in DOMAIN halves}
    BY <1>1, InAHalf DEF Keys
  <1>3. ASSUME NEW g \in DOMAIN halves, NEW i \in halves[g].keyIndices
        PROVE  /\ cells[i][1] \in 0..halves[g].rows - 1
               /\ cells[i][2] - halves[g].colOffset \in 0..halves[g].columns - 1
    <2>1. i \in Keys(board) /\ g = GroupOf(board, i)
      BY <1>1, <1>3, InAHalf
    <2>2. cells[i] = DerivedCell(board, i)
      BY <2>1, DerivedMapSpelled
    <2> QED BY <1>1, <2>1, <2>2, CellOfHalf
  <1> QED BY <1>2, <1>3 DEF HalvesHold

----------------------------------------------------------------------------
\* The matrix that is exported is as large as what is said and used.
LEMMA ReachCovers ==
    ASSUME NEW D, \A d \in D : d \in Nat, IsFiniteSet(D), D # {},
           NEW U, \A u \in U : u \in Nat, IsFiniteSet(U)
    PROVE  Reach(D, U) \in Nat /\ \A u \in U : u < Reach(D, U)
  <1> DEFINE next == [u \in U |-> u + 1]
             N == {u + 1 : u \in U}
  <1>1. next \in Surjection(U, N)
    BY DEF Surjection
  <1>2. IsFiniteSet(N)
    BY <1>1, FS_Surjection
  <1>3. IsFiniteSet(D \cup N) /\ D \cup N # {}
    BY <1>2, FS_Union
  <1>4. \A x \in D \cup N : x \in Int
    OBVIOUS
  <1>5. Max(D \cup N) \in D \cup N /\ \A x \in D \cup N : x <= Max(D \cup N)
    BY <1>3, <1>4, GreatestOf
  <1>6. Reach(D, U) = Max(D \cup N)
    BY DEF Reach
  <1>7. ASSUME NEW u \in U PROVE u < Reach(D, U)
    <2>1. u \in Nat /\ u + 1 \in D \cup N
      OBVIOUS
    <2>2. u + 1 <= Max(D \cup N) /\ Max(D \cup N) \in Int
      BY <1>4, <1>5, <2>1
    <2> QED BY <1>6, <2>1, <2>2
  <1>8. \A x \in D \cup N : x \in Nat
    OBVIOUS
  <1> QED BY <1>5, <1>6, <1>7, <1>8

\* Each key has a cell, said or derived.
LEMMA CellsResolved ==
    ASSUME NEW c, IsBoard(c.geometry), IsWiring(c)
    PROVE  /\ DOMAIN ResolveKeyMatrix(c) = Keys(c.geometry)
           /\ \A i \in Keys(c.geometry) : /\ ResolveKeyMatrix(c)[i] \in Nat \X Nat
                                          /\ ResolveKeyMatrix(c)[i] = ResolvedCell(c, i)
  <1> DEFINE board == c.geometry
             given == Part(Part(c.hardware, "transform"), "map")
  <1>1. Placed(board)
    BY BoardIsPlaced
  <1>2. /\ DOMAIN ResolveKeyMatrix(c) = Keys(board)
        /\ \A i \in Keys(board) : ResolveKeyMatrix(c)[i] = ResolvedCell(c, i)
    <2>1. Len(board) \in Nat /\ DOMAIN board = 1..Len(board)
      BY <1>1 DEF Placed, Keys
    <2>2. ResolveKeyMatrix(c) = [i \in 1..Len(board) |-> ResolvedCell(c, i)]
      BY <2>1, Spelled DEF ResolveKeyMatrix
    <2> QED BY <2>1, <2>2 DEF Keys
  <1>3. ASSUME NEW i \in Keys(board) PROVE ResolvedCell(c, i) \in Nat \X Nat
    <2>1. CASE "matrix" \in DOMAIN board[i]
      BY <2>1 DEF ResolvedCell, IsBoard, IsCell, Keys
    <2>2. CASE "matrix" \notin DOMAIN board[i] /\ i \in DOMAIN given
      <3>1. given[i] \in Nat \X Nat
        BY <2>2 DEF IsWiring, ToSet, IsCell
      <3>2. given = c.hardware.transform.map
        BY <2>2 DEF Part, Opt
      <3> QED BY <2>2, <3>1, <3>2 DEF ResolvedCell
    <2>3. CASE "matrix" \notin DOMAIN board[i] /\ i \notin DOMAIN given
      <3>1. ResolvedCell(c, i) = DerivedCell(board, i)
        BY <2>3 DEF ResolvedCell
      <3>2. DerivedCell(board, i)[1] \in Nat /\ DerivedCell(board, i)[2] \in Nat
        BY <1>1, CellOfHalf
      <3>3. DerivedCell(board, i) = <<DerivedCell(board, i)[1], DerivedCell(board, i)[2]>>
        BY <1>1, CellOfHalf
      <3> QED BY <3>1, <3>2, <3>3
    <2> QED BY <2>1, <2>2, <2>3
  <1> QED BY <1>2, <1>3

\* Every cell is in the matrix: materializeMatrix.
LEMMA MatrixCovers ==
    ASSUME NEW c, IsBoard(c.geometry), IsWiring(c), NEW m, m = MaterializeMatrix(c)
    PROVE  /\ DOMAIN m.map = Keys(c.geometry)
           /\ \A i \in Keys(c.geometry) : m.map[i] \in (0..m.rows - 1) \X (0..m.columns - 1)
  <1> DEFINE map == ResolveKeyMatrix(c)
             K == Keys(c.geometry)
  <1>1. m.map = map /\ m.rows = MatrixRows(c, map) /\ m.columns = MatrixColumns(c, map)
    BY DEF MaterializeMatrix
  <1>2. DOMAIN map = K /\ \A i \in K : map[i] \in Nat \X Nat
    BY CellsResolved
  <1>3. IsFiniteSet(K)
    BY BoardIsPlaced, FewKeys
  <1>4. ASSUME NEW d \in {1, 2}
        PROVE  IsFiniteSet({map[i][d] : i \in DOMAIN map})
    <2> DEFINE f == [i \in K |-> map[i][d]]
    <2>1. f \in Surjection(K, {map[i][d] : i \in DOMAIN map})
      BY <1>2 DEF Surjection
    <2> QED BY <1>3, <2>1, FS_Surjection
  <1>5. \A a, b, e : IsFiniteSet({a, b, e})
    <2> TAKE a, b, e
    <2>1. IsFiniteSet({a}) /\ IsFiniteSet({a} \cup {b}) /\ IsFiniteSet(({a} \cup {b}) \cup {e})
      BY FS_Singleton, FS_AddElement
    <2>2. {a, b, e} = ({a} \cup {b}) \cup {e}
      OBVIOUS
    <2> QED BY <2>1, <2>2
  <1>6. m.rows \in Nat /\ \A n \in {map[i][1] : i \in DOMAIN map} : n < m.rows
    <2> DEFINE D == {Opt(Part(c.keyboard, "matrix"), "rows", 0),
                     Opt(Part(c.hardware, "transform"), "rows", 0), Len(Pins(c).rows)}
               U == {map[i][1] : i \in DOMAIN map}
    <2>1. IsFiniteSet(D) /\ D # {} /\ IsFiniteSet(U)
      BY <1>4, <1>5
    <2>2. (\A d \in D : d \in Nat) /\ \A u \in U : u \in Nat
      BY <1>2 DEF IsWiring
    <2>3. m.rows = Reach(D, U)
      BY <1>1 DEF MatrixRows
    <2> HIDE DEF D, U
    <2>4. Reach(D, U) \in Nat /\ \A u \in U : u < Reach(D, U)
      BY <2>1, <2>2, ReachCovers
    <2> QED BY <2>3, <2>4 DEF U
  <1>7. m.columns \in Nat /\ \A n \in {map[i][2] : i \in DOMAIN map} : n < m.columns
    <2> DEFINE D == {Opt(Part(c.keyboard, "matrix"), "cols", 0),
                     Opt(Part(c.hardware, "transform"), "columns", 0), Len(Pins(c).cols)}
               U == {map[i][2] : i \in DOMAIN map}
    <2>1. IsFiniteSet(D) /\ D # {} /\ IsFiniteSet(U)
      BY <1>4, <1>5
    <2>2. (\A d \in D : d \in Nat) /\ \A u \in U : u \in Nat
      BY <1>2 DEF IsWiring
    <2>3. m.columns = Reach(D, U)
      BY <1>1 DEF MatrixColumns
    <2> HIDE DEF D, U
    <2>4. Reach(D, U) \in Nat /\ \A u \in U : u < Reach(D, U)
      BY <2>1, <2>2, ReachCovers
    <2> QED BY <2>3, <2>4 DEF U
  <1>8. ASSUME NEW i \in K PROVE map[i] \in (0..m.rows - 1) \X (0..m.columns - 1)
    <2>1. PICK a \in Nat, b \in Nat : map[i] = <<a, b>>
      BY <1>2
    <2>2. a < m.rows /\ b < m.columns
      BY <1>2, <1>6, <1>7, <2>1
    <2> QED BY <1>6, <1>7, <2>1, <2>2, CellWithin, Zenon
  <1> QED BY <1>1, <1>2, <1>8

LEMMA CellsHoldOf ==
    ASSUME NEW c, IsBoard(c.geometry), IsWiring(c)
    PROVE  CellsHold(c)
  BY BoardIsPlaced, DerivedMatrixWired, MatrixCovers DEF CellsHold

\* A key's pin stands at its cell: qmkKeyboardJson.ts emitMatrixPins.
LEMMA PinsKeptOf ==
    ASSUME NEW c, IsBoard(c.geometry), IsWiring(c)
    PROVE  PinsKept(c)
  <1> DEFINE m == MaterializeMatrix(c)
             pins == MatrixPins(c, m)
  <1> SUFFICES ASSUME "direct" \in DOMAIN pins,
                      \A i, j \in DOMAIN m.map : m.map[i] = m.map[j] => i = j,
                      NEW i \in DOMAIN c.geometry, "pin" \in DOMAIN c.geometry[i]
               PROVE  pins.direct[m.map[i]] = ResolveQmkPin(BoardOf(c), c.geometry[i].pin)
    BY DEF PinsKept
  <1>1. /\ DOMAIN m.map = DOMAIN c.geometry
        /\ m.map[i] \in (0..m.rows - 1) \X (0..m.columns - 1)
    BY MatrixCovers DEF Keys
  <1>2. pins.direct
        = [cell \in (0..m.rows - 1) \X (0..m.columns - 1) |-> DirectPin(c, m, cell)]
    <2>1. CASE HasPins(c)
      BY <2>1 DEF MatrixPins
    <2>2. CASE ~HasPins(c) /\ HasKeyPins(c)
      BY <2>2 DEF MatrixPins
    <2>3. CASE ~HasPins(c) /\ ~HasKeyPins(c)
      BY <2>3 DEF MatrixPins
    <2> QED BY <2>1, <2>2, <2>3
  <1>3. KeysAtCell(c, m, m.map[i]) = {i}
    BY <1>1 DEF KeysAtCell
  <1>4. Max({i}) = i
    <2>1. Placed(c.geometry) /\ i \in Int
      BY BoardIsPlaced DEF Placed, Keys
    <2> QED BY <2>1 DEF Max
  <1>5. DirectPin(c, m, m.map[i]) = ResolveQmkPin(BoardOf(c), c.geometry[i].pin)
    BY <1>3, <1>4 DEF DirectPin
  <1> QED BY <1>1, <1>2, <1>5

----------------------------------------------------------------------------
\* The keymap.  What stands at a place of a list is of it.
LEMMA ListPlaces ==
    ASSUME NEW s, IsList(s)
    PROVE  /\ Len(s) \in Nat /\ DOMAIN s = 1..Len(s)
           /\ \A i \in DOMAIN s : s[i] \in ToSet(s)
           /\ s # <<>> => Len(s) > 0
  <1>1. Len(s) \in Nat /\ s = [i \in 1..Len(s) |-> s[i]]
    BY DEF IsList
  <1>2. DOMAIN s = 1..Len(s)
    BY <1>1
  <1>3. Len(s) = 0 => s = <<>>
    BY <1>1
  <1> QED BY <1>1, <1>2, <1>3 DEF ToSet

\* The parts of a configuration.
LEMMA PartsOf ==
    ASSUME NEW c, IsConfiguration(c)
    PROVE  /\ IsBoard(c.geometry) /\ Placed(c.geometry) /\ IsWiring(c)
           /\ IsList(c.layers) /\ c.layers # <<>> /\ IsList(c.boardEncoders)
           /\ \A li \in DOMAIN c.layers : IsLayerOf(c, c.layers[li])
           /\ HasDefinitions(c) /\ IsList(c.combos)
           /\ \A i \in DOMAIN c.combos : IsAction(c.combos[i].action)
  BY BoardIsPlaced DEF IsConfiguration, ToSet

\* The keys that are an element are listed.
LEMMA KeysListed ==
    ASSUME NEW c, Placed(c.geometry), NEW element
    PROVE  /\ Len(KeysThatAre(c, element)) \in Nat
           /\ DOMAIN KeysThatAre(c, element) = 1..Len(KeysThatAre(c, element))
           /\ Len(KeysThatAre(c, element)) = 0 <=> KeysThatAre(c, element) = <<>>
           /\ \A k \in ToSet(KeysThatAre(c, element)) : k \in Int
           /\ IsFiniteSet(ToSet(KeysThatAre(c, element)))
  <1> DEFINE E == {j \in DOMAIN c.geometry : Opt(c.geometry[j], "element", "key") = element}
             S == {i - 1 : i \in E}
             f == [i \in E |-> i - 1]
  <1>1. IsFiniteSet(E)
    BY FewKeys DEF Keys
  <1>2. f \in Surjection(E, S)
    BY DEF Surjection
  <1>3. IsFiniteSet(S) /\ Cardinality(S) \in Nat
    BY <1>1, <1>2, FS_Surjection, FS_CardinalityType
  <1>4. KeysThatAre(c, element) = InOrder(S)
    BY DEF KeysThatAre
  <1>7. \A x \in S : x \in Int
    BY FewKeys DEF Placed, Keys
  <1>8. \A n \in 0..Cardinality(S) - 1 : \E x \in S : Cardinality({y \in S : y < x}) = n
    BY <1>3, <1>7, NumbersCounted
  <1> HIDE DEF S
  <1> DEFINE n == Cardinality(S)
             s == [k \in 1..n |-> CHOOSE x \in S : Cardinality({j \in S : j < x}) = k - 1]
  <1>5. InOrder(S) = s /\ Len(s) = n
    BY <1>3, Spelled DEF InOrder
  <1>6. DOMAIN s = 1..n /\ n \in Nat /\ (n = 0 <=> s = <<>>)
    <2>1. DOMAIN s = 1..n /\ n \in Nat
      BY <1>3
    <2>2. n = 0 => s = <<>>
      OBVIOUS
    <2>3. s = <<>> => n = 0
      BY <1>5
    <2> QED BY <2>1, <2>2, <2>3
  <1>9. \A k \in ToSet(s) : k \in S
    <2> SUFFICES ASSUME NEW e \in 1..n PROVE s[e] \in S
      BY <1>6 DEF ToSet
    <2>1. e - 1 \in 0..n - 1
      BY <1>6
    <2>2. \E x \in S : Cardinality({y \in S : y < x}) = e - 1
      BY <1>8, <2>1
    <2> QED BY <2>2
  <1>10. IsFiniteSet(ToSet(s))
    BY <1>3, <1>9, FS_Subset
  <1> QED BY <1>4, <1>5, <1>6, <1>7, <1>9, <1>10

\* The knobs of a layer: each is what its place says, and turns both ways.
KnobPlace(li, kind, k) == IF kind = "slot" THEN <<li - 1, k - 1>> ELSE <<li - 1, "k", k>>
KnobAt(c, li, kind, k) ==
    [place |-> KnobPlace(li, kind, k),
     knob |-> IF kind = "slot" THEN c.layers[li].encoders[k]
              ELSE Opt(Opt(c.layers[li], "encoderBindings", <<>>), k, TransparentKnob)]

LEMMA KnobsListed ==
    ASSUME NEW c, IsConfiguration(c), NEW li \in DOMAIN c.layers
    PROVE  /\ Len(ListedKnobs(c, li)) = Len(c.layers[li].encoders)
           /\ Len(c.layers[li].encoders) \in {0, Len(c.boardEncoders)}
           /\ Len(KeyKnobs(c, li)) \in {0, Len(KeysThatAre(c, "encoder"))}
           /\ Len(ListedKnobs(c, li)) \in Nat /\ Len(KeyKnobs(c, li)) \in Nat
           /\ Len(KnobsOf(c, li)) = Len(ListedKnobs(c, li)) + Len(KeyKnobs(c, li))
           /\ DOMAIN KnobsOf(c, li) = 1..Len(KnobsOf(c, li))
           /\ \A e \in DOMAIN KnobsOf(c, li) : \E kind, k :
                 /\ kind \in {"slot", "key"} /\ (kind = "slot" => k \in Nat)
                 /\ KnobsOf(c, li)[e] = KnobAt(c, li, kind, k)
           /\ \A e \in DOMAIN KnobsOf(c, li) : IsKnob(KnobsOf(c, li)[e].knob)
  <1> DEFINE layer == c.layers[li]
             listed == ListedKnobs(c, li)
             keyed == KeyKnobs(c, li)
             bound == Opt(layer, "encoderBindings", <<>>)
             keys == KeysThatAre(c, "encoder")
  <1>1. /\ IsList(layer.encoders) /\ Len(layer.encoders) \in {0, Len(c.boardEncoders)}
        /\ \A knob \in ToSet(layer.encoders) : IsKnob(knob)
        /\ \A k \in DOMAIN bound : IsKnob(layer.encoderBindings[k])
    BY PartsOf DEF IsLayerOf
  <1>2. /\ Len(layer.encoders) \in Nat /\ DOMAIN layer.encoders = 1..Len(layer.encoders)
        /\ \A e \in DOMAIN layer.encoders : IsKnob(layer.encoders[e])
    BY <1>1, ListPlaces
  <1>3. /\ Len(listed) = Len(layer.encoders) /\ DOMAIN listed = 1..Len(layer.encoders)
        /\ \A e \in DOMAIN listed : /\ listed[e] = KnobAt(c, li, "slot", e) /\ e \in Nat
                                    /\ IsKnob(listed[e].knob)
    BY <1>2 DEF ListedKnobs, KnobAt, KnobPlace
  <1>4. Len(keys) \in Nat
    BY PartsOf, KeysListed
  <1>5. ASSUME NEW k PROVE IsKnob(Opt(bound, k, TransparentKnob))
    <2>1. CASE k \in DOMAIN bound
      <3>1. bound = layer.encoderBindings
        BY <2>1 DEF Opt
      <3> QED BY <1>1, <2>1, <3>1 DEF Opt
    <2>2. CASE k \notin DOMAIN bound
      <3>1. IsKnob(TransparentKnob)
        BY DEF IsKnob, TransparentKnob, IsAction
      <3> QED BY <2>2, <3>1 DEF Opt
    <2> QED BY <2>1, <2>2
  <1>6. /\ Len(keyed) \in {0, Len(keys)} /\ DOMAIN keyed = 1..Len(keyed)
        /\ \A e \in DOMAIN keyed : /\ keyed[e] = KnobAt(c, li, "key", keys[e])
                                   /\ IsKnob(keyed[e].knob)
    <2>1. CASE DOMAIN bound = {}
      <3>1. keyed = <<>>
        BY <2>1 DEF KeyKnobs
      <3> QED BY <3>1
    <2>2. CASE DOMAIN bound # {}
      <3>1. keyed = [e \in 1..Len(keys) |-> [place |-> <<li - 1, "k", keys[e]>>,
                                             knob |-> Opt(bound, keys[e], TransparentKnob)]]
        BY <2>2 DEF KeyKnobs
      <3> QED BY <1>4, <1>5, <3>1 DEF KnobAt, KnobPlace
    <2> QED BY <2>1, <2>2
  <1>7. KnobsOf(c, li) = [e \in 1..Len(listed) + Len(keyed) |->
                            IF e <= Len(listed) THEN listed[e] ELSE keyed[e - Len(listed)]]
    BY DEF KnobsOf
  <1>8. Len(listed) \in Nat /\ Len(keyed) \in Nat
    BY <1>2, <1>3, <1>4, <1>6
  <1>9. /\ Len(KnobsOf(c, li)) = Len(listed) + Len(keyed)
        /\ DOMAIN KnobsOf(c, li) = 1..Len(listed) + Len(keyed)
    BY <1>7, <1>8
  <1>10. ASSUME NEW e \in DOMAIN KnobsOf(c, li)
         PROVE  /\ \E kind, k : /\ kind \in {"slot", "key"} /\ (kind = "slot" => k \in Nat)
                                /\ KnobsOf(c, li)[e] = KnobAt(c, li, kind, k)
                /\ IsKnob(KnobsOf(c, li)[e].knob)
    <2>1. CASE e <= Len(listed)
      <3>1. e \in DOMAIN listed /\ KnobsOf(c, li)[e] = listed[e]
        BY <1>3, <1>7, <1>8, <1>9, <2>1
      <3> QED BY <1>3, <3>1
    <2>2. CASE ~(e <= Len(listed))
      <3>1. e - Len(listed) \in DOMAIN keyed /\ KnobsOf(c, li)[e] = keyed[e - Len(listed)]
        BY <1>6, <1>7, <1>8, <1>9, <2>2
      <3> QED BY <1>6, <3>1
    <2> QED BY <2>1, <2>2
  <1> QED BY <1>1, <1>3, <1>6, <1>8, <1>9, <1>10

----------------------------------------------------------------------------
\* The places where actions are written: finitely many, in an order.
IsPlace(p) ==
    /\ p[1] \in Int /\ p[2] \in Int /\ p[3] \in Int /\ p[4] \in Int
    /\ p = <<p[1], p[2], p[3], p[4]>>
Before(p, q) ==
    \/ p[1] < q[1]
    \/ p[1] = q[1] /\ p[2] < q[2]
    \/ p[1] = q[1] /\ p[2] = q[2] /\ p[3] < q[3]
    \/ p[1] = q[1] /\ p[2] = q[2] /\ p[3] = q[3] /\ p[4] < q[4]

LEMMA EarlierIsBefore ==
    ASSUME NEW p, NEW q
    PROVE  Earlier(p, q) <=> Before(p, q)
  <1>1. 1..4 = {1, 2, 3, 4} /\ 1..0 = {} /\ 1..1 = {1} /\ 1..2 = {1, 2} /\ 1..3 = {1, 2, 3}
    OBVIOUS
  <1>2. 1 - 1 = 0 /\ 2 - 1 = 1 /\ 3 - 1 = 2 /\ 4 - 1 = 3
    OBVIOUS
  <1>3. \A n : Earlier(p, q) <=> \E m \in {1, 2, 3, 4} : p[m] < q[m] /\ \A l \in 1..m - 1 : p[l] = q[l]
    BY <1>1 DEF Earlier
  <1> QED BY <1>1, <1>2, <1>3 DEF Before

\* The action at each of the places.
LEMMA PlacesOf ==
    ASSUME NEW c
    PROVE  /\ \A i \in DOMAIN c.tapDances : \A n \in DOMAIN c.tapDances[i].taps :
                 /\ <<1, i, n, 0>> \in WrittenPlaces(c)
                 /\ ActionAt(c, <<1, i, n, 0>>) = TapAt(c.tapDances[i], n).action
           /\ \A i \in DOMAIN c.modMorphs : \A n \in DOMAIN c.modMorphs[i].bindings :
                 /\ <<2, i, n, 0>> \in WrittenPlaces(c)
                 /\ ActionAt(c, <<2, i, n, 0>>) = c.modMorphs[i].bindings[n]
           /\ \A li \in DOMAIN c.layers : \A e \in DOMAIN KnobsOf(c, li) :
                 ~TurnsByKeys(KnobsOf(c, li)[e].knob) =>
                    /\ <<3, li, e, 1>> \in WrittenPlaces(c) /\ <<3, li, e, 2>> \in WrittenPlaces(c)
                    /\ ActionAt(c, <<3, li, e, 1>>) = KnobsOf(c, li)[e].knob.cw
                    /\ ActionAt(c, <<3, li, e, 2>>) = KnobsOf(c, li)[e].knob.ccw
           /\ \A i \in DOMAIN c.combos : /\ <<5, i, 0, 0>> \in WrittenPlaces(c)
                                       /\ ActionAt(c, <<5, i, 0, 0>>) = c.combos[i].action
           /\ \A li \in DOMAIN c.layers : \A b \in DOMAIN c.layers[li].bindings :
                 /\ <<6, li, b, 0>> \in WrittenPlaces(c)
                 /\ ActionAt(c, <<6, li, b, 0>>) = c.layers[li].bindings[b]
  <1>1. \A i, n : ActionAt(c, <<1, i, n, 0>>) = TapAt(c.tapDances[i], n).action
    BY DEF ActionAt
  <1>2. \A i, n : ActionAt(c, <<2, i, n, 0>>) = c.modMorphs[i].bindings[n]
    BY DEF ActionAt
  <1>3. \A li, e : /\ ActionAt(c, <<3, li, e, 1>>) = KnobsOf(c, li)[e].knob.cw
                  /\ ActionAt(c, <<3, li, e, 2>>) = KnobsOf(c, li)[e].knob.ccw
    BY DEF ActionAt, TurnOf
  <1>4. \A i : ActionAt(c, <<5, i, 0, 0>>) = c.combos[i].action
    BY DEF ActionAt
  <1>5. \A li, b : ActionAt(c, <<6, li, b, 0>>) = c.layers[li].bindings[b]
    BY DEF ActionAt
  <1>6. \A i \in DOMAIN c.tapDances : \A n \in DOMAIN c.tapDances[i].taps :
           <<1, i, n, 0>> \in WrittenPlaces(c)
    BY DEF WrittenPlaces, TapPlaces
  <1>7. \A i \in DOMAIN c.modMorphs : \A n \in DOMAIN c.modMorphs[i].bindings :
           <<2, i, n, 0>> \in WrittenPlaces(c)
    BY DEF WrittenPlaces, MorphPlaces
  <1>8. \A li \in DOMAIN c.layers : \A e \in DOMAIN KnobsOf(c, li) :
           ~TurnsByKeys(KnobsOf(c, li)[e].knob) =>
              <<3, li, e, 1>> \in WrittenPlaces(c) /\ <<3, li, e, 2>> \in WrittenPlaces(c)
    BY DEF WrittenPlaces, TurnPlaces
  <1>9. \A i \in DOMAIN c.combos : <<5, i, 0, 0>> \in WrittenPlaces(c)
    BY DEF WrittenPlaces, ComboPlaces
  <1>10. \A li \in DOMAIN c.layers : \A b \in DOMAIN c.layers[li].bindings :
            <<6, li, b, 0>> \in WrittenPlaces(c)
    BY DEF WrittenPlaces, KeyPlaces
  <1> QED BY <1>1, <1>2, <1>3, <1>4, <1>5, <1>6, <1>7, <1>8, <1>9, <1>10

\* Finitely many finite sets together are one, and so are tuples of their elements.
LEMMA FewImages ==
    ASSUME NEW S, IsFiniteSet(S), NEW f
    PROVE  IsFiniteSet({f[x] : x \in S})
  <1> DEFINE g == [x \in S |-> f[x]]
  <1>1. g \in Surjection(S, {f[x] : x \in S})
    BY DEF Surjection
  <1> QED BY <1>1, FS_Surjection

LEMMA FewOfEach ==
    ASSUME NEW I, IsFiniteSet(I), NEW J, \A i \in I : IsFiniteSet(J[i])
    PROVE  IsFiniteSet(UNION {J[i] : i \in I})
  <1>1. IsFiniteSet({J[i] : i \in I})
    BY FewImages
  <1> QED BY <1>1, FS_UNION

LEMMA FewTuples ==
    ASSUME NEW A, NEW B, NEW C, NEW D,
           IsFiniteSet(A), IsFiniteSet(B), IsFiniteSet(C), IsFiniteSet(D),
           NEW P, \A p \in P : \E a \in A, b \in B, e \in C, d \in D : p = <<a, b, e, d>>
    PROVE  IsFiniteSet(P)
  <1> DEFINE Q == (A \X B) \X (C \X D)
             f == [x \in Q |-> <<x[1][1], x[1][2], x[2][1], x[2][2]>>]
  <1>1. IsFiniteSet(Q)
    <2>1. IsFiniteSet(A \X B) /\ IsFiniteSet(C \X D)
      BY FS_Product
    <2> QED BY <2>1, FS_Product
  <1>2. ASSUME NEW p \in P PROVE p \in {f[x] : x \in Q}
    <2>1. PICK a \in A, b \in B, e \in C, d \in D : p = <<a, b, e, d>>
      OBVIOUS
    <2>2. <<<<a, b>>, <<e, d>>>> \in Q
      OBVIOUS
    <2>3. f[<<<<a, b>>, <<e, d>>>>] = p
      BY <2>1, <2>2
    <2> QED BY <2>2, <2>3
  <1> HIDE DEF f, Q
  <1>3. IsFiniteSet({f[x] : x \in Q})
    BY <1>1, FewImages
  <1> QED BY <1>2, <1>3, FS_Subset

LEMMA FewPlaces ==
    ASSUME NEW c, IsConfiguration(c)
    PROVE  IsFiniteSet(WrittenPlaces(c)) /\ \A p \in WrittenPlaces(c) : IsPlace(p)
  <1>1. ASSUME NEW s, IsList(s)
        PROVE  IsFiniteSet(DOMAIN s) /\ \A i \in DOMAIN s : i \in Int
    <2>1. Len(s) \in Nat /\ DOMAIN s = 1..Len(s)
      BY <1>1, ListPlaces
    <2> QED BY <2>1, FS_Interval
  <1>2. IsFiniteSet(DOMAIN c.layers) /\ \A li \in DOMAIN c.layers : li \in Int
    BY <1>1, PartsOf
  <1>3. IsFiniteSet(0..6)
    <2>1. \A n \in Nat : IsFiniteSet(0..n)
      BY CountedFromZero
    <2> QED BY <2>1
  <1>4. IsFiniteSet(TapPlaces(c)) /\ \A p \in TapPlaces(c) : IsPlace(p)
    <2> DEFINE I == DOMAIN c.tapDances
               J == [i \in I |-> DOMAIN c.tapDances[i].taps]
               U == UNION {J[i] : i \in I}
    <2>1. IsFiniteSet(I) /\ \A i \in I : i \in Int
      <3>1. IsList(c.tapDances)
        BY PartsOf DEF HasDefinitions, OwnTypes, Definitions
      <3> QED BY <1>1, <3>1
    <2>2. \A i \in I : IsFiniteSet(J[i]) /\ \A n \in J[i] : n \in Int
      <3>1. \A i \in I : IsList(c.tapDances[i].taps)
        BY PartsOf DEF HasDefinitions, ToSet
      <3> QED BY <1>1, <3>1
    <2>3. \A p \in TapPlaces(c) : \E i \in I : \E n \in J[i] : p = <<1, i, n, 0>>
      BY DEF TapPlaces
    <2> HIDE DEF I, J
    <2>4. IsFiniteSet(U)
      BY <2>1, <2>2, FewOfEach
    <2>5. \A p \in TapPlaces(c) :
             \E a \in 0..6, b \in I, e \in U, d \in 0..6 : p = <<a, b, e, d>>
      BY <2>3
    <2>6. \A p \in TapPlaces(c) : IsPlace(p)
      BY <2>1, <2>2, <2>3 DEF IsPlace
    <2> HIDE DEF U
    <2> QED BY <1>3, <2>1, <2>3, <2>4, <2>5, <2>6, FewTuples
  <1>5. IsFiniteSet(MorphPlaces(c)) /\ \A p \in MorphPlaces(c) : IsPlace(p)
    <2> DEFINE I == DOMAIN c.modMorphs
               J == [i \in I |-> DOMAIN c.modMorphs[i].bindings]
               U == UNION {J[i] : i \in I}
    <2>1. IsFiniteSet(I) /\ \A i \in I : i \in Int
      <3>1. IsList(c.modMorphs)
        BY PartsOf DEF HasDefinitions, OwnTypes, Definitions
      <3> QED BY <1>1, <3>1
    <2>2. \A i \in I : IsFiniteSet(J[i]) /\ \A n \in J[i] : n \in Int
      <3>1. \A i \in I : IsList(c.modMorphs[i].bindings)
        BY PartsOf DEF HasDefinitions, ToSet
      <3> QED BY <1>1, <3>1
    <2>3. \A p \in MorphPlaces(c) : \E i \in I : \E n \in J[i] : p = <<2, i, n, 0>>
      BY DEF MorphPlaces
    <2> HIDE DEF I, J
    <2>4. IsFiniteSet(U)
      BY <2>1, <2>2, FewOfEach
    <2>5. \A p \in MorphPlaces(c) :
             \E a \in 0..6, b \in I, e \in U, d \in 0..6 : p = <<a, b, e, d>>
      BY <2>3
    <2>6. \A p \in MorphPlaces(c) : IsPlace(p)
      BY <2>1, <2>2, <2>3 DEF IsPlace
    <2> HIDE DEF U
    <2> QED BY <1>3, <2>1, <2>3, <2>4, <2>5, <2>6, FewTuples
  <1>6. IsFiniteSet(TurnPlaces(c)) /\ \A p \in TurnPlaces(c) : IsPlace(p)
    <2> DEFINE I == DOMAIN c.layers
               J == [li \in I |-> DOMAIN KnobsOf(c, li)]
               U == UNION {J[li] : li \in I}
    <2>1. \A li \in I : IsFiniteSet(J[li]) /\ \A e \in J[li] : e \in Int
      <3> SUFFICES ASSUME NEW li \in I
                   PROVE  IsFiniteSet(DOMAIN KnobsOf(c, li)) /\ \A e \in DOMAIN KnobsOf(c, li) : e \in Int
        OBVIOUS
      <3>1. /\ Len(ListedKnobs(c, li)) \in Nat /\ Len(KeyKnobs(c, li)) \in Nat
            /\ Len(KnobsOf(c, li)) = Len(ListedKnobs(c, li)) + Len(KeyKnobs(c, li))
            /\ DOMAIN KnobsOf(c, li) = 1..Len(KnobsOf(c, li))
        BY KnobsListed
      <3> QED BY <3>1, FS_Interval
    <2>2. \A p \in TurnPlaces(c) : \E li \in I : \E e \in J[li] : \E way \in 1..2 : p = <<3, li, e, way>>
      BY DEF TurnPlaces
    <2>3. IsFiniteSet(I) /\ \A li \in I : li \in Int
      BY <1>2
    <2> HIDE DEF I, J
    <2>4. IsFiniteSet(U)
      BY <2>1, <2>3, FewOfEach
    <2>5. \A p \in TurnPlaces(c) :
             \E a \in 0..6, b \in I, e \in U, d \in 0..6 : p = <<a, b, e, d>>
      BY <2>2
    <2>6. \A p \in TurnPlaces(c) : IsPlace(p)
      BY <2>1, <2>2, <2>3 DEF IsPlace
    <2> HIDE DEF U
    <2> QED BY <1>3, <2>3, <2>4, <2>5, <2>6, FewTuples
  <1>7. IsFiniteSet(SliderPlaces(c)) /\ \A p \in SliderPlaces(c) : IsPlace(p)
    <2> DEFINE K == ToSet(KeysThatAre(c, "slider"))
               I == DOMAIN c.layers
    <2>1. IsFiniteSet(K) /\ \A k \in K : k \in Int
      BY PartsOf, KeysListed
    <2>2. \A p \in SliderPlaces(c) : \E k \in K : \E li \in I : p = <<4, k, li, 0>>
      BY DEF SliderPlaces, MappedSliders, SlidersOf
    <2>3. IsFiniteSet(I) /\ \A li \in I : li \in Int
      BY <1>2
    <2> HIDE DEF I, K
    <2>4. \A p \in SliderPlaces(c) : \E a \in 0..6, b \in K, e \in I, d \in 0..6 : p = <<a, b, e, d>>
      BY <2>2
    <2> QED BY <1>3, <2>1, <2>2, <2>3, <2>4, FewTuples DEF IsPlace
  <1>8. IsFiniteSet(ComboPlaces(c)) /\ \A p \in ComboPlaces(c) : IsPlace(p)
    <2> DEFINE I == DOMAIN c.combos
    <2>1. IsFiniteSet(I) /\ \A i \in I : i \in Int
      BY <1>1, PartsOf
    <2>2. \A p \in ComboPlaces(c) : \E i \in I : p = <<5, i, 0, 0>>
      BY DEF ComboPlaces
    <2> HIDE DEF I
    <2>3. \A p \in ComboPlaces(c) : \E a \in 0..6, b \in I, e \in 0..6, d \in 0..6 : p = <<a, b, e, d>>
      BY <2>2
    <2> QED BY <1>3, <2>1, <2>2, <2>3, FewTuples DEF IsPlace
  <1>9. IsFiniteSet(KeyPlaces(c)) /\ \A p \in KeyPlaces(c) : IsPlace(p)
    <2> DEFINE I == DOMAIN c.layers
               J == [li \in I |-> DOMAIN c.layers[li].bindings]
               U == UNION {J[li] : li \in I}
    <2>1. \A li \in I : IsFiniteSet(J[li]) /\ \A b \in J[li] : b \in Int
      BY <1>1, PartsOf DEF IsLayerOf
    <2>2. \A p \in KeyPlaces(c) : \E li \in I : \E b \in J[li] : p = <<6, li, b, 0>>
      BY DEF KeyPlaces
    <2>3. IsFiniteSet(I) /\ \A li \in I : li \in Int
      BY <1>2
    <2> HIDE DEF I, J
    <2>4. IsFiniteSet(U)
      BY <2>1, <2>3, FewOfEach
    <2>5. \A p \in KeyPlaces(c) :
             \E a \in 0..6, b \in I, e \in U, d \in 0..6 : p = <<a, b, e, d>>
      BY <2>2
    <2>6. \A p \in KeyPlaces(c) : IsPlace(p)
      BY <2>1, <2>2, <2>3 DEF IsPlace
    <2> HIDE DEF U
    <2> QED BY <1>3, <2>3, <2>4, <2>5, <2>6, FewTuples
  <1>10. IsFiniteSet(WrittenPlaces(c))
    BY <1>4, <1>5, <1>6, <1>7, <1>8, <1>9, FS_Union DEF WrittenPlaces
  <1> QED BY <1>4, <1>5, <1>6, <1>7, <1>8, <1>9, <1>10 DEF WrittenPlaces

\* The taps of a dance are put in order, and nothing else.
TapOrder(d, T) == {p \in T \X T : FewerTaps(d, p[1], p[2])}

LEMMA TapIsOfDance ==
    ASSUME NEW d, IsList(d.taps), \A t \in ToSet(d.taps) : t.count \in Nat,
           NEW n \in DOMAIN d.taps
    PROVE  TapAt(d, n) \in ToSet(d.taps)
  <1> DEFINE T == DOMAIN d.taps
  <1>1. /\ Len(d.taps) \in Nat /\ T = 1..Len(d.taps)
        /\ \A i \in T : i \in Int /\ d.taps[i].count \in Nat
    BY ListPlaces
  <1>2. IsFiniteSet(T) /\ Cardinality(T) = Len(d.taps)
    BY <1>1, FS_Interval
  <1>3. /\ \A i \in T : ~FewerTaps(d, i, i)
        /\ \A i, j, k \in T : FewerTaps(d, i, j) /\ FewerTaps(d, j, k) => FewerTaps(d, i, k)
        /\ \A i, j \in T : i = j \/ FewerTaps(d, i, j) \/ FewerTaps(d, j, i)
    BY <1>1 DEF FewerTaps
  <1>4. \A i, j \in T : <<i, j>> \in TapOrder(d, T) <=> FewerTaps(d, i, j)
    <2>1. \A p \in T \X T : p \in TapOrder(d, T) <=> FewerTaps(d, p[1], p[2])
      BY DEF TapOrder
    <2>2. \A i, j \in T : <<i, j>> \in T \X T /\ <<i, j>>[1] = i /\ <<i, j>>[2] = j
      OBVIOUS
    <2> QED BY <2>1, <2>2
  <1>5. Orders(TapOrder(d, T), T)
    BY <1>3, <1>4 DEF Orders
  <1>6. \A k \in 0..Cardinality(T) - 1 : \E i \in T : Cardinality(Below(T, TapOrder(d, T), i)) = k
    BY <1>2, <1>5, Numbered
  <1>7. \A i \in T : Below(T, TapOrder(d, T), i) = TapsBefore(d, i)
    BY <1>4 DEF Below, TapsBefore
  <1>8. n - 1 \in 0..Cardinality(T) - 1
    BY <1>1, <1>2
  <1>9. \E i \in T : Cardinality(TapsBefore(d, i)) = n - 1
    BY <1>6, <1>7, <1>8
  <1> QED BY <1>9 DEF TapAt, ToSet


\* What is written is an action, wherever it stands.
LEMMA WrittenAtPlaces ==
    ASSUME NEW c, IsConfiguration(c), NEW p \in WrittenPlaces(c)
    PROVE  IsAction(ActionAt(c, p))
  <1>1. CASE p \in TapPlaces(c)
    <2>1. PICK i \in DOMAIN c.tapDances : \E n \in DOMAIN c.tapDances[i].taps : p = <<1, i, n, 0>>
      BY <1>1 DEF TapPlaces
    <2>2. PICK n \in DOMAIN c.tapDances[i].taps : p = <<1, i, n, 0>>
      BY <2>1
    <2>3. ActionAt(c, p) = TapAt(c.tapDances[i], n).action
      BY <2>2, PlacesOf
    <2>4. /\ IsList(c.tapDances[i].taps)
          /\ \A t \in ToSet(c.tapDances[i].taps) : t.count \in Nat /\ IsAction(t.action)
      <3>1. c.tapDances[i] \in ToSet(c.tapDances)
        BY DEF ToSet
      <3> QED BY <3>1, PartsOf DEF HasDefinitions
    <2> QED BY <2>3, <2>4, TapIsOfDance
  <1>2. CASE p \in MorphPlaces(c)
    <2>1. PICK i \in DOMAIN c.modMorphs :
             \E n \in DOMAIN c.modMorphs[i].bindings : p = <<2, i, n, 0>>
      BY <1>2 DEF MorphPlaces
    <2>2. PICK n \in DOMAIN c.modMorphs[i].bindings : p = <<2, i, n, 0>>
      BY <2>1
    <2>3. ActionAt(c, p) = c.modMorphs[i].bindings[n]
      BY <2>2, PlacesOf
    <2>4. c.modMorphs[i] \in ToSet(c.modMorphs)
          /\ c.modMorphs[i].bindings[n] \in ToSet(c.modMorphs[i].bindings)
      BY DEF ToSet
    <2> QED BY <2>3, <2>4, PartsOf DEF HasDefinitions
  <1>3. CASE p \in TurnPlaces(c)
    <2>1. PICK li \in DOMAIN c.layers : \E e \in DOMAIN KnobsOf(c, li) : \E way \in {1, 2} :
             ~TurnsByKeys(KnobsOf(c, li)[e].knob) /\ p = <<3, li, e, way>>
      BY <1>3 DEF TurnPlaces
    <2>2. PICK e \in DOMAIN KnobsOf(c, li) : \E way \in {1, 2} :
             ~TurnsByKeys(KnobsOf(c, li)[e].knob) /\ p = <<3, li, e, way>>
      BY <2>1
    <2>3. ActionAt(c, p) \in {KnobsOf(c, li)[e].knob.cw, KnobsOf(c, li)[e].knob.ccw}
      <3>1. p = <<3, li, e, 1>> \/ p = <<3, li, e, 2>>
        BY <2>2
      <3>2. /\ ActionAt(c, <<3, li, e, 1>>) = KnobsOf(c, li)[e].knob.cw
            /\ ActionAt(c, <<3, li, e, 2>>) = KnobsOf(c, li)[e].knob.ccw
        BY <2>2, PlacesOf
      <3> QED BY <3>1, <3>2
    <2>4. IsKnob(KnobsOf(c, li)[e].knob)
      BY KnobsListed
    <2> QED BY <2>3, <2>4 DEF IsKnob
  <1>4. CASE p \in SliderPlaces(c)
    <2>1. PICK li \in DOMAIN c.layers : \E k \in MappedSliders(c, li) : p = <<4, k, li, 0>>
      BY <1>4 DEF SliderPlaces
    <2>2. PICK k \in MappedSliders(c, li) : p = <<4, k, li, 0>>
      BY <2>1
    <2>3. ActionAt(c, p) = c.layers[li].sliderBindings[k].action
      BY <2>2 DEF ActionAt
    <2>4. IsLayerOf(c, c.layers[li])
      BY PartsOf
    <2>5. /\ k \in DOMAIN Opt(c.layers[li], "sliderBindings", <<>>)
          /\ "action" \in DOMAIN c.layers[li].sliderBindings[k]
      BY DEF MappedSliders, SlidersOf
    <2> QED BY <2>3, <2>4, <2>5 DEF IsLayerOf
  <1>5. CASE p \in ComboPlaces(c)
    <2>1. PICK i \in DOMAIN c.combos : p = <<5, i, 0, 0>>
      BY <1>5 DEF ComboPlaces
    <2>2. ActionAt(c, p) = c.combos[i].action
      BY <2>1, PlacesOf
    <2> QED BY <2>2, PartsOf
  <1>6. CASE p \in KeyPlaces(c)
    <2>1. PICK li \in DOMAIN c.layers : \E b \in DOMAIN c.layers[li].bindings : p = <<6, li, b, 0>>
      BY <1>6 DEF KeyPlaces
    <2>2. PICK b \in DOMAIN c.layers[li].bindings : p = <<6, li, b, 0>>
      BY <2>1
    <2>3. ActionAt(c, p) = c.layers[li].bindings[b]
      BY <2>2, PlacesOf
    <2>4. c.layers[li].bindings[b] \in ToSet(c.layers[li].bindings)
      BY DEF ToSet
    <2> QED BY <2>3, <2>4, PartsOf DEF IsLayerOf
  <1> QED BY <1>1, <1>2, <1>3, <1>4, <1>5, <1>6 DEF WrittenPlaces

LEMMA WrittenAreActions ==
    ASSUME NEW c, IsConfiguration(c), NEW a \in WrittenActions(c)
    PROVE  IsAction(a)
  BY WrittenAtPlaces DEF WrittenActions, ActionsAt

----------------------------------------------------------------------------
\* The timings are numbered as they are first met, each by its own number.
Follows(P) == {x \in P \X P : Earlier(x[2], x[1])}

LEMMA PlacesOrdered ==
    ASSUME NEW P, \A p \in P : IsPlace(p)
    PROVE  /\ \A p \in P : ~Earlier(p, p)
           /\ \A p, q, r \in P : Earlier(p, q) /\ Earlier(q, r) => Earlier(p, r)
           /\ \A p, q \in P : p = q \/ Earlier(p, q) \/ Earlier(q, p)
  <1>1. \A p \in P : p[1] \in Int /\ p[2] \in Int /\ p[3] \in Int /\ p[4] \in Int
    BY DEF IsPlace
  <1>2. /\ \A p \in P : ~Before(p, p)
        /\ \A p, q, r \in P : Before(p, q) /\ Before(q, r) => Before(p, r)
    BY <1>1 DEF Before
  <1>3. ASSUME NEW p \in P, NEW q \in P, ~Before(p, q), ~Before(q, p)
        PROVE  p = q
    <2>1. p[1] = q[1] /\ p[2] = q[2] /\ p[3] = q[3] /\ p[4] = q[4]
      BY <1>1, <1>3 DEF Before
    <2>2. p = <<p[1], p[2], p[3], p[4]>> /\ q = <<q[1], q[2], q[3], q[4]>>
      BY DEF IsPlace
    <2> QED BY <2>1, <2>2
  <1>4. \A p, q : Earlier(p, q) <=> Before(p, q)
    BY EarlierIsBefore
  <1> QED BY <1>2, <1>3, <1>4

\* Of finitely many places one is the first.
LEMMA FirstOf ==
    ASSUME NEW P, IsFiniteSet(P), P # {}, \A p \in P : IsPlace(p)
    PROVE  \E p \in P : \A q \in P : ~Earlier(q, p)
  <1>1. /\ \A p \in P : ~Earlier(p, p)
        /\ \A p, q, r \in P : Earlier(p, q) /\ Earlier(q, r) => Earlier(p, r)
        /\ \A p, q \in P : p = q \/ Earlier(p, q) \/ Earlier(q, p)
    BY PlacesOrdered
  <1>2. \A p, q \in P : <<p, q>> \in Follows(P) <=> Earlier(q, p)
    <2>1. \A x \in P \X P : x \in Follows(P) <=> Earlier(x[2], x[1])
      BY DEF Follows
    <2>2. \A p, q \in P : <<p, q>> \in P \X P /\ <<p, q>>[1] = p /\ <<p, q>>[2] = q
      OBVIOUS
    <2> QED BY <2>1, <2>2
  <1>3. Orders(Follows(P), P)
    BY <1>1, <1>2 DEF Orders
  <1>4. PICK p \in P : \A q \in P : q = p \/ <<q, p>> \in Follows(P)
    BY <1>3, LastOf
  <1>5. ASSUME NEW q \in P PROVE ~Earlier(q, p)
    <2>1. q = p \/ Earlier(p, q)
      BY <1>2, <1>4
    <2> QED BY <1>1, <2>1
  <1> QED BY <1>5

FirstUse(c, sig) == CHOOSE p \in UsesOf(c, sig) : \A q \in UsesOf(c, sig) : ~Earlier(q, p)

LEMMA FirstUseIs ==
    ASSUME NEW c, IsConfiguration(c), NEW sig \in Signatures(c)
    PROVE  /\ FirstUse(c, sig) \in UsesOf(c, sig)
           /\ \A q \in UsesOf(c, sig) : ~Earlier(q, FirstUse(c, sig))
  <1>1. IsFiniteSet(UsesOf(c, sig)) /\ \A p \in UsesOf(c, sig) : IsPlace(p)
    <2>1. UsesOf(c, sig) \in SUBSET WrittenPlaces(c)
      BY DEF UsesOf, CustomPlaces
    <2> QED BY <2>1, FewPlaces, FS_Subset
  <1>2. UsesOf(c, sig) # {}
    BY DEF Signatures, UsesOf
  <1>3. \E p \in UsesOf(c, sig) : \A q \in UsesOf(c, sig) : ~Earlier(q, p)
    BY <1>1, <1>2, FirstOf
  <1> QED BY <1>3 DEF FirstUse

MetEarlier(c) ==
    {x \in Signatures(c) \X Signatures(c) : Earlier(FirstUse(c, x[1]), FirstUse(c, x[2]))}

LEMMA NumbersApart ==
    ASSUME NEW c, IsConfiguration(c), NEW sig \in Signatures(c), NEW other \in Signatures(c),
           Generated(c, sig) = Generated(c, other)
    PROVE  sig = other
  <1> DEFINE S == Signatures(c)
             R == MetEarlier(c)
  <1>1. IsFiniteSet(CustomPlaces(c)) /\ \A p \in CustomPlaces(c) : IsPlace(p)
    <2>1. CustomPlaces(c) \in SUBSET WrittenPlaces(c)
      BY DEF CustomPlaces
    <2> QED BY <2>1, FewPlaces, FS_Subset
  <1>2. IsFiniteSet(S)
    <2> DEFINE f == [p \in CustomPlaces(c) |-> SignatureAt(c, p)]
    <2>1. S = {f[p] : p \in CustomPlaces(c)}
      BY DEF Signatures
    <2> HIDE DEF f, S
    <2> QED BY <1>1, <2>1, FewImages
  <1>3. /\ \A p \in CustomPlaces(c) : ~Earlier(p, p)
        /\ \A p, q, r \in CustomPlaces(c) : Earlier(p, q) /\ Earlier(q, r) => Earlier(p, r)
        /\ \A p, q \in CustomPlaces(c) : p = q \/ Earlier(p, q) \/ Earlier(q, p)
    BY <1>1, PlacesOrdered
  <1>4. \A x \in S : /\ FirstUse(c, x) \in CustomPlaces(c) /\ SignatureAt(c, FirstUse(c, x)) = x
                    /\ \A q \in UsesOf(c, x) : ~Earlier(q, FirstUse(c, x))
    BY FirstUseIs DEF UsesOf
  <1> HIDE DEF S, R
  <1>5. \A x, y \in S : <<x, y>> \in R <=> Earlier(FirstUse(c, x), FirstUse(c, y))
    <2> TAKE x, y \in S
    <2>1. <<x, y>> \in S \X S /\ <<x, y>>[1] = x /\ <<x, y>>[2] = y
      OBVIOUS
    <2>2. <<x, y>> \in R <=> Earlier(FirstUse(c, <<x, y>>[1]), FirstUse(c, <<x, y>>[2]))
      BY <2>1, Zenon DEF MetEarlier, S, R
    <2> QED BY <2>1, <2>2, Zenon
  <1>6. Orders(R, S)
    BY <1>3, <1>4, <1>5 DEF Orders
  <1>7. \A x \in S : MetBefore(c, x) = Below(S, R, x)
    <2> SUFFICES ASSUME NEW x \in S PROVE MetBefore(c, x) = Below(S, R, x)  OBVIOUS
    <2>1. FirstUse(c, x) \in UsesOf(c, x)
      BY <1>4 DEF UsesOf
    <2>2. ASSUME NEW q \in CustomPlaces(c), \A u \in UsesOf(c, x) : Earlier(q, u)
          PROVE  SignatureAt(c, q) \in Below(S, R, x)
      <3> DEFINE y == SignatureAt(c, q)
      <3>1. y \in S /\ q \in UsesOf(c, y)
        BY DEF S, Signatures, UsesOf
      <3>2. Earlier(q, FirstUse(c, x))
        BY <2>1, <2>2
      <3>3. FirstUse(c, y) = q \/ Earlier(FirstUse(c, y), q)
        BY <1>3, <1>4, <3>1
      <3>4. Earlier(FirstUse(c, y), FirstUse(c, x))
        BY <1>3, <1>4, <3>1, <3>2, <3>3
      <3> QED BY <1>5, <3>1, <3>4 DEF Below
    <2>3. ASSUME NEW y \in Below(S, R, x)
          PROVE  y \in MetBefore(c, x)
      <3>1. y \in S /\ Earlier(FirstUse(c, y), FirstUse(c, x))
        BY <1>5 DEF Below
      <3>2. ASSUME NEW u \in UsesOf(c, x)
            PROVE  Earlier(FirstUse(c, y), u)
        <4>1. u \in CustomPlaces(c) /\ ~Earlier(u, FirstUse(c, x))
          BY <1>4 DEF UsesOf
        <4>2. u = FirstUse(c, x) \/ Earlier(FirstUse(c, x), u)
          BY <1>3, <1>4, <4>1
        <4> QED BY <1>3, <1>4, <3>1, <4>1, <4>2
      <3>3. FirstUse(c, y) \in CustomPlaces(c) /\ SignatureAt(c, FirstUse(c, y)) = y
        BY <1>4, <3>1
      <3> QED BY <3>2, <3>3 DEF MetBefore
    <2> QED BY <2>2, <2>3 DEF MetBefore
  <1>8. Cardinality(MetBefore(c, sig)) = Cardinality(MetBefore(c, other))
    BY DEF Generated
  <1>9. \A x, y \in S : Cardinality(Below(S, R, x)) = Cardinality(Below(S, R, y)) => x = y
    BY <1>2, <1>6, Numbered
  <1> QED BY <1>7, <1>8, <1>9 DEF S

----------------------------------------------------------------------------
\* Names of two parts are none of ZMK's, which have one.
LEMMA MadeAreNotZmk ==
    ASSUME NEW kind, NEW what
    PROVE  <<kind, what>> \notin ZmkLabels
  BY DEF ZmkLabels

\* A knob's place tells the knob.
LEMMA PlacesTell ==
    ASSUME NEW c, IsConfiguration(c), NEW s \in Rotated(c), NEW t \in Rotated(c), s.place = t.place
    PROVE  s = t
  <1>1. ASSUME NEW x \in Rotated(c)
        PROVE  \E li \in Int : \E kind, k :
                  /\ kind \in {"slot", "key"} /\ (kind = "slot" => k \in Nat)
                  /\ x = KnobAt(c, li, kind, k)
    <2>1. PICK li \in DOMAIN c.layers : x \in ToSet(KnobsOf(c, li))
      BY DEF Rotated, AllKnobs
    <2>2. PICK e \in DOMAIN KnobsOf(c, li) : x = KnobsOf(c, li)[e]
      BY <2>1 DEF ToSet
    <2>3. \A d \in DOMAIN KnobsOf(c, li) : \E kind, k :
             /\ kind \in {"slot", "key"} /\ (kind = "slot" => k \in Nat)
             /\ KnobsOf(c, li)[d] = KnobAt(c, li, kind, k)
      BY KnobsListed, Zenon
    <2>4. li \in Int
      <3>1. Len(c.layers) \in Nat /\ DOMAIN c.layers = 1..Len(c.layers)
        BY PartsOf, ListPlaces
      <3> QED BY <3>1
    <2> QED BY <2>2, <2>3, <2>4, Zenon
  <1>2. PICK li \in Int : \E kind, k :
           /\ kind \in {"slot", "key"} /\ (kind = "slot" => k \in Nat) /\ s = KnobAt(c, li, kind, k)
    BY <1>1, Zenon
  <1>3. PICK kind, k :
           /\ kind \in {"slot", "key"} /\ (kind = "slot" => k \in Nat) /\ s = KnobAt(c, li, kind, k)
    BY <1>2, Zenon
  <1>4. PICK lj \in Int : \E kindT, l :
           /\ kindT \in {"slot", "key"} /\ (kindT = "slot" => l \in Nat) /\ t = KnobAt(c, lj, kindT, l)
    BY <1>1, Zenon
  <1>5. PICK kindT, l :
           /\ kindT \in {"slot", "key"} /\ (kindT = "slot" => l \in Nat) /\ t = KnobAt(c, lj, kindT, l)
    BY <1>4, Zenon
  <1>6. KnobPlace(li, kind, k) = KnobPlace(lj, kindT, l)
    BY <1>3, <1>5 DEF KnobAt
  <1>7. li = lj /\ kind = kindT /\ k = l
    BY <1>3, <1>5, <1>6 DEF KnobPlace
  <1> QED BY <1>3, <1>5, <1>7

\* A node of the author's has the label of its definition.
NodeOf(c, p) ==
    CASE p[1] = "macro" -> MacroNode(c.macros[p[2]])
      [] p[1] = "tap_dance" -> TapDanceNode(c, c.tapDances[p[2]])
      [] p[1] = "mod_morph" -> ModMorphNode(c, c.modMorphs[p[2]])
      [] p[1] = "hold_tap" -> HoldTapNode(c.holdTaps[p[2]])

LEMMA OwnNodesNamed ==
    ASSUME NEW c, NEW n \in OwnNodes(c)
    PROVE  \E p \in DefinitionPlaces(c) : n = NodeOf(c, p) /\ n.label = LabelAt(c, p)
  <1>1. ASSUME NEW i \in DOMAIN c.macros, n = MacroNode(c.macros[i])
        PROVE  \E p \in DefinitionPlaces(c) : n = NodeOf(c, p) /\ n.label = LabelAt(c, p)
    <2>1. <<"macro", i>> \in DefinitionPlaces(c)
      BY DEF DefinitionPlaces, Definitions, OwnTypes
    <2>2. n.label = LabelAt(c, <<"macro", i>>)
      BY <1>1 DEF MacroNode, Node, LabelAt, DefinitionAt, Definitions
    <2>3. n = NodeOf(c, <<"macro", i>>)
      BY <1>1 DEF NodeOf
    <2> QED BY <2>1, <2>2, <2>3
  <1>2. ASSUME NEW i \in DOMAIN c.tapDances, n = TapDanceNode(c, c.tapDances[i])
        PROVE  \E p \in DefinitionPlaces(c) : n = NodeOf(c, p) /\ n.label = LabelAt(c, p)
    <2>1. <<"tap_dance", i>> \in DefinitionPlaces(c)
      BY DEF DefinitionPlaces, Definitions, OwnTypes
    <2>2. n.label = LabelAt(c, <<"tap_dance", i>>)
      BY <1>2 DEF TapDanceNode, Node, LabelAt, DefinitionAt, Definitions
    <2>3. n = NodeOf(c, <<"tap_dance", i>>)
      BY <1>2 DEF NodeOf
    <2> QED BY <2>1, <2>2, <2>3
  <1>3. ASSUME NEW i \in DOMAIN c.modMorphs, n = ModMorphNode(c, c.modMorphs[i])
        PROVE  \E p \in DefinitionPlaces(c) : n = NodeOf(c, p) /\ n.label = LabelAt(c, p)
    <2>1. <<"mod_morph", i>> \in DefinitionPlaces(c)
      BY DEF DefinitionPlaces, Definitions, OwnTypes
    <2>2. n.label = LabelAt(c, <<"mod_morph", i>>)
      BY <1>3 DEF ModMorphNode, Node, LabelAt, DefinitionAt, Definitions
    <2>3. n = NodeOf(c, <<"mod_morph", i>>)
      BY <1>3 DEF NodeOf
    <2> QED BY <2>1, <2>2, <2>3
  <1>4. ASSUME NEW i \in DOMAIN c.holdTaps, n = HoldTapNode(c.holdTaps[i])
        PROVE  \E p \in DefinitionPlaces(c) : n = NodeOf(c, p) /\ n.label = LabelAt(c, p)
    <2>1. <<"hold_tap", i>> \in DefinitionPlaces(c)
      BY DEF DefinitionPlaces, Definitions, OwnTypes
    <2>2. n.label = LabelAt(c, <<"hold_tap", i>>)
      BY <1>4 DEF HoldTapNode, Node, LabelAt, DefinitionAt, Definitions
    <2>3. n = NodeOf(c, <<"hold_tap", i>>)
      BY <1>4 DEF NodeOf
    <2> QED BY <2>1, <2>2, <2>3
  <1> QED BY <1>1, <1>2, <1>3, <1>4 DEF OwnNodes

\* The labels are apart where the names are: those of the author by what they are,
\* those made on the way by the knob's place and the timing's number, and both from
\* the behaviours of ZMK's.
LEMMA LabelsApartOf ==
    ASSUME NEW c, IsConfiguration(c)
    PROVE  LabelsApart(c)
  <1> DEFINE Rotations == {RotationNode(c, s) : s \in Rotated(c)}
             Timings == GeneratedNodes(c)
  <1> SUFFICES ASSUME NamesApart(c)
               PROVE  /\ \A n1, n2 \in ZmkNodes(c) : n1.label = n2.label => n1 = n2
                      /\ \A n \in ZmkNodes(c) : n.label \notin ZmkLabels
    BY DEF LabelsApart
  <1>1. ASSUME NEW n \in OwnNodes(c), NEW m \in OwnNodes(c), n.label = m.label
        PROVE  n = m
    <2>1. PICK p \in DefinitionPlaces(c) : n = NodeOf(c, p) /\ n.label = LabelAt(c, p)
      BY OwnNodesNamed
    <2>2. PICK q \in DefinitionPlaces(c) : m = NodeOf(c, q) /\ m.label = LabelAt(c, q)
      BY OwnNodesNamed
    <2>3. p = q
      BY <1>1, <2>1, <2>2 DEF NamesApart
    <2> QED BY <2>1, <2>2, <2>3
  <1>2. ASSUME NEW n \in OwnNodes(c)
        PROVE  n.label \notin ZmkLabels /\ \A m \in Rotations \cup Timings : n.label # m.label
    <2>1. PICK p \in DefinitionPlaces(c) : n.label = LabelAt(c, p)
      BY OwnNodesNamed
    <2>2. LabelAt(c, p) \notin ZmkLabels /\ LabelAt(c, p) \notin MadeLabels(c)
      BY DEF NamesApart
    <2>3. \A m \in Rotations \cup Timings : m.label \in MadeLabels(c)
      BY DEF RotationNode, Node, GeneratedNodes, GeneratedNode, MadeLabels
    <2> QED BY <2>1, <2>2, <2>3
  <1>3. ASSUME NEW n \in Rotations
        PROVE  \E s \in Rotated(c) : n = RotationNode(c, s) /\ n.label = <<"sr", s.place>>
    BY DEF RotationNode, Node, Rotation
  <1>4. ASSUME NEW n \in Timings
        PROVE  \E sig \in Signatures(c) :
                  /\ n = GeneratedNode(c, sig) /\ n.label = Generated(c, sig)
                  /\ n.label = <<"ht", Cardinality(MetBefore(c, sig))>>
    BY DEF GeneratedNodes, GeneratedNode, Generated
  <1> HIDE DEF Rotations, Timings
  <1>5. ASSUME NEW n \in Rotations, NEW m \in Rotations, n.label = m.label
        PROVE  n = m
    <2>1. PICK s \in Rotated(c) : n = RotationNode(c, s) /\ n.label = <<"sr", s.place>>
      BY <1>3
    <2>2. PICK t \in Rotated(c) : m = RotationNode(c, t) /\ m.label = <<"sr", t.place>>
      BY <1>3
    <2>3. s = t
      BY <1>5, <2>1, <2>2, PlacesTell
    <2> QED BY <2>1, <2>2, <2>3
  <1>6. ASSUME NEW n \in Timings, NEW m \in Timings, n.label = m.label
        PROVE  n = m
    <2>1. PICK sig \in Signatures(c) : n = GeneratedNode(c, sig) /\ n.label = Generated(c, sig)
      BY <1>4
    <2>2. PICK other \in Signatures(c) :
             m = GeneratedNode(c, other) /\ m.label = Generated(c, other)
      BY <1>4
    <2>3. sig = other
      BY <1>6, <2>1, <2>2, NumbersApart
    <2> QED BY <2>1, <2>2, <2>3
  <1>7. ASSUME NEW n \in Rotations, NEW m \in Timings
        PROVE  n.label # m.label
    BY <1>3, <1>4
  <1>8. ASSUME NEW n \in Rotations \cup Timings PROVE n.label \notin ZmkLabels
    <2>1. \E kind, what : n.label = <<kind, what>>
      BY <1>3, <1>4
    <2> QED BY <2>1, MadeAreNotZmk
  <1>9. ZmkNodes(c) = OwnNodes(c) \cup Rotations \cup Timings
    BY DEF ZmkNodes, Rotations, Timings
  <1>10. ASSUME NEW n \in ZmkNodes(c), NEW m \in ZmkNodes(c), n.label = m.label
         PROVE  n = m
    BY <1>1, <1>2, <1>5, <1>6, <1>7, <1>9, <1>10
  <1> QED BY <1>2, <1>8, <1>9, <1>10

----------------------------------------------------------------------------
\* A reference to a behaviour that ZMK has.
LEMMA NamedByZmk ==
    ASSUME NEW name \in ZmkNames, NEW args
    PROVE  IsZmk(Zmk(name, args))
  BY DEF IsZmk, ZmkLabels, Zmk, Ref

\* What a tap-hold, a light, an output or a definition is written as is something.
LEMMA TapHoldWritten ==
    ASSUME NEW c, NEW a
    PROVE  EmitTapHold(c, a).ref.to # <<"none">>
  BY DEF EmitTapHold, Ref, Generated

LEMMA OutputWritten ==
    ASSUME NEW a
    PROVE  EmitOutput(a).to \in {<<"out">>, <<"bt">>}
  BY DEF EmitOutput, Zmk, Ref

LEMMA LightingWritten ==
    ASSUME NEW a
    PROVE  /\ EmitLighting(a).ref.to \in {<<"none">>, <<"bl">>, <<"rgb_ug">>}
           /\ EmitLighting(a).ref.to = <<"none">> => EmitLighting(a).says # {}
  <1>1. /\ EmitBacklight(a).ref.to \in {<<"none">>, <<"bl">>}
        /\ EmitBacklight(a).ref.to = <<"none">> => EmitBacklight(a).says # {}
    BY DEF EmitBacklight, Quiet, Refused, Noted, None, Zmk, Ref
  <1>2. EmitUnderglow(a).ref.to = <<"rgb_ug">>
    BY DEF EmitUnderglow, Quiet, Noted, Zmk, Ref
  <1>3. Refused("per-key lighting").ref.to = <<"none">> /\ Refused("per-key lighting").says # {}
    BY DEF Refused, Noted, None, Zmk, Ref
  <1>4. CASE a.target = "per_key"
    <2>1. EmitLighting(a) = Refused("per-key lighting")
      BY <1>4 DEF EmitLighting
    <2> QED BY <1>3, <2>1
  <1>5. CASE a.target = "backlight"
    <2>1. EmitLighting(a) = EmitBacklight(a)
      BY <1>5 DEF EmitLighting
    <2> QED BY <1>1, <2>1
  <1>6. CASE a.target \notin {"per_key", "backlight"}
    <2>1. EmitLighting(a) = EmitUnderglow(a)
      BY <1>6 DEF EmitLighting
    <2> QED BY <1>2, <2>1
  <1> QED BY <1>4, <1>5, <1>6

\* What an action is written as, by its type.
RichTypes == {"key_press", "tap_hold", "layer", "output", "lighting"}

LEMMA TypesApart ==
    /\ \A t \in RichTypes :
          t \notin OwnTypes \cup DOMAIN BareBehaviors \cup DOMAIN KeyBehaviors \cup DOMAIN WordBehaviors
    /\ \A t \in OwnTypes :
          t \notin DOMAIN BareBehaviors \cup DOMAIN KeyBehaviors \cup DOMAIN WordBehaviors
    /\ \A t \in DOMAIN BareBehaviors : t \notin DOMAIN KeyBehaviors \cup DOMAIN WordBehaviors
    /\ \A t \in DOMAIN KeyBehaviors : t \notin DOMAIN WordBehaviors
  <1>1. \A t \in RichTypes :
           t \notin OwnTypes \cup DOMAIN BareBehaviors \cup DOMAIN KeyBehaviors \cup DOMAIN WordBehaviors
    BY DEF RichTypes, OwnTypes, BareBehaviors, KeyBehaviors, WordBehaviors
  <1>2. \A t \in OwnTypes :
           t \notin DOMAIN BareBehaviors \cup DOMAIN KeyBehaviors \cup DOMAIN WordBehaviors
    BY DEF OwnTypes, BareBehaviors, KeyBehaviors, WordBehaviors
  <1>3. /\ \A t \in DOMAIN BareBehaviors : t \notin DOMAIN KeyBehaviors \cup DOMAIN WordBehaviors
        /\ \A t \in DOMAIN KeyBehaviors : t \notin DOMAIN WordBehaviors
    BY DEF BareBehaviors, KeyBehaviors, WordBehaviors
  <1> QED BY <1>1, <1>2, <1>3

LEMMA BindingByType ==
    ASSUME NEW c, NEW a
    PROVE  /\ a.type = "key_press" => EmitBinding(c, a) = Quiet(Zmk("kp", <<PressCell(a.key, a.mods)>>))
           /\ a.type = "tap_hold" => EmitBinding(c, a) = EmitTapHold(c, a)
           /\ a.type = "layer" =>
                 EmitBinding(c, a).ref
                 = Zmk(LayerBehaviors[a.mode], <<LayerCell(LayerNumber(c, a.layer))>>)
           /\ a.type = "output" => EmitBinding(c, a) = Quiet(EmitOutput(a))
           /\ a.type = "lighting" => EmitBinding(c, a) = EmitLighting(a)
           /\ a.type \in OwnTypes => EmitBinding(c, a) = Quiet(EmitOwn(a))
           /\ a.type \in DOMAIN BareBehaviors =>
                 EmitBinding(c, a) = Quiet(Zmk(BareBehaviors[a.type], <<>>))
           /\ a.type \in DOMAIN KeyBehaviors =>
                 EmitBinding(c, a) = Quiet(Zmk(KeyBehaviors[a.type], <<KeyCell(a.key)>>))
           /\ a.type \in DOMAIN WordBehaviors =>
                 EmitBinding(c, a) = Quiet(Zmk(WordBehaviors[a.type], <<WordCell(WordOf(a))>>))
           /\ a.type \notin RichTypes \cup OwnTypes \cup DOMAIN BareBehaviors \cup DOMAIN KeyBehaviors
                            \cup DOMAIN WordBehaviors =>
                 \E what : EmitBinding(c, a) = Refused(what)
  <1>1. a.type = "key_press" => EmitBinding(c, a) = Quiet(Zmk("kp", <<PressCell(a.key, a.mods)>>))
    BY TypesApart DEF EmitBinding, RichTypes
  <1>2. a.type = "tap_hold" => EmitBinding(c, a) = EmitTapHold(c, a)
    BY TypesApart DEF EmitBinding, RichTypes
  <1>3. a.type = "layer" =>
          EmitBinding(c, a).ref
          = Zmk(LayerBehaviors[a.mode], <<LayerCell(LayerNumber(c, a.layer))>>)
    BY TypesApart DEF EmitBinding, RichTypes
  <1>4. a.type = "output" => EmitBinding(c, a) = Quiet(EmitOutput(a))
    BY TypesApart DEF EmitBinding, RichTypes
  <1>5. a.type = "lighting" => EmitBinding(c, a) = EmitLighting(a)
    BY TypesApart DEF EmitBinding, RichTypes
  <1>6. a.type \in OwnTypes => EmitBinding(c, a) = Quiet(EmitOwn(a))
    BY TypesApart DEF EmitBinding, RichTypes
  <1>7. a.type \in DOMAIN BareBehaviors =>
          EmitBinding(c, a) = Quiet(Zmk(BareBehaviors[a.type], <<>>))
    BY TypesApart DEF EmitBinding, RichTypes
  <1>8. a.type \in DOMAIN KeyBehaviors =>
          EmitBinding(c, a) = Quiet(Zmk(KeyBehaviors[a.type], <<KeyCell(a.key)>>))
    BY TypesApart DEF EmitBinding, RichTypes
  <1>9. a.type \in DOMAIN WordBehaviors =>
          EmitBinding(c, a) = Quiet(Zmk(WordBehaviors[a.type], <<WordCell(WordOf(a))>>))
    BY TypesApart DEF EmitBinding, RichTypes
  <1>10. a.type \notin RichTypes \cup OwnTypes \cup DOMAIN BareBehaviors \cup DOMAIN KeyBehaviors
                       \cup DOMAIN WordBehaviors =>
           \E what : EmitBinding(c, a) = Refused(what)
    BY TypesApart DEF EmitBinding, RichTypes
  <1> QED BY <1>1, <1>2, <1>3, <1>4, <1>5, <1>6, <1>7, <1>8, <1>9, <1>10

\* Whatever is written as none was none, or something is said of it; a definition
\* of the author's may be called none.
LEMMA SaidWhenLost ==
    ASSUME NEW c, NEW a, IsAction(a), a.type \notin OwnTypes \cup {"none"}
    PROVE  EmitBinding(c, a).ref = None => EmitBinding(c, a).says # {}
  <1> DEFINE Bare == DOMAIN BareBehaviors
             Keyed == DOMAIN KeyBehaviors
             Worded == DOMAIN WordBehaviors
  <1> SUFFICES ASSUME EmitBinding(c, a).says = {}
               PROVE  EmitBinding(c, a).ref.to # <<"none">>
    BY DEF None, Zmk, Ref
  <1>1. CASE a.type = "key_press"
    <2>1. EmitBinding(c, a) = Quiet(Zmk("kp", <<PressCell(a.key, a.mods)>>))
      BY <1>1, BindingByType, Zenon
    <2> QED BY <2>1 DEF Quiet, Zmk, Ref
  <1>2. CASE a.type = "tap_hold"
    <2>1. EmitBinding(c, a) = EmitTapHold(c, a)
      BY <1>2, BindingByType, Zenon
    <2> QED BY <2>1, TapHoldWritten
  <1>3. CASE a.type = "layer"
    <2>1. EmitBinding(c, a).ref
          = Zmk(LayerBehaviors[a.mode], <<LayerCell(LayerNumber(c, a.layer))>>)
      BY <1>3, BindingByType, Zenon
    <2>2. LayerBehaviors[a.mode] # "none"
      BY <1>3 DEF IsAction, LayerBehaviors
    <2> QED BY <2>1, <2>2 DEF Zmk, Ref
  <1>4. CASE a.type = "output"
    <2>1. EmitBinding(c, a) = Quiet(EmitOutput(a))
      BY <1>4, BindingByType, Zenon
    <2> QED BY <2>1, OutputWritten DEF Quiet
  <1>5. CASE a.type = "lighting"
    <2>1. EmitBinding(c, a) = EmitLighting(a)
      BY <1>5, BindingByType, Zenon
    <2> QED BY <2>1, LightingWritten
  <1>7. CASE a.type \in Bare
    <2>1. EmitBinding(c, a) = Quiet(Zmk(BareBehaviors[a.type], <<>>))
      BY <1>7, BindingByType, Zenon
    <2>2. BareBehaviors[a.type] # "none"
      BY <1>7 DEF BareBehaviors
    <2> QED BY <2>1, <2>2 DEF Quiet, Zmk, Ref
  <1>8. CASE a.type \in Keyed
    <2>1. EmitBinding(c, a) = Quiet(Zmk(KeyBehaviors[a.type], <<KeyCell(a.key)>>))
      BY <1>8, BindingByType, Zenon
    <2>2. KeyBehaviors[a.type] # "none"
      BY <1>8 DEF KeyBehaviors
    <2> QED BY <2>1, <2>2 DEF Quiet, Zmk, Ref
  <1>9. CASE a.type \in Worded
    <2>1. EmitBinding(c, a) = Quiet(Zmk(WordBehaviors[a.type], <<WordCell(WordOf(a))>>))
      BY <1>9, BindingByType, Zenon
    <2>2. WordBehaviors[a.type] # "none"
      BY <1>9 DEF WordBehaviors
    <2> QED BY <2>1, <2>2 DEF Quiet, Zmk, Ref
  <1>10. CASE a.type \notin RichTypes \cup OwnTypes \cup Bare \cup Keyed \cup Worded
    <2>1. PICK what : EmitBinding(c, a) = Refused(what)
      BY <1>10, BindingByType, Zenon
    <2> QED BY <2>1 DEF Refused, Noted
  <1> QED BY <1>1, <1>2, <1>3, <1>4, <1>5, <1>7, <1>8, <1>9, <1>10 DEF RichTypes

LEMMA NothingLostOf ==
    ASSUME NEW c, IsConfiguration(c)
    PROVE  NothingLostSilently(c)
  BY WrittenAreActions, SaidWhenLost DEF NothingLostSilently

\* A behaviour that is neither a definition's nor a tap-hold's is ZMK's own.
LEMMA OwnedByZmk ==
    ASSUME NEW c, NEW a, IsAction(a), a.type \notin OwnTypes, a.type # "tap_hold"
    PROVE  IsZmk(EmitBinding(c, a).ref)
  <1>1. CASE a.type = "key_press"
    <2>1. EmitBinding(c, a) = Quiet(Zmk("kp", <<PressCell(a.key, a.mods)>>))
      BY <1>1, BindingByType, Zenon
    <2>2. "kp" \in ZmkNames
      BY DEF ZmkNames
    <2> QED BY <2>1, <2>2, NamedByZmk DEF Quiet
  <1>2. CASE a.type = "layer"
    <2>1. EmitBinding(c, a).ref
          = Zmk(LayerBehaviors[a.mode], <<LayerCell(LayerNumber(c, a.layer))>>)
      BY <1>2, BindingByType, Zenon
    <2>2. LayerBehaviors[a.mode] \in ZmkNames
      BY <1>2 DEF IsAction, LayerBehaviors, ZmkNames
    <2> QED BY <2>1, <2>2, NamedByZmk
  <1>3. CASE a.type = "output"
    <2>1. EmitBinding(c, a) = Quiet(EmitOutput(a))
      BY <1>3, BindingByType, Zenon
    <2>2. <<"out">> \in ZmkLabels /\ <<"bt">> \in ZmkLabels
      BY DEF ZmkLabels, ZmkNames
    <2> QED BY <2>1, <2>2, OutputWritten DEF Quiet, IsZmk
  <1>4. CASE a.type = "lighting"
    <2>1. EmitBinding(c, a) = EmitLighting(a)
      BY <1>4, BindingByType, Zenon
    <2>2. <<"none">> \in ZmkLabels /\ <<"bl">> \in ZmkLabels /\ <<"rgb_ug">> \in ZmkLabels
      BY DEF ZmkLabels, ZmkNames
    <2> QED BY <2>1, <2>2, LightingWritten DEF IsZmk
  <1>5. CASE a.type \in DOMAIN BareBehaviors
    <2>1. EmitBinding(c, a) = Quiet(Zmk(BareBehaviors[a.type], <<>>))
      BY <1>5, BindingByType, Zenon
    <2>2. BareBehaviors[a.type] \in ZmkNames
      BY <1>5 DEF BareBehaviors, ZmkNames
    <2> QED BY <2>1, <2>2, NamedByZmk DEF Quiet
  <1>6. CASE a.type \in DOMAIN KeyBehaviors
    <2>1. EmitBinding(c, a) = Quiet(Zmk(KeyBehaviors[a.type], <<KeyCell(a.key)>>))
      BY <1>6, BindingByType, Zenon
    <2>2. KeyBehaviors[a.type] \in ZmkNames
      BY <1>6 DEF KeyBehaviors, ZmkNames
    <2> QED BY <2>1, <2>2, NamedByZmk DEF Quiet
  <1>7. CASE a.type \in DOMAIN WordBehaviors
    <2>1. EmitBinding(c, a) = Quiet(Zmk(WordBehaviors[a.type], <<WordCell(WordOf(a))>>))
      BY <1>7, BindingByType, Zenon
    <2>2. WordBehaviors[a.type] \in ZmkNames
      BY <1>7 DEF WordBehaviors, ZmkNames
    <2> QED BY <2>1, <2>2, NamedByZmk DEF Quiet
  <1>8. CASE a.type \notin RichTypes \cup OwnTypes \cup DOMAIN BareBehaviors \cup DOMAIN KeyBehaviors
                           \cup DOMAIN WordBehaviors
    <2>1. PICK what : EmitBinding(c, a) = Refused(what)
      BY <1>8, BindingByType, Zenon
    <2>2. "none" \in ZmkNames
      BY DEF ZmkNames
    <2> QED BY <2>1, <2>2, NamedByZmk DEF Refused, Noted, None
  <1>9. \/ a.type \in RichTypes \ {"tap_hold"}
        \/ a.type \in DOMAIN BareBehaviors \cup DOMAIN KeyBehaviors \cup DOMAIN WordBehaviors
        \/ a.type \notin RichTypes \cup OwnTypes \cup DOMAIN BareBehaviors \cup DOMAIN KeyBehaviors
                         \cup DOMAIN WordBehaviors
    OBVIOUS
  <1>10. a.type \in RichTypes \ {"tap_hold"} => a.type \in {"key_press", "layer", "output", "lighting"}
    BY DEF RichTypes
  <1> QED BY <1>1, <1>2, <1>3, <1>4, <1>5, <1>6, <1>7, <1>8, <1>9, <1>10

\* A definition that is there and takes what it is given has its node.
LEMMA FittingResolves ==
    ASSUME NEW c, NEW a, a.type \in OwnTypes, Fits(c, a)
    PROVE  Resolves(c, EmitOwn(a))
  <1>1. PICK d \in ToSet(Definitions(c)[a.type]) :
           d.id = a.ref /\ (a.type = "macro" => MacroCells(d) = Len(EmitOwn(a).args))
    BY DEF Fits
  <1>2. PICK i \in DOMAIN Definitions(c)[a.type] : d = Definitions(c)[a.type][i]
    BY <1>1 DEF ToSet
  <1>3. EmitOwn(a).to = Own(a.ref)
    BY DEF EmitOwn, Ref
  <1>4. CASE a.type = "macro"
    <2>1. MacroNode(d) \in OwnNodes(c)
      BY <1>2, <1>4 DEF OwnNodes, Definitions
    <2>2. MacroNode(d).label = EmitOwn(a).to /\ MacroNode(d).cells = Len(EmitOwn(a).args)
      BY <1>1, <1>3, <1>4 DEF MacroNode, Node
    <2> QED BY <2>1, <2>2 DEF Resolves, ZmkNodes
  <1>5. CASE a.type = "tap_dance"
    <2>1. TapDanceNode(c, d) \in OwnNodes(c)
      BY <1>2, <1>5 DEF OwnNodes, Definitions
    <2>2. EmitOwn(a).args = <<>>
      BY <1>5 DEF EmitOwn, Ref
    <2>3. TapDanceNode(c, d).label = EmitOwn(a).to /\ TapDanceNode(c, d).cells = Len(EmitOwn(a).args)
      BY <1>1, <1>3, <2>2 DEF TapDanceNode, Node
    <2> QED BY <2>1, <2>3 DEF Resolves, ZmkNodes
  <1>6. CASE a.type = "mod_morph"
    <2>1. ModMorphNode(c, d) \in OwnNodes(c)
      BY <1>2, <1>6 DEF OwnNodes, Definitions
    <2>2. EmitOwn(a).args = <<>>
      BY <1>6 DEF EmitOwn, Ref
    <2>3. ModMorphNode(c, d).label = EmitOwn(a).to /\ ModMorphNode(c, d).cells = Len(EmitOwn(a).args)
      BY <1>1, <1>3, <2>2 DEF ModMorphNode, Node
    <2> QED BY <2>1, <2>3 DEF Resolves, ZmkNodes
  <1>7. CASE a.type = "hold_tap"
    <2>1. HoldTapNode(d) \in OwnNodes(c)
      BY <1>2, <1>7 DEF OwnNodes, Definitions
    <2>2. EmitOwn(a).args = <<HoldTapParam(a.holdParam), HoldTapParam(a.tapParam)>>
      BY <1>7 DEF EmitOwn, Ref
    <2>3. HoldTapNode(d).label = EmitOwn(a).to /\ HoldTapNode(d).cells = Len(EmitOwn(a).args)
      BY <1>1, <1>3, <2>2 DEF HoldTapNode, Node
    <2> QED BY <2>1, <2>3 DEF Resolves, ZmkNodes
  <1> QED BY <1>4, <1>5, <1>6, <1>7 DEF OwnTypes

\* What an action is written as resolves, or was given more or less than it takes.
LEMMA WrittenResolves ==
    ASSUME NEW c, IsConfiguration(c), NEW a \in WrittenActions(c)
    PROVE  Resolves(c, EmitBinding(c, a).ref) \/ EmitBinding(c, a).ref \in Misfits(c)
  <1>1. CASE a.type \notin OwnTypes /\ a.type # "tap_hold"
    BY <1>1, WrittenAreActions, OwnedByZmk DEF Resolves
  <1>2. CASE a.type \in OwnTypes
    <2>1. EmitBinding(c, a) = Quiet(EmitOwn(a))
      BY <1>2, BindingByType, Zenon
    <2>2. EmitBinding(c, a).ref = EmitOwn(a)
      BY <2>1 DEF Quiet
    <2>3. CASE Fits(c, a)
      BY <1>2, <2>2, <2>3, FittingResolves
    <2>4. CASE ~Fits(c, a)
      BY <1>2, <2>2, <2>4 DEF Misfits
    <2> QED BY <2>3, <2>4
  <1>3. CASE a.type = "tap_hold"
    <2>1. EmitBinding(c, a) = EmitTapHold(c, a)
      BY <1>3, BindingByType, Zenon
    <2>2. CASE IsCustom(a)
      <3>1. PICK p \in WrittenPlaces(c) : a = ActionAt(c, p)
        BY DEF WrittenActions, ActionsAt
      <3>2. Signature(a) \in Signatures(c)
        BY <1>3, <2>2, <3>1 DEF Signatures, SignatureAt, CustomPlaces, IsCustomHold
      <3>3. GeneratedNode(c, Signature(a)) \in ZmkNodes(c)
        BY <3>2 DEF ZmkNodes, GeneratedNodes
      <3>4. /\ EmitTapHold(c, a).ref.to = Generated(c, Signature(a))
            /\ Len(EmitTapHold(c, a).ref.args) = 2
        BY <2>2 DEF EmitTapHold, Ref
      <3>5. GeneratedNode(c, Signature(a)).label = Generated(c, Signature(a))
            /\ GeneratedNode(c, Signature(a)).cells = 2
        BY DEF GeneratedNode
      <3> QED BY <2>1, <3>3, <3>4, <3>5 DEF Resolves
    <2>3. CASE ~IsCustom(a)
      <3>1. EmitTapHold(c, a).ref.to \in {<<"lt">>, <<"mt">>}
        BY <2>3 DEF EmitTapHold, Ref
      <3>2. <<"lt">> \in ZmkLabels /\ <<"mt">> \in ZmkLabels
        BY DEF ZmkLabels, ZmkNames
      <3> QED BY <2>1, <3>1, <3>2 DEF Resolves, IsZmk
    <2> QED BY <2>2, <2>3
  <1> QED BY <1>1, <1>2, <1>3

\* A macro does what ZMK has behaviours for.
LEMMA StepsOwnedByZmk ==
    ASSUME NEW m, NEW ref \in ToSet(MacroBody(m))
    PROVE  IsZmk(ref)
  <1>1. ASSUME NEW s PROVE IsZmk(MacroStepRef(s))
    <2>1. {"macro_tap", "macro_press", "macro_release", "macro_wait_time", "macro_tap_time",
           "macro_pause_for_release"} \subseteq ZmkNames
      BY DEF ZmkNames
    <2>2. \E name \in ZmkNames : MacroStepRef(s).to = <<name>>
      BY <2>1 DEF MacroStepRef, Zmk, Ref
    <2> QED BY <2>2 DEF IsZmk, ZmkLabels
  <1>2. IsZmk(None)
    BY NamedByZmk DEF None, ZmkNames
  <1>3. PICK steps :
           MacroBody(m) = IF steps = <<>> THEN <<None>> ELSE [i \in DOMAIN steps |-> MacroStepRef(steps[i])]
    BY DEF MacroBody
  <1>4. CASE steps = <<>>
    <2>1. MacroBody(m) = <<None>>
      BY <1>3, <1>4
    <2>2. ref = None
      BY <2>1 DEF ToSet
    <2> QED BY <1>2, <2>2
  <1>5. CASE steps # <<>>
    <2>1. MacroBody(m) = [i \in DOMAIN steps |-> MacroStepRef(steps[i])]
      BY <1>3, <1>5
    <2>2. \E i \in DOMAIN steps : ref = MacroStepRef(steps[i])
      BY <2>1 DEF ToSet
    <2> QED BY <1>1, <2>2
  <1> QED BY <1>4, <1>5

\* What stands at a place of a list of references.
LEMMA RefsOfNodes ==
    ASSUME NEW c, IsConfiguration(c), NEW n \in ZmkNodes(c), NEW ref \in ToSet(n.refs)
    PROVE  IsZmk(ref) \/ \E a \in WrittenActions(c) : ref = EmitBinding(c, a).ref
  <1>1. CASE \E i \in DOMAIN c.macros : n = MacroNode(c.macros[i])
    BY <1>1, StepsOwnedByZmk DEF MacroNode, Node
  <1>2. ASSUME NEW i \in DOMAIN c.tapDances, n = TapDanceNode(c, c.tapDances[i])
        PROVE  \E a \in WrittenActions(c) : ref = EmitBinding(c, a).ref
    <2> DEFINE d == c.tapDances[i]
    <2>1. PICK k \in DOMAIN d.taps : ref = EmitBinding(c, TapAt(d, k).action).ref
      BY <1>2 DEF TapDanceNode, Node, ToSet
    <2>2. TapAt(d, k).action \in WrittenActions(c)
      <3>1. <<1, i, k, 0>> \in WrittenPlaces(c) /\ ActionAt(c, <<1, i, k, 0>>) = TapAt(d, k).action
        BY PlacesOf
      <3> QED BY <3>1 DEF WrittenActions, ActionsAt
    <2> QED BY <2>1, <2>2
  <1>3. ASSUME NEW i \in DOMAIN c.modMorphs, n = ModMorphNode(c, c.modMorphs[i])
        PROVE  \E a \in WrittenActions(c) : ref = EmitBinding(c, a).ref
    <2> DEFINE d == c.modMorphs[i]
    <2>1. PICK k \in DOMAIN d.bindings : ref = EmitBinding(c, d.bindings[k]).ref
      BY <1>3 DEF ModMorphNode, Node, ToSet
    <2>2. d.bindings[k] \in WrittenActions(c)
      <3>1. <<2, i, k, 0>> \in WrittenPlaces(c) /\ ActionAt(c, <<2, i, k, 0>>) = d.bindings[k]
        BY PlacesOf
      <3> QED BY <3>1 DEF WrittenActions, ActionsAt
    <2> QED BY <2>1, <2>2
  <1>4. CASE \E i \in DOMAIN c.holdTaps : n = HoldTapNode(c.holdTaps[i])
    BY <1>4 DEF HoldTapNode, Node, ToSet
  <1>5. ASSUME NEW s \in Rotated(c), n = RotationNode(c, s)
        PROVE  \E a \in WrittenActions(c) : ref = EmitBinding(c, a).ref
    <2>1. PICK a \in {s.knob.cw, s.knob.ccw} : ref = EmitBinding(c, a).ref
      BY <1>5 DEF RotationNode, Node, TurnOf, ToSet
    <2>2. PICK li \in DOMAIN c.layers : \E e \in DOMAIN KnobsOf(c, li) : s = KnobsOf(c, li)[e]
      BY DEF Rotated, AllKnobs, ToSet
    <2>3. PICK e \in DOMAIN KnobsOf(c, li) : s = KnobsOf(c, li)[e]
      BY <2>2
    <2>4. ~TurnsByKeys(KnobsOf(c, li)[e].knob)
      BY <2>3 DEF Rotated
    <2>5. KnobsOf(c, li)[e].knob.cw \in WrittenActions(c)
          /\ KnobsOf(c, li)[e].knob.ccw \in WrittenActions(c)
      <3>1. /\ <<3, li, e, 1>> \in WrittenPlaces(c) /\ <<3, li, e, 2>> \in WrittenPlaces(c)
            /\ ActionAt(c, <<3, li, e, 1>>) = KnobsOf(c, li)[e].knob.cw
            /\ ActionAt(c, <<3, li, e, 2>>) = KnobsOf(c, li)[e].knob.ccw
        BY <2>4, PlacesOf
      <3> QED BY <3>1 DEF WrittenActions, ActionsAt
    <2> QED BY <2>1, <2>3, <2>5
  <1>6. ASSUME NEW sig \in Signatures(c), n = GeneratedNode(c, sig)
        PROVE  IsZmk(ref)
    <2>1. n.refs = <<Zmk(IF sig.layer THEN "mo" ELSE "kp", <<>>), Zmk("kp", <<>>)>>
      BY <1>6 DEF GeneratedNode
    <2>2. "mo" \in ZmkNames /\ "kp" \in ZmkNames
      BY DEF ZmkNames
    <2>3. ref \in {Zmk(IF sig.layer THEN "mo" ELSE "kp", <<>>), Zmk("kp", <<>>)}
      BY <2>1 DEF ToSet
    <2>4. (IF sig.layer THEN "mo" ELSE "kp") \in ZmkNames
      BY <2>2
    <2> QED BY <2>2, <2>3, <2>4, NamedByZmk
  <1> QED BY <1>1, <1>2, <1>3, <1>4, <1>5, <1>6 DEF ZmkNodes, OwnNodes, GeneratedNodes

\* Every behaviour that is referred to is there.
LEMMA ReferencesResolveOf ==
    ASSUME NEW c, IsConfiguration(c)
    PROVE  ReferencesResolve(c)
  <1> SUFFICES ASSUME NEW ref \in KeymapRefs(c)
               PROVE  Resolves(c, ref) \/ ref \in Misfits(c)
    BY DEF ReferencesResolve
  <1>1. ASSUME IsZmk(ref) \/ \E a \in WrittenActions(c) : ref = EmitBinding(c, a).ref
        PROVE  Resolves(c, ref) \/ ref \in Misfits(c)
    BY <1>1, WrittenResolves DEF Resolves
  <1>2. ASSUME NEW n \in ZmkNodes(c), ref \in ToSet(n.refs)
        PROVE  Resolves(c, ref) \/ ref \in Misfits(c)
    BY <1>1, <1>2, RefsOfNodes
  <1>3. ASSUME NEW li \in DOMAIN c.layers, ref \in ToSet(ZmkLayer(c, li).bindings)
        PROVE  Resolves(c, ref) \/ ref \in Misfits(c)
    <2>1. PICK p \in DOMAIN c.layers[li].bindings : ref = EmitBinding(c, c.layers[li].bindings[p]).ref
      BY <1>3 DEF ZmkLayer, ToSet
    <2>2. c.layers[li].bindings[p] \in WrittenActions(c)
      <3>1. /\ <<6, li, p, 0>> \in WrittenPlaces(c)
            /\ ActionAt(c, <<6, li, p, 0>>) = c.layers[li].bindings[p]
        BY PlacesOf
      <3> QED BY <3>1 DEF WrittenActions, ActionsAt
    <2> QED BY <1>1, <2>1, <2>2
  <1>4. ASSUME NEW li \in DOMAIN c.layers, ref \in ToSet(Sensors(c, li))
        PROVE  Resolves(c, ref)
    <2>1. PICK e \in DOMAIN KnobsOf(c, li) : ref = SensorRef(KnobsOf(c, li)[e])
      BY <1>4 DEF Sensors, ToSet
    <2> DEFINE s == KnobsOf(c, li)[e]
    <2>2. CASE TurnsByKeys(s.knob)
      <3>1. ref = Zmk("inc_dec_kp", <<KeyCell(s.knob.cw.key), KeyCell(s.knob.ccw.key)>>)
        BY <2>1, <2>2 DEF SensorRef
      <3>2. "inc_dec_kp" \in ZmkNames
        BY DEF ZmkNames
      <3>3. IsZmk(ref)
        BY <3>1, <3>2, NamedByZmk
      <3> QED BY <3>3 DEF Resolves
    <2>3. CASE ~TurnsByKeys(s.knob)
      <3>1. s \in Rotated(c)
        BY <2>3 DEF Rotated, AllKnobs, ToSet
      <3>2. RotationNode(c, s) \in ZmkNodes(c)
        BY <3>1 DEF ZmkNodes
      <3>3. ref.to = Rotation(s.place) /\ ref.args = <<>>
        BY <2>1, <2>3 DEF SensorRef, Ref
      <3>4. RotationNode(c, s).label = Rotation(s.place) /\ RotationNode(c, s).cells = 0
        BY DEF RotationNode, Node
      <3> HIDE DEF s
      <3> QED BY <3>2, <3>3, <3>4 DEF Resolves
    <2> QED BY <2>2, <2>3
  <1>5. ASSUME NEW x \in ToSet(c.combos), ref = ZmkCombo(c, x).ref
        PROVE  Resolves(c, ref) \/ ref \in Misfits(c)
    <2>1. ref = EmitBinding(c, x.action).ref
      BY <1>5 DEF ZmkCombo
    <2>2. x.action \in WrittenActions(c)
      <3>1. PICK i \in DOMAIN c.combos : x = c.combos[i]
        BY DEF ToSet
      <3> QED BY <3>1, PlacesOf DEF WrittenActions, ActionsAt
    <2> QED BY <1>1, <2>1, <2>2
  <1> QED BY <1>2, <1>3, <1>4, <1>5 DEF KeymapRefs

\* The knobs keep their order from layer to layer.
LEMMA SensorsAlignedOf ==
    ASSUME NEW c, IsConfiguration(c)
    PROVE  SensorsAligned(c)
  <1> SUFFICES ASSUME OneKindOfKnob(c), NEW li \in DOMAIN c.layers
               PROVE  Len(Sensors(c, li)) \in {0, KnobCount(c)}
    BY DEF SensorsAligned
  <1> DEFINE keys == KeysThatAre(c, "encoder")
             l == Len(ListedKnobs(c, li))
             k == Len(KeyKnobs(c, li))
  <1>1. /\ l \in {0, Len(c.boardEncoders)} /\ k \in {0, Len(keys)} /\ l \in Nat /\ k \in Nat
        /\ Len(KnobsOf(c, li)) = l + k /\ DOMAIN KnobsOf(c, li) = 1..Len(KnobsOf(c, li))
    BY KnobsListed
  <1>2. Len(Sensors(c, li)) = l + k
    BY <1>1, Spelled DEF Sensors
  <1>3. Len(keys) \in Nat /\ Len(c.boardEncoders) \in Nat
    BY PartsOf, KeysListed, ListPlaces
  <1>4. c.boardEncoders = <<>> => Len(c.boardEncoders) = 0
    OBVIOUS
  <1>5. keys = <<>> => Len(keys) = 0
    OBVIOUS
  <1>6. Len(c.boardEncoders) = 0 \/ Len(keys) = 0
    BY <1>4, <1>5 DEF OneKindOfKnob
  <1>7. KnobCount(c) = Len(c.boardEncoders) + Len(keys)
    BY DEF KnobCount
  <1> QED BY <1>1, <1>2, <1>3, <1>6, <1>7

----------------------------------------------------------------------------
\* The project.  A shield has a file: bundle.ts zmkBundle, zmkSplitBundle.
LEMMA FilesOfWhole ==
    ASSUME NEW c, ~IsSplit(c)
    PROVE  /\ ZmkShields(c) = {<<ShieldName(c), "overlay">>}
           /\ BoardFiles(c) = {[EmitOverlay(c) EXCEPT !.name = <<ShieldName(c), "overlay">>]}
  BY DEF ZmkShields, BoardFiles, OverlayFiles

LEMMA FilesOfHalves ==
    ASSUME NEW c, IsSplit(c), TwoHalves(c)
    PROVE  /\ ZmkShields(c) = {<<SplitBase(c), "left">>, <<SplitBase(c), "right">>}
           /\ BoardFiles(c) = SplitFiles(c)
  <1>1. OverlayFiles(c) = SplitFiles(c)
    BY DEF OverlayFiles
  <1>2. SharedFile(c).name[2] # "overlay"
    BY DEF SharedFile, SharedName, File
  <1>3. \A labels, n : /\ HalfOverlay(c, "left", labels, n).name[2] # "overlay"
                      /\ HalfOverlay(c, "right", labels, n).name[2] # "overlay"
    BY DEF HalfOverlay, File
  <1>4. \A f \in SplitFiles(c) : f.name[2] # "overlay"
    BY <1>2, <1>3, Zenon DEF SplitFiles
  <1> QED BY <1>1, <1>4 DEF ZmkShields, BoardFiles

LEMMA FilesOfOddSplit ==
    ASSUME NEW c, IsSplit(c), ~TwoHalves(c)
    PROVE  BoardFiles(c) = {} /\ ZmkShields(c) # {}
  <1>1. OverlayFiles(c) = {EmitOverlay(c)}
    BY DEF OverlayFiles
  <1>2. EmitOverlay(c).name[2] = "overlay"
    BY DEF EmitOverlay, File
  <1> QED BY <1>1, <1>2 DEF ZmkShields, BoardFiles

LEMMA ShieldsHaveFilesOf ==
    ASSUME NEW c
    PROVE  ShieldsHaveFiles(c)
  <1>1. CASE ~IsSplit(c)
    <2>1. <<ShieldName(c), "overlay">> \in {f.name : f \in BoardFiles(c)}
      <3>1. [EmitOverlay(c) EXCEPT !.name = <<ShieldName(c), "overlay">>].name
            = <<ShieldName(c), "overlay">>
        BY DEF EmitOverlay, File
      <3> QED BY <1>1, <3>1, FilesOfWhole
    <2> QED BY <1>1, <2>1, FilesOfWhole DEF ShieldsHaveFiles
  <1>2. CASE IsSplit(c) /\ TwoHalves(c)
    <2>1. /\ HalfOverlay(c, "left", LeftLabels(c), 0).name = <<SplitBase(c), "left">>
          /\ HalfOverlay(c, "right", RightLabels(c), MatrixSplit(c.geometry)[0].columns).name
             = <<SplitBase(c), "right">>
      BY DEF HalfOverlay, File
    <2>2. ZmkShields(c) \subseteq {f.name : f \in SplitFiles(c)}
      BY <1>2, <2>1, FilesOfHalves DEF SplitFiles
    <2> QED BY <1>2, <2>2, FilesOfHalves DEF ShieldsHaveFiles
  <1>3. CASE IsSplit(c) /\ ~TwoHalves(c)
    BY <1>3, FilesOfOddSplit DEF ShieldsHaveFiles
  <1> QED BY <1>1, <1>2, <1>3

\* A label that is referred to is in the file or in one it includes: overlay.ts.
LEMMA ChosenAreGiven ==
    ASSUME NEW has, NEW hw
    PROVE  /\ PinctrlRefs(hw) \subseteq PeripheralLabels(hw)
           /\ Chosen(has, hw) \subseteq
                 PeripheralLabels(hw)
                 \cup (IF has THEN {Label("kscan0"), Label("physical_layout_default")} ELSE {})
  BY DEF PinctrlRefs, PeripheralLabels, Chosen

LEMMA LabelsGivenOf ==
    ASSUME NEW c
    PROVE  LabelsGiven(c)
  <1> SUFFICES ASSUME NEW f \in BoardFiles(c)
               PROVE  \A label \in f.refs : \E g \in Included(BoardFiles(c), f) : label \in g.labels
    BY DEF LabelsGiven
  <1>1. f \in Included(BoardFiles(c), f)
    BY DEF Included
  <1>2. CASE ~IsSplit(c)
    <2> DEFINE has == EmitKscan(c) # NoKscan
    <2>1. f.labels = EmitOverlay(c).labels /\ f.refs = EmitOverlay(c).refs
      <3>1. f = [EmitOverlay(c) EXCEPT !.name = <<ShieldName(c), "overlay">>]
        BY <1>2, FilesOfWhole
      <3>2. PICK n, i, l, r, k, t : EmitOverlay(c) = File(n, i, l, r, k, t)
        BY Zenon DEF EmitOverlay
      <3>3. f = [File(n, i, l, r, k, t) EXCEPT !.name = <<ShieldName(c), "overlay">>]
        BY <3>1, <3>2
      <3>4. f.labels = l /\ f.refs = r
        BY <3>3 DEF File
      <3>5. File(n, i, l, r, k, t).labels = l /\ File(n, i, l, r, k, t).refs = r
        BY DEF File
      <3> QED BY <3>2, <3>4, <3>5
    <2>3. /\ EmitOverlay(c).labels
             = {Label("physical_layout_default"), Label("default_transform")}
               \cup PeripheralLabels(c.hardware) \cup (IF has THEN {Label("kscan0")} ELSE {})
          /\ EmitOverlay(c).refs
             = {Label("default_transform")} \cup Chosen(has, c.hardware)
               \cup PinctrlRefs(c.hardware)
      BY DEF EmitOverlay, File
    <2>2. f.refs \subseteq f.labels
      BY <2>1, <2>3, ChosenAreGiven
    <2> QED BY <1>1, <2>2
  <1>3. CASE IsSplit(c) /\ TwoHalves(c)
    <2>1. f \in SplitFiles(c) /\ SharedFile(c) \in BoardFiles(c)
      BY <1>3, FilesOfHalves DEF SplitFiles
    <2>2. /\ SharedFile(c).name = SharedName(c)
          /\ SharedFile(c).labels
             = {Label("physical_layout_default"), Label("default_transform"), Label("kscan0")}
               \cup PeripheralLabels(c.hardware)
          /\ SharedFile(c).refs = {Label("default_transform")} \cup Chosen(TRUE, c.hardware)
                                  \cup PinctrlRefs(c.hardware)
      BY DEF SharedFile, File
    <2>3. CASE f = SharedFile(c)
      <3>1. f.refs \subseteq f.labels
        BY <2>2, <2>3, ChosenAreGiven
      <3> QED BY <1>1, <3>1
    <2>4. CASE f # SharedFile(c)
      <3>1. /\ f.refs \subseteq {Label("kscan0"), Label("default_transform")}
            /\ f.includes = {SharedName(c)}
        BY <2>1, <2>4 DEF SplitFiles, HalfOverlay, File
      <3>2. SharedFile(c) \in Included(BoardFiles(c), f)
        BY <2>1, <2>2, <3>1 DEF Included
      <3> QED BY <2>2, <3>1, <3>2
    <2> QED BY <2>3, <2>4
  <1>4. CASE IsSplit(c) /\ ~TwoHalves(c)
    BY <1>4, FilesOfOddSplit
  <1> QED BY <1>2, <1>3, <1>4

\* Knobs have a map wherever the feature is on: compilers/qmk/index.ts.
LEMMA KnobsMappedOf ==
    ASSUME NEW c, IsConfiguration(c)
    PROVE  KnobsMapped(c)
  <1> SUFFICES ASSUME "encoder" \in Features(c), NEW target \in QmkTargets
               PROVE  EncoderMap(c, target) # <<>>
    BY DEF KnobsMapped
  <1>1. LayersTurn(c) \/ TurningKeys(c) # <<>>
    BY DEF Features
  <1>2. TurnCount(c) # 0
    <2>1. CASE TurningKeys(c) # <<>>
      BY <2>1, PartsOf, KeysListed DEF TurnCount, TurningKeys
    <2>2. CASE TurningKeys(c) = <<>>
      <3>1. PICK li \in DOMAIN c.layers : c.layers[li].encoders # <<>>
        BY <1>1, <2>2 DEF LayersTurn
      <3>2. /\ IsList(c.layers[li].encoders)
            /\ Len(c.layers[li].encoders) \in {0, Len(c.boardEncoders)}
        BY PartsOf DEF IsLayerOf
      <3>3. Len(c.layers[li].encoders) > 0 /\ Len(c.layers[li].encoders) \in Nat
        BY <3>1, <3>2, ListPlaces
      <3> QED BY <2>2, <3>2, <3>3 DEF TurnCount
    <2> QED BY <2>1, <2>2
  <1>3. Len(c.layers) > 0 /\ Len(c.layers) \in Nat /\ DOMAIN c.layers = 1..Len(c.layers)
    BY PartsOf, ListPlaces
  <1>4. DOMAIN EncoderMap(c, target) = DOMAIN c.layers
    BY <1>2 DEF EncoderMap
  <1>5. 1 \in DOMAIN EncoderMap(c, target)
    BY <1>3, <1>4
  <1>6. 1 \notin DOMAIN <<>>
    OBVIOUS
  <1> QED BY <1>5, <1>6, Zenon

\* The options.  A knob of a layer is one of its list, one bound to a key, or does
\* nothing: compilers/zmk/behaviors.ts.
LEMMA KnobsFrom ==
    ASSUME NEW c, IsConfiguration(c), NEW li \in DOMAIN c.layers, NEW e \in DOMAIN KnobsOf(c, li)
    PROVE  LET bound == Part(c.layers[li], "encoderBindings")
               knob == KnobsOf(c, li)[e].knob
           IN  \/ \E i \in DOMAIN c.layers[li].encoders : knob = c.layers[li].encoders[i]
               \/ \E k \in DOMAIN bound : knob = bound[k]
               \/ knob = TransparentKnob
  <1> DEFINE listed == ListedKnobs(c, li)
             keyed == KeyKnobs(c, li)
             bound == Part(c.layers[li], "encoderBindings")
             keys == KeysThatAre(c, "encoder")
  <1>1. /\ Len(listed) \in Nat /\ Len(keyed) \in Nat /\ DOMAIN KnobsOf(c, li) = 1..Len(KnobsOf(c, li))
        /\ Len(KnobsOf(c, li)) = Len(listed) + Len(keyed)
        /\ Len(listed) = Len(c.layers[li].encoders)
    BY KnobsListed
  <1>2. KnobsOf(c, li) = [d \in 1..Len(listed) + Len(keyed) |->
                            IF d <= Len(listed) THEN listed[d] ELSE keyed[d - Len(listed)]]
    BY DEF KnobsOf
  <1>3. CASE e <= Len(listed)
    <2>1. KnobsOf(c, li)[e] = listed[e] /\ e \in 1..Len(c.layers[li].encoders)
      BY <1>1, <1>2, <1>3
    <2>2. listed[e].knob = c.layers[li].encoders[e]
      BY <2>1 DEF ListedKnobs
    <2>3. DOMAIN c.layers[li].encoders = 1..Len(c.layers[li].encoders)
      BY PartsOf, ListPlaces DEF IsLayerOf
    <2> QED BY <2>1, <2>2, <2>3
  <1>4. CASE ~(e <= Len(listed))
    <2> DEFINE n == e - Len(listed)
    <2>1. KnobsOf(c, li)[e] = keyed[n] /\ n \in 1..Len(keyed)
      BY <1>1, <1>2, <1>4
    <2>2. DOMAIN bound # {}
      <3>1. ASSUME DOMAIN bound = {} PROVE FALSE
        <4>1. keyed = <<>>
          BY <3>1 DEF KeyKnobs, Part
        <4> QED BY <2>1, <4>1
      <3> QED BY <3>1
    <2>3. keyed = [d \in 1..Len(keys) |-> [place |-> <<li - 1, "k", keys[d]>>,
                                           knob |-> Opt(bound, keys[d], TransparentKnob)]]
      BY <2>2 DEF KeyKnobs, Part
    <2>4. Len(keys) \in Nat
      BY PartsOf, KeysListed
    <2>5. keyed[n].knob = Opt(bound, keys[n], TransparentKnob)
      BY <2>1, <2>3, <2>4
    <2>6. \/ \E k \in DOMAIN bound : keyed[n].knob = bound[k]
          \/ keyed[n].knob = TransparentKnob
      BY <2>5 DEF Opt
    <2> QED BY <2>1, <2>6
  <1> QED BY <1>3, <1>4

\* What is written on keys, combos and knobs was looked at, a knob that does
\* nothing apart: firmwareConf.ts someAction.
LEMMA WrittenAreScanned ==
    ASSUME NEW c, IsConfiguration(c), NEW a \in BoundActions(c)
    PROVE  a \in ScannedActions(c) \/ a.type = "transparent"
  <1> PICK p \in KeyPlaces(c) \cup ComboPlaces(c) \cup TurnPlaces(c) : a = ActionAt(c, p)
    BY DEF BoundActions, ActionsAt
  <1>1. CASE p \in KeyPlaces(c)
    <2>1. PICK li \in DOMAIN c.layers : \E b \in DOMAIN c.layers[li].bindings : p = <<6, li, b, 0>>
      BY <1>1 DEF KeyPlaces
    <2>2. PICK b \in DOMAIN c.layers[li].bindings : p = <<6, li, b, 0>>
      BY <2>1
    <2>3. a = c.layers[li].bindings[b]
      BY <2>2, PlacesOf
    <2> QED BY <2>3 DEF ScannedActions, ToSet
  <1>2. CASE p \in ComboPlaces(c)
    <2>1. PICK i \in DOMAIN c.combos : p = <<5, i, 0, 0>>
      BY <1>2 DEF ComboPlaces
    <2>2. a = c.combos[i].action
      BY <2>1, PlacesOf
    <2> QED BY <2>2 DEF ScannedActions, ToSet
  <1>3. CASE p \in TurnPlaces(c)
    <2>1. PICK li \in DOMAIN c.layers : \E e \in DOMAIN KnobsOf(c, li) : \E way \in {1, 2} :
             ~TurnsByKeys(KnobsOf(c, li)[e].knob) /\ p = <<3, li, e, way>>
      BY <1>3 DEF TurnPlaces
    <2>2. PICK e \in DOMAIN KnobsOf(c, li) : \E way \in {1, 2} :
             ~TurnsByKeys(KnobsOf(c, li)[e].knob) /\ p = <<3, li, e, way>>
      BY <2>1
    <2> DEFINE s == KnobsOf(c, li)[e]
    <2>3. a \in {s.knob.cw, s.knob.ccw}
      <3>1. p = <<3, li, e, 1>> \/ p = <<3, li, e, 2>>
        BY <2>2
      <3>2. /\ ActionAt(c, <<3, li, e, 1>>) = s.knob.cw
            /\ ActionAt(c, <<3, li, e, 2>>) = s.knob.ccw
        BY <2>2, PlacesOf
      <3> QED BY <3>1, <3>2
    <2> DEFINE layer == c.layers[li]
               bound == Part(layer, "encoderBindings")
    <2>4. IsKnob(s.knob)
      BY KnobsListed
    <2>5. PICK way \in DOMAIN s.knob : a = s.knob[way]
      BY <2>3, <2>4 DEF IsKnob
    <2>6. CASE \E i \in DOMAIN layer.encoders : s.knob = layer.encoders[i]
      <3>1. a \in KnobTurns(layer.encoders)
        BY <2>5, <2>6 DEF KnobTurns
      <3> QED BY <3>1 DEF ScannedActions
    <2>7. CASE \E k \in DOMAIN bound : s.knob = bound[k]
      <3>1. a \in KnobTurns(bound)
        BY <2>5, <2>7 DEF KnobTurns
      <3> QED BY <3>1 DEF ScannedActions
    <2>8. CASE s.knob = TransparentKnob
      BY <2>5, <2>8 DEF TransparentKnob
    <2>9. \/ \E i \in DOMAIN layer.encoders : s.knob = layer.encoders[i]
          \/ \E k \in DOMAIN bound : s.knob = bound[k]
          \/ s.knob = TransparentKnob
      BY KnobsFrom
    <2> QED BY <2>6, <2>7, <2>8, <2>9
  <1> QED BY <1>1, <1>2, <1>3

\* The behaviours that need an option come from the actions it is tested by:
\* compilers/zmk/bindings.ts, firmwareConf.ts.
LEMMA LightByTarget ==
    ASSUME NEW a
    PROVE  /\ a.target = "per_key" => EmitLighting(a).ref.to[1] = "none"
           /\ a.target = "backlight" => EmitLighting(a).ref.to[1] \in {"none", "bl"}
           /\ a.target = "underglow" => EmitLighting(a).ref.to[1] = "rgb_ug"
  <1>1. EmitBacklight(a).ref.to[1] \in {"none", "bl"}
    BY DEF EmitBacklight, Quiet, Refused, Noted, None, Zmk, Ref
  <1>2. EmitUnderglow(a).ref.to[1] = "rgb_ug"
    BY DEF EmitUnderglow, Quiet, Noted, Zmk, Ref
  <1>3. Refused("per-key lighting").ref.to[1] = "none"
    BY DEF Refused, Noted, None, Zmk, Ref
  <1>4. a.target = "per_key" => EmitLighting(a) = Refused("per-key lighting")
    BY DEF EmitLighting
  <1>5. a.target = "backlight" => EmitLighting(a) = EmitBacklight(a)
    BY DEF EmitLighting
  <1>6. a.target = "underglow" => EmitLighting(a) = EmitUnderglow(a)
    BY DEF EmitLighting
  <1> QED BY <1>1, <1>2, <1>3, <1>4, <1>5, <1>6

NeedsOption(a, option) ==
    \/ option = "pointing" /\ a.type \in PointerTypes
    \/ option = "softOff" /\ a.type = "soft_off"
    \/ option = "extPower" /\ a.type = "ext_power"
    \/ option = "backlight" /\ a.type = "lighting" /\ a.target = "backlight"
    \/ option = "underglow" /\ a.type = "lighting" /\ a.target = "underglow"

LEMMA OptionNeeded ==
    ASSUME NEW c, NEW a, IsAction(a), a.type \notin OwnTypes, IsZmk(EmitBinding(c, a).ref),
           EmitBinding(c, a).ref.to[1] \in DOMAIN OptionOf
    PROVE  NeedsOption(a, OptionOf[EmitBinding(c, a).ref.to[1]])
  <1> DEFINE b == EmitBinding(c, a).ref.to[1]
  <1>1. /\ b \in {"mkp", "mmv", "msc", "soft_off", "ext_power", "bl", "rgb_ug"}
        /\ b \in {"mkp", "mmv", "msc"} => OptionOf[b] = "pointing"
        /\ b = "soft_off" => OptionOf[b] = "softOff"
        /\ b = "ext_power" => OptionOf[b] = "extPower"
        /\ b = "bl" => OptionOf[b] = "backlight"
        /\ b = "rgb_ug" => OptionOf[b] = "underglow"
    BY DEF OptionOf
  <1>2. CASE a.type = "key_press"
    <2>1. EmitBinding(c, a) = Quiet(Zmk("kp", <<PressCell(a.key, a.mods)>>))
      BY <1>2, BindingByType, Zenon
    <2>2. b = "kp"
      BY <2>1 DEF Quiet, Zmk, Ref
    <2> QED BY <1>1, <2>2
  <1>3. CASE a.type = "tap_hold"
    <2>1. EmitBinding(c, a) = EmitTapHold(c, a)
      BY <1>3, BindingByType, Zenon
    <2>2. EmitTapHold(c, a).ref.to \in {Generated(c, Signature(a)), <<"lt">>, <<"mt">>}
      BY DEF EmitTapHold, Ref
    <2>3. Generated(c, Signature(a)) \notin ZmkLabels
      BY MadeAreNotZmk DEF Generated
    <2>4. b \in {"lt", "mt"}
      BY <2>1, <2>2, <2>3 DEF IsZmk
    <2> QED BY <1>1, <2>4
  <1>4. CASE a.type = "layer"
    <2>1. EmitBinding(c, a).ref
          = Zmk(LayerBehaviors[a.mode], <<LayerCell(LayerNumber(c, a.layer))>>)
      BY <1>4, BindingByType, Zenon
    <2>2. LayerBehaviors[a.mode] \in {"mo", "tog", "to", "sl"}
      BY <1>4 DEF IsAction, LayerBehaviors
    <2>3. b \in {"mo", "tog", "to", "sl"}
      BY <2>1, <2>2 DEF Zmk, Ref
    <2> QED BY <1>1, <2>3
  <1>5. CASE a.type = "output"
    <2>1. EmitBinding(c, a) = Quiet(EmitOutput(a))
      BY <1>5, BindingByType, Zenon
    <2>2. b \in {"out", "bt"}
      BY <2>1, OutputWritten DEF Quiet
    <2> QED BY <1>1, <2>2
  <1>6. CASE a.type = "lighting"
    <2>1. EmitBinding(c, a) = EmitLighting(a)
      BY <1>6, BindingByType, Zenon
    <2>2. a.target \in {"underglow", "backlight", "per_key"}
      BY <1>6 DEF IsAction
    <2>3. \/ a.target = "backlight" /\ b = "bl"
          \/ a.target = "underglow" /\ b = "rgb_ug"
      BY <1>1, <2>1, <2>2, LightByTarget
    <2> QED BY <1>1, <1>6, <2>3 DEF NeedsOption
  <1>8. CASE a.type \in DOMAIN BareBehaviors
    <2>1. EmitBinding(c, a) = Quiet(Zmk(BareBehaviors[a.type], <<>>))
      BY <1>8, BindingByType, Zenon
    <2>2. b = BareBehaviors[a.type]
      BY <2>1 DEF Quiet, Zmk, Ref
    <2>3. /\ BareBehaviors[a.type] = "soft_off" => a.type = "soft_off"
          /\ BareBehaviors[a.type] \notin {"mkp", "mmv", "msc", "ext_power", "bl", "rgb_ug"}
      BY <1>8 DEF BareBehaviors
    <2> QED BY <1>1, <2>2, <2>3 DEF NeedsOption
  <1>9. CASE a.type \in DOMAIN KeyBehaviors
    <2>1. EmitBinding(c, a) = Quiet(Zmk(KeyBehaviors[a.type], <<KeyCell(a.key)>>))
      BY <1>9, BindingByType, Zenon
    <2>2. b = KeyBehaviors[a.type]
      BY <2>1 DEF Quiet, Zmk, Ref
    <2>3. KeyBehaviors[a.type] \in {"sk", "kt"}
      BY <1>9 DEF KeyBehaviors
    <2> QED BY <1>1, <2>2, <2>3
  <1>10. CASE a.type \in DOMAIN WordBehaviors
    <2>1. EmitBinding(c, a) = Quiet(Zmk(WordBehaviors[a.type], <<WordCell(WordOf(a))>>))
      BY <1>10, BindingByType, Zenon
    <2>2. b = WordBehaviors[a.type]
      BY <2>1 DEF Quiet, Zmk, Ref
    <2>3. \/ a.type = "ext_power" /\ WordBehaviors[a.type] = "ext_power"
          \/ a.type \in PointerTypes /\ WordBehaviors[a.type] \in {"mkp", "mmv", "msc"}
      BY <1>10 DEF WordBehaviors, PointerTypes
    <2> QED BY <1>1, <2>2, <2>3 DEF NeedsOption
  <1>11. CASE a.type \notin RichTypes \cup OwnTypes \cup DOMAIN BareBehaviors
                            \cup DOMAIN KeyBehaviors \cup DOMAIN WordBehaviors
    <2>1. PICK what : EmitBinding(c, a) = Refused(what)
      BY <1>11, BindingByType, Zenon
    <2>2. b = "none"
      BY <2>1 DEF Refused, Noted, None, Zmk, Ref
    <2> QED BY <1>1, <2>2
  <1> QED BY <1>2, <1>3, <1>4, <1>5, <1>6, <1>8, <1>9, <1>10, <1>11 DEF RichTypes

\* An option that is needed is set, unless the author says otherwise.
LEMMA OptionsOnOf ==
    ASSUME NEW c, IsConfiguration(c)
    PROVE  OptionsOn(c)
  <1> SUFFICES ASSUME NEW b \in BehaviorsOf(c) \cap DOMAIN OptionOf,
                      OptionOf[b] \notin DOMAIN FirmwareConfig(c)
               PROVE  OptionOf[b] \in DeriveZmkConf(c)
    BY DEF OptionsOn
  <1> DEFINE option == OptionOf[b]
  <1>1. PICK a \in BoundActions(c) : /\ IsZmk(EmitBinding(c, a).ref) /\ a.type \notin OwnTypes
                                    /\ b = EmitBinding(c, a).ref.to[1]
    BY DEF BehaviorsOf
  <1>2. IsAction(a)
    BY WrittenAtPlaces DEF BoundActions, ActionsAt, WrittenPlaces
  <1>3. NeedsOption(a, option)
    BY <1>1, <1>2, OptionNeeded
  <1>4. a \in ScannedActions(c)
    BY <1>3, WrittenAreScanned DEF NeedsOption, PointerTypes
  <1>5. option \in {"pointing", "softOff", "extPower", "backlight", "underglow"}
    BY <1>3 DEF NeedsOption
  <1>6. UsedFlags(c)[option]
    <2>1. CASE option = "pointing"
      <3>1. Uses(c, PointerTypes)
        BY <1>3, <1>4, <2>1 DEF NeedsOption, Uses
      <3>2. UsedFlags(c).pointing
        BY <3>1, Zenon DEF UsedFlags
      <3> QED BY <2>1, <3>2
    <2>2. CASE option = "softOff"
      <3>1. Uses(c, {"soft_off"})
        BY <1>3, <1>4, <2>2 DEF NeedsOption, Uses
      <3>2. UsedFlags(c).softOff
        BY <3>1, Zenon DEF UsedFlags
      <3> QED BY <2>2, <3>2
    <2>3. CASE option = "extPower"
      <3>1. Uses(c, {"ext_power"})
        BY <1>3, <1>4, <2>3 DEF NeedsOption, Uses
      <3>2. UsedFlags(c).extPower
        BY <3>1, Zenon DEF UsedFlags
      <3> QED BY <2>3, <3>2
    <2>4. CASE option = "backlight"
      <3>1. IsLit(c, "backlight", "backlightPwm")
        BY <1>3, <1>4, <2>4 DEF NeedsOption, IsLit, UsesLight
      <3>2. UsedFlags(c).backlight
        BY <3>1, Zenon DEF UsedFlags
      <3> QED BY <2>4, <3>2
    <2>5. CASE option = "underglow"
      <3>1. IsLit(c, "underglow", "ws2812")
        BY <1>3, <1>4, <2>5 DEF NeedsOption, IsLit, UsesLight
      <3>2. UsedFlags(c).underglow
        BY <3>1, Zenon DEF UsedFlags
      <3> QED BY <2>5, <3>2
    <2> QED BY <1>5, <2>1, <2>2, <2>3, <2>4, <2>5
  <1>7. option \in ZmkFlags
    BY <1>5 DEF ZmkFlags
  <1>8. ResolveZmkConfFlags(c)[option]
    BY <1>6, <1>7 DEF ResolveZmkConfFlags, Opt
  <1> QED BY <1>5, <1>7, <1>8 DEF DeriveZmkConf

----------------------------------------------------------------------------
\* The theorems.  Each is about what is saved as long as it is a configuration
\* with all its parts, whatever the configuration and whatever names, slugs and
\* units there are.
LEMMA SavedIsConfiguration ==
    ASSUME SavedTyped, saved.format \in {"source", "v1"}
    PROVE  IsConfiguration(saved.config)
  <1>1. saved.format # "none"
    OBVIOUS
  <1> QED BY <1>1 DEF SavedTyped

\* The exported keymap holds together, as far as KeymapWhole says: what it refers to
\* is there with as many parameters, but for a macro called with more or less than it
\* takes and a definition that is not there; where the labels of the definitions are
\* apart from each other, from those of the nodes made on the way and from ZMK's
\* behaviours, no label stands twice; what is written as none is said; the knobs keep
\* their places on a board with one kind of them.  What is written as something else
\* without a word, as some lights are, is not counted.
\* compilers/zmk/index.ts, bindings.ts, behaviors.ts.
THEOREM KeymapWholeTheorem == []SavedTyped => []KeymapWhole
  <1>1. SavedTyped => KeymapWhole
    <2> SUFFICES ASSUME SavedTyped, saved.format \in {"source", "v1"}
                 PROVE  /\ ReferencesResolve(saved.config) /\ LabelsApart(saved.config)
                        /\ NothingLostSilently(saved.config) /\ SensorsAligned(saved.config)
      BY DEF KeymapWhole
    <2>1. IsConfiguration(saved.config)
      BY SavedIsConfiguration
    <2> QED BY <2>1, ReferencesResolveOf, LabelsApartOf, NothingLostOf, SensorsAlignedOf
  <1> QED BY <1>1, PTL

\* The exported board holds together: derived cells are apart, all cells are in the
\* matrix, each half has the columns of its keys, pins stand at their keys' cells.
\* matrix.ts, compilers/qmkKeyboardJson.ts, compilers/zmk/overlay.ts.
THEOREM BoardWiredTheorem == []SavedTyped => []BoardWired
  <1>1. SavedTyped => BoardWired
    <2> SUFFICES ASSUME SavedTyped, saved.format \in {"source", "v1"}
                 PROVE  /\ CellsHold(saved.config) /\ HalvesHold(saved.config)
                        /\ PinsKept(saved.config)
      BY DEF BoardWired
    <2>1. IsConfiguration(saved.config)
      BY SavedIsConfiguration
    <2>2. /\ IsBoard(saved.config.geometry) /\ Placed(saved.config.geometry)
          /\ IsWiring(saved.config)
      BY <2>1, PartsOf
    <2> QED BY <2>1, <2>2, CellsHoldOf, HalvesHaveTheirKeys, PinsKeptOf
  <1> QED BY <1>1, PTL

\* The exported project builds: each shield has its file, but for a split board of
\* other than two halves, each label a file refers to is in it or in one it
\* includes, the options of the behaviours are on unless the author says
\* otherwise, and knobs have a map where the feature is on.
\* bundle.ts, firmwareConf.ts, compilers/zmk/overlay.ts, compilers/qmk/index.ts.
THEOREM ProjectBuildsTheorem == []SavedTyped => []ProjectBuilds
  <1>1. SavedTyped => ProjectBuilds
    <2> SUFFICES ASSUME SavedTyped, saved.format \in {"source", "v1"}
                 PROVE  /\ ShieldsHaveFiles(saved.config) /\ LabelsGiven(saved.config)
                        /\ OptionsOn(saved.config) /\ KnobsMapped(saved.config)
      BY DEF ProjectBuilds
    <2>1. IsConfiguration(saved.config)
      BY SavedIsConfiguration
    <2> QED BY <2>1, ShieldsHaveFilesOf, LabelsGivenOf, OptionsOnOf, KnobsMappedOf
  <1> QED BY <1>1, PTL

=============================================================================
