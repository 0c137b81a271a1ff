------------------------------ MODULE KleBoard ------------------------------
\* The definition a board is exported as for VIA and Vial, rows of keys that say
\* how far each is from the one before, and what this library itself reads from
\* such a definition.  Cap colours and USB numbers are left out.
EXTENDS BoardWiring

\* What is on a cap: its cell, the layout option it belongs to and, for Vial,
\* whether it is a knob.
KeyLegend(c, m, i, vial) ==
    [cell |-> m.map[i], option |-> Part(c.geometry[i], "option"),
     knob |-> vial /\ Opt(c.geometry[i], "element", "key") = "encoder"]

\* buildKeymap: a row for each height there is a key at, from left to right.  A
\* row is taken to begin one below the row before it.
LeftToRight(board, i, j) ==
    board[i].x < board[j].x \/ (board[i].x = board[j].x /\ i < j)
KleBands(board) == SetToSortSeq({board[i].y : i \in DOMAIN board}, <)
RowKeys(board, y) ==
    SetToSortSeq({i \in DOMAIN board : board[i].y = y}, LAMBDA i, j : LeftToRight(board, i, j))
\* Mutant: a step from where the key before begins.
KleItemFromStart(c, m, keys, n, row, vial) ==
    LET key == c.geometry[keys[n]]
    IN  [dx |-> IF n = 1 THEN key.x ELSE key.x - c.geometry[keys[n - 1]].x,
         dy |-> IF n = 1 THEN key.y - (row - 1) * Unit ELSE 0,
         w |-> key.w, h |-> key.h, legend |-> KeyLegend(c, m, keys[n], vial)]

KleItem(c, m, keys, n, row, vial) ==
    LET board == c.geometry
        key == board[keys[n]]
        before == board[keys[n - 1]]
    IN  [dx |-> IF n = 1 THEN key.x ELSE key.x - (before.x + before.w),
         dy |-> IF n = 1 THEN key.y - (row - 1) * Unit ELSE 0,
         w |-> key.w, h |-> key.h, legend |-> KeyLegend(c, m, keys[n], vial)]
BuildKeymap(c, m, vial) ==
    LET bands == KleBands(c.geometry)
    IN  [row \in DOMAIN bands |->
            LET keys == RowKeys(c.geometry, bands[row])
            IN  [n \in DOMAIN keys |-> KleItem(c, m, keys, n, row, vial)]]

\* An option with two choices or more is a list, else a switch.
KleLabel(o) ==
    <<o.label>> \o (IF Len(Part(o, "choices")) >= 2 THEN o.choices ELSE <<>>)
BuildViaDefinition(c, vial) ==
    LET m == MaterializeMatrix(c)
        options == Part(c.keyboard, "layoutOptions")
    IN  [rows |-> m.rows, columns |-> m.columns,
         labels |-> [i \in DOMAIN options |-> KleLabel(options[i])],
         keymap |-> BuildKeymap(c, m, vial)]

----------------------------------------------------------------------------
\* What Vial has besides: the number of the board and the keys that unlock it.
Vial(c) == Part(c.keyboard, "vial")
PlaceholderUid == <<>>
Unlocking(c) == Part(Vial(c), "unlockKeys")
IsInsecure(c) == Opt(Vial(c), "insecure", FALSE) \/ Unlocking(c) = <<>>
VialSecurity(c) ==
    [uid |-> IF Len(Part(Vial(c), "uid")) = 8 THEN Vial(c).uid ELSE PlaceholderUid,
     combo |-> IF IsInsecure(c) THEN <<>> ELSE Unlocking(c)]

IsCellOf(m, cell) == cell[1] < m.rows /\ cell[2] < m.columns
SaysOfVial(c) ==
    (IF Len(Part(Vial(c), "uid")) = 8 THEN {} ELSE {"placeholder uid"})
    \cup (IF Unlocking(c) = <<>> /\ ~Opt(Vial(c), "insecure", FALSE) THEN {"insecure"} ELSE {})
    \cup (IF \A cell \in ToSet(Unlocking(c)) : IsCellOf(MaterializeMatrix(c), cell) THEN {}
          ELSE {"unlock key outside"})

----------------------------------------------------------------------------
\* deserializeKle: the steps add up, those down from row to row too.
Across(row, n) ==
    MapThenSumSet(LAMBDA k : row[k].dx, 1..n) + MapThenSumSet(LAMBDA k : row[k].w, 1..n - 1)
Down(rows, r) == (r - 1) * Unit + MapThenSumSet(LAMBDA k : rows[k][1].dy, 1..r)
PlacedRow(rows, r) ==
    [n \in DOMAIN rows[r] |->
        [x |-> Across(rows[r], n), y |-> Down(rows, r), w |-> rows[r][n].w, h |-> rows[r][n].h,
         legend |-> rows[r][n].legend]]
DeserializeKle(rows) == FlattenSeq(<<>> \o [r \in DOMAIN rows |-> PlacedRow(rows, r)])

\* parseKeyboardDef: knobs are counted by their row, the first of a row is the
\* one; a key whose cell is not in the matrix is skipped.
ParseKeyboardDef(def) ==
    LET caps == DeserializeKle(def.keymap)
        isFirst(t) == \A u \in DOMAIN caps :
                         (caps[u].legend.knob /\ caps[u].legend.cell[1] = caps[t].legend.cell[1])
                         => t <= u
        knobs == SelectSeq([t \in DOMAIN caps |-> t], LAMBDA t : caps[t].legend.knob /\ isFirst(t))
        keys == SelectSeq(caps, LAMBDA k : ~k.legend.knob /\ IsCellOf(def, k.legend.cell))
    IN  [layoutKeys |-> [i \in DOMAIN keys |-> Pick(keys[i], {"x", "y", "w", "h"})],
         rowColMap |-> [i \in DOMAIN keys |-> keys[i].legend.cell],
         encoderSlots |-> [e \in DOMAIN knobs |-> Pick(caps[knobs[e]], {"x", "y"})],
         encoderIndices |-> [e \in DOMAIN knobs |-> caps[knobs[e]].legend.cell[1]]]
=============================================================================
