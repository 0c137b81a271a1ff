----------------------------- MODULE BoardWiring -----------------------------
\* How a configuration's board is wired: the cell of each key, the size of the
\* matrix, the controller and the pins.  A friendly pin label is a prefix with a
\* number, <<"GP", 4>>; a blank one is empty.
EXTENDS KeyMatrix

\* A part of a record that may be missing is an empty one.
Part(r, f) == Opt(r, f, <<>>)
Pins(c) == [rows |-> Part(Part(c.keyboard, "pins"), "rows"),
            cols |-> Part(Part(c.keyboard, "pins"), "cols")]
HasPins(c) == Pins(c).rows # <<>> /\ Pins(c).cols # <<>>

\* resolveKeyMatrix: what the key says, else the board's transform, else derived.
ResolvedCell(c, i) ==
    CASE "matrix" \in DOMAIN c.geometry[i] -> c.geometry[i].matrix
      [] "matrix" \notin DOMAIN c.geometry[i]
         /\ i \in DOMAIN Part(Part(c.hardware, "transform"), "map") -> c.hardware.transform.map[i]
      [] OTHER -> DerivedCell(c.geometry, i)
ResolveKeyMatrix(c) == <<>> \o [i \in DOMAIN c.geometry |-> ResolvedCell(c, i)]

\* matrixDims and materializeMatrix: as large as anything that is said and used.
Reach(declared, used) == Max(declared \cup {n + 1 : n \in used})
MatrixRows(c, map) ==
    Reach({Opt(Part(c.keyboard, "matrix"), "rows", 0), Opt(Part(c.hardware, "transform"), "rows", 0),
           Len(Pins(c).rows)}, {map[i][1] : i \in DOMAIN map})
MatrixColumns(c, map) ==
    Reach({Opt(Part(c.keyboard, "matrix"), "cols", 0),
           Opt(Part(c.hardware, "transform"), "columns", 0), Len(Pins(c).cols)},
          {map[i][2] : i \in DOMAIN map})
DiodeDirection(c) ==
    LET kscan == Part(c.hardware, "kscan")
    IN  Opt(Part(c.keyboard, "matrix"), "diodeDirection",
            IF Opt(kscan, "type", "") = "matrix" THEN kscan.diodeDirection ELSE "col2row")
MaterializeMatrix(c) ==
    LET map == ResolveKeyMatrix(c)
    IN  [rows |-> MatrixRows(c, map), columns |-> MatrixColumns(c, map), map |-> map,
         diodeDirection |-> DiodeDirection(c)]

\* matrixSplit: the halves of a board, each with its share of the columns.
MatrixSplit(board) ==
    [g \in 0..GroupCount(board) - 1 |->
        [rows |-> GroupRows(board, Group(board, g)),
         columns |-> GroupColumns(board, Group(board, g)),
         colOffset |-> ColumnOffset(board, g), keyIndices |-> Group(board, g)]]

----------------------------------------------------------------------------
\* resolveController: the controller's own field, else the hardware's older one;
\* no name is "".
NoName == ""
ControllerName(c, f) ==
    LET named == Part(c.keyboard, "controller")
    IN  IF f \in DOMAIN named THEN named[f] ELSE Opt(c.hardware, f, NoName)
BoardOf(c) == ControllerName(c, "board")
ShieldOf(c) == ControllerName(c, "shield")

\* The tables of friendly labels: a board has so many pins behind one phandle,
\* under some prefixes.
PinTable(phandle, prefixes, count) == [phandle |-> phandle, prefixes |-> prefixes, count |-> count]
NexusTable(phandle, count) == PinTable(phandle, {"P", "D", ""}, count)
Rp2040Table(count) == PinTable("gpio0", {"GP", ""}, count)
ZMK_PIN_MAPS ==
    [nice_nano_v2 |-> NexusTable("pro_micro", 22), pro_micro |-> NexusTable("pro_micro", 22),
     sparkfun_pro_micro_rp2040 |-> NexusTable("pro_micro", 22),
     seeeduino_xiao_ble |-> NexusTable("xiao_d", 11),
     seeeduino_xiao_rp2040 |-> NexusTable("xiao_d", 11),
     rp2040 |-> Rp2040Table(30), rpi_pico |-> Rp2040Table(30)]

BlankPin == <<>>
Unresolved == <<>>
ResolveZmkPin(board, label) ==
    IF /\ label # BlankPin /\ board \in DOMAIN ZMK_PIN_MAPS
       /\ label[1] \in ZMK_PIN_MAPS[board].prefixes /\ label[2] \in 0..ZMK_PIN_MAPS[board].count - 1
    THEN <<ZMK_PIN_MAPS[board].phandle, label[2]>> ELSE Unresolved

\* QMK names most pins as they are printed; the AVR Pro Micro does not.
ProMicroPorts ==
    <<"D2", "D1", "D0", "D4", "C6", "D7", "E6", "B4", "B5", "B6">>
ProMicroFarPorts ==
    (0 :> "D3") @@ (14 :> "B3") @@ (15 :> "B1") @@ (16 :> "B2")
    @@ (18 :> "F7") @@ (19 :> "F6") @@ (20 :> "F5") @@ (21 :> "F4")
QMK_PIN_ALIASES == ProMicroPorts @@ ProMicroFarPorts
ResolveQmkPin(board, label) ==
    IF board = "pro_micro" /\ label # BlankPin /\ label[1] = "D" /\ label[2] \in DOMAIN QMK_PIN_ALIASES
    THEN <<QMK_PIN_ALIASES[label[2]]>> ELSE label
=============================================================================
