----------------------------- MODULE ZmkOverlay -----------------------------
\* The devicetree files a board is exported as for ZMK: where its keys are, how
\* they are wired, the peripherals it says it has, and what is left to be filled
\* in.  A file is the labels it defines, the labels it refers to, its key scan
\* and what was said while it was written; labels of the SoC are not in it.
EXTENDS BoardWiring

CONSTANTS
    Slug(_),         \* a name as a file may have it
    WithoutSide(_)   \* a name without _left or _right at its end

\* The transform of the wiring that was given, else places rounded to whole keys
\* and ranked, which two keys may share.
RoundUnits(v) == (2 * v + Unit) \div (2 * Unit)
DenseRank(values, v) == Cardinality({u \in values : u < v})
RowLines(board) == {RoundUnits(board[i].y) : i \in DOMAIN board}
ColumnLines(board) == {RoundUnits(board[i].x) : i \in DOMAIN board}
PlacedTransform(board) ==
    [rows |-> Cardinality(RowLines(board)), columns |-> Cardinality(ColumnLines(board)),
     map |-> <<>> \o [i \in DOMAIN board |->
                         <<DenseRank(RowLines(board), RoundUnits(board[i].y)),
                           DenseRank(ColumnLines(board), RoundUnits(board[i].x))>>]]
IsWired(c) == "transform" \in DOMAIN c.hardware
EmitMatrixTransform(c) == IF IsWired(c) THEN c.hardware.transform ELSE PlacedTransform(c.geometry)

\* A list of pins: those that resolve are written, the others a comment and a word.
GpioList(board, labels, role) ==
    [i \in DOMAIN labels |-> [pin |-> ResolveZmkPin(board, labels[i]), role |-> role]]
SaysOfPins(board, labels) ==
    {IF labels[i] = BlankPin THEN "no pin" ELSE "unknown pin" :
     i \in {j \in DOMAIN labels : ResolveZmkPin(board, labels[j]) = Unresolved}}

\* The key scan: as given, else made from the labels of rows and columns, else
\* from those of the keys.
Kscan(type, lists, direction, says) ==
    [type |-> type, lists |-> lists, direction |-> direction, says |-> says]
NoKscan == Kscan("none", <<>>, "", {})
GivenKscan(k) ==
    IF k.type = "matrix"
    THEN Kscan("matrix", [rows |-> k.rowGpios, cols |-> k.colGpios], k.diodeDirection, {})
    ELSE Kscan("direct", [inputs |-> k.inputGpios], "", {})
KeyPins(c) == [i \in DOMAIN c.geometry |-> Opt(c.geometry[i], "pin", BlankPin)]
SynthKscan(c) ==
    LET board == BoardOf(c)
        pins == Pins(c)
    IN  CASE HasPins(c) ->
                Kscan("matrix", [rows |-> GpioList(board, pins.rows, "input"),
                                 cols |-> GpioList(board, pins.cols, "output")], "col2row",
                      SaysOfPins(board, pins.rows) \cup SaysOfPins(board, pins.cols))
          [] ~HasPins(c) /\ \E i \in DOMAIN c.geometry : KeyPins(c)[i] # BlankPin ->
                Kscan("direct", [inputs |-> GpioList(board, KeyPins(c), "direct")], "",
                      SaysOfPins(board, KeyPins(c)))
          [] OTHER -> NoKscan
EmitKscan(c) ==
    IF "kscan" \in DOMAIN c.hardware THEN GivenKscan(c.hardware.kscan) ELSE SynthKscan(c)

----------------------------------------------------------------------------
\* A pin of a peripheral is <<port, number>> as nRF boards print it; any other
\* spelling is no pin.  Pin-mux is written for nRF boards; for the others there is
\* a pair of groups to fill in, and a word.
Pair(instance) == {<<instance, "default">>, <<instance, "sleep">>}
NrfBoards == {"nice_nano_v2", "seeeduino_xiao_ble"}
SaysOfMux(c, pin, what) == IF BoardOf(c) \in NrfBoards /\ pin # BlankPin THEN {} ELSE {what}

Peripherals == {"backlightPwm", "ws2812", "extPowerCtrl", "studioAcm"}
Given(hw, p) == IF p = "studioAcm" THEN Opt(hw, p, FALSE) ELSE p \in DOMAIN hw
Label(name) == <<name, "node">>
MuxedBus(hw) ==
    {hw[p][IF p = "ws2812" THEN "spi" ELSE "instance"] :
        p \in {q \in {"backlightPwm", "ws2812"} : q \in DOMAIN hw}}
SaysOfPeripherals(c) ==
    LET hw == c.hardware
    IN  UNION {IF "backlightPwm" \in DOMAIN hw
               THEN SaysOfMux(c, hw.backlightPwm.pin, "backlight pin-mux") ELSE {},
               IF "ws2812" \in DOMAIN hw THEN SaysOfMux(c, hw.ws2812.dataPin, "underglow pin-mux")
               ELSE {},
               IF "extPowerCtrl" \in DOMAIN hw /\ hw.extPowerCtrl.controlGpio = BlankPin
               THEN {"ext-power pin"} ELSE {}}

\* The peripherals with their pin-mux, and what the chosen node picks.  Mutant:
\* the pin-mux of nRF boards only.
UnmuxedLabels(hw) == {Label(p) : p \in {q \in Peripherals : Given(hw, q)}}

PeripheralLabels(hw) ==
    {Label(p) : p \in {q \in Peripherals : Given(hw, q)}}
    \cup UNION {Pair(bus) : bus \in MuxedBus(hw)}
Chosen(hasKscan, hw) ==
    (IF hasKscan THEN {Label("kscan0"), Label("physical_layout_default")} ELSE {})
    \cup {Label(p) : p \in {q \in Peripherals : Given(hw, q)}}
PinctrlRefs(hw) == UNION {Pair(bus) : bus \in MuxedBus(hw)}

\* What is left to the author.
NotGenerated(hasKscan, hw) ==
    (IF hasKscan THEN {} ELSE {"kscan", "chosen", "gpio"})
    \cup {"pinctrl", "encoders", "display"}
    \cup (IF {"backlightPwm", "ws2812"} \cap DOMAIN hw = {} THEN {"lights"} ELSE {})
    \cup (IF "extPowerCtrl" \in DOMAIN hw THEN {} ELSE {"power"})

----------------------------------------------------------------------------
\* The files.  One for a whole board.
BoardName(c, f) == Opt(c.keyboard, f, NoName)
FirstNamed(names) == names[Min({i \in DOMAIN names : names[i] # NoName \/ i = Len(names)})]
File(name, includes, labels, refs, kscan, transform) ==
    [name |-> name, includes |-> includes, labels |-> labels, refs |-> refs, kscan |-> kscan,
     transform |-> transform]

EmitOverlay(c) ==
    LET kscan == EmitKscan(c)
        hasKscan == kscan # NoKscan
        hw == c.hardware
    IN  File(<<FirstNamed(<<BoardName(c, "id"), BoardName(c, "name")>>), "overlay">>, {},
             {Label("physical_layout_default"), Label("default_transform")} \cup PeripheralLabels(hw)
             \cup (IF hasKscan THEN {Label("kscan0")} ELSE {}),
             {Label("default_transform")} \cup Chosen(hasKscan, hw) \cup PinctrlRefs(hw), kscan,
             EmitMatrixTransform(c))
SaysOfOverlay(c) ==
    (IF IsWired(c) THEN {} ELSE {"derived transform"})
    \cup EmitKscan(c).says \cup SaysOfPeripherals(c)

\* A split board: a shared file without columns, and a file per half.  The columns
\* of a half are padded with blanks; a right half without any reuses the left's.
Padded(labels, n) == [i \in 1..n |-> IF i \in DOMAIN labels THEN labels[i] ELSE BlankPin]
LeftLabels(c) == Padded(Pins(c).cols, MatrixSplit(c.geometry)[0].columns)
RightLabels(c) ==
    LET halves == MatrixSplit(c.geometry)
        rest == SubSeq(Pins(c).cols, halves[0].columns + 1,
                       Min({Len(Pins(c).cols), halves[0].columns + halves[1].columns}))
    IN  Padded(IF rest = <<>> THEN Pins(c).cols ELSE rest, halves[1].columns)

\* The key scan that was given only lends its direction; its pins are not written.
SplitDirection(c) ==
    LET kscan == Part(c.hardware, "kscan")
    IN  IF Opt(kscan, "type", "") = "matrix" THEN kscan.diodeDirection ELSE "col2row"
RowRole(c) == IF SplitDirection(c) = "col2row" THEN "input" ELSE "output"
ColumnRole(c) == IF SplitDirection(c) = "col2row" THEN "output" ELSE "input"
RowLabels(c) == Padded(Pins(c).rows, DeriveMatrix(c.geometry).rows)

\* zmkSplitShields: the name the two halves share.
SplitBase(c) == Slug(WithoutSide(FirstNamed(<<ShieldOf(c), BoardName(c, "id"), BoardName(c, "name")>>)))
SharedName(c) == <<SplitBase(c), "dtsi">>
HalfOverlay(c, side, labels, offset) ==
    File(<<SplitBase(c), side>>, {SharedName(c)}, {},
         {Label("kscan0")} \cup (IF side = "right" THEN {Label("default_transform")} ELSE {}),
         Kscan("half", [cols |-> GpioList(BoardOf(c), labels, ColumnRole(c))], SplitDirection(c),
               SaysOfPins(BoardOf(c), labels)),
         [colOffset |-> offset])
SharedFile(c) ==
    File(SharedName(c), {},
         {Label("physical_layout_default"), Label("default_transform"), Label("kscan0")}
         \cup PeripheralLabels(c.hardware),
         {Label("default_transform")} \cup Chosen(TRUE, c.hardware) \cup PinctrlRefs(c.hardware),
         Kscan("matrix", [rows |-> GpioList(BoardOf(c), RowLabels(c), RowRole(c))],
               SplitDirection(c), SaysOfPins(BoardOf(c), RowLabels(c))),
         DeriveMatrix(c.geometry))

IsSplit(c) == Opt(c.keyboard, "split", FALSE)
TwoHalves(c) == GroupCount(c.geometry) = 2
SplitFiles(c) ==
    {SharedFile(c), HalfOverlay(c, "left", LeftLabels(c), 0),
     HalfOverlay(c, "right", RightLabels(c), MatrixSplit(c.geometry)[0].columns)}
SaysOfSplit(c) ==
    {"derived transform"} \cup SaysOfPeripherals(c) \cup UNION {f.kscan.says : f \in SplitFiles(c)}

\* What the compiler writes for the board: one file also for a split board that
\* does not fall into two.
OverlayFiles(c) == IF IsSplit(c) /\ TwoHalves(c) THEN SplitFiles(c) ELSE {EmitOverlay(c)}
SaysOfBoard(c) == IF IsSplit(c) /\ TwoHalves(c) THEN SaysOfSplit(c) ELSE SaysOfOverlay(c)
=============================================================================
