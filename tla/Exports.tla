------------------------------- MODULE Exports -------------------------------
\* The project a configuration is downloaded as, for a firmware: the keymap and
\* the board with what its build asks for.  Manifests, workflows, READMEs and the
\* author's own lines are left out; so is the Remappr shield.
EXTENDS ZmkExport, ZmkOverlay, QmkExport, KleBoard

\* resolveZmkConfFlags: what the author said, else what is used; named as the
\* author says them.
ZmkFlags ==
    {"usb", "ble", "studio", "studioLocking", "studioUsbCdc", "softOff", "extPower", "pointing",
     "backlight", "underglow", "usbLogging"}
FirmwareConfig(c) == Part(c.keyboard, "firmwareConfig")
IsLit(c, lamp, node) ==
    HasLights(c, lamp) \/ UsesLight(c, {lamp}) \/ node \in DOMAIN c.hardware
UsedFlags(c) ==
    [usb |-> TRUE, ble |-> FALSE, studio |-> TRUE, studioLocking |-> TRUE,
     studioUsbCdc |-> Opt(FirmwareConfig(c), "studio", TRUE),
     softOff |-> Uses(c, {"soft_off"}),
     extPower |-> Uses(c, {"ext_power"}) \/ "extPowerCtrl" \in DOMAIN c.hardware,
     pointing |-> Uses(c, PointerTypes),
     backlight |-> IsLit(c, "backlight", "backlightPwm"),
     underglow |-> IsLit(c, "underglow", "ws2812"), usbLogging |-> FALSE]
ResolveZmkConfFlags(c) == [f \in ZmkFlags |-> Opt(FirmwareConfig(c), f, UsedFlags(c)[f])]

\* deriveZmkConf: the options that are set; two of them only with a third.
DeriveZmkConf(c) ==
    LET on == ResolveZmkConfFlags(c)
    IN  {f \in ZmkFlags : on[f] /\ (f \in {"studioLocking", "studioUsbCdc"} => on.studio)}

----------------------------------------------------------------------------
\* zmkBundle and zmkSplitBundle: what is built, each under its name, and the files
\* of the board that are shipped for it; the compiler's file for a whole board is
\* not one of a half.
ShieldName(c) == Slug(FirstNamed(<<ShieldOf(c), BoardName(c, "id"), BoardName(c, "name")>>))
ZmkShields(c) ==
    IF IsSplit(c) THEN {<<SplitBase(c), "left">>, <<SplitBase(c), "right">>}
    ELSE {<<ShieldName(c), "overlay">>}
BoardFiles(c) ==
    IF IsSplit(c) THEN {f \in OverlayFiles(c) : f.name[2] # "overlay"}
    ELSE {[f EXCEPT !.name = <<ShieldName(c), "overlay">>] : f \in OverlayFiles(c)}
ZmkBundle(c) ==
    [shields |-> ZmkShields(c), board |-> BoardFiles(c), keymap |-> ZmkKeymap(c),
     conf |-> DeriveZmkConf(c), says |-> ZmkSays(c) \cup SaysOfBoard(c)]

\* qmkBundle: VIA's definition for both, Vial's own besides.
Wants(c, firmware) == ToSet(Part(c.keyboard, "firmware")) \cap firmware # {}
WantsVia(c) == Wants(c, {"via", "vial"})
WantsVial(c) == Wants(c, {"vial"})
QmkRules(c) ==
    (IF WantsVia(c) THEN {"VIA_ENABLE"} ELSE {}) \cup (IF WantsVial(c) THEN {"VIAL_ENABLE"} ELSE {})
QmkBundle(c, target) ==
    [keyboard |-> QmkKeyboardJson(c), keymap |-> QmkKeymap(c, target), rules |-> QmkRules(c),
     definitions |-> (IF WantsVia(c) THEN [via |-> BuildViaDefinition(c, FALSE)] ELSE <<>>)
                     @@ (IF WantsVial(c) THEN [vial |-> BuildViaDefinition(c, TRUE)] ELSE <<>>),
     security |-> IF WantsVial(c) THEN VialSecurity(c) ELSE <<>>,
     says |-> QmkKeymap(c, target).says \cup QmkKeyboardJson(c).says
              \cup (IF WantsVial(c) THEN SaysOfVial(c) ELSE {})]

----------------------------------------------------------------------------
\* What must be true of the keymap.  A reference is good when the file has a node
\* for it that takes as many parameters as it gives.
Definitions(c) ==
    [macro |-> c.macros, tap_dance |-> c.tapDances, mod_morph |-> c.modMorphs,
     hold_tap |-> c.holdTaps]
DefinitionPlaces(c) == UNION {{kind} \X DOMAIN Definitions(c)[kind] : kind \in OwnTypes}
DefinitionAt(c, p) == Definitions(c)[p[1]][p[2]]
\* The definitions' labels are apart from each other, from those of the nodes made
\* on the way, ht_0 or sr_0_1, and from the behaviours of ZMK's.  Nothing in the code
\* sees to it: "a-b" and "a_b" are one label.
LabelAt(c, p) == Own(DefinitionAt(c, p).id)
MadeLabels(c) ==
    {Rotation(s.place) : s \in Rotated(c)} \cup {Generated(c, sig) : sig \in Signatures(c)}
NamesApart(c) ==
    /\ \A p, q \in DefinitionPlaces(c) : LabelAt(c, p) = LabelAt(c, q) => p = q
    /\ \A p \in DefinitionPlaces(c) : LabelAt(c, p) \notin ZmkLabels \cup MadeLabels(c)

\* The action names a definition of its kind, a macro with the one parameter it takes.
Fits(c, a) ==
    \E d \in ToSet(Definitions(c)[a.type]) :
        d.id = a.ref /\ (a.type = "macro" => MacroCells(d) = Len(EmitOwn(a).args))
Misfits(c) == {EmitOwn(a) : a \in {b \in WrittenActions(c) : b.type \in OwnTypes /\ ~Fits(c, b)}}

Resolves(c, ref) ==
    IsZmk(ref) \/ \E n \in ZmkNodes(c) : n.label = ref.to /\ n.cells = Len(ref.args)
KeymapRefs(c) ==
    (UNION {ToSet(n.refs) : n \in ZmkNodes(c)})
    \cup (UNION {ToSet(ZmkLayer(c, li).bindings) \cup ToSet(Sensors(c, li)) : li \in DOMAIN c.layers})
    \cup {ZmkCombo(c, x).ref : x \in ToSet(c.combos)}

ReferencesResolve(c) == \A ref \in KeymapRefs(c) : Resolves(c, ref) \/ ref \in Misfits(c)
LabelsApart(c) ==
    NamesApart(c) => \A nodes \in {ZmkNodes(c)} :
        /\ \A n1, n2 \in nodes : n1.label = n2.label => n1 = n2
        /\ \A n \in nodes : n.label \notin ZmkLabels

\* What ZMK has no behaviour for at all.  What is written as something else is not
\* counted: an underglow action outside its table as the toggle, a tap-hold without
\* the modifiers of its tap.  A definition of the author's may be called none.
NothingLostSilently(c) ==
    \A a \in WrittenActions(c) :
        (EmitBinding(c, a).ref = None /\ a.type \notin OwnTypes \cup {"none"})
        => EmitBinding(c, a).says # {}

\* The knobs of a layer are all of the board's or none, where they are of one kind.
KnobCount(c) == Len(c.boardEncoders) + Len(KeysThatAre(c, "encoder"))
OneKindOfKnob(c) == c.boardEncoders = <<>> \/ KeysThatAre(c, "encoder") = <<>>
SensorsAligned(c) ==
    OneKindOfKnob(c) => \A li \in DOMAIN c.layers : Len(Sensors(c, li)) \in {0, KnobCount(c)}

----------------------------------------------------------------------------
\* What must be true of the board: every key has a cell of its own where the cells
\* are derived, and one within the matrix wherever they come from; of two halves
\* each has the columns of its keys; a key keeps its pin.
CellsHold(c) ==
    LET m == MaterializeMatrix(c)
    IN  /\ WiredApart(DeriveMatrix(c.geometry))
        /\ \A i \in DOMAIN m.map : m.map[i] \in (0..m.rows - 1) \X (0..m.columns - 1)
HalvesHold(c) ==
    LET cells == DerivedMap(c.geometry)
        halves == MatrixSplit(c.geometry)
    IN  /\ DOMAIN c.geometry = UNION {halves[g].keyIndices : g \in DOMAIN halves}
        /\ \A g \in DOMAIN halves : \A half \in {halves[g]} : \A i \in half.keyIndices :
              /\ cells[i][1] \in 0..half.rows - 1
              /\ cells[i][2] - half.colOffset \in 0..half.columns - 1
PinsKept(c) ==
    LET m == MaterializeMatrix(c)
        pins == MatrixPins(c, m)
    IN  ("direct" \in DOMAIN pins /\ \A i, j \in DOMAIN m.map : m.map[i] = m.map[j] => i = j) =>
            \A i \in DOMAIN c.geometry : "pin" \in DOMAIN c.geometry[i] =>
                pins.direct[m.map[i]] = ResolveQmkPin(BoardOf(c), c.geometry[i].pin)

\* Read back, the definition has the keys in their order with their cells, and
\* their places exactly when the rows but the last are a key apart from the top.
ReadingOrder(board) ==
    FlattenSeq(<<>> \o [r \in DOMAIN KleBands(board) |-> RowKeys(board, KleBands(board)[r])])
RowsApart(board) ==
    \A r \in DOMAIN KleBands(board) :
        r = Len(KleBands(board)) \/ KleBands(board)[r] = (r - 1) * Unit
KnobKeys(c) == {i \in DOMAIN c.geometry : Opt(c.geometry[i], "element", "key") = "encoder"}
ReadsBack(c) ==
    LET m == MaterializeMatrix(c)
        order == ReadingOrder(c.geometry)
        read == ParseKeyboardDef(BuildViaDefinition(c, FALSE))
        vial == ParseKeyboardDef(BuildViaDefinition(c, TRUE))
        knobRows == {m.map[i][1] : i \in KnobKeys(c)}
    IN  /\ read.rowColMap = [k \in DOMAIN order |-> m.map[order[k]]]
        /\ RowsApart(c.geometry)
           <=> read.layoutKeys
               = [k \in DOMAIN order |-> Pick(c.geometry[order[k]], {"x", "y", "w", "h"})]
        /\ Len(vial.layoutKeys) = Len(order) - Cardinality(KnobKeys(c))
        /\ ToSet(vial.encoderIndices) = knobRows /\ Len(vial.encoderSlots) = Cardinality(knobRows)

----------------------------------------------------------------------------
\* What must be true of the project: what is built has its file, with the labels it
\* refers to, and the options that the keymap's behaviours need.
ShieldsHaveFiles(c) ==
    ZmkShields(c) \subseteq {f.name : f \in BoardFiles(c)} <=> (IsSplit(c) => TwoHalves(c))
Included(files, f) == {f} \cup {g \in files : g.name \in f.includes}
LabelsGiven(c) ==
    \A files \in {BoardFiles(c)} : \A f \in files :
        f.refs \subseteq UNION {g.labels : g \in Included(files, f)}

OptionOf ==
    [mkp |-> "pointing", mmv |-> "pointing", msc |-> "pointing", soft_off |-> "softOff",
     ext_power |-> "extPower", bl |-> "backlight", rgb_ug |-> "underglow"]
BoundActions(c) == ActionsAt(c, KeyPlaces(c) \cup ComboPlaces(c) \cup TurnPlaces(c))
BehaviorsOf(c) ==
    {EmitBinding(c, a).ref.to[1] :
     a \in {b \in BoundActions(c) : IsZmk(EmitBinding(c, b).ref) /\ b.type \notin OwnTypes}}
OptionsOn(c) ==
    {OptionOf[b] : b \in BehaviorsOf(c) \cap DOMAIN OptionOf}
    \subseteq DeriveZmkConf(c) \cup DOMAIN FirmwareConfig(c)
KnobsMapped(c) == "encoder" \in Features(c) => \A target \in QmkTargets : EncoderMap(c, target) # <<>>

----------------------------------------------------------------------------
VARIABLE saved           \* history: the last document written, until the next edit

\* The parts of a configuration the exports rely on: lists are lists, a layer binds
\* all the knobs of the board's list or none, cells are pairs of numbers.
IsList(s) == Len(s) \in Nat /\ s = [i \in 1..Len(s) |-> s[i]]
IsCell(cell) == cell \in Nat \X Nat
IsBoard(board) ==
    /\ IsList(board) /\ board # <<>>
    /\ \A i \in DOMAIN board :
          /\ {board[i].x, board[i].y, board[i].w} \subseteq Int
          /\ "matrix" \in DOMAIN board[i] => IsCell(board[i].matrix)
IsAction(a) ==
    /\ a.type = "layer" => a.mode \in DOMAIN LayerBehaviors
    /\ a.type = "lighting" => a.target \in {"underglow", "backlight", "per_key"}
IsKnob(knob) == {"cw", "ccw"} \subseteq DOMAIN knob /\ \A way \in DOMAIN knob : IsAction(knob[way])
IsLayerOf(c, layer) ==
    /\ IsList(layer.bindings) /\ \A a \in ToSet(layer.bindings) : IsAction(a)
    /\ IsList(layer.encoders) /\ Len(layer.encoders) \in {0, Len(c.boardEncoders)}
    /\ \A knob \in ToSet(layer.encoders) : IsKnob(knob)
    /\ \A k \in DOMAIN Opt(layer, "encoderBindings", <<>>) : IsKnob(layer.encoderBindings[k])
    /\ \A k \in DOMAIN Opt(layer, "sliderBindings", <<>>) :
          "action" \in DOMAIN layer.sliderBindings[k] => IsAction(layer.sliderBindings[k].action)
HasDefinitions(c) ==
    /\ \A kind \in OwnTypes : IsList(Definitions(c)[kind])
    /\ \A d \in ToSet(c.tapDances) : IsList(d.taps) /\ \A t \in ToSet(d.taps) :
          t.count \in Nat /\ IsAction(t.action)
    /\ \A d \in ToSet(c.modMorphs) : IsList(d.bindings) /\ \A a \in ToSet(d.bindings) : IsAction(a)
IsWiring(c) ==
    /\ Len(Pins(c).rows) \in Nat /\ Len(Pins(c).cols) \in Nat
    /\ {Opt(Part(c.keyboard, "matrix"), "rows", 0), Opt(Part(c.keyboard, "matrix"), "cols", 0),
        Opt(Part(c.hardware, "transform"), "rows", 0),
        Opt(Part(c.hardware, "transform"), "columns", 0)} \subseteq Nat
    /\ \A cell \in ToSet(Part(Part(c.hardware, "transform"), "map")) : IsCell(cell)
IsConfiguration(c) ==
    /\ IsBoard(c.geometry) /\ IsList(c.layers) /\ c.layers # <<>> /\ IsList(c.boardEncoders)
    /\ \A layer \in ToSet(c.layers) : IsLayerOf(c, layer)
    /\ HasDefinitions(c) /\ IsWiring(c) /\ IsList(c.combos)
    /\ \A x \in ToSet(c.combos) : IsAction(x.action)

\* What is saved is a configuration with all its parts, whatever was edited.
\* types.ts ConfigKeymap, mock/configBridge.ts.
SavedTyped == saved.format # "none" => IsConfiguration(saved.config)

\* The keymap of a saved configuration holds together whatever was edited before:
\* every behaviour it refers to is ZMK's or a node of the file with as many
\* parameters, but for a macro called with more or less than it takes and a
\* definition that is not there; no label stands twice, but where a definition's name
\* is, as a label, another's, that of a node made on the way or of a behaviour of
\* ZMK's; of what is written as none something is said; and the knobs keep their
\* places on every layer, but on a board that has both kinds of them.
\* compilers/zmk/index.ts, bindings.ts, behaviors.ts.
KeymapWhole ==
    saved.format \in {"source", "v1"} =>
        /\ ReferencesResolve(saved.config) /\ LabelsApart(saved.config)
        /\ NothingLostSilently(saved.config) /\ SensorsAligned(saved.config)

\* Its board holds together too: keys with cells of their own in the matrix, halves
\* with the columns of their keys, and pins at the cells of their keys.
\* matrix.ts, compilers/qmkKeyboardJson.ts, compilers/zmk/overlay.ts.
BoardWired ==
    saved.format \in {"source", "v1"} =>
        CellsHold(saved.config) /\ HalvesHold(saved.config) /\ PinsKept(saved.config)

\* Its VIA definition is read as it was meant, every key with its cell, but for the
\* heights of rows that are not a key apart; and Vial's knobs by the rows they have.
\* compilers/viaJson.ts, compilers/vialJson.ts, kle/parser.ts.
BoardReadBack == saved.format \in {"source", "v1"} => ReadsBack(saved.config)

\* The project has all its build asks for: a file for each shield, but for a split
\* board that does not fall into two halves, every label a file refers to, and the
\* options of the behaviours on its keys, knobs and combos unless the author set
\* them.
\* bundle.ts, firmwareConf.ts, compilers/zmk/overlay.ts, hardware.ts.
ProjectBuilds ==
    saved.format \in {"source", "v1"} =>
        /\ ShieldsHaveFiles(saved.config) /\ LabelsGiven(saved.config)
        /\ OptionsOn(saved.config) /\ KnobsMapped(saved.config)
=============================================================================
