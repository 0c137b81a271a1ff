------------------------------ MODULE QmkExport ------------------------------
\* The QMK keymap and keyboard.json a configuration is exported as, for stock QMK
\* and for Keychron's: a keycode per key, the turns of the knobs, the wiring of
\* the matrix, and what the export says it could not write.
EXTENDS ExportNames, BoardWiring

\* A keycode with what was said while it was written.
Code(name, args) == <<name, args>>
Silently(code) == [code |-> code, says |-> {}]
Saying(code, what) == [code |-> code, says |-> {what}]
KC_NO == Code("KC_NO", <<>>)
KC_TRNS == Code("KC_TRNS", <<>>)

\* CAPABILITY_MATRIX: what each firmware can route its output to.
QmkTargets == {"qmk", "keychron"}
SupportsOutput(target, action) == target = "keychron" \/ action = "usb"

RgbCode ==
    [toggle |-> "RGB_TOG", brightness_up |-> "RGB_VAI", brightness_down |-> "RGB_VAD",
     hue_up |-> "RGB_HUI", hue_down |-> "RGB_HUD", saturation_up |-> "RGB_SAI",
     saturation_down |-> "RGB_SAD", effect_next |-> "RGB_MOD", effect_previous |-> "RGB_RMOD",
     speed_up |-> "RGB_SPI", speed_down |-> "RGB_SPD"]
BacklightCode ==
    [toggle |-> "BL_TOGG", on |-> "BL_ON", off |-> "BL_OFF", brightness_up |-> "BL_UP",
     brightness_down |-> "BL_DOWN"]
BareCode ==
    [caps_word |-> "CW_TOGG", transparent |-> "KC_TRNS", none |-> "KC_NO",
     bootloader |-> "QK_BOOT", reset |-> "QK_RBT", key_repeat |-> "QK_REP",
     grave_escape |-> "QK_GESC"]
LayerCode == [momentary |-> "MO", toggle |-> "TG", to |-> "TO", sticky |-> "OSL"]
PointerTypes == {"mouse_key", "mouse_move", "mouse_scroll"}
HandWritten == {"macro", "tap_dance", "mod_morph", "hold_tap"}
BareKeyTypes == {"sticky_key", "key_toggle"}

\* Both targets can light every axis; an action of the strip there is no keycode
\* for is written as its toggle.
EmitLightingCode(a) ==
    CASE a.target = "backlight" /\ a.action \in DOMAIN BacklightCode ->
            Silently(Code(BacklightCode[a.action], <<>>))
      [] a.target = "backlight" /\ a.action \notin DOMAIN BacklightCode ->
            Saying(KC_NO, "backlight action")
      [] a.target # "backlight" /\ a.action \in DOMAIN RgbCode ->
            Silently(Code(RgbCode[a.action], <<>>))
      [] OTHER -> Saying(Code("RGB_TOG", <<>>), "RGB action")

\* A route the firmware has is written as no key at all, without a word; the tap
\* of a hold loses its modifiers, a layer that is not there is the first.
EmitKeycode(c, target, a) ==
    CASE a.type = "key_press" -> Silently(Code("kp", <<a.key, a.mods>>))
      [] a.type = "tap_hold" ->
            Silently(IF a.hold.type = "modifier" THEN Code("MT", <<a.hold.modifier, a.tap.key>>)
                     ELSE Code("LT", <<LayerNumber(c, a.hold.layer), a.tap.key>>))
      [] a.type = "layer" -> Silently(Code(LayerCode[a.mode], <<LayerNumber(c, a.layer)>>))
      [] a.type \in DOMAIN BareCode -> Silently(Code(BareCode[a.type], <<>>))
      [] a.type = "output" ->
            IF SupportsOutput(target, a.action) THEN Silently(KC_NO)
            ELSE Saying(KC_NO, "output")
      [] a.type = "lighting" -> EmitLightingCode(a)
      [] a.type \in PointerTypes ->
            Silently(Code(a.type, <<IF a.type = "mouse_key" THEN a.button ELSE a.direction>>))
      [] a.type \in HandWritten -> Saying(KC_NO, "hand-written C")
      [] a.type \in BareKeyTypes -> Saying(Code("kp", <<a.key, {}>>), "bare key")
      [] OTHER -> Saying(KC_NO, "no keycode")

----------------------------------------------------------------------------
\* The knobs that turn: the keys that are knobs, else those of the board's list.
\* One a layer does not bind is transparent; a press is a key of its own.
TurningKeys(c) == KeysThatAre(c, "encoder")
TurnCount(c) ==
    IF TurningKeys(c) # <<>> THEN Len(TurningKeys(c)) ELSE Len(c.boardEncoders)
KnobBinding(c, li, e) ==
    IF TurningKeys(c) # <<>> THEN Opt(Part(c.layers[li], "encoderBindings"), TurningKeys(c)[e], <<>>)
    ELSE Opt(c.layers[li].encoders, e, <<>>)
Turned(c, target, li, e, way) ==
    LET knob == KnobBinding(c, li, e)
    IN  IF way \in DOMAIN knob THEN EmitKeycode(c, target, knob[way]) ELSE Silently(KC_TRNS)
EncoderMap(c, target) ==
    IF TurnCount(c) = 0 THEN <<>>
    ELSE [li \in DOMAIN c.layers |->
            [e \in 1..TurnCount(c) |-> <<Turned(c, target, li, e, "ccw").code,
                                         Turned(c, target, li, e, "cw").code>>]]

KeyTable(c, target) ==
    [li \in DOMAIN c.layers |->
        [p \in DOMAIN c.layers[li].bindings |-> EmitKeycode(c, target, c.layers[li].bindings[p]).code]]

SaysOfKeys(c, target) ==
    UNION {UNION {EmitKeycode(c, target, a).says : a \in ToSet(c.layers[li].bindings)}
           : li \in DOMAIN c.layers}
SaysOfTurns(c, target) ==
    UNION {Turned(c, target, li, e, way).says :
           li \in DOMAIN c.layers, e \in 1..TurnCount(c), way \in {"cw", "ccw"}}
LayersTurn(c) == \E li \in DOMAIN c.layers : c.layers[li].encoders # <<>>
SaysOfSections(c) ==
    (IF c.combos = <<>> THEN {} ELSE {"combos"})
    \cup (IF c.conditionalLayers = <<>> THEN {} ELSE {"conditional layers"})
    \cup (IF LayersTurn(c) \/ TurningKeys(c) # <<>> THEN {"encoder map"} ELSE {})
    \cup (IF KeysThatAre(c, "slider") = <<>> THEN {} ELSE {"slider"})

\* keymap.c.
QmkKeymap(c, target) ==
    [keymaps |-> KeyTable(c, target), encoderMap |-> EncoderMap(c, target),
     says |-> SaysOfKeys(c, target) \cup SaysOfTurns(c, target) \cup SaysOfSections(c)]

----------------------------------------------------------------------------
\* The actions the feature tests look at: keys, knobs and combos.
KnobTurns(knobs) == UNION {{knobs[e][way] : way \in DOMAIN knobs[e]} : e \in DOMAIN knobs}
ScannedActions(c) ==
    (UNION {ToSet(c.layers[li].bindings) \cup KnobTurns(c.layers[li].encoders)
            \cup KnobTurns(Part(c.layers[li], "encoderBindings")) : li \in DOMAIN c.layers})
    \cup {c.combos[i].action : i \in DOMAIN c.combos}
Uses(c, types) == \E a \in ScannedActions(c) : a.type \in types
UsesLight(c, targets) ==
    \E a \in ScannedActions(c) : a.type = "lighting" /\ a.target \in targets
HasLights(c, lamp) == lamp \in DOMAIN Part(c.keyboard, "lighting")

Features(c) ==
    {"extrakey", "nkro"}
    \cup (IF Uses(c, PointerTypes) THEN {"mousekey"} ELSE {})
    \cup (IF HasLights(c, "underglow") \/ UsesLight(c, {"underglow", "per_key"})
          THEN {"rgblight"} ELSE {})
    \cup (IF HasLights(c, "backlight") \/ UsesLight(c, {"backlight"}) THEN {"backlight"} ELSE {})
    \cup (IF LayersTurn(c) \/ TurningKeys(c) # <<>> THEN {"encoder"} ELSE {})

\* The development board stands for the other three.
Identity(c) ==
    LET named == Part(c.keyboard, "controller")
    IN  IF "developmentBoard" \in DOMAIN named THEN Pick(named, {"developmentBoard"})
        ELSE Pick(named, {"processor", "bootloader"})
             @@ (IF BoardOf(c) = NoName THEN <<>> ELSE [board |-> BoardOf(c)])

\* The pins: those of rows and columns, else a grid with the pin of each key at
\* its cell, the last of the keys that share one, else none and a word.
NO_PIN == "NO_PIN"
KeysAtCell(c, m, cell) ==
    {i \in DOMAIN c.geometry : "pin" \in DOMAIN c.geometry[i] /\ m.map[i] = cell}
DirectPin(c, m, cell) ==
    LET keys == KeysAtCell(c, m, cell)
    IN  IF keys = {} THEN NO_PIN ELSE ResolveQmkPin(BoardOf(c), c.geometry[Max(keys)].pin)
Resolved(c, labels) == [i \in DOMAIN labels |-> ResolveQmkPin(BoardOf(c), labels[i])]
HasKeyPins(c) == \E i \in DOMAIN c.geometry : "pin" \in DOMAIN c.geometry[i]
MatrixPins(c, m) ==
    CASE HasPins(c) -> [cols |-> Resolved(c, Pins(c).cols), rows |-> Resolved(c, Pins(c).rows),
                        diode |-> m.diodeDirection]
      [] ~HasPins(c) /\ HasKeyPins(c) ->
            [direct |-> [cell \in (0..m.rows - 1) \X (0..m.columns - 1) |-> DirectPin(c, m, cell)]]
      [] OTHER -> <<>>
SaysOfMatrixPins(c) ==
    CASE HasPins(c) -> {}
      [] ~HasPins(c) /\ HasKeyPins(c) ->
            IF \A i \in DOMAIN c.geometry : "pin" \in DOMAIN c.geometry[i] THEN {}
            ELSE {"key without pin"}
      [] OTHER -> {"no pin mapping"}

QmkLayoutKey(c, m, i) ==
    [matrix |-> m.map[i]] @@ Pick(c.geometry[i], {"x", "y"})
    @@ Pick(c.geometry[i], {f \in {"w", "h"} : c.geometry[i][f] # Unit})
QmkKeyboardJson(c) ==
    LET m == MaterializeMatrix(c)
    IN  [identity |-> Identity(c), features |-> Features(c), matrixPins |-> MatrixPins(c, m),
         layout |-> [i \in DOMAIN c.geometry |-> QmkLayoutKey(c, m, i)],
         says |-> SaysOfMatrixPins(c)]
=============================================================================
