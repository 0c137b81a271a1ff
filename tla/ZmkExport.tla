------------------------------ MODULE ZmkExport ------------------------------
\* The ZMK keymap a configuration is exported as: a behaviour reference per key,
\* the nodes those references need, and what the export says it could not write.
\* A configuration is the normalised one.  All labels are of one kind, text by its
\* parts: <<"kp">>, <<"ht", 0>> for ht_0, <<"sr", <<0, 1>>>> for sr_0_1.  A node of
\* the author's may so have the label of another, of one that is made on the way or
\* of a behaviour of ZMK's.
EXTENDS ExportNames

CONSTANT Sanitize(_)     \* a name as a node may have it: a label

Ref(label, args) == [to |-> label, args |-> args]
Zmk(name, args) == Ref(<<name>>, args)
Own(id) == Sanitize(id)

\* The behaviours of ZMK's that a keymap refers to.
ZmkNames ==
    {"kp", "mt", "lt", "mo", "tog", "to", "sl", "sk", "kt", "caps_word", "trans", "none",
     "bootloader", "sys_reset", "soft_off", "studio_unlock", "gresc", "key_repeat", "out", "bt",
     "bl", "rgb_ug", "ext_power", "mkp", "mmv", "msc", "inc_dec_kp", "macro_tap", "macro_press",
     "macro_release", "macro_wait_time", "macro_tap_time", "macro_pause_for_release",
     "macro_param_1to1", "macro_param_1to2", "macro_param_2to1", "macro_param_2to2"}
ZmkLabels == {<<name>> : name \in ZmkNames}
IsZmk(ref) == ref.to \in ZmkLabels

\* What stands behind a behaviour: a key, a modifier, a layer, any other word.
KeyCell(key) == <<"key", key>>
PressCell(key, mods) == <<"press", key, mods>>
ModCell(m) == <<"mod", m>>
LayerCell(i) == <<"layer", i>>
WordCell(w) == <<"word", w>>
ParamCell(from, to) == <<"param", from, to>>

\* A reference with what was said while it was written.
Quiet(ref) == [ref |-> ref, says |-> {}]
Noted(ref, what) == [ref |-> ref, says |-> {what}]
None == Zmk("none", <<>>)
Refused(what) == Noted(None, what)

UnknownLayer == "unknown layer"
SaysOfLayer(c, name) == IF IsLayer(c, name) THEN {} ELSE {UnknownLayer}

----------------------------------------------------------------------------
\* ZMK counts the taps by the place of their binding.
FewerTaps(d, j, i) ==
    d.taps[j].count < d.taps[i].count \/ (d.taps[j].count = d.taps[i].count /\ j < i)
TapsBefore(d, i) == {j \in DOMAIN d.taps : FewerTaps(d, j, i)}
TapAt(d, n) == d.taps[CHOOSE i \in DOMAIN d.taps : Cardinality(TapsBefore(d, i)) = n - 1]

\* The knobs of a layer: those of the board's list, then those that are keys,
\* every one of them as soon as one is bound, so that they keep their places.  Each
\* is named for its layer and its number in the list or its key.
TransparentKnob == [cw |-> [type |-> "transparent"], ccw |-> [type |-> "transparent"]]

ListedKnobs(c, li) ==
    LET knobs == c.layers[li].encoders
    IN  [e \in 1..Len(knobs) |-> [place |-> <<li - 1, e - 1>>, knob |-> knobs[e]]]
\* Mutant: only the knobs that are bound.
BoundKnobs(c, li) ==
    LET bound == Opt(c.layers[li], "encoderBindings", <<>>)
        keys == SelectSeq(KeysThatAre(c, "encoder"), LAMBDA k : k \in DOMAIN bound)
    IN  [e \in DOMAIN keys |-> [place |-> <<li - 1, "k", keys[e]>>, knob |-> bound[keys[e]]]]

KeyKnobs(c, li) ==
    LET keys == KeysThatAre(c, "encoder")
        bound == Opt(c.layers[li], "encoderBindings", <<>>)
    IN  IF DOMAIN bound = {} THEN <<>>
        ELSE [e \in 1..Len(keys) |-> [place |-> <<li - 1, "k", keys[e]>>,
                                     knob |-> Opt(bound, keys[e], TransparentKnob)]]
KnobsOf(c, li) ==
    LET listed == ListedKnobs(c, li)
        keys == KeyKnobs(c, li)
    IN  [e \in 1..Len(listed) + Len(keys) |->
            IF e <= Len(listed) THEN listed[e] ELSE keys[e - Len(listed)]]

AllKnobs(c) == UNION {ToSet(KnobsOf(c, li)) : li \in DOMAIN c.layers}

\* Two keys turn with a behaviour of ZMK's, without their modifiers; any other
\* pair has a node.
TurnsByKeys(knob) == knob.cw.type = "key_press" /\ knob.ccw.type = "key_press"
Rotated(c) == {s \in AllKnobs(c) : ~TurnsByKeys(s.knob)}
Rotation(place) == <<"sr", place>>
TurnOf(knob, way) == IF way = 1 THEN knob.cw ELSE knob.ccw

\* A slider has no behaviour: a word about each, and what the layers map it to.
SlidersOf(c, li) ==
    {k \in DOMAIN Opt(c.layers[li], "sliderBindings", <<>>) : k \in ToSet(KeysThatAre(c, "slider"))}
MappedSliders(c, li) ==
    {k \in SlidersOf(c, li) : LET s == c.layers[li].sliderBindings[k]
                              IN  s.map = "custom" /\ "action" \in DOMAIN s}

\* The actions that are written, by where they stand: the part of the file, and
\* where in it.  The file is written in this order, a place after those that are
\* less.  The press of a knob and the hold of a tap dance are not written.
TapPlaces(c) ==
    UNION {{<<1, i, n, 0>> : n \in DOMAIN c.tapDances[i].taps} : i \in DOMAIN c.tapDances}
MorphPlaces(c) ==
    UNION {{<<2, i, n, 0>> : n \in DOMAIN c.modMorphs[i].bindings} : i \in DOMAIN c.modMorphs}
TurnPlaces(c) ==
    UNION {{<<3, li, e, way>> : e \in {d \in DOMAIN KnobsOf(c, li) : ~TurnsByKeys(KnobsOf(c, li)[d].knob)},
                               way \in {1, 2}} : li \in DOMAIN c.layers}
SliderPlaces(c) ==
    UNION {{<<4, k, li, 0>> : k \in MappedSliders(c, li)} : li \in DOMAIN c.layers}
ComboPlaces(c) == {<<5, i, 0, 0>> : i \in DOMAIN c.combos}
KeyPlaces(c) ==
    UNION {{<<6, li, p, 0>> : p \in DOMAIN c.layers[li].bindings} : li \in DOMAIN c.layers}
WrittenPlaces(c) ==
    TapPlaces(c) \cup MorphPlaces(c) \cup TurnPlaces(c) \cup SliderPlaces(c) \cup ComboPlaces(c)
    \cup KeyPlaces(c)
Earlier(p, q) == \E n \in 1..4 : p[n] < q[n] /\ \A m \in 1..n - 1 : p[m] = q[m]

ActionAt(c, p) ==
    CASE p[1] = 1 -> TapAt(c.tapDances[p[2]], p[3]).action
      [] p[1] = 2 -> c.modMorphs[p[2]].bindings[p[3]]
      [] p[1] = 3 -> TurnOf(KnobsOf(c, p[2])[p[3]].knob, p[4])
      [] p[1] = 4 -> c.layers[p[3]].sliderBindings[p[2]].action
      [] p[1] = 5 -> c.combos[p[2]].action
      [] p[1] = 6 -> c.layers[p[2]].bindings[p[3]]
ActionsAt(c, places) == {ActionAt(c, p) : p \in places}
WrittenActions(c) == ActionsAt(c, WrittenPlaces(c))

----------------------------------------------------------------------------
\* The actions ZMK has a behaviour for, by what is behind them.
BareBehaviors ==
    [caps_word |-> "caps_word", transparent |-> "trans", none |-> "none",
     bootloader |-> "bootloader", reset |-> "sys_reset", soft_off |-> "soft_off",
     studio_unlock |-> "studio_unlock", grave_escape |-> "gresc", key_repeat |-> "key_repeat"]
KeyBehaviors == [sticky_key |-> "sk", key_toggle |-> "kt"]
LayerBehaviors == [momentary |-> "mo", toggle |-> "tog", to |-> "to", sticky |-> "sl"]
WordBehaviors ==
    [ext_power |-> "ext_power", mouse_key |-> "mkp", mouse_move |-> "mmv",
     mouse_scroll |-> "msc"]
WordOf(a) ==
    CASE a.type = "ext_power" -> a.action
      [] a.type = "mouse_key" -> a.button
      [] OTHER -> a.direction

\* Every pair but bluetooth without a profile selects a transport or a profile.
OutWords == [usb |-> "OUT_USB", toggle |-> "OUT_TOG", none |-> "OUT_NONE"]
BtWords ==
    [bluetooth_clear |-> "BT_CLR", bluetooth_next |-> "BT_NXT", bluetooth_prev |-> "BT_PRV"]
EmitOutput(a) ==
    CASE a.action \in DOMAIN OutWords -> Zmk("out", <<WordCell(OutWords[a.action])>>)
      [] a.action \in DOMAIN BtWords -> Zmk("bt", <<WordCell(BtWords[a.action])>>)
      [] a.action = "bluetooth_disconnect" ->
            Zmk("bt", <<WordCell("BT_DISC"), WordCell(Opt(a, "profile", 0))>>)
      [] "profile" \in DOMAIN a -> Zmk("bt", <<WordCell("BT_SEL"), WordCell(a.profile)>>)
      [] OTHER -> Zmk("out", <<WordCell("OUT_BLE")>>)

RGB_UG ==
    [toggle |-> "RGB_TOG", on |-> "RGB_ON", off |-> "RGB_OFF", brightness_up |-> "RGB_BRI",
     brightness_down |-> "RGB_BRD", hue_up |-> "RGB_HUI", hue_down |-> "RGB_HUD",
     saturation_up |-> "RGB_SAI", saturation_down |-> "RGB_SAD", effect_next |-> "RGB_EFF",
     effect_previous |-> "RGB_EFR", speed_up |-> "RGB_SPI", speed_down |-> "RGB_SPD"]
BL == [toggle |-> "BL_TOG", on |-> "BL_ON", off |-> "BL_OFF", brightness_up |-> "BL_INC",
       brightness_down |-> "BL_DEC", cycle |-> "BL_CYCLE"]

EmitBacklight(a) ==
    CASE a.action = "set" -> Quiet(Zmk("bl", <<WordCell("BL_SET"), WordCell(Opt(a, "level", 0))>>))
      [] a.action \in DOMAIN BL -> Quiet(Zmk("bl", <<WordCell(BL[a.action])>>))
      [] OTHER -> Refused("backlight action")

\* An action underglow has not is written as the toggle, "set" with a word.
EmitUnderglow(a) ==
    LET toggle == Zmk("rgb_ug", <<WordCell("RGB_TOG")>>)
    IN  CASE a.action = "color" ->
                Quiet(Zmk("rgb_ug", <<WordCell("RGB_COLOR_HSB"), WordCell(Opt(a, "hue", 0)),
                                      WordCell(Opt(a, "saturation", 0)),
                                      WordCell(Opt(a, "brightness", 0))>>))
          [] a.action = "set" -> Noted(toggle, "underglow set")
          [] a.action \in DOMAIN RGB_UG -> Quiet(Zmk("rgb_ug", <<WordCell(RGB_UG[a.action])>>))
          [] OTHER -> Quiet(toggle)

EmitLighting(a) ==
    CASE a.target = "per_key" -> Refused("per-key lighting")
      [] a.target = "backlight" -> EmitBacklight(a)
      [] OTHER -> EmitUnderglow(a)

\* A tap-hold with a timing or a flavour of its own gets a node for it, one for
\* all that agree; what else it says is lost without a word, the modifiers of
\* its tap too.
RESOLVE_TO_FLAVOR == ("prefer-hold" :> "hold_preferred") @@ ("prefer-tap" :> "tap_preferred")
HoldTapFlavor(a) ==
    CASE "flavor" \in DOMAIN a -> {a.flavor}
      [] "flavor" \notin DOMAIN a /\ Opt(a, "resolve", "timeout") \in DOMAIN RESOLVE_TO_FLAVOR ->
            {RESOLVE_TO_FLAVOR[a.resolve]}
      [] OTHER -> {}
CustomTimings == {"flavor", "tappingTermMs", "quickTapMs", "resolve"}
IsCustom(a) == DOMAIN a \cap CustomTimings # {}
Signature(a) ==
    [layer |-> a.hold.type = "layer", flavor |-> HoldTapFlavor(a),
     timing |-> Pick(a, {"tappingTermMs", "quickTapMs"})]
IsCustomHold(a) == a.type = "tap_hold" /\ IsCustom(a)
CustomPlaces(c) == {p \in WrittenPlaces(c) : IsCustomHold(ActionAt(c, p))}
SignatureAt(c, p) == Signature(ActionAt(c, p))
Signatures(c) == {SignatureAt(c, p) : p \in CustomPlaces(c)}

\* They are numbered as they are first met.
UsesOf(c, sig) == {p \in CustomPlaces(c) : SignatureAt(c, p) = sig}
MetBefore(c, sig) ==
    {SignatureAt(c, p) : p \in {q \in CustomPlaces(c) : \A u \in UsesOf(c, sig) : Earlier(q, u)}}
Generated(c, sig) == <<"ht", Cardinality(MetBefore(c, sig))>>

EmitTapHold(c, a) ==
    LET onLayer == a.hold.type = "layer"
        held == IF onLayer THEN LayerCell(LayerNumber(c, a.hold.layer)) ELSE ModCell(a.hold.modifier)
        label == IF IsCustom(a) THEN Generated(c, Signature(a))
                 ELSE <<IF onLayer THEN "lt" ELSE "mt">>
    IN  [ref |-> Ref(label, <<held, KeyCell(a.tap.key)>>),
         says |-> IF onLayer THEN SaysOfLayer(c, a.hold.layer) ELSE {}]

\* A parameter of a hold-tap is a key when it is one's name, else it is left as
\* it stands.
HoldTapParam(word) ==
    IF IsKnownKeycode(word) THEN KeyCell(ResolveKeycode(word)) ELSE WordCell(word)

EmitOwn(a) ==
    Ref(Own(a.ref),
        CASE a.type = "macro" /\ "param" \in DOMAIN a -> <<KeyCell(a.param)>>
          [] a.type = "hold_tap" -> <<HoldTapParam(a.holdParam), HoldTapParam(a.tapParam)>>
          [] OTHER -> <<>>)

OwnTypes == {"macro", "tap_dance", "mod_morph", "hold_tap"}

\* emitBinding: an action ZMK has no behaviour for is written as none, with a word.
EmitBinding(c, a) ==
    CASE a.type = "key_press" -> Quiet(Zmk("kp", <<PressCell(a.key, a.mods)>>))
      [] a.type = "tap_hold" -> EmitTapHold(c, a)
      [] a.type = "layer" ->
            [ref |-> Zmk(LayerBehaviors[a.mode], <<LayerCell(LayerNumber(c, a.layer))>>),
             says |-> SaysOfLayer(c, a.layer)]
      [] a.type = "output" -> Quiet(EmitOutput(a))
      [] a.type = "lighting" -> EmitLighting(a)
      [] a.type \in OwnTypes -> Quiet(EmitOwn(a))
      [] a.type \in DOMAIN BareBehaviors -> Quiet(Zmk(BareBehaviors[a.type], <<>>))
      [] a.type \in DOMAIN KeyBehaviors -> Quiet(Zmk(KeyBehaviors[a.type], <<KeyCell(a.key)>>))
      [] a.type \in DOMAIN WordBehaviors ->
            Quiet(Zmk(WordBehaviors[a.type], <<WordCell(WordOf(a))>>))
      [] OTHER -> Refused("no behaviour")

----------------------------------------------------------------------------
\* The nodes: a label, the cells a reference to it must have, and what it refers
\* to.  A macro's parameters are those it says, else the highest one a step takes.
Node(label, cells, refs) == [label |-> label, cells |-> cells, refs |-> refs, timing |-> {}]

InferredCells(m) ==
    IF \E s \in ToSet(m.steps) : s.type = "param" /\ Opt(s, "from", 1) = 2 THEN 2
    ELSE IF \E s \in ToSet(m.steps) : s.type = "param" THEN 1 ELSE 0
MacroCells(m) == Opt(m, "params", InferredCells(m))

\* Typed text has no step; a macro without any does nothing.
MacroStepRef(s) ==
    CASE s.type = "tap" -> Zmk("macro_tap", <<KeyCell(s.key)>>)
      [] s.type = "press" -> Zmk("macro_press", <<KeyCell(s.key)>>)
      [] s.type = "release" -> Zmk("macro_release", <<KeyCell(s.key)>>)
      [] s.type = "wait" -> Zmk("macro_wait_time", <<WordCell(s.ms)>>)
      [] s.type = "tap_time" -> Zmk("macro_tap_time", <<WordCell(s.ms)>>)
      [] s.type = "param" -> Zmk("macro_tap", <<ParamCell(Opt(s, "from", 1), Opt(s, "to", 1))>>)
      [] OTHER -> Zmk("macro_pause_for_release", <<>>)
MacroBody(m) ==
    LET steps == SelectSeq(m.steps, LAMBDA s : s.type # "text")
    IN  IF steps = <<>> THEN <<None>> ELSE [i \in DOMAIN steps |-> MacroStepRef(steps[i])]
MacroNode(m) == Node(Own(m.id), MacroCells(m), MacroBody(m))

HasGap(d) == \E n \in DOMAIN d.taps : TapAt(d, n).count # n
TapDanceNode(c, d) ==
    Node(Own(d.id), 0, [n \in DOMAIN d.taps |-> EmitBinding(c, TapAt(d, n).action).ref])

ModMorphNode(c, m) ==
    Node(Own(m.id), 0, [i \in DOMAIN m.bindings |-> EmitBinding(c, m.bindings[i]).ref])

\* What a defined hold-tap holds is written as the author did.
HoldTapNode(d) == Node(Own(d.id), 2, <<>>)

OwnNodes(c) ==
    {MacroNode(c.macros[i]) : i \in DOMAIN c.macros}
    \cup {TapDanceNode(c, c.tapDances[i]) : i \in DOMAIN c.tapDances}
    \cup {ModMorphNode(c, c.modMorphs[i]) : i \in DOMAIN c.modMorphs}
    \cup {HoldTapNode(c.holdTaps[i]) : i \in DOMAIN c.holdTaps}

----------------------------------------------------------------------------
SensorRef(s) ==
    IF TurnsByKeys(s.knob)
    THEN Zmk("inc_dec_kp", <<KeyCell(s.knob.cw.key), KeyCell(s.knob.ccw.key)>>)
    ELSE Ref(Rotation(s.place), <<>>)
Sensors(c, li) ==
    LET knobs == KnobsOf(c, li)
    IN  [e \in DOMAIN knobs |-> SensorRef(knobs[e])]

RotationNode(c, s) ==
    Node(Rotation(s.place), 0, [way \in 1..2 |-> EmitBinding(c, TurnOf(s.knob, way)).ref])

----------------------------------------------------------------------------
\* The hold-taps made on the way are written last, when all are known.
GeneratedNode(c, sig) ==
    [label |-> Generated(c, sig), cells |-> 2, timing |-> {sig},
     refs |-> <<Zmk(IF sig.layer THEN "mo" ELSE "kp", <<>>), Zmk("kp", <<>>)>>]
GeneratedNodes(c) == {GeneratedNode(c, sig) : sig \in Signatures(c)}

ZmkNodes(c) ==
    OwnNodes(c) \cup {RotationNode(c, s) : s \in Rotated(c)} \cup GeneratedNodes(c)

\* A combo on a layer that is not there is on the first, without a word.
ZmkCombo(c, x) ==
    [ref |-> EmitBinding(c, x.action).ref, keys |-> x.keys,
     layers |-> LET named == Opt(x, "layers", <<>>)
                IN  [i \in DOMAIN named |-> LayerNumber(c, named[i])]]
ZmkConditional(c, cl) ==
    [ifLayers |-> [i \in DOMAIN cl.ifLayers |-> LayerNumber(c, cl.ifLayers[i])],
     thenLayer |-> LayerNumber(c, cl.thenLayer)]
ZmkLayer(c, li) ==
    LET bindings == c.layers[li].bindings
    IN  [name |-> Sanitize(c.layers[li].name), sensors |-> Sensors(c, li),
         bindings |-> [p \in DOMAIN bindings |-> EmitBinding(c, bindings[p]).ref]]

\* What is said besides: text that is not typed, a hold and a gap of a tap dance,
\* the press of a knob, a slider, a condition on a layer that is not there.
SaidIf(happens, what) == IF happens THEN {what} ELSE {}
SaidOfDefinitions(c) ==
    SaidIf(\E i \in DOMAIN c.macros : \E s \in ToSet(c.macros[i].steps) : s.type = "text",
           "macro text")
    \cup SaidIf(\E i \in DOMAIN c.tapDances : "hold" \in DOMAIN c.tapDances[i], "tap dance hold")
    \cup SaidIf(\E i \in DOMAIN c.tapDances : HasGap(c.tapDances[i]), "tap dance gap")
    \cup SaidIf(\E s \in AllKnobs(c) : "press" \in DOMAIN s.knob, "knob press")
    \cup SaidIf(KeysThatAre(c, "slider") # <<>>, "slider")
SaidOfConditions(c) ==
    UNION {SaysOfLayer(c, name) :
           name \in UNION {ToSet(Append(cl.ifLayers, cl.thenLayer)) :
                           cl \in ToSet(c.conditionalLayers)}}
ZmkSays(c) ==
    (UNION {EmitBinding(c, a).says : a \in WrittenActions(c)})
    \cup SaidOfDefinitions(c) \cup SaidOfConditions(c)

\* The keymap file.
ZmkKeymap(c) ==
    [nodes |-> ZmkNodes(c), layers |-> [li \in DOMAIN c.layers |-> ZmkLayer(c, li)],
     combos |-> [i \in DOMAIN c.combos |-> ZmkCombo(c, c.combos[i])],
     conditionals |-> [i \in DOMAIN c.conditionalLayers |-> ZmkConditional(c, c.conditionalLayers[i])],
     says |-> ZmkSays(c)]
=============================================================================
