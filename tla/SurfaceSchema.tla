---------------------------- MODULE SurfaceSchema ----------------------------
\* What a document must be to be read: the schema of its parts and the checks
\* across them.  A field holds a value of the right kind; which ones of a kind
\* are refused is told apart here.
EXTENDS Migrate, Autocorrect, KeyMatrix

Every(s, P(_)) == \A i \in DOMAIN s : P(s[i])
AllModifiers(names) == Every(names, IsModifier)

RESOLVES == {"timeout", "prefer-hold", "prefer-tap"}
KscanTypes == {"matrix", "direct"}
BUILTIN_TARGETS == {"zmk", "qmk", "keychron", "remappr"}
NoTarget == "null"

\* The words an action field may hold, by field; "action" depends on the type.
ActionWords ==
    [output |-> DOMAIN OutputActionCode, lighting |-> DOMAIN LightingActionCode,
     ext_power |-> {"toggle", "on", "off"}, gui_lock |-> DOMAIN LockAction,
     secure |-> DOMAIN LockAction, autocorrect |-> DOMAIN LockAction]
FieldWords ==
    [mode |-> LAYER_MODES, target |-> DOMAIN LightingTargetCode,
     button |-> DOMAIN MouseButtonCode, direction |-> DOMAIN MouseDirCode,
     kind |-> DOMAIN PeripheralKind, resolve |-> RESOLVES, flavor |-> DOMAIN Flavor]

\* The numbers it may hold: from a smallest to a largest, or without a largest.
FieldLimits == [hue |-> 360, saturation |-> 100, brightness |-> 100, level |-> 100,
                codepoint |-> 65535]
Positive == {"tappingTermMs", "timeoutMs", "comboTimeoutMs", "count"}
NonNegative == {"quickTapMs", "requirePriorIdleMs", "profile", "ms", "slot", "windowMs", "code"}

TapHoldTimings ==
    {"tappingTermMs", "quickTapMs", "requirePriorIdleMs", "retroTap",
     "holdTriggerKeyPositions", "holdTriggerOnRelease", "resolve", "flavor"}

\* Each type of action with the fields it needs and those it may have.
BareTypes ==
    {"caps_word", "transparent", "none", "bootloader", "reset", "soft_off", "studio_unlock",
     "grave_escape", "key_repeat", "alt_repeat", "layer_lock"}
Needed ==
    [key_press |-> {"key"}, tap_hold |-> {"tap", "hold"}, mod_tap |-> {"tap", "mod"},
     layer_tap |-> {"tap", "layer"}, layer |-> {"mode", "layer"}, sticky_key |-> {"key"},
     output |-> {"action"}, lighting |-> {"target", "action"}, macro |-> {"ref"},
     tap_dance |-> {"ref"}, mod_morph |-> {"ref"}, hold_tap |-> {"ref", "holdParam", "tapParam"},
     key_toggle |-> {"key"}, ext_power |-> {"action"}, mouse_key |-> {"button"},
     mouse_move |-> {"direction"}, mouse_scroll |-> {"direction"},
     auto_shift |-> {"key", "mods"}, layer_mod |-> {"layer", "mods"}, tap_toggle |-> {"layer"},
     set_base_saved |-> {"layer"}, auto_layer |-> {"layer"}, gui_lock |-> {"action"},
     secure |-> {"action"}, autocorrect |-> {"action"}, tune_tap_term |-> {"ms"},
     unicode |-> {"codepoint"}, macro_record |-> {"slot"}, macro_play |-> {"slot"},
     leader |-> {}, peripheral |-> {"kind", "code"}]
    @@ [t \in BareTypes |-> {}]
Allowed ==
    [key_press |-> {"mods"}, tap_hold |-> TapHoldTimings, mod_tap |-> TapHoldTimings,
     layer_tap |-> TapHoldTimings, output |-> {"profile"},
     lighting |-> {"hue", "saturation", "brightness", "level"}, macro |-> {"param"},
     leader |-> {"windowMs"}]
FieldsOf(type) == Needed[type] \cup IF type \in DOMAIN Allowed THEN Allowed[type] ELSE {}

HoldTargetOk(h) == h.type = "layer" \/ (h.type = "modifier" /\ IsModifier(h.modifier))
KeyPressOk(a) == IsKnownKeycode(a.key) /\ AllModifiers(Opt(a, "mods", <<>>))
TapTargetOk(t) == IF IsToken(t) THEN IsKnownKeyToken(t) ELSE KeyPressOk(t)

\* A reference or a flag is not looked at here.
FieldOk(a, f) ==
    CASE f \in {"key", "param"} -> IsKnownKeycode(a[f])
      [] f = "tap" -> TapTargetOk(a.tap)
      [] f = "hold" -> HoldTargetOk(a.hold)
      [] f = "mod" -> IsModifier(a.mod)
      [] f = "mods" -> AllModifiers(a.mods)
      [] f = "action" -> a.action \in ActionWords[a.type]
      [] f \in DOMAIN FieldWords -> a[f] \in FieldWords[f]
      [] f \in DOMAIN FieldLimits -> a[f] \in 0..FieldLimits[f]
      [] f \in Positive -> a[f] > 0
      [] f \in NonNegative -> a[f] >= 0
      [] OTHER -> TRUE

ObjectOk(a) ==
    /\ a.type \in DOMAIN Needed /\ Needed[a.type] \subseteq DOMAIN a
    /\ \A f \in FieldsOf(a.type) \cap DOMAIN a : FieldOk(a, f)

ActionOk(a) == IF IsToken(a) THEN IsKnownKeyToken(a) ELSE ObjectOk(a)

----------------------------------------------------------------------------
\* The structure.  A hole in the encoders of a layer is no binding.
GeometryBase == [x |-> 0, y |-> 0, w |-> Unit, h |-> Unit, r |-> 0]
CountedPair(r, f) == f \in DOMAIN r => Len(r[f]) = 2 /\ ToSet(r[f]) \subseteq Nat
GeometryOk(k) ==
    /\ Opt(k, "w", Unit) > 0 /\ Opt(k, "h", Unit) > 0
    /\ CountedPair(k, "matrix") /\ CountedPair(k, "option")
    /\ Opt(k, "element", "encoder") \in {"encoder", "slider"}

EncoderBindingOk(e) ==
    {"cw", "ccw"} \subseteq DOMAIN e /\ \A turn \in DOMAIN e : ActionOk(e[turn])

SliderMaps == {"volume", "brightness", "mouse_wheel", "custom"}
SliderBindingOk(s) == s.map \in SliderMaps /\ ("action" \in DOMAIN s => ActionOk(s.action))

LayerOk(l) ==
    /\ Every(l.bindings, ActionOk) /\ Every(Opt(l, "encoders", <<>>), EncoderBindingOk)
    /\ Every(Opt(l, "encoderBindings", <<>>), EncoderBindingOk)
    /\ Every(Opt(l, "sliderBindings", <<>>), SliderBindingOk)

\* The numbers of a definition that has them.
NumbersOk(r) == \A f \in (Positive \cup NonNegative) \cap DOMAIN r :
                    r[f] >= IF f \in Positive THEN 1 ELSE 0

ComboOk(c) == Len(c.keys) >= 2 /\ ActionOk(c.action) /\ NumbersOk(Pick(c, {"timeoutMs"}))

TapDanceOk(d) ==
    /\ d.taps # <<>> /\ NumbersOk(Pick(d, {"tappingTermMs"}))
    /\ \A i \in DOMAIN d.taps : d.taps[i].count > 0 /\ ActionOk(d.taps[i].action)
    /\ "hold" \in DOMAIN d => HoldTargetOk(d.hold)

MacroStepOk(s) ==
    CASE s.type \in {"tap", "press", "release"} -> IsKnownKeycode(s.key)
      [] s.type = "wait" -> s.ms >= 0
      [] s.type = "tap_time" -> s.ms > 0
      [] s.type = "param" -> {Opt(s, "from", 1), Opt(s, "to", 1)} \subseteq {1, 2}
      [] OTHER -> s.type \in {"text", "pause_for_release"}
MacroOk(m) == m.steps # <<>> /\ Opt(m, "params", 0) \in 0..2 /\ Every(m.steps, MacroStepOk)

HoldTapDefOk(d) ==
    /\ Len(d.bindings) = 2 /\ Opt(d, "flavor", "balanced") \in DOMAIN Flavor
    /\ NumbersOk(Pick(d, HoldTapTimes))

ModMorphOk(d) ==
    /\ d.mods # <<>> /\ AllModifiers(d.mods) /\ AllModifiers(Opt(d, "keepMods", <<>>))
    /\ Len(d.bindings) = 2 /\ Every(d.bindings, ActionOk)

ConditionalLayerOk(cl) == cl.ifLayers # <<>>

KeyOverrideOk(ko) ==
    /\ IsKnownKeycode(ko.trigger)
    /\ "replacement" \in DOMAIN ko => IsKnownKeycode(ko.replacement)
    /\ \A f \in {"triggerMods", "negativeMods", "suppressedMods", "replacementMods"} :
          AllModifiers(Opt(ko, f, <<>>))

LeaderSequenceOk(ls) ==
    Len(ls.sequence) \in 1..5 /\ Every(ls.sequence, IsKnownKeycode) /\ ActionOk(ls.action)

\* A semantic action is its record on the wire: bytes and words.
SemanticBytes == {"mods", "profile", "hue", "sat", "val", "target"}
SemanticActionOk(a) ==
    \A f \in DOMAIN a \ {"kind"} :
        a[f] \in 0..IF f \in SemanticBytes \/ (a.kind = "lighting" /\ f = "action")
                    THEN 255 ELSE 65535
ActionBindingOk(b) == b.position \in 0..65535 /\ SemanticActionOk(b.action)

LowerCase(s) == [i \in DOMAIN s |-> IF s[i] \in 65..90 THEN s[i] + 32 ELSE s[i]]
AutocorrectEntryOk(e) ==
    /\ Len(e.typo) \in 1..AUTOCORRECT_MAX_TYPO /\ ToSet(LowerCase(e.typo)) \subseteq TypoAlphabet
    /\ Len(e.correction) <= 255 /\ ToSet(e.correction) \subseteq ReplAlphabet

\* The wiring: GPIOs of rows and columns or of each key, and where in the matrix
\* each key is.
DiodeDirections == {"row2col", "col2row"}
KscanOk(k) ==
    /\ k.type \in KscanTypes
    /\ IF k.type = "matrix"
       THEN k.rowGpios # <<>> /\ k.colGpios # <<>> /\ k.diodeDirection \in DiodeDirections
       ELSE k.inputGpios # <<>>
    /\ {Opt(k, "debouncePressMs", 0), Opt(k, "debounceReleaseMs", 0)} \subseteq Nat
TransformOk(t) ==
    t.rows > 0 /\ t.columns > 0 /\ t.map # <<>> /\ Every(t.map, LAMBDA cell : ToSet(cell) \subseteq Nat)
BacklightPwmOk(b) == b.channel \in Nat /\ Opt(b, "periodMs", 1) > 0
Ws2812Ok(w) ==
    /\ w.chainLength > 0 /\ Opt(w, "spiMaxFrequency", 1) > 0
    /\ Opt(w, "colorOrder", "GRB") \in {"GRB", "RGB", "BGR", "RGBW", "GRBW"}
HardwareOk(hw) ==
    /\ "kscan" \in DOMAIN hw => KscanOk(hw.kscan)
    /\ "transform" \in DOMAIN hw => TransformOk(hw.transform)
    /\ "backlightPwm" \in DOMAIN hw => BacklightPwmOk(hw.backlightPwm)
    /\ "ws2812" \in DOMAIN hw => Ws2812Ok(hw.ws2812)
    /\ "extPowerCtrl" \in DOMAIN hw => Opt(hw.extPowerCtrl, "initDelayMs", 0) \in Nat

\* What the keyboard says of itself: its matrix, its lock, its lights.
MatrixOk(m) ==
    /\ m.rows > 0 /\ m.cols > 0 /\ Opt(m, "diodeDirection", "col2row") \in DiodeDirections
    /\ Opt(m, "mode", "matrix") \in KscanTypes
VialOk(v) ==
    /\ "uid" \in DOMAIN v => Len(v.uid) = 8 /\ ToSet(v.uid) \subseteq 0..255
    /\ Every(Opt(v, "unlockKeys", <<>>), LAMBDA cell : ToSet(cell) \subseteq Nat)

\* A colour per position, and the rest of the lights the builder keeps.
LightingOk(l) ==
    /\ \A lamp \in {"underglow", "backlight"} :
          \A f \in {"hue", "brightness"} \cap DOMAIN Opt(l, lamp, <<>>) :
              l[lamp][f] \in 0..FieldLimits[f]
    /\ \A p \in DOMAIN Opt(l, "perKey", <<>>) :
          Len(l.perKey[p]) = 3 /\ ToSet(l.perKey[p]) \subseteq 0..255

KeyboardOk(kb) ==
    /\ kb.keys # <<>> /\ Every(kb.keys, GeometryOk)
    /\ HardwareOk(Opt(kb, "hardware", <<>>)) /\ LightingOk(Opt(kb, "lighting", <<>>))
    /\ "matrix" \in DOMAIN kb => MatrixOk(kb.matrix)
    /\ VialOk(Opt(kb, "vial", <<>>))

WordsIn(r, f, top) == f \in DOMAIN r => r[f] \in 0..top
MouseOk(m) ==
    /\ WordsIn(m, "cpi", 65535) /\ WordsIn(m, "autoLayerTimeoutMs", 65535)
    /\ Len(Opt(m, "accel", <<>>)) <= 255
    /\ Every(Opt(m, "accel", <<>>), LAMBDA p : ToSet(p) \subseteq 0..65535)
ClusterNodeOk(n) ==
    \A f \in {"positionBase", "rows", "cols", "encoderBase", "pointerBase"} :
        Opt(n, f, 0) >= 0
LinkProfileOk(p) ==
    /\ p.profile \in DOMAIN LinkProfileId
    /\ Every(Opt(p, "overrides", <<>>), LAMBDA o : o.knob \in 0..7 /\ o.value >= 0)
NodeOk(n) ==
    /\ Opt(n, "personality", "keyboard") \in {"keyboard", "mouse", "joystick", "dongle"}
    /\ Opt(n, "role", "follower") \in {"coordinator", "follower"}
    /\ Opt(n, "forwardMode", "resolved") \in {"resolved", "physical"}
    /\ MouseOk(Opt(n, "mouse", <<>>)) /\ Every(Opt(n, "cluster", <<>>), ClusterNodeOk)
    /\ LinkProfileOk(Opt(n, "linkProfile", [profile |-> "balanced"]))

\* BaseKeymapSchema.
DefaultsOk(d) == \A f \in DOMAIN d : d[f] >= IF f \in Positive THEN 1 ELSE 0
StructureOk(km) ==
    /\ km.schemaVersion = 1 /\ km.target \in BUILTIN_TARGETS \cup {NoTarget}
    /\ DefaultsOk(km.defaults) /\ KeyboardOk(km.keyboard)
    /\ km.layers # <<>> /\ Every(km.layers, LayerOk) /\ Every(km.combos, ComboOk)
    /\ Every(km.tapDances, TapDanceOk) /\ Every(km.macros, MacroOk)
    /\ Every(km.modMorphs, ModMorphOk) /\ Every(km.holdTaps, HoldTapDefOk)
    /\ Every(km.conditionalLayers, ConditionalLayerOk)
    /\ Every(km.keyOverrides, KeyOverrideOk) /\ Every(km.leaderSequences, LeaderSequenceOk)
    /\ Every(km.actionBindings, ActionBindingOk)
    /\ Every(Opt(km, "autocorrect", <<>>), AutocorrectEntryOk) /\ NodeOk(km.node)

----------------------------------------------------------------------------
\* What one part says of another.
DocLayerNames(km) == {km.layers[i].name : i \in DOMAIN km.layers}
DocIds(defs) == {defs[i].id : i \in DOMAIN defs}

RefsOf(km) == [macro |-> DocIds(km.macros), tap_dance |-> DocIds(km.tapDances),
               mod_morph |-> DocIds(km.modMorphs), hold_tap |-> DocIds(km.holdTaps)]

\* Of the actions that name a layer only these are looked at: a layer_mod or a
\* tap_toggle of no layer passes.
CheckAction(km, a) ==
    LET hasLayer(name) == name \in DocLayerNames(km)
    IN  CASE a.type = "tap_hold" -> a.hold.type = "layer" => hasLayer(a.hold.layer)
          [] a.type \in {"layer_tap", "layer"} -> hasLayer(a.layer)
          [] a.type \in DOMAIN RefsOf(km) -> a.ref \in RefsOf(km)[a.type]
          [] a.type = "output" ->
                "profile" \in DOMAIN a => a.action \in {"bluetooth", "bluetooth_disconnect"}
          [] a.type = "lighting" ->
                /\ a.action = "color" => {"hue", "saturation", "brightness"} \subseteq DOMAIN a
                /\ a.action = "set" => "level" \in DOMAIN a
          [] OTHER -> TRUE

CheckEncoder(km, e) ==
    /\ CheckAction(km, e.cw) /\ CheckAction(km, e.ccw)
    /\ "press" \in DOMAIN e => CheckAction(km, e.press)

\* A layer may have fewer bindings than there are keys, never more.
CheckLayer(km, l) ==
    LET keys == Len(km.keyboard.keys)
        encoders == Opt(l, "encoders", <<>>)
        atKeys == Opt(l, "encoderBindings", <<>>)
        sliders == Opt(l, "sliderBindings", <<>>)
    IN  /\ Len(l.bindings) <= keys
        /\ encoders # <<>> => Len(encoders) = Len(Opt(km.keyboard, "encoders", <<>>))
        /\ Every(l.bindings, LAMBDA a : CheckAction(km, a))
        /\ Every(encoders, LAMBDA e : CheckEncoder(km, e))
        /\ DOMAIN atKeys \cup DOMAIN sliders \subseteq 0..keys - 1
        /\ Every(atKeys, LAMBDA e : CheckEncoder(km, e))
        /\ \A k \in DOMAIN sliders :
              /\ {"min", "max"} \subseteq DOMAIN sliders[k] =>
                    sliders[k].min <= sliders[k].max
              /\ "action" \in DOMAIN sliders[k] => CheckAction(km, sliders[k].action)

\* Every key has a place in the matrix, and the matrix the size the GPIOs give.
CheckHardware(km) ==
    LET hw == Opt(km.keyboard, "hardware", <<>>)
        t == hw.transform
        keys == Len(km.keyboard.keys)
    IN  /\ "transform" \in DOMAIN hw =>
              /\ Len(t.map) = keys
              /\ \A i \in DOMAIN t.map : t.map[i][1] < t.rows /\ t.map[i][2] < t.columns
              /\ ("kscan" \in DOMAIN hw /\ hw.kscan.type = "matrix") =>
                    Len(hw.kscan.rowGpios) = t.rows /\ Len(hw.kscan.colGpios) = t.columns
        /\ ("kscan" \in DOMAIN hw /\ hw.kscan.type = "direct") =>
              Len(hw.kscan.inputGpios) = keys

KnownLayers(km, names) == ToSet(names) \subseteq DocLayerNames(km)

CrossChecked(km) ==
    LET entries == Opt(km, "autocorrect", <<>>)
        typo(i) == LowerCase(entries[i].typo)
    IN  /\ CheckHardware(km) /\ Every(km.layers, LAMBDA l : CheckLayer(km, l))
        /\ \A i \in DOMAIN km.combos :
              /\ ToSet(km.combos[i].keys) \subseteq 0..Len(km.keyboard.keys) - 1
              /\ CheckAction(km, km.combos[i].action)
              /\ KnownLayers(km, Opt(km.combos[i], "layers", <<>>))
        /\ Every(km.tapDances,
                 LAMBDA d : Every(d.taps, LAMBDA t : CheckAction(km, t.action)))
        /\ Every(km.modMorphs, LAMBDA d : Every(d.bindings, LAMBDA a : CheckAction(km, a)))
        /\ Every(km.conditionalLayers,
                 LAMBDA cl : KnownLayers(km, Append(cl.ifLayers, cl.thenLayer)))
        /\ Every(km.keyOverrides, LAMBDA ko : KnownLayers(km, Opt(ko, "layers", <<>>)))
        /\ Every(km.leaderSequences, LAMBDA ls : CheckAction(km, ls.action))
        /\ \A i, j \in DOMAIN entries : typo(i) = typo(j) => i = j

\* parseSurface: the document of version 1 a text holds, when it is one.  The
\* keys get the geometry they leave out.
SurfaceOf(doc) == MigrateToV1(doc)
ReadableSurface(km) == StructureOk(km) /\ CrossChecked(km)
WithGeometry(km) ==
    [km EXCEPT !.keyboard.keys = Each(@, LAMBDA k : <<k @@ GeometryBase>>)]
=============================================================================
