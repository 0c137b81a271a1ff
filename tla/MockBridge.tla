----------------------------- MODULE MockBridge -----------------------------
\* Between a configuration and the keys the demo keyboard shows: it has a few
\* kinds of key, the configuration many kinds of action.  A key holds the fields
\* of its kind, its label left out.
EXTENDS Serialize

\* The kinds of key; the last three are placed by hand and no action of a
\* configuration.
Kind(name) == [kind |-> name]
TransparentForm == Kind("trans")
CommandKinds == {"bt", "mkp", "mmv"}

\* The commands of the light that the demo has, by their number.
UnderglowCommand ==
    [toggle |-> 0, hue_up |-> 3, hue_down |-> 4, saturation_up |-> 5, saturation_down |-> 6,
     brightness_up |-> 7, brightness_down |-> 8, effect_next |-> 11]
UnderglowAction(cmd) == CHOOSE a \in DOMAIN UnderglowCommand : UnderglowCommand[a] = cmd

\* mockCodec: every key with a HID usage has a code.
Supports(key) == key \in DOMAIN HidUsage

\* Types of action a transparent key does not stand in for.
NON_REPRESENTABLE ==
    {"sticky_key", "caps_word", "none", "output", "lighting", "bootloader", "reset", "macro",
     "tap_dance"}
IsNonRepresentable(a) ==
    a.type \in NON_REPRESENTABLE \/ (a.type = "layer" /\ a.mode \in {"to", "sticky"})

----------------------------------------------------------------------------
\* lowerConfigToMock.  Of two layers with one name the first is meant, of an
\* unknown one the bottom layer.
NamesOfLayers(layers) == Mapped(layers, LAMBDA l : l.name)
IndexOfLayer(names, name) == Max({1, SelectInSeq(names, LAMBDA n : n = name)}) - 1

LowerLayerKey(a, names) ==
    IF a.mode \in {"momentary", "toggle"}
    THEN Kind(IF a.mode = "toggle" THEN "tog" ELSE "mo")
         @@ [layer |-> IndexOfLayer(names, a.layer)]
    ELSE TransparentForm

LowerTapHoldKey(a, names) ==
    IF ~Supports(a.tap.key) THEN TransparentForm
    ELSE IF a.hold.type = "modifier"
         THEN Kind("mt") @@ [key |-> a.tap.key, mod |-> a.hold.modifier]
         ELSE Kind("lt") @@ [key |-> a.tap.key, layer |-> IndexOfLayer(names, a.hold.layer)]

LowerToKey(a, names) ==
    CASE a.type = "key_press" /\ Supports(a.key) -> Kind("kp") @@ [key |-> a.key]
      [] a.type = "tap_hold" -> LowerTapHoldKey(a, names)
      [] a.type = "layer" -> LowerLayerKey(a, names)
      [] a.type = "lighting" /\ a.target = "underglow" /\ a.action \in DOMAIN UnderglowCommand ->
            Kind("rgb_ug") @@ [cmd |-> UnderglowCommand[a.action]]
      [] OTHER -> TransparentForm

\* Every layer has a knob for each slot of the board, also one that binds fewer.
LowerKnobs(bound, slots, names) ==
    [i \in 1..slots |->
        IF i \in DOMAIN bound
        THEN [cw |-> LowerToKey(bound[i].cw, names), ccw |-> LowerToKey(bound[i].ccw, names)]
        ELSE [cw |-> TransparentForm, ccw |-> TransparentForm]]

LowerConfigToMock(c) ==
    LET names == NamesOfLayers(c.layers)
        slots == Len(c.boardEncoders)
        lower(l) ==
            With([name |-> l.name, keys |-> Mapped(l.bindings, LAMBDA a : LowerToKey(a, names))],
                 "encoders", slots > 0, LowerKnobs(l.encoders, slots, names))
    IN  Mapped(c.layers, lower)

----------------------------------------------------------------------------
\* raiseAction: the action of a key; one on a layer that is not there is
\* transparent.
Transparent == [type |-> "transparent"]
PlainTap(key) == [key |-> key, mods |-> {}]
RaiseOnLayer(ka, names, shape) ==
    IF ka.layer < Len(names) THEN shape ELSE Transparent

RaiseKey(ka, names) ==
    LET layer == names[ka.layer + 1]
        onLayer(mode) ==
            RaiseOnLayer(ka, names, [type |-> "layer", mode |-> mode, layer |-> layer])
        tapHold(preset, hold) ==
            [type |-> "tap_hold", tap |-> PlainTap(ka.key), hold |-> hold, preset |-> preset]
    IN  CASE ka.kind = "trans" -> Transparent
          [] ka.kind = "kp" -> [type |-> "key_press"] @@ PlainTap(ka.key)
          [] ka.kind = "mt" -> tapHold("mod_tap", [type |-> "modifier", modifier |-> ka.mod])
          [] ka.kind = "lt" ->
                RaiseOnLayer(ka, names, tapHold("layer_tap", [type |-> "layer", layer |-> layer]))
          [] ka.kind = "mo" -> onLayer("momentary")
          [] ka.kind = "tog" -> onLayer("toggle")
          [] ka.kind = "rgb_ug" ->
                [type |-> "lighting", target |-> "underglow", action |-> UnderglowAction(ka.cmd)]

\* What is the same but for the author's spelling.
Hints == {"src", "psrc", "preset"}
WithoutHints(a) ==
    LET bare == Drop(a, Hints)
    IN  IF "tap" \in DOMAIN bare THEN [bare EXCEPT !.tap = Drop(@, Hints)] ELSE bare
SameAction(a, b) == WithoutHints(a) = WithoutHints(b)

\* Mutant: the transparent key wins over what it could not show.
MergeWithoutRich(ka, prev, names) ==
    IF ka.kind \in CommandKinds THEN prev
    ELSE LET raised == RaiseKey(ka, names) IN IF SameAction(raised, prev) THEN prev ELSE raised

MergeKey(ka, prev, names) ==
    IF ka.kind \in CommandKinds THEN prev
    ELSE LET raised == RaiseKey(ka, names)
         IN  IF (raised.type = "transparent" /\ IsNonRepresentable(prev))
                \/ SameAction(raised, prev)
             THEN prev ELSE raised

\* raiseMockToConfig: by position, on the layer of the same place.  No layer
\* before is one of transparent keys.
At(s, i, d) == IF i \in DOMAIN s THEN s[i] ELSE d
NoLayer == [bindings |-> <<>>, encoders |-> <<>>]
NoKnob == [cw |-> Transparent, ccw |-> Transparent]

\* Mutant: the other way is forgotten.
MergeKnobOneWay(e, prev, names) ==
    [cw |-> MergeKey(e.cw, prev.cw, names)] @@ Pick(prev, {"press"})

MergeKnob(e, prev, names) ==
    [cw |-> MergeKey(e.cw, prev.cw, names), ccw |-> MergeKey(e.ccw, prev.ccw, names)]
    @@ Pick(prev, {"press"})

MergeLayer(rl, prev, names) ==
    [name |-> rl.name,
     bindings |-> [p \in DOMAIN rl.keys |->
                      MergeKey(rl.keys[p], At(prev.bindings, p, Transparent), names)],
     encoders |->
        IF "encoders" \in DOMAIN rl
        THEN [e \in DOMAIN rl.encoders |->
                 MergeKnob(rl.encoders[e], At(prev.encoders, e, NoKnob), names)]
        ELSE prev.encoders]

RaiseMockToConfig(layers, prev) ==
    LET names == NamesOfLayers(layers)
        all == [i \in DOMAIN layers |-> i]
    IN  [prev EXCEPT !.layers =
            Mapped(all, LAMBDA i : MergeLayer(layers[i], At(prev.layers, i, NoLayer), names))]

----------------------------------------------------------------------------
\* configFromBoardDef: the same layers on another board.  Mutant: a key the new
\* board does not have stays bound.
ReboundPadded(bindings, keyCount) == PadBindings(bindings, keyCount)

Rebound(bindings, keyCount) ==
    [p \in 1..keyCount |-> At(bindings, p, Transparent)]

ConfigFromBoardDef(def, c) ==
    LET slots == Len(def.encoders)
        keyCount == Len(def.keys)
        rehome(l) ==
            [l EXCEPT !.bindings = Rebound(@, keyCount),
                      !.encoders = [e \in 1..slots |-> At(@, e, NoKnob)]]
        matrix == [rows |-> def.rows, cols |-> def.columns] @@ Opt(c.keyboard, "matrix", <<>>)
    IN  [c EXCEPT !.keys = keyCount, !.geometry = def.keys, !.boardEncoders = def.encoders,
                  !.keyboard = [name |-> def.name, matrix |-> matrix] @@ @,
                  !.layers = Mapped(@, rehome)]
=============================================================================
