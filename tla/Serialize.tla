------------------------------ MODULE Serialize ------------------------------
\* A configuration written as a document: the short form of each binding, the
\* author's spelling where it still means the key, nothing that equals its
\* default.
EXTENDS Normalize

TapHoldDefaults(target) ==
    [tappingTermMs |-> 200, quickTapMs |-> IF target \in {"qmk", "keychron"} THEN 200 ELSE 0]

\* keyToken.
KeyToken(id, hint) ==
    IF hint # "" /\ ResolveKeycode(hint) = id THEN hint ELSE FriendlyName(id)
Spelled(a) == KeyToken(a.key, Opt(a, "src", ""))

DenormalizeKeyPress(kp) ==
    Token(Mapped(SetToSortSeq(kp.mods, <), LAMBDA m : FriendlyMod[m + 1]), Spelled(kp))

DenormalizeHold(h) ==
    IF h.type = "modifier" THEN [type |-> "modifier", modifier |-> MODIFIERS[h.modifier + 1]]
    ELSE h

\* Timings equal to the target's default, flags that are off and times of zero
\* are implied.
WithTimings(a, target) ==
    LET implied(f) ==
            CASE f \in {"tappingTermMs", "quickTapMs"} -> a[f] = TapHoldDefaults(target)[f]
              [] f = "requirePriorIdleMs" -> a[f] = 0
              [] f \in {"retroTap", "holdTriggerOnRelease"} -> ~a[f]
              [] f = "holdTriggerKeyPositions" -> a[f] = <<>>
              [] OTHER -> FALSE
    IN  Pick(a, {f \in TapHoldTimings \cap DOMAIN a : ~implied(f)})

TapHoldForm(preset, tap, hold) ==
    CASE preset = "mod_tap" /\ hold.type = "modifier" ->
            [type |-> preset, tap |-> tap, mod |-> MODIFIERS[hold.modifier + 1]]
      [] preset = "layer_tap" /\ hold.type = "layer" ->
            [type |-> preset, tap |-> tap, layer |-> hold.layer]
      [] OTHER -> [type |-> "tap_hold", tap |-> tap, hold |-> DenormalizeHold(hold)]
DenormalizeTapHold(a, target) ==
    TapHoldForm(Opt(a, "preset", ""), DenormalizeKeyPress(a.tap), a.hold)
    @@ WithTimings(a, target)

DenormalizeAction(a, target) ==
    CASE a.type = "key_press" -> DenormalizeKeyPress(a)
      [] a.type = "tap_hold" -> DenormalizeTapHold(a, target)
      [] a.type \in {"sticky_key", "key_toggle"} -> [type |-> a.type, key |-> Spelled(a)]
      [] a.type = "auto_shift" ->
            [type |-> a.type, key |-> Spelled(a), mods |-> ModNames(a.mods)]
      [] a.type = "layer_mod" -> [a EXCEPT !.mods = ModNames(@)]
      [] a.type = "macro" /\ "param" \in DOMAIN a ->
            [type |-> a.type, ref |-> a.ref,
             param |-> KeyToken(a.param, Opt(a, "psrc", ""))]
      [] OTHER -> a

\* A hole in the encoders is written as one.
DenormalizeEncoder(e, target) == [d \in DOMAIN e |-> DenormalizeAction(e[d], target)]
WriteEncoder(e, target) ==
    IF "cw" \in DOMAIN e THEN DenormalizeEncoder(e, target) ELSE e

DenormalizeSlider(s, target) ==
    With(Drop(s, {"action"}), "action", "action" \in DOMAIN s,
         DenormalizeAction(s.action, target))

DenormalizeMacroStep(s) ==
    IF s.type \in {"tap", "press", "release"} THEN [type |-> s.type, key |-> Spelled(s)] ELSE s

TrimTrailingTransparent(bindings) ==
    SubSeq(bindings, 1, Max({0} \cup {i \in DOMAIN bindings : bindings[i].type # "transparent"}))

----------------------------------------------------------------------------
\* toSurfaceObject, section by section.
StripGeometry(k) == Pick(k, {f \in DOMAIN k : f \notin DOMAIN GeometryBase \/ k[f] # GeometryBase[f]})

SerializeBoard(c) ==
    LET some(r, f, v) == With(r, f, v # <<>>, v)
        lighting == some(Opt(c.keyboard, "lighting", <<>>), "perKey", c.perKey)
    IN  some(some(some([keys |-> Mapped(c.geometry, StripGeometry)],
                       "encoders", c.boardEncoders), "hardware", c.hardware),
             "lighting", lighting) @@ Drop(c.keyboard, {"lighting"})

SerializeLayer(l, target) ==
    LET some(r, f, v) == With(r, f, v # <<>>, v)
    IN  some(some(some([name |-> l.name,
                        bindings |-> Mapped(TrimTrailingTransparent(l.bindings),
                                            LAMBDA a : DenormalizeAction(a, target))],
                       "encoders", Mapped(l.encoders, LAMBDA e : WriteEncoder(e, target))),
                  "encoderBindings",
                  AtKeys(l, "encoderBindings", LAMBDA e : WriteEncoder(e, target))),
             "sliderBindings",
             AtKeys(l, "sliderBindings", LAMBDA s : DenormalizeSlider(s, target)))

SerializeTap(t, target) ==
    [count |-> t.count, action |-> DenormalizeAction(t.action, target)]
SerializeTapDance(d, target) ==
    With([id |-> d.id, taps |-> Mapped(d.taps, LAMBDA t : SerializeTap(t, target))]
         @@ Pick(d, {"tappingTermMs"}),
         "hold", "hold" \in DOMAIN d, DenormalizeHold(d.hold))

SerializeModMorph(d, target) ==
    With([id |-> d.id, mods |-> ModNames(d.mods),
          bindings |-> Mapped(d.bindings, LAMBDA a : DenormalizeAction(a, target))],
         "keepMods", "keepMods" \in DOMAIN d, ModNames(d.keepMods))

SerializeKeyOverride(ko) ==
    LET mods(r, f) == With(r, f, Opt(ko, f, {}) # {}, ModNames(ko[f]))
    IN  mods(mods(mods(With([trigger |-> FriendlyName(ko.trigger),
                             triggerMods |-> ModNames(ko.triggerMods)],
                            "replacement", "replacement" \in DOMAIN ko,
                            FriendlyName(ko.replacement)),
                       "negativeMods"), "suppressedMods"), "replacementMods")
        @@ Pick(ko, {"layers"})

ToSurface(c) ==
    [schemaVersion |-> 1, target |-> c.target, defaults |-> c.defaults,
     keyboard |-> SerializeBoard(c),
     layers |-> Mapped(c.layers, LAMBDA l : SerializeLayer(l, c.target)),
     combos |-> Mapped(c.combos, LAMBDA x :
                    [x EXCEPT !.action = DenormalizeAction(@, c.target)]),
     tapDances |-> Mapped(c.tapDances, LAMBDA d : SerializeTapDance(d, c.target)),
     macros |-> Mapped(c.macros, LAMBDA d :
                    [d EXCEPT !.steps = Mapped(@, DenormalizeMacroStep)]),
     modMorphs |-> Mapped(c.modMorphs, LAMBDA d : SerializeModMorph(d, c.target)),
     holdTaps |-> c.holdTaps, conditionalLayers |-> c.conditionalLayers,
     keyOverrides |-> Mapped(c.keyOverrides, SerializeKeyOverride),
     leaderSequences |->
         Mapped(c.leaderSequences, LAMBDA ls :
             [sequence |-> Mapped(ls.sequence, FriendlyName),
              action |-> DenormalizeAction(ls.action, c.target)]),
     actionBindings |-> c.actionBindings, node |-> c.node]
    @@ Pick(c, {"autocorrect"})

SerializeKeymap(c) == ToSurface(c)

\* preferredSourceJson: the author's own text while it says the same as what the
\* configuration is written as.  No source is an empty record.
PreferredSource(text, source) ==
    IF source # <<>> /\ Readable(source) /\ SerializeKeymap(ParseKeymap(source)) = text
    THEN source ELSE text
=============================================================================
