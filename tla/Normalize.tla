------------------------------ MODULE Normalize ------------------------------
\* A document that was read, lowered to the configuration the rest of the
\* program works on: one shape per behaviour, keys by their id, modifiers as
\* sets.  What the author spelled is kept as a hint: src, psrc and preset.  A list
\* the document leaves out is an empty one.
EXTENDS SurfaceSchema

\* What F makes of each element, computed once.
Mapped(s, F(_)) == <<>> \o [i \in DOMAIN s |-> F(s[i])]

Hinted(word) == [key |-> ResolveKeycode(word), src |-> word]

\* A key with modifiers in front is no spelling of the key.
NormalizeTapTarget(t) ==
    IF IsToken(t)
    THEN ParseKeyToken(t) @@ IF t.mods = <<>> THEN [src |-> t.name] ELSE <<>>
    ELSE Hinted(t.key) @@ [mods |-> ModsOf(Opt(t, "mods", <<>>))]

ModHold(name) == [type |-> "modifier", modifier |-> ModOf(name)]
NormalizeHold(h) == IF h.type = "modifier" THEN ModHold(h.modifier) ELSE h

PresetHold(a) ==
    CASE a.type = "mod_tap" -> ModHold(a.mod)
      [] a.type = "layer_tap" -> [type |-> "layer", layer |-> a.layer]
      [] OTHER -> NormalizeHold(a.hold)

NormalizeTapHold(a) ==
    With([type |-> "tap_hold", tap |-> NormalizeTapTarget(a.tap), hold |-> PresetHold(a)]
         @@ Pick(a, TapHoldTimings), "preset", a.type # "tap_hold", a.type)

NormalizeAction(a) ==
    CASE IsToken(a) \/ a.type = "key_press" -> [type |-> "key_press"] @@ NormalizeTapTarget(a)
      [] a.type \in {"tap_hold", "mod_tap", "layer_tap"} -> NormalizeTapHold(a)
      [] a.type \in {"sticky_key", "key_toggle"} -> [type |-> a.type] @@ Hinted(a.key)
      [] a.type = "auto_shift" ->
            [type |-> a.type, mods |-> ModsOf(a.mods)] @@ Hinted(a.key)
      [] a.type = "layer_mod" -> [type |-> a.type, layer |-> a.layer, mods |-> ModsOf(a.mods)]
      [] a.type = "macro" /\ "param" \in DOMAIN a ->
            [type |-> a.type, ref |-> a.ref, param |-> ResolveKeycode(a.param),
             psrc |-> a.param]
      [] OTHER -> Pick(a, {"type"} \cup FieldsOf(a.type))

NormalizeEncoder(e) == [turn \in DOMAIN e |-> NormalizeAction(e[turn])]

NormalizeSlider(s) ==
    With(Pick(s, {"map", "min", "max"}), "action", "action" \in DOMAIN s,
         NormalizeAction(s.action))

NormalizeMacroStep(s) ==
    CASE s.type \in {"tap", "press", "release"} -> [type |-> s.type] @@ Hinted(s.key)
      [] OTHER -> Pick(s, {"type", "ms", "text", "from", "to"})

PadBindings(bindings, keyCount) ==
    bindings \o [i \in 1..keyCount - Len(bindings) |-> [type |-> "transparent"]]

----------------------------------------------------------------------------
\* normalizeKeymap, section by section.
AtKeys(l, f, F(_)) == [k \in DOMAIN Opt(l, f, <<>>) |-> F(l[f][k])]

NormalizeLayer(l, keyCount) ==
    LET some(r, f, v) == With(r, f, v # <<>>, v)
    IN  some(some([name |-> l.name,
                   bindings |-> PadBindings(Mapped(l.bindings, NormalizeAction), keyCount),
                   encoders |-> Mapped(Opt(l, "encoders", <<>>), NormalizeEncoder)],
                  "encoderBindings", AtKeys(l, "encoderBindings", NormalizeEncoder)),
             "sliderBindings", AtKeys(l, "sliderBindings", NormalizeSlider))

\* What else the keyboard says of itself; of its lights the colours are kept apart.
BoardFields ==
    {"id", "name", "matrix", "controller", "vial", "pins", "firmware", "lighting",
     "firmwareConfig", "layouts", "layoutOptions", "split"}
BoardSays(kb) ==
    LET says == Pick(kb, BoardFields)
    IN  IF "lighting" \in DOMAIN says THEN [says EXCEPT !.lighting = Drop(@, {"perKey"})] ELSE says

NormalizeBoard(kb) ==
    [keys |-> Len(kb.keys), geometry |-> kb.keys,
     boardEncoders |-> Opt(kb, "encoders", <<>>), hardware |-> Opt(kb, "hardware", <<>>),
     perKey |-> Opt(Opt(kb, "lighting", <<>>), "perKey", <<>>), keyboard |-> BoardSays(kb)]

NormalizeCombo(c) ==
    [action |-> NormalizeAction(c.action)] @@ Pick(c, {"name", "keys", "timeoutMs", "layers"})

NormalizeTap(t) == [count |-> t.count, action |-> NormalizeAction(t.action)]
NormalizeTapDance(d) ==
    With([id |-> d.id, taps |-> Mapped(d.taps, NormalizeTap)] @@ Pick(d, {"tappingTermMs"}),
         "hold", "hold" \in DOMAIN d, NormalizeHold(d.hold))

NormalizeMacro(d) ==
    [id |-> d.id, steps |-> Mapped(d.steps, NormalizeMacroStep)] @@ Pick(d, {"params"})

NormalizeModMorph(d) ==
    With([id |-> d.id, mods |-> ModsOf(d.mods), bindings |-> Mapped(d.bindings, NormalizeAction)],
         "keepMods", "keepMods" \in DOMAIN d, ModsOf(d.keepMods))

HoldTapDefFields ==
    {"id", "flavor", "bindings", "holdTriggerKeyPositions"} \cup HoldTapTimes \cup HoldTapFlags
NormalizeHoldTap(d) == Pick(d, HoldTapDefFields)

NormalizeKeyOverride(ko) ==
    LET mods(r, f) == With(r, f, Opt(ko, f, <<>>) # <<>>, ModsOf(ko[f]))
    IN  mods(mods(mods(With([trigger |-> ResolveKeycode(ko.trigger),
                             triggerMods |-> ModsOf(ko.triggerMods)],
                            "replacement", "replacement" \in DOMAIN ko,
                            ResolveKeycode(ko.replacement)),
                       "negativeMods"), "suppressedMods"), "replacementMods")
        @@ Pick(ko, {"layers"})

NormalizeLeader(ls) ==
    [sequence |-> Mapped(ls.sequence, ResolveKeycode), action |-> NormalizeAction(ls.action)]

NormalizeEntry(e) == [typo |-> LowerCase(e.typo), correction |-> e.correction]

NormalizeKeymap(km) ==
    With([target |-> km.target, defaults |-> km.defaults,
          layers |-> Mapped(km.layers, LAMBDA l : NormalizeLayer(l, Len(km.keyboard.keys))),
          combos |-> Mapped(km.combos, NormalizeCombo),
          tapDances |-> Mapped(km.tapDances, NormalizeTapDance),
          macros |-> Mapped(km.macros, NormalizeMacro),
          modMorphs |-> Mapped(km.modMorphs, NormalizeModMorph),
          holdTaps |-> Mapped(km.holdTaps, NormalizeHoldTap),
          conditionalLayers |-> km.conditionalLayers,
          keyOverrides |-> Mapped(km.keyOverrides, NormalizeKeyOverride),
          leaderSequences |-> Mapped(km.leaderSequences, NormalizeLeader),
          actionBindings |-> km.actionBindings, node |-> km.node]
         @@ NormalizeBoard(km.keyboard),
         "autocorrect", "autocorrect" \in DOMAIN km,
         Mapped(Opt(km, "autocorrect", <<>>), NormalizeEntry))

\* parseKeymap: the configuration a document stands for, if it can be read.
Readable(doc) == ReadableSurface(SurfaceOf(doc))
ParseKeymap(doc) == NormalizeKeymap(WithGeometry(SurfaceOf(doc)))
=============================================================================
