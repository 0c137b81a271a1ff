---------------------------- MODULE ConfigBridge ----------------------------
\* Between the canonical configuration and what the editor shows: a key of the
\* editor has one of nine kinds, a layer is a number, a composite the place of
\* its definition.  Lowering fills the editor, raising merges it back onto the
\* configuration it came from.
EXTENDS KeyCatalog

\* A key of the editor: its kind, its parameters, and what only its label tells,
\* the modifiers of a key press and the name of a composite.
NeutralKey(kind, params) == [kind |-> kind, params |-> params, mods |-> {}, name |-> ""]
TransparentKey == NeutralKey("trans", <<>>)

\* The place of the first s[i] with that name or id, counted from 0.
FirstPlace(s, name) ==
    IF name \in ToSet(s) THEN SelectInSeq(s, LAMBDA n : n = name) - 1 ELSE -1
PlaceOr0(s, name) == Max({0, FirstPlace(s, name)})
Ids(defs) == [i \in DOMAIN defs |-> defs[i].id]

\* The pool a composite refers to.
PoolOf(c, kind) ==
    CASE kind = "macro" -> c.macros [] kind = "td" -> c.tapDances [] kind = "mm" -> c.modMorphs
CompositeKind == [macro |-> "macro", tap_dance |-> "td", mod_morph |-> "mm"]

Composite(kind, c, ref) ==
    [NeutralKey(kind, <<PlaceOr0(Ids(PoolOf(c, kind)), ref)>>) EXCEPT !.name = ref]

\* What the editor cannot show is transparent there; a layer no name of which
\* is known is shown as the first.
LowerAction(a, names, c) ==
    LET layer(n) == PlaceOr0(names, n)
        shown(key, k) == IF key \in DOMAIN HidUsage THEN k ELSE TransparentKey
    IN  CASE a.type = "key_press" ->
                shown(a.key, [NeutralKey("kp", <<a.key>>) EXCEPT !.mods = a.mods])
          [] a.type = "tap_hold" ->
                shown(a.tap.key,
                      IF a.hold.type = "modifier"
                      THEN NeutralKey("mt", <<a.tap.key, a.hold.modifier>>)
                      ELSE NeutralKey("lt", <<a.tap.key, layer(a.hold.layer)>>))
          [] a.type = "layer" /\ a.mode = "momentary" -> NeutralKey("mo", <<layer(a.layer)>>)
          [] a.type = "layer" /\ a.mode = "toggle" -> NeutralKey("tog", <<layer(a.layer)>>)
          [] a.type \in DOMAIN CompositeKind -> Composite(CompositeKind[a.type], c, a.ref)
          [] OTHER -> TransparentKey

LayerNamesOf(layers) == [i \in DOMAIN layers |-> layers[i].name]

LowerConfig(c) ==
    LET key(b) == LowerAction(b, LayerNamesOf(c.layers), c)
    IN  Each(c.layers, LAMBDA l : <<[name |-> l.name,
                                     keys |-> Each(l.bindings, LAMBDA b : <<key(b)>>)]>>)

----------------------------------------------------------------------------
Transparent == [type |-> "transparent"]
Unraisable == [type |-> "unraisable"]
PressOf(key) == [type |-> "key_press", key |-> key, mods |-> {}]
Preset(key, hold) == [type |-> "tap_hold", tap |-> [key |-> key, mods |-> {}], hold |-> hold]

\* A layer that does not exist gives a transparent key, a composite that does
\* not exist nothing at all.
RaiseAction(k, names, c) ==
    LET p == k.params
        onLayer(i, F(_)) == IF i + 1 \in DOMAIN names THEN F(names[i + 1]) ELSE Transparent
        refer(type, defs) ==
            IF p[1] + 1 \in DOMAIN defs THEN [type |-> type, ref |-> defs[p[1] + 1].id]
            ELSE Unraisable
    IN  CASE k.kind = "trans" -> Transparent
          [] k.kind = "kp" -> PressOf(p[1])
          [] k.kind = "mt" -> Preset(p[1], [type |-> "modifier", modifier |-> p[2]])
          [] k.kind = "lt" ->
                onLayer(p[2], LAMBDA n : Preset(p[1], [type |-> "layer", layer |-> n]))
          [] k.kind = "mo" ->
                onLayer(p[1], LAMBDA n : [type |-> "layer", mode |-> "momentary", layer |-> n])
          [] k.kind = "tog" ->
                onLayer(p[1], LAMBDA n : [type |-> "layer", mode |-> "toggle", layer |-> n])
          [] k.kind = "macro" -> refer("macro", c.macros)
          [] k.kind = "td" -> refer("tap_dance", c.tapDances)
          [] k.kind = "mm" -> refer("mod_morph", c.modMorphs)

\* Labels and modifiers do not count.
SameRuntimeForm(k, l) == k.kind = l.kind /\ k.params = l.params

\* The merge: by the index of the layer and the place of the key.  A key that
\* still shows what its binding lowers to keeps the binding.
\* Mutant: the binding of before stands in only where the key cannot be raised.
RaiseBindingAnew(k, names, c, prev) ==
    LET raised == RaiseAction(k, names, c)
    IN  IF raised # Unraisable THEN raised
        ELSE IF prev # Unraisable THEN prev ELSE Transparent

RaiseBinding(k, names, c, prev) ==
    LET raised == RaiseAction(k, names, c)
    IN  IF prev # Unraisable /\ SameRuntimeForm(k, LowerAction(prev, names, c)) THEN prev
        ELSE IF raised # Unraisable THEN raised
        ELSE IF prev # Unraisable THEN prev ELSE Transparent

RaiseConfig(layers, c) ==
    LET names == LayerNamesOf(layers)
        prev(li, p) ==
            IF li \in DOMAIN c.layers /\ p \in DOMAIN c.layers[li].bindings
            THEN c.layers[li].bindings[p] ELSE Unraisable
        binding(li, p) == RaiseBinding(layers[li].keys[p], names, c, prev(li, p))
        raised ==
            Each([li \in DOMAIN layers |-> li], LAMBDA li :
                <<[name |-> layers[li].name,
                   encoders |-> IF li \in DOMAIN c.layers THEN c.layers[li].encoders ELSE <<>>,
                   bindings |-> Each([p \in DOMAIN layers[li].keys |-> p],
                                     LAMBDA p : <<binding(li, p)>>)]>>)
    IN  ("layers" :> raised) @@ c

----------------------------------------------------------------------------
\* The compact entries of the macro and tap-dance editors.  A key is a bare
\* usage there, so a key of another page comes back as the keyboard key of the
\* same number.
UsageOfKey(key) == IF key \in DOMAIN HidUsage THEN HidUsage[key][2] ELSE 0
KeyOfUsage(usage) == KeyAt(HID_PAGE_KEYBOARD, usage)

MacroKinds == [tap |-> "tap", press |-> "down", release |-> "up"]

\* What the compact form has no word for is left out.
MacroToActions(m) ==
    LET action(s) ==
            CASE s.type \in DOMAIN MacroKinds ->
                    <<[kind |-> MacroKinds[s.type], keycode |-> UsageOfKey(s.key)]>>
              [] s.type = "wait" -> <<[kind |-> "delay", ms |-> s.ms]>>
              [] s.type = "text" -> <<[kind |-> "text", text |-> s.text]>>
              [] OTHER -> <<>>
    IN  FlattenSeq([i \in DOMAIN m.steps |-> action(m.steps[i])])

ActionsToMacro(id, actions) ==
    LET step(a) ==
            CASE a.kind = "delay" -> <<[type |-> "wait", ms |-> a.ms]>>
              [] a.kind = "text" -> <<[type |-> "text", text |-> a.text]>>
              [] KeyOfUsage(a.keycode) = NoKey -> <<>>
              [] OTHER -> <<[type |-> CHOOSE t \in DOMAIN MacroKinds : MacroKinds[t] = a.kind,
                             key |-> KeyOfUsage(a.keycode)]>>
    IN  [id |-> id, steps |-> FlattenSeq([i \in DOMAIN actions |-> step(actions[i])])]

\* More than the four slots can hold: the editor shows it read-only.
IsRichTapDance(d) ==
    \/ "hold" \in DOMAIN d
    \/ \E i \in DOMAIN d.taps : d.taps[i].count > 2 \/ d.taps[i].action.type # "key_press"

TapDanceToEntry(d) ==
    LET on(count) ==
            LET taps == SelectSeq(d.taps, LAMBDA t : t.count = count)
            IN  IF taps # <<>> /\ taps[1].action.type = "key_press"
                THEN UsageOfKey(taps[1].action.key) ELSE 0
    IN  [onTap |-> on(1), onDoubleTap |-> on(2), tappingTerm |-> Opt(d, "tappingTermMs", 200)]

EntryToTapDance(id, e) ==
    LET tap(count, usage) ==
            IF KeyOfUsage(usage) = NoKey THEN <<>>
            ELSE <<[count |-> count, action |-> PressOf(KeyOfUsage(usage))]>>
    IN  With([id |-> id, taps |-> tap(1, e.onTap) \o tap(2, e.onDoubleTap)],
             "tappingTermMs", e.tappingTerm # 0, e.tappingTerm)

\* The configuration of a keyboard without a readable one.
DefaultConfig(keyCount) ==
    [layers |-> <<[name |-> "Base", encoders |-> <<>>,
                   bindings |-> [p \in 1..Max({1, keyCount}) |-> Transparent]]>>,
     keys |-> 0, defaults |-> <<>>, combos |-> <<>>, tapDances |-> <<>>, modMorphs |-> <<>>,
     holdTaps |-> <<>>, macros |-> <<>>, conditionalLayers |-> <<>>, keyOverrides |-> <<>>,
     leaderSequences |-> <<>>, actionBindings |-> <<>>, perKey |-> <<>>, node |-> <<>>]
=============================================================================
