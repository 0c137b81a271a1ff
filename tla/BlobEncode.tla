----------------------------- MODULE BlobEncode -----------------------------
\* The `remappr` compiler: a canonical configuration lowered to a blob.  Every
\* lowering of an action answers a record and what it reported; the records
\* share the pools of macros and sub-behaviours, so the lowering of a binding
\* depends on every binding lowered before it.  Diagnostics are named by what
\* they report, warnings and errors apart.
EXTENDS Autocorrect, KeyNames

NoneRec ==
    [type |-> BehaviorType.None, flavor |-> 0, flags |-> 0, subCount |-> 0,
     tap |-> 0, hold |-> 0, tappingTermMs |-> 0, quickTapMs |-> 0,
     requirePriorIdleMs |-> 0, subIndex |-> 0, posHold |-> <<>>]

Rec(type) == [NoneRec EXCEPT !.type = type]
RecTap(type, tap) == [Rec(type) EXCEPT !.tap = tap]
RecHold(type, hold) == [Rec(type) EXCEPT !.hold = hold]
RecBoth(type, tap, hold) == [RecTap(type, tap) EXCEPT !.hold = hold]

\* What a lowering answers: a record and its diagnostics.  An error leaves the
\* binding without a behaviour.
Ok(r) == [rec |-> r, diag |-> {}]
Warned(r, what) == [rec |-> r, diag |-> what]
Err(what) == [rec |-> NoneRec, diag |-> {what}]

\* Only keyboard-page usages can be a tap key, a macro step or part of a sequence.
IsKeyboardKey(key) == key \in DOMAIN HidUsage /\ HidUsage[key][1] = HID_PAGE_KEYBOARD
KeyErr(key) == IF key \in DOMAIN HidUsage THEN "page" ELSE "usage"
KeyUsage(key) == IF IsKeyboardKey(key) THEN HidUsage[key][2] ELSE 0
WithKey(key, F(_)) ==
    IF IsKeyboardKey(key) THEN Ok(F(HidUsage[key][2])) ELSE Err(KeyErr(key))

\* Layer names resolve through a map filled in order: the last of a name wins.
LayerNames(c) == {c.layers[i].name : i \in DOMAIN c.layers}
LayerIndex(c, name) == Max({i \in DOMAIN c.layers : c.layers[i].name = name}) - 1
WithLayer(c, name, F(_)) ==
    IF name \in LayerNames(c) THEN Ok(F(LayerIndex(c, name))) ELSE Err("layer")

UsageToModBit(u) == IF u \in 224..231 THEN 2^(u - 224) ELSE 0

----------------------------------------------------------------------------
\* Macros: a text is typed character by character, Shift held around a capital.
CharSteps(ch) ==
    LET tap == <<[op |-> MacroOp.tap, arg |-> CharUsage[ch].usage]>>
        shift(op) == <<[op |-> op, arg |-> 225]>>
    IN  CASE ch \notin DOMAIN CharUsage -> <<>>
          [] CharUsage[ch].shift -> shift(MacroOp.press) \o tap \o shift(MacroOp.release)
          [] OTHER -> tap
TextSteps(text) == Each(text, CharSteps)

LowerMacroStep(s) ==
    CASE s.type \in {"tap", "press", "release"} ->
            IF IsKeyboardKey(s.key)
            THEN [out |-> <<[op |-> MacroOp[s.type], arg |-> KeyUsage(s.key)]>>, diag |-> {}]
            ELSE [out |-> <<>>, diag |-> {KeyErr(s.key)}]
      [] s.type = "wait" ->
            [out |-> <<[op |-> MacroOp.wait, arg |-> Min({s.ms, 65535})]>>, diag |-> {}]
      [] s.type = "text" ->
            [out |-> TextSteps(s.text),
             diag |-> IF ToSet(s.text) \subseteq DOMAIN CharUsage THEN {} ELSE {"char"}]
      [] s.type = "pause_for_release" ->
            [out |-> <<[op |-> MacroOp.pause, arg |-> 0]>>, diag |-> {}]

\* tap_time turns every later tap into press, wait and release; param hands the
\* next key step the key the macro is bound with.  NoKey: no argument.
IsKeyStep(s) == s.type \in {"tap", "press", "release"}

Act(st, s) ==
    LET press(u) == <<[op |-> MacroOp.press, arg |-> u],
                      [op |-> MacroOp.wait, arg |-> st.tapMs],
                      [op |-> MacroOp.release, arg |-> u]>>
        lowered(low) == [st EXCEPT !.out = @ \o low.out, !.diag = @ \cup low.diag]
    IN  IF s.type = "tap" /\ st.tapMs > 0 /\ IsKeyboardKey(s.key)
        THEN [st EXCEPT !.out = @ \o press(KeyUsage(s.key))]
        ELSE lowered(LowerMacroStep(s))

TakeStep(st, s, substKey) ==
    CASE s.type = "tap_time" -> [st EXCEPT !.tapMs = Min({s.ms, 65535})]
      [] s.type = "param" ->
            IF Opt(s, "from", 1) # 1 \/ Opt(s, "to", 1) # 1 \/ substKey = NoKey
            THEN [st EXCEPT !.diag = @ \cup {"param"}]
            ELSE [st EXCEPT !.pending = TRUE]
      [] OTHER -> Act([st EXCEPT !.pending = @ /\ ~IsKeyStep(s)],
                      IF IsKeyStep(s) /\ st.pending THEN [s EXCEPT !.key = substKey] ELSE s)

LowerMacroSteps(m, substKey) ==
    LET done(end) == [out |-> end.out,
                      diag |-> end.diag \cup IF end.pending THEN {"trailing param"} ELSE {}]
    IN  done(FoldLeft(LAMBDA st, s : TakeStep(st, s, substKey),
                      [tapMs |-> 0, pending |-> FALSE, out |-> <<>>, diag |-> {}], m.steps))

IsTemplate(m) == \E i \in DOMAIN m.steps : m.steps[i].type = "param"

\* The context every binding is lowered in: the macro records with the index of
\* each plain macro and of each instance of a template, the pool of
\* sub-behaviours, the composites already lowered (memo) or being lowered
\* (inProgress), the labels to store and the diagnostics so far.
Fresh == [records |-> <<>>, index |-> <<>>, instances |-> <<>>, instanceNames |-> <<>>,
          subs |-> <<>>, memo |-> <<>>, inProgress |-> {}, names |-> <<>>, diag |-> {}]

\* Plain macros get their records up front, templates one per argument later.
WithMacro(cx, m, low) ==
    [cx EXCEPT !.index = (m.id :> Len(cx.records)) @@ @,
               !.records = Append(@, low.out), !.diag = @ \cup low.diag]
BuildMacros(c) ==
    FoldLeft(LAMBDA cx, m : IF IsTemplate(m) THEN cx
                            ELSE WithMacro(cx, m, LowerMacroSteps(m, NoKey)),
             Fresh, c.macros)

\* The macro a name stands for: the last definition of it.
DefOf(defs, id) == defs[Max({i \in DOMAIN defs : defs[i].id = id})]
IsDefined(defs, id) == \E i \in DOMAIN defs : defs[i].id = id

----------------------------------------------------------------------------
FlavorCode(a) ==
    CASE "flavor" \in DOMAIN a -> Flavor[a.flavor]
      [] Opt(a, "resolve", "") = "prefer-hold" -> Flavor.hold_preferred
      [] Opt(a, "resolve", "") = "prefer-tap" -> Flavor.tap_preferred
      [] OTHER -> Flavor.balanced

\* Tap-hold timing: an action's own quick-tap wins, an explicit 0 included.
TapHoldRec(type, a, flavor, tap, hold, quickTapDefault) ==
    [RecBoth(type, tap, hold) EXCEPT
        !.flavor = flavor,
        !.tappingTermMs = Opt(a, "tappingTermMs", 0),
        !.quickTapMs = Opt(a, "quickTapMs", quickTapDefault),
        !.requirePriorIdleMs = Opt(a, "requirePriorIdleMs", 0),
        !.flags = Mask({f \in {RETRO_TAP, HOLD_TRIGGER_ON_RELEASE} :
                           \/ f = RETRO_TAP /\ Opt(a, "retroTap", FALSE)
                           \/ f = HOLD_TRIGGER_ON_RELEASE /\ Opt(a, "holdTriggerOnRelease", FALSE)}),
        !.posHold = Opt(a, "holdTriggerKeyPositions", <<>>)]

QuickTap(c) == Opt(c.defaults, "quickTapMs", 0)
HeldTap(c, a, type, hold) ==
    TapHoldRec(type, a, FlavorCode(a), KeyUsage(a.tap.key), hold, QuickTap(c))

LowerTapHold(c, a) ==
    LET dropped == IF a.tap.mods # {} THEN {"mods dropped"} ELSE {}
        also(low) == [low EXCEPT !.diag = @ \cup dropped]
    IN  also(CASE ~IsKeyboardKey(a.tap.key) -> Err(KeyErr(a.tap.key))
               [] a.hold.type = "modifier" ->
                     Ok(HeldTap(c, a, BehaviorType.ModTap, 2^a.hold.modifier))
               [] OTHER -> WithLayer(c, a.hold.layer,
                                     LAMBDA li : HeldTap(c, a, BehaviorType.LayerTap, li)))

\* A custom hold-tap: the wire has a key to tap and a modifier or a layer to hold.
\* Its parameters are spelled as in a document.
HeldDef(c, d, type, tapKey, hold) ==
    TapHoldRec(type, d, IF "flavor" \in DOMAIN d THEN Flavor[d.flavor] ELSE Flavor.balanced,
               KeyUsage(tapKey), hold, QuickTap(c))

LowerDef(c, a, d, tapKey, bit) ==
    CASE d.bindings[2] # "kp" \/ ~IsKeyboardKey(tapKey) -> Err("shape")
      [] d.bindings[1] \in {"kp", "sk"} /\ bit # 0 ->
            Ok(HeldDef(c, d, BehaviorType.ModTap, tapKey, bit))
      [] d.bindings[1] \in {"mo", "to", "tog"} ->
            WithLayer(c, a.holdParam,
                      LAMBDA li : HeldDef(c, d, BehaviorType.LayerTap, tapKey, li))
      [] OTHER -> Err("shape")

LowerHoldTap(c, a) ==
    IF ~IsDefined(c.holdTaps, a.ref) THEN Err("ref")
    ELSE LowerDef(c, a, DefOf(c.holdTaps, a.ref), ResolveKeycode(a.tapParam),
                  UsageToModBit(KeyUsage(ResolveKeycode(a.holdParam))))

LowerKeyPress(a) ==
    LET page == HidUsage[a.key][1]
        bare == IF a.mods # {} THEN {"mods dropped"} ELSE {}
    IN  CASE a.key \notin DOMAIN HidUsage -> Err("usage")
          [] page = HID_PAGE_CONSUMER ->
                Warned(RecTap(BehaviorType.Consumer, HidUsage[a.key][2]), bare)
          [] page = HID_PAGE_SYSTEM ->
                Warned(RecTap(BehaviorType.SysCtrl, HidUsage[a.key][2]), bare)
          [] page # HID_PAGE_KEYBOARD -> Err("page")
          [] a.mods # {} -> Ok(RecBoth(BehaviorType.KeyMods, KeyUsage(a.key), Mask(a.mods)))
          [] OTHER -> Ok(RecTap(BehaviorType.Key, KeyUsage(a.key)))

LowerStickyKey(a) ==
    WithKey(a.key, LAMBDA u : IF UsageToModBit(u) # 0
                              THEN RecHold(BehaviorType.StickyMod, UsageToModBit(u))
                              ELSE RecTap(BehaviorType.StickyKey, u))

LowerLighting(a) ==
    LET spare(f) == IF a.action = "color" THEN Opt(a, f, 0) ELSE 0
    IN  [RecBoth(BehaviorType.Lighting, LightingActionCode[a.action],
                 LightingTargetCode[a.target]) EXCEPT
            !.tappingTermMs = spare("hue"),
            !.quickTapMs = spare("saturation"),
            !.requirePriorIdleMs =
                IF a.action = "set" THEN Opt(a, "level", 0) ELSE spare("brightness")]

\* The actions whose record is a type and at most one code.
PlainType ==
    [none |-> BehaviorType.None, transparent |-> BehaviorType.Trans,
     key_repeat |-> BehaviorType.KeyRepeat, caps_word |-> BehaviorType.CapsWord,
     alt_repeat |-> BehaviorType.AltRepeat, layer_lock |-> BehaviorType.LayerLock]
LayerModeType ==
    [momentary |-> BehaviorType.Momentary, to |-> BehaviorType.To,
     toggle |-> BehaviorType.ToggleLayer, sticky |-> BehaviorType.StickyLayer]
LayerActionType ==
    [tap_toggle |-> BehaviorType.LayerTapToggle, set_base_saved |-> BehaviorType.ToSaved,
     auto_layer |-> BehaviorType.AutoLayer]
LockType == [gui_lock |-> BehaviorType.GuiLock, secure |-> BehaviorType.Secure,
             autocorrect |-> BehaviorType.Autocorrect]
NumberType ==
    [tune_tap_term |-> [type |-> BehaviorType.TuneTerm, field |-> "ms"],
     unicode |-> [type |-> BehaviorType.Unicode, field |-> "codepoint"],
     macro_record |-> [type |-> BehaviorType.MacroRecord, field |-> "slot"],
     macro_play |-> [type |-> BehaviorType.MacroPlay, field |-> "slot"],
     leader |-> [type |-> BehaviorType.Leader, field |-> "windowMs"]]

LowerSystem(a) ==
    RecTap(BehaviorType.System,
           CASE a.type # "ext_power" -> SystemAction[a.type]
             [] a.action = "on" -> SystemAction.ext_power_on
             [] a.action = "off" -> SystemAction.ext_power_off
             [] OTHER -> SystemAction.ext_power_toggle)

\* The actions that stand alone: no pool, no macro.
LowerAlone(c, a) ==
    CASE a.type = "key_press" -> LowerKeyPress(a)
      [] a.type = "tap_hold" -> LowerTapHold(c, a)
      [] a.type = "hold_tap" -> LowerHoldTap(c, a)
      [] a.type = "sticky_key" -> LowerStickyKey(a)
      [] a.type = "key_toggle" -> WithKey(a.key, LAMBDA u : RecTap(BehaviorType.KeyToggle, u))
      [] a.type = "auto_shift" ->
            WithKey(a.key, LAMBDA u : RecBoth(BehaviorType.AutoShift, u, Mask(a.mods)))
      [] a.type \in DOMAIN PlainType -> Ok(Rec(PlainType[a.type]))
      [] a.type = "layer" ->
            WithLayer(c, a.layer, LAMBDA li : RecHold(LayerModeType[a.mode], li))
      [] a.type \in DOMAIN LayerActionType ->
            WithLayer(c, a.layer, LAMBDA li : RecHold(LayerActionType[a.type], li))
      [] a.type = "layer_mod" ->
            WithLayer(c, a.layer, LAMBDA li : RecBoth(BehaviorType.LayerMod, Mask(a.mods), li))
      [] a.type \in {"reset", "bootloader", "soft_off", "ext_power"} -> Ok(LowerSystem(a))
      [] a.type = "mouse_key" ->
            Ok(RecBoth(BehaviorType.Mouse, MouseOp.mouse_key, MouseButtonCode[a.button]))
      [] a.type \in {"mouse_move", "mouse_scroll"} ->
            Ok(RecBoth(BehaviorType.Mouse, MouseOp[a.type], MouseDirCode[a.direction]))
      [] a.type = "output" ->
            Ok(RecBoth(BehaviorType.Output, OutputActionCode[a.action],
                       Opt(a, "profile", OUTPUT_NO_PROFILE)))
      [] a.type = "lighting" -> Ok(LowerLighting(a))
      [] a.type \in DOMAIN LockType -> Ok(RecTap(LockType[a.type], LockAction[a.action]))
      [] a.type \in DOMAIN NumberType ->
            Ok(RecTap(NumberType[a.type].type, Opt(a, NumberType[a.type].field, 0)))
      [] a.type = "peripheral" ->
            Ok(RecBoth(BehaviorType.Peripheral, PeripheralKind[a.kind], a.code))
      [] OTHER -> Err("unsupported")          \* studio_unlock, an unknown type

----------------------------------------------------------------------------
\* What the lowering of a binding answers here is the record and the context it
\* leaves behind.
Left(r, cx) == [rec |-> r, cx |-> cx]
Report(cx, what) == [cx EXCEPT !.diag = @ \cup {what}]
Said(low, cx) == Left(low.rec, [cx EXCEPT !.diag = @ \cup low.diag])

\* A template is cloned for each argument it is bound with, once per argument.
LowerMacro(c, a, cx) ==
    LET bound == "param" \in DOMAIN a
        tpl == IsDefined(c.macros, a.ref) /\ \E m \in ToSet(c.macros) : m.id = a.ref /\ IsTemplate(m)
        m == DefOf(SelectSeq(c.macros, IsTemplate), a.ref)
        instance == a.ref \o "(" \o a.param \o ")"
        with(low) == [cx EXCEPT
                        !.records = Append(@, low.out),
                        !.instances = (instance :> Len(cx.records)) @@ @,
                        !.instanceNames = Append(@, [kind |-> NameKind.Macro,
                                                     ref |-> Len(cx.records),
                                                     name |-> instance]),
                        !.diag = @ \cup low.diag]
    IN  CASE tpl /\ ~bound -> Left(NoneRec, Report(cx, "param"))
          [] tpl /\ instance \in DOMAIN cx.instances ->
                Left(RecTap(BehaviorType.Macro, cx.instances[instance]), cx)
          [] tpl ->
                Left(RecTap(BehaviorType.Macro, Len(cx.records)),
                     with(LowerMacroSteps(m, a.param)))
          [] a.ref \notin DOMAIN cx.index -> Left(NoneRec, Report(cx, "ref"))
          [] OTHER -> Left(RecTap(BehaviorType.Macro, cx.index[a.ref]),
                           IF bound THEN Report(cx, "param ignored") ELSE cx)

\* withComposite: a composite is lowered once; one that reaches itself is left
\* without a behaviour.
Memoised(key, built) ==
    Left(built.rec, [built.cx EXCEPT !.inProgress = @ \ {key},
                                     !.memo = (key :> built.rec) @@ @])
WithComposite(key, cx, Build(_)) ==
    CASE key \in DOMAIN cx.memo -> Left(cx.memo[key], cx)
      [] key \in cx.inProgress -> Left(NoneRec, Report(cx, "self"))
      [] OTHER -> Memoised(key, Build([cx EXCEPT !.inProgress = @ \cup {key}]))

\* The slots of a composite take the next places of the pool.
Pool(cx, slots, kind, name) ==
    [cx EXCEPT !.subs = @ \o slots,
               !.names = Append(@, [kind |-> kind, ref |-> Len(cx.subs), name |-> name])]

RECURSIVE Lower(_, _, _), LowerTaps(_, _, _)

\* Each tap fills the slot of its count; a count without a tap does nothing.
\* Without a single tap there is no array of slots: the compiler throws.
LowerTaps(c, taps, st) ==
    LET tap == Head(taps)
        filled(low) == [cx |-> low.cx, slots |-> Put(st.slots, tap.count, low.rec)]
    IN  IF taps = <<>> THEN st
        ELSE LowerTaps(c, Tail(taps), filled(Lower(c, tap.action, st.cx)))

TapDanceOf(a, d, n, end) ==
    LET said == (IF "hold" \in DOMAIN d THEN {"hold dropped"} ELSE {})
                \cup (IF Len(d.taps) < n THEN {"tap gap"} ELSE {})
                \cup (IF d.taps = <<>> THEN {"throws"} ELSE {})
    IN  Left([Rec(BehaviorType.TapDance) EXCEPT
                 !.subCount = n, !.subIndex = Len(end.cx.subs),
                 !.tappingTermMs = Opt(d, "tappingTermMs", 0)],
             [Pool(end.cx, end.slots, NameKind.TapDance, a.ref) EXCEPT !.diag = @ \cup said])

LowerTapDance(c, a, cx) ==
    LET d == DefOf(c.tapDances, a.ref)
        n == Max({0} \cup {d.taps[i].count : i \in DOMAIN d.taps})
    IN  IF ~IsDefined(c.tapDances, a.ref) THEN Left(NoneRec, Report(cx, "ref"))
        ELSE TapDanceOf(a, d, n, LowerTaps(c, d.taps, [cx |-> cx,
                                                       slots |-> [i \in 1..n |-> NoneRec]]))

\* A kept trigger modifier is not suppressed; a partly kept trigger rides the
\* mask in tap, where 0 means the whole trigger.
ModMorphOf(a, d, plain, morphed) ==
    LET suppress == d.mods \ Opt(d, "keepMods", {})
    IN  Left([Rec(BehaviorType.ModMorph) EXCEPT
                 !.hold = Mask(d.mods), !.subCount = 2, !.subIndex = Len(morphed.cx.subs),
                 !.flags = IF suppress # {} THEN Mask({MORPH_SUPPRESS_MODS}) ELSE 0,
                 !.tap = IF suppress # d.mods THEN Mask(suppress) ELSE 0],
             Pool(morphed.cx, <<plain, morphed.rec>>, NameKind.ModMorph, a.ref))

LowerModMorph(c, a, cx) ==
    LET d == DefOf(c.modMorphs, a.ref)
        second(low) == ModMorphOf(a, d, low.rec, Lower(c, d.bindings[2], low.cx))
    IN  IF ~IsDefined(c.modMorphs, a.ref) THEN Left(NoneRec, Report(cx, "ref"))
        ELSE second(Lower(c, d.bindings[1], cx))

\* Escape, or grave under any Shift or GUI; its trigger stays in the report.
LowerGraveEscape(cx) ==
    Left([Rec(BehaviorType.ModMorph) EXCEPT
             !.hold = Mask({1, 3, 5, 7}), !.subCount = 2, !.subIndex = Len(cx.subs),
             !.flags = Mask({MORPH_ANY_MOD})],
         [cx EXCEPT !.subs = @ \o <<RecTap(BehaviorType.Key, 41),
                                    RecTap(BehaviorType.Key, 53)>>])

Lower(c, a, cx) ==
    CASE a.type = "macro" -> LowerMacro(c, a, cx)
      [] a.type = "tap_dance" ->
            WithComposite(<<"td", a.ref>>, cx, LAMBDA x : LowerTapDance(c, a, x))
      [] a.type = "mod_morph" ->
            WithComposite(<<"mm", a.ref>>, cx, LAMBDA x : LowerModMorph(c, a, x))
      [] a.type = "grave_escape" -> WithComposite(<<"gesc", "">>, cx, LowerGraveEscape)
      [] OTHER -> Said(LowerAlone(c, a), cx)

----------------------------------------------------------------------------
\* getOrAdd: equal records share a place of the behaviour table.  The lowering
\* of a list of actions answers the place of each; an absent one has none.
Absent == [type |-> "absent"]

\* Mutant: records that differ in their hold only share a place.
PlaceByTap(behaviors, rec) ==
    SelectInSeq(behaviors, LAMBDA r : r = [rec EXCEPT !.hold = r.hold])
PlaceOf(behaviors, rec) == SelectInSeq(behaviors, LAMBDA r : r = rec)

Shared(st, low) ==
    LET at == PlaceOf(st.behaviors, low.rec)
    IN  IF at # 0 THEN [st EXCEPT !.cx = low.cx, !.idx = Append(@, at - 1)]
        ELSE [cx |-> low.cx, behaviors |-> Append(st.behaviors, low.rec),
              idx |-> Append(st.idx, Len(st.behaviors))]
GetOrAdd(c, st, a) ==
    IF a = Absent THEN [st EXCEPT !.idx = Append(@, ENCODER_BH_NONE)]
    ELSE Shared(st, Lower(c, a, st.cx))

RECURSIVE LowerEach(_, _, _)
LowerEach(c, st, actions) ==
    IF actions = <<>> THEN st
    ELSE LowerEach(c, GetOrAdd(c, st, Head(actions)), Tail(actions))

\* Cells: layer by layer, a layer too short filled with no behaviour.
NumPositions(c) ==
    IF c.keys > 0 THEN c.keys ELSE IF c.layers = <<>> THEN 0 ELSE Len(c.layers[1].bindings)

CellActions(c) ==
    Each(c.layers, LAMBDA l : [p \in 1..NumPositions(c) |->
             IF p <= Len(l.bindings) THEN l.bindings[p] ELSE [type |-> "none"]])

\* Encoders: slot by slot of each layer, the directions of the bound ones.
EncoderSlots(c) ==
    LET of(li) == SelectSeq([s \in DOMAIN c.layers[li].encoders |->
                                [slot |-> s - 1, layer |-> li - 1,
                                 binding |-> c.layers[li].encoders[s]]],
                            LAMBDA e : e.binding # Absent)
    IN  Each([li \in DOMAIN c.layers |-> li], of)

\* A combo held to one layer resolves it by the first of that name; a name no
\* layer has, and any other number of layers, mean every layer.
ComboLayer(c, combo) ==
    LET layers == Opt(combo, "layers", <<>>)
    IN  IF Len(layers) = 1 /\ layers[1] \in LayerNames(c)
        THEN Min({i \in DOMAIN c.layers : c.layers[i].name = layers[1]}) - 1
        ELSE COMBO_ANY_LAYER

ComboRecords(c, idx) ==
    [i \in DOMAIN c.combos |->
        [positions |-> c.combos[i].keys,
         timeoutMs |-> Opt(c.combos[i], "timeoutMs", Opt(c.defaults, "comboTimeoutMs", 40)),
         layer |-> ComboLayer(c, c.combos[i]), outputIndex |-> idx[i]]]

EncoderRecords(slots, idx) ==
    [i \in DOMAIN slots |->
        [encoderIndex |-> slots[i].slot, layer |-> slots[i].layer,
         cwIndex |-> idx[3 * i - 2], ccwIndex |-> idx[3 * i - 1], pressIndex |-> idx[3 * i]]]

ResolveLayer(c, name) == IF name \in LayerNames(c) THEN LayerIndex(c, name) ELSE 0

ConditionalRecords(c) ==
    [i \in DOMAIN c.conditionalLayers |->
        LET cl == c.conditionalLayers[i]
        IN  [ifLayers |-> [j \in DOMAIN cl.ifLayers |-> ResolveLayer(c, cl.ifLayers[j])],
             thenLayer |-> ResolveLayer(c, cl.thenLayer)]]

\* The layers of an override fold to a bit mask, none of them to any layer.
KeyOverrideRecords(c) ==
    [i \in DOMAIN c.keyOverrides |->
        LET ko == c.keyOverrides[i]
        IN  [trigger |-> KeyUsage(ko.trigger), triggerMods |-> Mask(ko.triggerMods),
             negativeMods |-> Mask(Opt(ko, "negativeMods", {})),
             suppressedMods |-> Mask(Opt(ko, "suppressedMods", {})),
             replacement |-> IF "replacement" \in DOMAIN ko THEN KeyUsage(ko.replacement) ELSE 0,
             replacementMods |-> Mask(Opt(ko, "replacementMods", {})),
             layers |-> Mask({LayerIndex(c, n) :
                                  n \in ToSet(Opt(ko, "layers", <<>>)) \cap LayerNames(c)})]]

LeaderRecords(c, idx) ==
    [i \in DOMAIN c.leaderSequences |->
        [usages |-> [k \in 1..Min({Len(c.leaderSequences[i].sequence), 5}) |->
                        KeyUsage(c.leaderSequences[i].sequence[k])],
         outputIndex |-> idx[i]]]

LowerSemanticAction(a) ==
    LET w(kind, code, arg0, arg1) == [kind |-> kind, code |-> code, arg0 |-> arg0, arg1 |-> arg1]
    IN  CASE a.kind = "none" -> w(0, 0, 0, 0)
          [] a.kind = "keyboard" -> w(1, a.usage, Opt(a, "mods", 0), 0)
          [] a.kind = "consumer" -> w(2, a.usage, 0, 0)
          [] a.kind = "pointer" -> w(3, a.op, Opt(a, "code", 0), Opt(a, "magnitude", 0))
          [] a.kind = "system" -> w(4, a.action, 0, 0)
          [] a.kind = "output" -> w(5, a.action, Opt(a, "profile", OUTPUT_NO_PROFILE), 0)
          [] a.kind = "lighting" ->
                w(6, a.action + 256 * a.target, Opt(a, "hue", 0),
                  Opt(a, "sat", 0) + 256 * Opt(a, "val", 0))

----------------------------------------------------------------------------
\* The references a section makes to layers and keys that do not exist.
BadLayers(c) ==
    UNION ({ToSet(cl.ifLayers) \cup {cl.thenLayer} : cl \in ToSet(c.conditionalLayers)}
           \cup {ToSet(Opt(ko, "layers", <<>>)) : ko \in ToSet(c.keyOverrides)})
        \ LayerNames(c)
BadKeys(c) ==
    {k \in UNION ({{ko.trigger, Opt(ko, "replacement", "ESC")} : ko \in ToSet(c.keyOverrides)}
                  \cup {ToSet(ls.sequence) : ls \in ToSet(c.leaderSequences)}) :
        ~IsKeyboardKey(k)}

SectionDiag(c) ==
    (IF c.layers = <<>> \/ NumPositions(c) = 0 THEN {"empty"} ELSE {})
    \cup (IF \E l \in ToSet(c.layers) : Len(l.bindings) # NumPositions(c)
          THEN {"bindings"} ELSE {})
    \cup (IF BadLayers(c) # {} THEN {"layer"} ELSE {})
    \cup (IF BadKeys(c) # {} THEN {"usage"} ELSE {})

When(cond, frame) == IF cond THEN frame ELSE <<>>

LayerFrame(c) ==
    LET d(f) == Opt(c.defaults, f, 0)
    IN  LayerTable(Len(c.layers), NumPositions(c),
          [tappingTermMs |-> Opt(c.defaults, "tappingTermMs", 200),
           releaseDebounceMs |-> d("releaseDebounceMs"),
           pressDebounceMs |-> d("pressDebounceMs"),
           matrixPressDebounceMs |-> d("matrixPressDebounceMs"),
           matrixReleaseDebounceMs |-> d("matrixReleaseDebounceMs"),
           capsWordIdleMs |-> d("capsWordIdleMs"),
           stickyReleaseDefaultMs |-> d("stickyReleaseDefaultMs"),
           macroDefaultWaitMs |-> d("macroDefaultWaitMs"),
           macroDefaultTapMs |-> d("macroDefaultTapMs"),
           matrixPollPeriodMs |-> d("matrixPollPeriodMs")])

\* Positional holds patch the behaviour table only: one inside a composite is lost.
Posholds(behaviors) ==
    SelectSeq([i \in DOMAIN behaviors |->
                  [behaviorIndex |-> i - 1, positions |-> behaviors[i].posHold]],
              LAMBDA e : e.positions # <<>>)

MouseFrame(c) ==
    LET m == Opt(c.node, "mouse", <<>>)
        r == [cpi |-> Opt(m, "cpi", 0), autoLayerTimeoutMs |-> Opt(m, "autoLayerTimeoutMs", 0),
              accel |-> Opt(m, "accel", <<>>)]
    IN  When("mouse" \in DOMAIN c.node
                 /\ (r.cpi # 0 \/ r.autoLayerTimeoutMs # 0 \/ r.accel # <<>>),
             MouseTable(r))

\* One colour per position, black where none is set.
RgbFrame(c) ==
    LET color(p) == IF p - 1 \in DOMAIN c.perKey THEN c.perKey[p - 1] ELSE <<0, 0, 0>>
    IN  When(c.perKey # <<>>,
             RgbTable(NumPositions(c), FoldLeft(LAMBDA out, p : out \o color(p), <<>>,
                                                [p \in 1..NumPositions(c) |-> p])))

PersonalityFrame(c) ==
    LET codes == [keyboard |-> 1, mouse |-> 2]
        p == Opt(c.node, "personality", "none")
        code == IF p \in DOMAIN codes THEN codes[p] ELSE 0
        role == IF "role" \notin DOMAIN c.node THEN 0
                ELSE IF c.node.role = "coordinator" THEN 3 ELSE 1
        fwd == IF Opt(c.node, "forwardMode", "resolved") = "physical" THEN 1 ELSE 0
    IN  When(code # 0 \/ role # 0 \/ fwd # 0, PersonalityTable(code, role, fwd))

ClusterFrame(c) ==
    LET wire(n) == [uid |-> SubSeq(n.uid, 1, Min({Len(n.uid), CLUSTER_UID_MAX})),
                    positionBase |-> n.positionBase, rows |-> n.rows, cols |-> n.cols,
                    encoderBase |-> Opt(n, "encoderBase", 0),
                    pointerBase |-> Opt(n, "pointerBase", 0)]
        nodes == Opt(c.node, "cluster", <<>>)
    IN  When(nodes # <<>>, ClusterTable([i \in DOMAIN nodes |-> wire(nodes[i])]))

\* The balanced profile without overrides is the firmware's default.
LinkProfileFrame(c) ==
    LET lp == c.node.linkProfile
        overrides == Opt(lp, "overrides", <<>>)
    IN  When("linkProfile" \in DOMAIN c.node /\ (lp.profile # "balanced" \/ overrides # <<>>),
             LinkProfileTable(LinkProfileId[lp.profile], overrides))

ActionBindingFrame(c) ==
    LET kept == SelectSeq(c.actionBindings, LAMBDA b : b.position < NumPositions(c))
    IN  When(kept # <<>>,
             ActionBindingTable(NumPositions(c),
                 [i \in DOMAIN kept |->
                     [position |-> kept[i].position] @@ LowerSemanticAction(kept[i].action)]))

\* Labels: the plain macros by their index, then the instances, then the composites.
NameFrame(cx) ==
    LET index == SetToSortSeq(DOMAIN cx.index, LAMBDA m, n : cx.index[m] < cx.index[n])
        plain == [i \in DOMAIN index |-> [kind |-> NameKind.Macro, ref |-> cx.index[index[i]],
                                          name |-> index[i]]]
        names == plain \o cx.instanceNames \o cx.names
    IN  When(names # <<>>, NamesTable(names))

\* encodeBlob: cells, combos, encoders and leaders share the behaviour table in
\* this order; every optional table is left out when it has nothing to say.
ComboActions(c) == [i \in DOMAIN c.combos |-> c.combos[i].action]
Turns(slots) ==
    Each(slots, LAMBDA e : <<e.binding.cw, e.binding.ccw, Opt(e.binding, "press", Absent)>>)
LeaderActions(c) == [i \in DOMAIN c.leaderSequences |-> c.leaderSequences[i].action]

\* low: the places of the actions, one list after the other, and the context.
Frames(c, slots, low) ==
    LET cells == Len(c.layers) * NumPositions(c)
        cx == low.cx
        after(n) == SubSeq(low.idx, n + 1, Len(low.idx))
        turned == cells + Len(c.combos)
        subs == [i \in DOMAIN cx.subs |-> [cx.subs[i] EXCEPT !.posHold = <<>>]]
        posholds == Posholds(low.behaviors)
    IN  LayerFrame(c)
        \o RecordTable(TableId.Behavior, low.behaviors)
        \o BindingTable(SubSeq(low.idx, 1, cells))
        \o When(subs # <<>>, RecordTable(TableId.Subs, subs))
        \o When(posholds # <<>>, PosholdTable(posholds))
        \o When(cx.records # <<>>, MacroTable(cx.records))
        \o When(c.combos # <<>>, ComboTable(ComboRecords(c, after(cells))))
        \o When(slots # <<>>, EncoderTable(EncoderRecords(slots, after(turned))))
        \o MouseFrame(c) \o RgbFrame(c) \o PersonalityFrame(c) \o ClusterFrame(c)
        \o LinkProfileFrame(c)
        \o When(c.conditionalLayers # <<>>, ConditionalTable(ConditionalRecords(c)))
        \o When(c.keyOverrides # <<>>, KeyOverrideTable(KeyOverrideRecords(c)))
        \o When(c.leaderSequences # <<>>,
                LeaderTable(LeaderRecords(c, after(turned + 3 * Len(slots)))))
        \o ActionBindingFrame(c)
        \o When("autocorrect" \in DOMAIN c /\ Encodable(Opt(c, "autocorrect", <<>>)),
                AutocorrectTable(EncodeDictionary(c.autocorrect)))
        \o NameFrame(cx)

Built(c, slots, low, configVersion) ==
    LET heldInside == \E i \in DOMAIN low.cx.subs : low.cx.subs[i].posHold # <<>>
    IN  [blob |-> Finalize(Frames(c, slots, low), configVersion),
         diag |-> low.cx.diag \cup SectionDiag(c)
                  \cup (IF Encodable(Opt(c, "autocorrect", <<>>)) THEN {} ELSE {"dictionary"})
                  \cup (IF heldInside THEN {"positions dropped"} ELSE {})]

EncodeBlob(c, configVersion) ==
    LET slots == EncoderSlots(c)
        start == [cx |-> BuildMacros(c), behaviors |-> <<>>, idx |-> <<>>]
    IN  Built(c, slots,
              LowerEach(c, start, CellActions(c) \o ComboActions(c) \o Turns(slots)
                                  \o LeaderActions(c)),
              configVersion)
=============================================================================
