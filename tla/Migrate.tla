------------------------------- MODULE Migrate -------------------------------
\* The second version of the document and its translation to the first and
\* back.  A text with a colon is kept as its parts: the verb, the rest and the
\* arguments in parentheses, or the part after the last colon of a layer's.  A
\* dictionary is the sequence of its definitions, each with its id; an absent
\* list is an empty one.
EXTENDS KeyNames

KEYWORD_ACTIONS ==
    ("___" :> "transparent") @@
    [trans |-> "transparent", xxx |-> "none", none |-> "none", capsword |-> "caps_word",
     caps_word |-> "caps_word", repeat |-> "key_repeat", key_repeat |-> "key_repeat",
     altrepeat |-> "alt_repeat", alt_repeat |-> "alt_repeat", bootloader |-> "bootloader",
     reset |-> "reset", softoff |-> "soft_off", soft_off |-> "soft_off",
     graveescape |-> "grave_escape", grave_escape |-> "grave_escape",
     layerlock |-> "layer_lock", layer_lock |-> "layer_lock"]
LAYER_MODE_ALIASES ==
    [layer |-> "momentary", mo |-> "momentary", tog |-> "toggle", to |-> "to",
     sl |-> "sticky"]
LAYER_MODES == {"momentary", "toggle", "to", "sticky"}

Verb(verb, rest, args) == [type |-> "verb", verb |-> verb, rest |-> rest, args |-> args]
Word(name) == [type |-> "word", name |-> name]
Bare(name) == Token(<<>>, name)

\* What stands behind the verb, the part after the last colon included.
WholeRest(v) == IF v.args = <<>> THEN v.rest ELSE v.rest \o ":" \o v.args[1]

\* The arguments of a call, the empty ones left out.
Args(v) == SelectSeq(v.args, LAMBDA x : x # "")
Arg(v, i) == IF i \in DOMAIN Args(v) THEN Args(v)[i] ELSE ""

ResolveMods(mods) == [i \in DOMAIN mods |-> ResolveModifier(mods[i])]

\* The field f of out is the field g of r, or h when there is no g.
EitherField(out, f, r, g, h) ==
    With(out, f, {g, h} \cap DOMAIN r # {}, IF g \in DOMAIN r THEN r[g] ELSE r[h])

MigrateHoldTarget(h) ==
    CASE h.type = "word" -> [type |-> "modifier", modifier |-> ResolveModifier(h.name)]
      [] h.type = "verb" ->
            IF h.verb \in DOMAIN LAYER_MODE_ALIASES
            THEN [type |-> "layer", layer |-> WholeRest(h)]
            ELSE [type |-> "modifier", modifier |-> h.verb]
      [] OTHER -> h

\* A tap-hold without a type; the positions and the release it may carry have no
\* place here.
MigrateTapHold(a) ==
    EitherField(EitherField([type |-> "tap_hold", tap |-> a.tap,
                             hold |-> MigrateHoldTarget(a.hold)],
                            "tappingTermMs", a, "tappingTermMs", "term"),
                "quickTapMs", a, "quickTapMs", "quickTap")
    @@ Pick(a, {"requirePriorIdleMs", "retroTap", "flavor", "resolve"})

\* An unknown verb is left for the validation to report.
MigrateVerb(v) ==
    LET moded == v.args # <<>> /\ Last(v.args) \in LAYER_MODES
    IN  CASE v.verb \in DOMAIN LAYER_MODE_ALIASES ->
                [type |-> "layer",
                 mode |-> IF moded THEN Last(v.args) ELSE LAYER_MODE_ALIASES[v.verb],
                 layer |-> IF moded THEN v.rest ELSE WholeRest(v)]
          [] v.verb \in {"sticky", "sk"} -> [type |-> "sticky_key", key |-> v.rest]
          [] v.verb = "macro" ->
                With([type |-> "macro", ref |-> v.rest], "param", Args(v) # <<>>, Arg(v, 1))
          [] v.verb = "td" -> [type |-> "tap_dance", ref |-> v.rest]
          [] v.verb = "mm" -> [type |-> "mod_morph", ref |-> v.rest]
          [] v.verb = "ht" -> [type |-> "hold_tap", ref |-> v.rest, holdParam |-> Arg(v, 1),
                               tapParam |-> Arg(v, 2)]
          [] v.verb = "mouse" -> [type |-> "mouse_key", button |-> v.rest]
          [] v.verb = "move" -> [type |-> "mouse_move", direction |-> v.rest]
          [] v.verb = "scroll" -> [type |-> "mouse_scroll", direction |-> v.rest]
          [] v.verb = "key" -> [type |-> "key_press", key |-> v.rest]
          [] OTHER -> v

\* A keyword comes before the key of that spelling.
MigrateAction(a) ==
    CASE IsToken(a) ->
            IF a.mods = <<>> /\ a.name \in DOMAIN KEYWORD_ACTIONS
            THEN [type |-> KEYWORD_ACTIONS[a.name]] ELSE a
      [] a.type = "verb" -> MigrateVerb(a)
      [] a.type = "untyped" -> MigrateTapHold(a)
      [] OTHER -> IF "mods" \in DOMAIN a THEN [a EXCEPT !.mods = ResolveMods(@)] ELSE a

MigrateMacroStep(s) ==
    CASE IsToken(s) ->
            CASE s.name = "param" -> [type |-> "param"]
              [] s.name \in {"pause", "pause_for_release"} -> [type |-> "pause_for_release"]
              [] OTHER -> [type |-> "tap", key |-> s.name]
      [] s.type = "verb" ->
            CASE s.verb \in {"tap", "press", "release"} -> [type |-> s.verb, key |-> s.rest]
              [] s.verb = "wait" -> [type |-> "wait", ms |-> s.ms]
              [] s.verb \in {"taptime", "tap_time"} -> [type |-> "tap_time", ms |-> s.ms]
              [] s.verb = "text" -> [type |-> "text", text |-> s.text]
              [] OTHER -> [type |-> "tap", key |-> s.verb]
      [] OTHER -> s

----------------------------------------------------------------------------
\* The definitions.  description is left out throughout.
MigrateMacroDef(d) ==
    [id |-> d.id, steps |-> Each(d.steps, LAMBDA s : <<MigrateMacroStep(s)>>)]
    @@ Pick(d, {"params"})

\* The counts are the keys of the dictionary, so they come back in order.
MigrateTaps(taps) ==
    Each(SetToSortSeq({n \in DOMAIN taps : n > 0}, <),
         LAMBDA n : <<[count |-> n, action |-> MigrateAction(taps[n])]>>)
MigrateTapDanceDef(d) ==
    LET term == Opt(d, "timing", <<>>) @@ Pick(d, {"tappingTermMs"})
    IN  With([id |-> d.id, taps |-> MigrateTaps(d.taps)] @@ Pick(term, {"tappingTermMs"}),
             "hold", "hold" \in DOMAIN d, MigrateHoldTarget(d.hold))

MigrateModMorphDef(d) ==
    LET base == IF "base" \in DOMAIN d THEN d.base ELSE d.bindings[1]
        morphed == IF "morphed" \in DOMAIN d THEN d.morphed ELSE d.bindings[2]
    IN  With([id |-> d.id, mods |-> ResolveMods(IF "on" \in DOMAIN d THEN d.on ELSE d.mods),
              bindings |-> <<MigrateAction(base), MigrateAction(morphed)>>],
             "keepMods", "keepMods" \in DOMAIN d, ResolveMods(d.keepMods))

HoldTapTimes == {"tappingTermMs", "quickTapMs", "requirePriorIdleMs"}
HoldTapFlags == {"retroTap", "holdTriggerOnRelease"}
MigrateHoldTapDef(d) ==
    LET own == [id |-> d.id, bindings |-> Opt(d, "bindings", <<"kp", "kp">>)]
               @@ Pick(d, {"flavor"})
               @@ Pick(Opt(d, "timing", <<>>) @@ d, HoldTapTimes)
               @@ Pick(Opt(d, "flags", <<>>) @@ d, HoldTapFlags)
    IN  EitherField(own, "holdTriggerKeyPositions", d, "positions", "holdTriggerKeyPositions")

MigrateCombo(c, i) ==
    LET action == IF "do" \in DOMAIN c THEN c.do ELSE c.action
    IN  [name |-> Opt(c, "name", "combo_" \o ToString(i)), action |-> MigrateAction(action)]
        @@ Drop(c, {"do"})

MigrateConditional(cl) ==
    IF "ifLayers" \in DOMAIN cl THEN cl ELSE [ifLayers |-> cl.if, thenLayer |-> cl.then]

\* The cells of a layer are migrated, its encoders are not.
MigrateLayer(l) ==
    LET cells == IF "keys" \in DOMAIN l THEN l.keys ELSE l.bindings
    IN  ("bindings" :> Each(cells, LAMBDA a : <<MigrateAction(a)>>)) @@ Drop(l, {"keys"})

\* A document without a keyboard gets a row of as many keys as its longest layer.
SynthKeyboard(positions) ==
    [keys |-> [i \in 1..positions |-> [x |-> i - 1, y |-> 0]]]

Longest(layers) == Max({1} \cup {Len(layers[i].bindings) : i \in DOMAIN layers})

MigrateSections(doc, layers) ==
    With([schemaVersion |-> 1, layers |-> layers,
          macros |-> Each(doc.macros, LAMBDA d : <<MigrateMacroDef(d)>>),
          tapDances |-> Each(doc.tapDances, LAMBDA d : <<MigrateTapDanceDef(d)>>),
          modMorphs |-> Each(doc.modMorphs, LAMBDA d : <<MigrateModMorphDef(d)>>),
          holdTaps |-> Each(doc.holdTaps, LAMBDA d : <<MigrateHoldTapDef(d)>>),
          combos |-> Each([i \in DOMAIN doc.combos |-> i],
                          LAMBDA i : <<MigrateCombo(doc.combos[i], i - 1)>>),
          conditionalLayers |->
              Each(doc.conditionalLayers, LAMBDA cl : <<MigrateConditional(cl)>>)],
         "keyboard", "keyboard" \notin DOMAIN doc, SynthKeyboard(Longest(layers)))
    @@ doc

MigrateToV1(doc) ==
    IF doc.schemaVersion # 2 THEN doc
    ELSE MigrateSections(doc, Each(doc.layers, LAMBDA l : <<MigrateLayer(l)>>))

----------------------------------------------------------------------------
\* The other way: what has a short spelling gets it, the rest stays as it is.
KEYWORD_BY_TYPE ==
    [transparent |-> "___", none |-> "xxx", caps_word |-> "capsword", key_repeat |-> "repeat",
     alt_repeat |-> "altrepeat", bootloader |-> "bootloader", reset |-> "reset",
     soft_off |-> "softoff", grave_escape |-> "graveescape", layer_lock |-> "layerlock"]

ShortMod(name) == Word(FriendlyMod[ModOf(name) + 1])
LayerText(name) == Verb("layer", name, <<>>)

HoldToV2(h) ==
    CASE h.type = "modifier" -> ShortMod(h.modifier)
      [] h.type = "layer" -> LayerText(h.layer)
      [] OTHER -> h

CompactTapHold(tap, hold, a) ==
    LET base == [type |-> "untyped", tap |-> tap, hold |-> hold]
    IN  With(With(base, "term", "tappingTermMs" \in DOMAIN a, a.tappingTermMs),
             "quickTap", "quickTapMs" \in DOMAIN a, a.quickTapMs)
        @@ Pick(a, {"requirePriorIdleMs", "retroTap", "flavor", "resolve"})

ActionToV2(a) ==
    CASE a.type = "layer" ->
            Verb("layer", a.layer, IF a.mode = "momentary" THEN <<>> ELSE <<a.mode>>)
      [] a.type = "sticky_key" -> Verb("sticky", a.key, <<>>)
      [] a.type = "macro" ->
            Verb("macro", a.ref, IF "param" \in DOMAIN a THEN <<a.param>> ELSE <<>>)
      [] a.type = "tap_dance" -> Verb("td", a.ref, <<>>)
      [] a.type = "mod_morph" -> Verb("mm", a.ref, <<>>)
      [] a.type = "hold_tap" -> Verb("ht", a.ref, <<a.holdParam, a.tapParam>>)
      [] a.type = "mouse_key" -> Verb("mouse", a.button, <<>>)
      [] a.type = "mouse_move" -> Verb("move", a.direction, <<>>)
      [] a.type = "mouse_scroll" -> Verb("scroll", a.direction, <<>>)
      [] a.type = "tap_hold" -> CompactTapHold(a.tap, HoldToV2(a.hold), a)
      [] a.type = "mod_tap" -> CompactTapHold(a.tap, ShortMod(a.mod), a)
      [] a.type = "layer_tap" -> CompactTapHold(a.tap, LayerText(a.layer), a)
      [] a.type \in DOMAIN KEYWORD_BY_TYPE -> Bare(KEYWORD_BY_TYPE[a.type])
      [] OTHER -> a

MacroStepToV2(s) ==
    CASE s.type = "tap" -> Bare(s.key)
      [] s.type \in {"press", "release"} -> Verb(s.type, s.key, <<>>)
      [] s.type = "wait" -> [type |-> "verb", verb |-> "wait", ms |-> s.ms]
      [] s.type = "text" -> [type |-> "verb", verb |-> "text", text |-> s.text]
      [] s.type = "tap_time" -> [type |-> "verb", verb |-> "taptime", ms |-> s.ms]
      [] s.type = "param" -> IF {"from", "to"} \cap DOMAIN s = {} THEN Bare("param") ELSE s
      [] s.type = "pause_for_release" -> Bare("pause")
      [] OTHER -> s

\* Of two definitions with one id the last counts, at the place of the first.
ArrayToDict(defs, Compact(_)) ==
    LET first(i) == \A j \in 1..i - 1 : defs[j].id # defs[i].id
        latest(id) == defs[Max({j \in DOMAIN defs : defs[j].id = id})]
        kept == SelectSeq([i \in DOMAIN defs |-> i], first)
    IN  Each(kept, LAMBDA i : <<("id" :> defs[i].id) @@ Compact(latest(defs[i].id))>>)

MacroToV2(d) == ("steps" :> Each(d.steps, LAMBDA s : <<MacroStepToV2(s)>>)) @@ d

\* Of two taps with one count the last counts.
TapDanceToV2(d) ==
    LET taps == FoldLeft(LAMBDA m, t : (t.count :> ActionToV2(t.action)) @@ m, <<>>, d.taps)
        timed == With([taps |-> taps], "timing", "tappingTermMs" \in DOMAIN d,
                      [tappingTermMs |-> d.tappingTermMs])
    IN  With(timed, "hold", "hold" \in DOMAIN d, HoldToV2(d.hold))

ModMorphToV2(d) ==
    [on |-> d.mods, base |-> ActionToV2(d.bindings[1]), morphed |-> ActionToV2(d.bindings[2])]
    @@ Pick(d, {"keepMods"})

HoldTapToV2(d) ==
    LET some(r, f, group) == With(r, f, group # <<>>, group)
        timed == some(Pick(d, {"flavor"}), "timing", Pick(d, HoldTapTimes))
        positioned == With(some(timed, "flags", Pick(d, HoldTapFlags)), "positions",
                           "holdTriggerKeyPositions" \in DOMAIN d, d.holdTriggerKeyPositions)
    IN  With(positioned, "bindings", d.bindings # <<"kp", "kp">>, d.bindings)

\* A name the way down makes up again is dropped.
IsSyntheticName(name) == \E i \in 0..99 : name = "combo_" \o ToString(i)
ComboToV2(c) ==
    ("do" :> ActionToV2(c.action))
    @@ Drop(c, {"action"} \cup IF IsSyntheticName(c.name) THEN {"name"} ELSE {})

LayerToV2(l) ==
    ("keys" :> Each(l.bindings, LAMBDA a : <<ActionToV2(a)>>)) @@ Drop(l, {"bindings"})

MigrateToV2(doc) ==
    [schemaVersion |-> 2, layers |-> Each(doc.layers, LAMBDA l : <<LayerToV2(l)>>),
     macros |-> ArrayToDict(doc.macros, MacroToV2),
     tapDances |-> ArrayToDict(doc.tapDances, TapDanceToV2),
     modMorphs |-> ArrayToDict(doc.modMorphs, ModMorphToV2),
     holdTaps |-> ArrayToDict(doc.holdTaps, HoldTapToV2),
     combos |-> Each(doc.combos, LAMBDA c : <<ComboToV2(c)>>),
     conditionalLayers |->
         Each(doc.conditionalLayers,
              LAMBDA cl : <<("if" :> cl.ifLayers) @@ ("then" :> cl.thenLayer)>>)]
    @@ doc
=============================================================================
