----------------------------- MODULE MockService -----------------------------
\* The demo keyboard: a document is opened, its keys and its settings are
\* edited in memory, it may become another board, and what it is now is written
\* as a document again.  Its lights, macros and dynamic entries, which no
\* document holds, are left out.
EXTENDS BlobEncode, MockBridge, Exports

CONSTANTS
    Documents,       \* the documents it may be opened on
    SeedSource,      \* the demo's own
    KeyChoices,      \* the keys the pickers offer
    BoardDefs,       \* the boards it may become
    Patches,         \* <<section, field, <<value>> or Unset>> of the defaults and the node
    DefPatches,      \* <<section, index, patch>> of the definitions
    Lists,           \* <<section, list>> of what is replaced as a whole
    Titles,          \* the names a layer can be given
    Formats,         \* the ways to save: a subset of the four there are
    MaxLayers, MaxEdits,
    Allowance(_),    \* the edits, of these, a document gets
    MaxPosition      \* the keys that are set

ASSUME DemoAssumption ==
    /\ MaxLayers \in Nat \ {0} /\ MaxEdits \in Nat /\ MaxPosition \in Nat
    /\ Formats \subseteq {"source", "v1", "v2", "preferred"}
    /\ \A doc \in Documents : Allowance(doc) \in 0..MaxEdits

VARIABLES
    unlocked,        \* lockState
    source,          \* the document it was opened on
    static,          \* whether seedCfg is the demo's own
    seedCfg, cfg, configEdited,
    layers,          \* the editing buffer, a sequence of [id, name, keys]
    nextLayerId,
    edits,           \* bounded: edits made
    touched          \* history: the keys set since the layers were seeded

vars == <<unlocked, source, static, seedCfg, cfg, configEdited, layers, nextLayerId,
          edits, saved, touched>>

KeyCount == seedCfg.keys
EncoderCount == Len(seedCfg.boardEncoders)
LayerIds == {layers[i].id : i \in DOMAIN layers}
LayerIndexById(id) == SelectInSeq(layers, LAMBDA l : l.id = id)
Filler == [p \in 1..KeyCount |-> TransparentForm]

\* seedDefaultLayers: ids are counted from 0.
Seeded(c) ==
    LET low == LowerConfigToMock(c)
    IN  [i \in DOMAIN low |-> [id |-> i - 1] @@ low[i]]

NotSaved == [format |-> "none"]

Start(doc, c) ==
    /\ source = doc /\ static = (doc = SeedSource) /\ unlocked \in BOOLEAN
    /\ seedCfg = c /\ cfg = c /\ configEdited = FALSE
    /\ layers = Seeded(c) /\ nextLayerId = Len(c.layers) /\ touched = {}
    /\ edits = MaxEdits - Allowance(doc) /\ saved = NotSaved

\* A document that cannot be read opens nothing.
Init == \E doc \in {d \in Documents : Readable(d)} : Start(doc, ParseKeymap(doc))

\* Asked for, or by the keyboard itself after a while; nothing locks it again.
Unlock ==
    /\ ~unlocked
    /\ unlocked' = TRUE
    /\ UNCHANGED <<source, static, seedCfg, cfg, configEdited, layers, nextLayerId, edits,
                   saved, touched>>

----------------------------------------------------------------------------
Editing == unlocked /\ edits < MaxEdits /\ edits' = edits + 1 /\ saved' = NotSaved
ConfigKept == UNCHANGED <<unlocked, source, static, seedCfg, cfg, configEdited>>

SetKey(id, p, choice) ==
    /\ Editing /\ p <= KeyCount
    /\ layers' = Put(layers, LayerIndexById(id),
                     [layers[LayerIndexById(id)] EXCEPT !.keys = Put(@, p, choice)])
    /\ touched' = touched \cup {<<id, p>>}
    /\ ConfigKept /\ UNCHANGED nextLayerId

\* A layer without knobs gets transparent ones.
SetEncoder(id, e, direction, choice) ==
    /\ Editing /\ e <= EncoderCount
    /\ LET layer == layers[LayerIndexById(id)]
           knob == [cw |-> TransparentForm, ccw |-> TransparentForm]
           knobs == Opt(layer, "encoders", [i \in 1..EncoderCount |-> knob])
           turned == [knobs EXCEPT ![e][direction] = choice]
       IN  layers' = Put(layers, LayerIndexById(id), ("encoders" :> turned) @@ layer)
    /\ ConfigKept /\ UNCHANGED <<nextLayerId, touched>>

AddLayer ==
    /\ Editing /\ Len(layers) < MaxLayers
    /\ layers' = Append(layers, [id |-> nextLayerId, name |-> "Layer " \o ToString(Len(layers)),
                                 keys |-> Filler])
    /\ nextLayerId' = nextLayerId + 1
    /\ ConfigKept /\ UNCHANGED touched

RemoveLayer(id) ==
    /\ Editing /\ Len(layers) > 1
    /\ layers' = RemoveAt(layers, LayerIndexById(id))
    /\ ConfigKept /\ UNCHANGED <<nextLayerId, touched>>

RenameLayer(id, name) ==
    /\ Editing
    /\ layers' = Put(layers, LayerIndexById(id),
                     [layers[LayerIndexById(id)] EXCEPT !.name = name])
    /\ ConfigKept /\ UNCHANGED <<nextLayerId, touched>>

MoveLayer(from, to) ==
    /\ Editing /\ from # to
    /\ layers' = InsertAt(RemoveAt(layers, from), to, layers[from])
    /\ ConfigKept /\ UNCHANGED <<nextLayerId, touched>>

\* A layer that comes back is empty and its place clamped; no limit is asked, nor
\* whether the id is taken.
RestoreLayer(id, at) ==
    /\ Editing
    /\ layers' = InsertAt(layers, Min({at, Len(layers)}) + 1,
                          [id |-> id, name |-> "Restored " \o ToString(id), keys |-> Filler])
    /\ nextLayerId' = Max({nextLayerId, id + 1})
    /\ touched' = touched \cup ({id} \X (1..KeyCount))
    /\ ConfigKept

----------------------------------------------------------------------------
\* The settings: the configuration is replaced, the layers are not.
Configure(c) ==
    /\ Editing /\ cfg' = c /\ configEdited' = TRUE
    /\ UNCHANGED <<unlocked, source, static, seedCfg, layers, nextLayerId, touched>>

\* A field that is unset goes back to the one of the seed, or away.
Unset == <<>>
Patched(now, seed, f, v) ==
    IF v # Unset THEN (f :> v[1]) @@ now
    ELSE Pick(seed, {f}) @@ Drop(now, {f})

SetSection(section, f, v) ==
    Configure((section :> Patched(cfg[section], seedCfg[section], f, v)) @@ cfg)
SetDefinition(section, i, patch) ==
    i \in DOMAIN cfg[section]
    /\ Configure((section :> Put(cfg[section], i, patch @@ cfg[section][i])) @@ cfg)
SetList(section, list) == Configure((section :> list) @@ cfg)

\* commit() changes nothing; a discard and a reset go back to the seed.
Reseed(c) ==
    /\ seedCfg' = c /\ cfg' = c /\ configEdited' = FALSE
    /\ layers' = Seeded(c) /\ nextLayerId' = Len(c.layers) /\ touched' = {}

Discard == Editing /\ Reseed(seedCfg) /\ UNCHANGED <<unlocked, source, static>>

\* applyLayout: what is there now moves to the new board, which is the seed from
\* then on.
ApplyLayout(def) ==
    /\ Editing
    /\ Reseed(ConfigFromBoardDef(def, RaiseMockToConfig(layers, cfg)))
    /\ static' = FALSE /\ UNCHANGED <<unlocked, source>>

----------------------------------------------------------------------------
\* Saving: getConfigSource serves the configuration without the keys set; the
\* others are what its callers write after raiseKeymap.
SourceConfig == IF configEdited THEN cfg ELSE seedCfg

\* text: the configuration as a document of the first version.
Written(text, format) ==
    CASE format = "source" -> IF static /\ ~configEdited THEN source ELSE text
      [] format = "v1" -> text
      [] format = "v2" -> MigrateToV2(text)
      [] format = "preferred" -> PreferredSource(text, source)

Save(format) ==
    /\ saved = NotSaved
    /\ \E c \in {IF format = "source" THEN SourceConfig ELSE RaiseMockToConfig(layers, cfg)} :
          saved' = [format |-> format, config |-> c,
                    doc |-> Written(SerializeKeymap(c), format)]
    /\ UNCHANGED <<unlocked, source, static, seedCfg, cfg, configEdited, layers, nextLayerId,
                   edits, touched>>

\* Another demo is opened on what was saved.
Reopen ==
    /\ edits < MaxEdits /\ saved # NotSaved /\ Readable(saved.doc)
    /\ Reseed(ParseKeymap(saved.doc)) /\ source' = saved.doc /\ static' = FALSE
    /\ edits' = edits + 1 /\ saved' = NotSaved /\ UNCHANGED unlocked

EditLayers ==
    \/ \E id \in LayerIds, choice \in KeyChoices :
          \/ \E p \in 1..MaxPosition : SetKey(id, p, choice)
          \/ \E e \in 1..EncoderCount, direction \in {"cw", "ccw"} :
                SetEncoder(id, e, direction, choice)
    \/ AddLayer
    \/ \E id \in LayerIds : RemoveLayer(id) \/ \E name \in Titles : RenameLayer(id, name)
    \/ \E from, to \in DOMAIN layers : MoveLayer(from, to)
    \/ \E id \in 0..nextLayerId, at \in 0..Len(layers) : RestoreLayer(id, at)

EditSettings ==
    \/ \E x \in Patches : SetSection(x[1], x[2], x[3])
    \/ \E x \in DefPatches : SetDefinition(x[1], x[2], x[3])
    \/ \E x \in Lists : SetList(x[1], x[2])

Next ==
    \/ Unlock \/ EditLayers \/ EditSettings \/ Discard \/ Reopen
    \/ \E def \in BoardDefs : ApplyLayout(def)
    \/ \E format \in Formats : Save(format)

Spec == Init /\ [][Next]_vars
----------------------------------------------------------------------------
\* The actions of a configuration, wherever they stand.
ActionsOf(c) ==
    LET turns(l) == Each(l.encoders, LAMBDA e :
                        <<e.cw, e.ccw>> \o IF "press" \in DOMAIN e THEN <<e.press>> ELSE <<>>)
    IN  Each(c.layers, LAMBDA l : l.bindings \o turns(l))
        \o Mapped(c.combos, LAMBDA x : x.action)
        \o Each(c.tapDances, LAMBDA d : Mapped(d.taps, LAMBDA t : t.action))
        \o Each(c.modMorphs, LAMBDA d : d.bindings)
        \o Mapped(c.leaderSequences, LAMBDA ls : ls.action)

\* The keys it presses, with what they were spelled as.
PressesOf(c) ==
    Each(ActionsOf(c), LAMBDA a : CASE a.type = "key_press" -> <<a>>
                                    [] a.type = "tap_hold" -> <<a.tap>>
                                    [] OTHER -> <<>>)
ReadAs(kp) == ParseKeyToken(DenormalizeKeyPress(kp)).key
SpelledReadably(c) == Every(PressesOf(c), LAMBDA kp : ReadAs(kp) # NoKey)
SpelledTruly(c) == Every(PressesOf(c), LAMBDA kp : ReadAs(kp) = kp.key)

LayersNamed(c) ==
    LET named(a) ==
            CASE a.type = "layer" -> <<a.layer>>
              [] a.type = "tap_hold" /\ a.hold.type = "layer" -> <<a.hold.layer>>
              [] OTHER -> <<>>
    IN  ToSet(Each(ActionsOf(c), named)
              \o Each(c.combos, LAMBDA x : Opt(x, "layers", <<>>))
              \o Each(c.keyOverrides, LAMBDA ko : Opt(ko, "layers", <<>>))
              \o Each(c.conditionalLayers, LAMBDA cl : Append(cl.ifLayers, cl.thenLayer)))

\* Every key a section speaks of is on the board.
OnBoard(c) ==
    /\ Every(c.combos, LAMBDA x : ToSet(x.keys) \subseteq 0..c.keys - 1)
    /\ "transform" \in DOMAIN c.hardware => Len(c.hardware.transform.map) = c.keys

\* What is saved can be opened again exactly when the configuration still holds
\* together: its sections name layers that are there and keys the board has, and
\* every key has a spelling that is read.  A layer renamed or removed under a
\* combo, a smaller board under its combos and its wiring break it, and nothing
\* in the service or in the serialiser says so.
\* serialize.ts toSurfaceObject, schema.ts superRefine, mock/configBridge.ts.
SavedReads ==
    [][saved' # NotSaved =>
        (Readable(saved'.doc)
         <=> /\ LayersNamed(saved'.config) \subseteq ToSet(NamesOfLayers(saved'.config.layers))
             /\ OnBoard(saved'.config) /\ SpelledReadably(saved'.config))]_vars

\* What the short form of a document has no words for.
Compactible(c) ==
    /\ Every(ActionsOf(c), LAMBDA a : {"holdTriggerKeyPositions", "holdTriggerOnRelease"}
                                      \cap DOMAIN a = {})
    /\ Every(PressesOf(c), LAMBDA kp : kp.mods = {} => Spelled(kp) \notin DOMAIN KEYWORD_ACTIONS)

\* A timing that is the target's own default is not written: the keyboard then takes
\* the document's default, which may be another.
TimingsWritten(c) ==
    Every(ActionsOf(c), LAMBDA a : a.type = "tap_hold" =>
        {f \in {"tappingTermMs", "quickTapMs"} \cap DOMAIN a : a[f] # 0}
        \subseteq DOMAIN WithTimings(a, c.target))

BytesOf(c) == EncodeBlob(c, 1).blob

\* A key nobody set, on a layer still at its place, is what the document had
\* there unless the demo has no form for it; a key that was set to a form of the
\* demo is what it shows.
DemoKeeps(a) ==
    CASE a.type = "key_press" -> a.mods = {}
      [] a.type = "tap_hold" -> DOMAIN a \cap TapHoldTimings = {} /\ a.tap.mods = {}
      [] a.type = "transparent" -> TRUE
      [] OTHER -> a.type = "layer" \/ IsNonRepresentable(a)

InPlace(li) ==
    /\ li \in DOMAIN seedCfg.layers /\ layers[li].id = li - 1
    /\ NamesOfLayers(layers) = NamesOfLayers(seedCfg.layers)

KeyAsMade(c, li, p) ==
    LET ka == layers[li].keys[p]
        got == c.layers[li].bindings[p]
    IN  IF <<layers[li].id, p>> \in touched
        THEN ka.kind \in CommandKinds \cup {"trans"}
             \/ SameAction(got, RaiseKey(ka, NamesOfLayers(layers)))
        ELSE InPlace(li) => \A prior \in {seedCfg.layers[li].bindings[p]} :
                                DemoKeeps(prior) => SameAction(got, prior)

\* The press of a knob is in no form of the demo, and stays.
KnobsAsMade(c, li) ==
    InPlace(li) => \A e \in DOMAIN seedCfg.layers[li].encoders :
                      \A prior \in {seedCfg.layers[li].encoders[e]} :
                          "press" \in DOMAIN prior =>
                              /\ "press" \in DOMAIN c.layers[li].encoders[e]
                              /\ SameAction(c.layers[li].encoders[e].press, prior.press)

\* Opened again, a saved document is what the demo showed, key by key, and runs
\* as the configuration that was saved does: it compiles to the same blob on the
\* same board.  Left out are the keys whose spelling is another key's, a timing
\* that is the target's default beside another of the document's, though
\* defaults.ts has it that behaviour is preserved, and what the short form cannot
\* say, all silent in the code.
\* serialize.ts, normalize.ts, migrate.ts, mock/configBridge.ts raiseMockToConfig.
SavedMeans ==
    [][(saved' # NotSaved /\ Readable(saved'.doc) /\ SpelledTruly(saved'.config)
        /\ TimingsWritten(saved'.config)
        /\ (saved'.format = "v2" => Compactible(saved'.config))) =>
        \E back \in {ParseKeymap(saved'.doc)} :
            /\ back.geometry = saved'.config.geometry
            /\ BytesOf(back) = BytesOf(saved'.config)
            /\ saved'.format # "source" =>
                  \A li \in DOMAIN layers :
                      KnobsAsMade(back, li) /\ \A p \in 1..KeyCount : KeyAsMade(back, li, p)]_vars
=============================================================================
