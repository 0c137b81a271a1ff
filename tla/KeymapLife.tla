----------------------------- MODULE KeymapLife -----------------------------
\* The life of a keymap: the blob a Remappr keyboard holds is read and decoded,
\* shown, edited, merged back, compiled and written, and read again.  The
\* writing is one step here: RemapprService has its chunks and its failures.
EXTENDS BlobEncode, BlobDecode, ConfigBridge

CONSTANTS
    Keyboards,       \* the configurations a keyboard may come with
    KeyChoices,      \* the keys the pickers offer
    MacroEdits, TapEntries, MorphPatches, ConditionalLists, Dictionaries,
    FieldPatches,    \* <<section, field, value>> of the defaults and the node
    Titles,          \* the names a layer can be given
    MaxLayers, MaxEdits, MaxSaves,
    MaxPosition      \* the keys that are set

ASSUME BoundsAssumption == MaxLayers \in Nat \ {0} /\ MaxEdits \in Nat /\ MaxSaves \in Nat

VARIABLES
    device,          \* the blob of the keyboard
    open,            \* whether a service is open on it
    config,          \* RemapprKeyboardService.config
    layers,          \* its editing buffer, a sequence of [id, name, keys]
    nextLayerId,
    edited,          \* the staged edits: editedMacros, editedTapDances, ...
    edits, saves,    \* bounded: edits made and commits done
    typed,           \* history: the keys set since the load
    ownForm,         \* history: keys set to what the bridge cannot tell from before
    reshaped,        \* history: since the load, layers were moved, removed, restored
                     \* or renamed
    degraded         \* history: the service opened on a part of the blob

vars == <<device, open, config, layers, nextLayerId, edited, edits, saves,
          typed, ownForm, reshaped, degraded>>

Nothing == [macros |-> <<>>, tapDances |-> <<>>, modMorphs |-> <<>>,
            defaults |-> <<>>, node |-> <<>>, lists |-> <<>>]

LayerIds == {layers[i].id : i \in DOMAIN layers}
LayerIndexById(id) == SelectInSeq(layers, LAMBDA l : l.id = id)
KeyCount == Len(config.layers[1].bindings)
Filler == [p \in 1..KeyCount |-> TransparentKey]

\* seedLayersFromConfig: the buffer of a configuration, ids counted from 0.
Numbered(low) ==
    [li \in DOMAIN low |-> [id |-> li - 1, name |-> low[li].name, keys |-> low[li].keys]]
Seed(c) == Numbered(LowerConfig(c))

Overlay(defs, staged) ==
    [i \in DOMAIN defs |-> IF i - 1 \in DOMAIN staged THEN staged[i - 1] ELSE defs[i]]

WithEdits(c, e) ==
    LET over == [macros |-> Overlay(c.macros, e.macros),
                 tapDances |-> Overlay(c.tapDances, e.tapDances),
                 modMorphs |-> Overlay(c.modMorphs, e.modMorphs),
                 defaults |-> e.defaults @@ c.defaults, node |-> e.node @@ c.node]
    IN  e.lists @@ over @@ c

----------------------------------------------------------------------------
Start(blob) ==
    /\ device = blob /\ open = FALSE
    /\ config = <<>> /\ layers = <<>> /\ nextLayerId = 0 /\ edited = Nothing
    /\ edits = 0 /\ saves = 0
    /\ typed = {} /\ ownForm = {} /\ reshaped = FALSE /\ degraded = FALSE

Init == \E c \in Keyboards : Start(EncodeBlob(c, 1).blob)

Pristine == typed' = {} /\ ownForm' = {} /\ reshaped' = FALSE

Load(c, part) ==
    /\ open' = TRUE /\ config' = c /\ degraded' = part
    /\ layers' = Seed(c) /\ nextLayerId' = Len(c.layers)
    /\ edited' = Nothing /\ Pristine
    /\ UNCHANGED <<device, edits, saves>>

\* loadDeviceConfig: a blob that decodes gives its configuration.
Open == ~open /\ DecodeCode(device) = "OK" /\ Load(ReadBody(device), FALSE)

\* A chunk answered with a bad status ends the reading as the end of the blob
\* does; what was read does not decode and the default configuration stands in,
\* with the keys of the keyboard's own geometry if it tells one.
OpenShort ==
    /\ ~open /\ saves < MaxSaves
    /\ \E keyCount \in {0, NumKeys(device)} : Load(DefaultConfig(keyCount), TRUE)

Close ==
    /\ open
    /\ open' = FALSE /\ config' = <<>> /\ layers' = <<>> /\ nextLayerId' = 0
    /\ edited' = Nothing /\ degraded' = FALSE /\ Pristine
    /\ UNCHANGED <<device, edits, saves>>

----------------------------------------------------------------------------
Editing == open /\ edits < MaxEdits /\ saves < MaxSaves /\ edits' = edits + 1
Buffered == UNCHANGED <<device, open, config, edited, saves, degraded>>

\* The name a composite is labelled with: macroAt, tapDanceAt, the mod-morph.
CompositeName(k) ==
    LET at(defs, staged) ==
            LET all == Overlay(defs, staged)
            IN  IF k.params[1] + 1 \in DOMAIN all THEN all[k.params[1] + 1].id ELSE ""
    IN  CASE k.kind = "macro" -> at(config.macros, edited.macros)
          [] k.kind = "td" -> at(config.tapDances, edited.tapDances)
          [] k.kind = "mm" -> at(config.modMorphs, <<>>)
          [] OTHER -> ""

\* Whether the key shows what its binding lowers to and yet means another.
KeptAsBefore(li, p, k) ==
    /\ li \in DOMAIN config.layers
    /\ LET prev == config.layers[li].bindings[p]
       IN  /\ SameRuntimeForm(k, LowerAction(prev, LayerNamesOf(layers), config))
           /\ RaiseAction(k, LayerNamesOf(layers), config) # prev

SetKey(id, p, choice) ==
    /\ Editing
    /\ LET li == LayerIndexById(id)
           k == [choice EXCEPT !.name = CompositeName(choice)]
       IN  /\ layers' = Put(layers, li, [layers[li] EXCEPT !.keys = Put(@, p, k)])
           /\ typed' = typed \cup {<<id, p>>}
           /\ ownForm' = IF KeptAsBefore(li, p, k) THEN ownForm \cup {<<id, p>>}
                         ELSE ownForm \ {<<id, p>>}
    /\ Buffered /\ UNCHANGED <<nextLayerId, reshaped>>

\* Mutant: the counter of the ids stands still.
AddLayerSameId ==
    /\ Editing /\ Len(layers) < MaxLayers
    /\ layers' = Append(layers, [id |-> nextLayerId, name |-> LayerName(Len(layers)),
                                 keys |-> Filler])
    /\ UNCHANGED nextLayerId
    /\ Buffered /\ UNCHANGED <<typed, ownForm, reshaped>>

AddLayer ==
    /\ Editing /\ Len(layers) < MaxLayers
    /\ layers' = Append(layers, [id |-> nextLayerId, name |-> LayerName(Len(layers)),
                                 keys |-> Filler])
    /\ nextLayerId' = nextLayerId + 1
    /\ Buffered /\ UNCHANGED <<typed, ownForm, reshaped>>

Reshape == reshaped' = TRUE /\ Buffered /\ UNCHANGED <<typed, ownForm>>

RemoveLayer(id) ==
    /\ Editing /\ Len(layers) > 1
    /\ layers' = RemoveAt(layers, LayerIndexById(id))
    /\ UNCHANGED nextLayerId /\ Reshape

RenameLayer(id, title) ==
    /\ Editing
    /\ layers' = Put(layers, LayerIndexById(id), [layers[LayerIndexById(id)] EXCEPT !.name = title])
    /\ UNCHANGED nextLayerId /\ Reshape

MoveLayer(from, to) ==
    /\ Editing
    /\ layers' = InsertAt(RemoveAt(layers, from), to, layers[from])
    /\ UNCHANGED nextLayerId /\ Reshape

\* Without a look at the number of layers or at the id, which the buffer may hold
\* (a removal from before a discard, undone after it), and with empty keys.
RestoreLayer(id, at) ==
    /\ Editing
    /\ layers' = InsertAt(layers, at, [id |-> id, name |-> "Restored " \o ToString(id),
                                       keys |-> Filler])
    /\ nextLayerId' = Max({nextLayerId, id + 1}) /\ Reshape

----------------------------------------------------------------------------
Staged == UNCHANGED <<device, open, config, layers, nextLayerId, saves,
                      typed, ownForm, reshaped, degraded>>

SetMacro(i, actions) ==
    /\ Editing /\ i + 1 \in DOMAIN config.macros
    /\ edited' = [edited EXCEPT !.macros =
                      (i :> ActionsToMacro(config.macros[i + 1].id, actions)) @@ @]
    /\ Staged

\* A rich tap dance is refused.
SetTapDance(i, entry) ==
    /\ Editing /\ i + 1 \in DOMAIN config.tapDances
    /\ ~IsRichTapDance(config.tapDances[i + 1])
    /\ edited' = [edited EXCEPT !.tapDances =
                      (i :> EntryToTapDance(config.tapDances[i + 1].id, entry)) @@ @]
    /\ Staged

\* What an editor is shown, and may save as it is.
MacroAt(i) == Overlay(config.macros, edited.macros)[i + 1]
TapDanceAt(i) == Overlay(config.tapDances, edited.tapDances)[i + 1]

\* A patch goes onto the definition as it is staged.
SetModMorph(i, patch) ==
    /\ Editing /\ i + 1 \in DOMAIN config.modMorphs
    /\ edited' = [edited EXCEPT !.modMorphs =
                      (i :> (patch @@ Overlay(config.modMorphs, @)[i + 1])) @@ @]
    /\ Staged

SetConditionalLayers(list) ==
    Editing /\ edited' = [edited EXCEPT !.lists = ("conditionalLayers" :> list) @@ @] /\ Staged

SetAutocorrect(entries) ==
    Editing /\ edited' = [edited EXCEPT !.lists = ("autocorrect" :> entries) @@ @] /\ Staged

\* setConfigDefaults and setNode: field by field, undefined takes the edit back.
SetField(section, field, value) ==
    /\ Editing /\ edited' = [edited EXCEPT ![section] = (field :> value) @@ @] /\ Staged

RevertField(section, field) ==
    /\ Editing /\ field \in DOMAIN edited[section]
    /\ edited' = [edited EXCEPT ![section] = [f \in DOMAIN @ \ {field} |-> @[f]]]
    /\ Staged

----------------------------------------------------------------------------
\* The configuration a commit compiles.
Committed == RaiseConfig(layers, WithEdits(config, edited))

\* What the compiler reports is not looked at; only a throw stops the commit.
Commit ==
    /\ open /\ saves < MaxSaves
    /\ \E next \in {Committed} :
       \E built \in {EncodeBlob(next, device.configVersion + 1)} :
           /\ "throws" \notin built.diag
           /\ device' = built.blob
           /\ config' = next
    /\ edited' = Nothing /\ saves' = saves + 1
    /\ UNCHANGED <<open, layers, nextLayerId, edits, typed, ownForm, reshaped, degraded>>

DiscardChanges ==
    /\ open
    /\ edited' = Nothing /\ layers' = Seed(config) /\ nextLayerId' = Len(config.layers)
    /\ typed' = {} /\ ownForm' = {}
    /\ UNCHANGED <<device, open, config, edits, saves, reshaped, degraded>>

\* A composite is picked from those there are.
Offered(k) == k.kind \in {"macro", "td", "mm"} =>
                  k.params[1] + 1 \in DOMAIN PoolOf(config, k.kind)

EditKey ==
    \E id \in LayerIds, k \in {c \in KeyChoices : Offered(c)} :
        \E p \in 1..Min({KeyCount, MaxPosition}) : SetKey(id, p, k)

EditLayers ==
    \/ AddLayer
    \/ \E id \in LayerIds : RemoveLayer(id) \/ \E t \in Titles : RenameLayer(id, t)
    \/ \E from, to \in DOMAIN layers : from # to /\ MoveLayer(from, to)
    \/ \E id \in 0..MaxLayers, at \in 1..Len(layers) + 1 : RestoreLayer(id, at)

EditDefinitions ==
    \/ \E i \in 0..Len(config.macros) - 1 :
          \E a \in MacroEdits \cup {MacroToActions(MacroAt(i))} : SetMacro(i, a)
    \/ \E i \in 0..Len(config.tapDances) - 1 :
          \E e \in TapEntries \cup {TapDanceToEntry(TapDanceAt(i))} : SetTapDance(i, e)
    \/ \E i \in 0..Len(config.modMorphs) - 1 : \E q \in MorphPatches : SetModMorph(i, q)
    \/ \E l \in ConditionalLists : SetConditionalLayers(l)
    \/ \E d \in Dictionaries : SetAutocorrect(d)
    \/ \E q \in FieldPatches : SetField(q[1], q[2], q[3]) \/ RevertField(q[1], q[2])

Next ==
    \/ Open \/ OpenShort \/ Close
    \/ open /\ (EditKey \/ EditLayers \/ EditDefinitions)
    \/ Commit \/ DiscardChanges

Spec == Init /\ [][Next]_vars

----------------------------------------------------------------------------
\* The buffer has one key per position and only ids that were handed out, and
\* whatever was committed decodes.
TypeOK ==
    /\ DecodeCode(device) = "OK"
    /\ open => /\ \A i \in DOMAIN layers : Len(layers[i].keys) = KeyCount
               /\ \A id \in LayerIds : id < nextLayerId
    /\ ~open => layers = <<>>

\* The tables a behaviour is looked up in.
View(blob) ==
    LET b == Data(blob, TableId.Macro)
        size(o) == 2 + 4 * At16(b, o)
    IN  [blob |-> blob, names |-> ReadNames(blob),
         records |-> Records(Data(blob, TableId.Behavior)),
         subs |-> IfTable(blob, TableId.Subs, Records),
         macros |-> IF HasTable(blob, TableId.Macro)
                    THEN Entries(b, size, LAMBDA o : Run8(b, o, size(o))) ELSE <<>>,
         held |-> IfTable(blob, TableId.Poshold, LAMBDA h :
                      Entries(h, LAMBDA o : 4 + 2 * At8(h, o + 2),
                              LAMBDA o : <<At16(h, o), Run16(h, o + 4, At8(h, o + 2))>>))]

\* What a record does, with no place of a table in it: the record, whatever its
\* name is, with the slots and the steps it stands for; a definition that is
\* staged stands for itself.
Means(name, rec, subs, steps) == [name |-> name, rec |-> rec, subs |-> subs, steps |-> steps]

RECURSIVE Meaning(_, _, _)
Meaning(v, rec, staged) ==
    LET ref == IF rec.type = BehaviorType.Macro THEN rec.tap ELSE rec.subIndex
        pool == CASE rec.type = BehaviorType.TapDance -> v.names.td
                  [] rec.type = BehaviorType.ModMorph -> v.names.mm
                  [] rec.type = BehaviorType.Macro -> v.names.macros
                  [] OTHER -> <<>>
        name == IF ref \in DOMAIN pool THEN pool[ref] ELSE ""
    IN  CASE name \in staged -> Means(name, NoneRec, <<>>, <<>>)
          [] rec.type = BehaviorType.Macro ->
                Means(name, [rec EXCEPT !.tap = 0], <<>>, v.macros[ref + 1])
          [] rec.type \in {BehaviorType.TapDance, BehaviorType.ModMorph} ->
                Means(name, [rec EXCEPT !.subIndex = 0],
                      [i \in 1..rec.subCount |-> Meaning(v, v.subs[ref + i], staged)], <<>>)
          [] OTHER -> Means(name, rec, <<>>, <<>>)

\* The behaviour of a place of the table, with the positions it is held to.
Does(v, idx, staged) ==
    IF idx = ENCODER_BH_NONE THEN <<>>
    ELSE <<Meaning(v, v.records[idx + 1], staged),
           {h[2] : h \in {e \in ToSet(v.held) : e[1] = idx}}>>

CellDoes(v, li, p, staged) ==
    LET perLayer == At16(Data(v.blob, TableId.Layer), 2)
    IN  Does(v, At16(Data(v.blob, TableId.Binding), 2 * ((li - 1) * perLayer + p - 1)), staged)

\* The tables that refer to behaviours: what an entry says, and what it does.
EntriesOf(v, id, staged) ==
    LET b == Data(v.blob, id)
        does(o) == Does(v, At16(b, o), staged)
    IN  CASE ~HasTable(v.blob, id) -> <<>>
          [] id = TableId.Combo ->
                Entries(b, LAMBDA o : 8 + 2 * At16(b, o),
                        LAMBDA o : <<Run8(b, o, 6) \o Run8(b, o + 8, 2 * At16(b, o)),
                                     does(o + 6)>>)
          [] id = TableId.Encoder ->
                Entries(b, LAMBDA o : 8,
                        LAMBDA o : <<Run8(b, o, 2), <<does(o + 2), does(o + 4), does(o + 6)>>>>)
          [] id = TableId.Leader ->
                Entries(b, LAMBDA o : 4 + At8(b, o),
                        LAMBDA o : <<Run8(b, o + 4, At8(b, o)), does(o + 2)>>)

ReferringTables == {TableId.Combo, TableId.Encoder, TableId.Leader}

\* The other tables, with the staged edits that replace them.
PlainTables ==
    {TableId.Mouse, TableId.Rgb, TableId.Personality, TableId.Cluster, TableId.LinkProfile,
     TableId.Conditional, TableId.KeyOverride, TableId.ActionBinding, TableId.Autocorrect}
TableOfNode == [mouse |-> TableId.Mouse, cluster |-> TableId.Cluster,
                linkProfile |-> TableId.LinkProfile, role |-> TableId.Personality,
                forwardMode |-> TableId.Personality, personality |-> TableId.Personality]
TableOfList == [conditionalLayers |-> TableId.Conditional, autocorrect |-> TableId.Autocorrect]
StagedTables == {TableOfNode[f] : f \in DOMAIN edited.node}
                \cup {TableOfList[f] : f \in DOMAIN edited.lists}

DataOr(blob, id) == IF HasTable(blob, id) THEN <<Data(blob, id)>> ELSE <<>>
TimingOf(blob) == LET b == Data(blob, TableId.Layer) IN SubSeq(b, 5, Len(b))

StagedNames ==
    {config.macros[i + 1].id : i \in DOMAIN edited.macros}
    \cup {config.tapDances[i + 1].id : i \in DOMAIN edited.tapDances}
    \cup {config.modMorphs[i + 1].id : i \in DOMAIN edited.modMorphs}

Committing == saves' # saves

\* Saving an edit changes nothing else: every key not set since the keymap was
\* loaded does after the commit what it did before it, with the same slots,
\* steps, timing and positions, and so do the combos, the encoders, the leader
\* sequences and every section nothing was staged for.  Not so when the layers
\* were renamed, moved, removed or restored, or when only a part was read.
UntouchedKept ==
    [][(Committing /\ ~reshaped /\ ~degraded) =>
        \E before \in {View(device)}, after \in {View(device')} :
        /\ \A li \in 1..At16(Data(device, TableId.Layer), 0), p \in 1..KeyCount :
              <<layers[li].id, p>> \notin typed =>
                  CellDoes(after, li, p, StagedNames) = CellDoes(before, li, p, StagedNames)
        /\ \A id \in ReferringTables :
              EntriesOf(after, id, StagedNames) = EntriesOf(before, id, StagedNames)
        /\ \A id \in PlainTables \ StagedTables : DataOr(device', id) = DataOr(device, id)
        /\ edited.defaults = <<>> => TimingOf(device') = TimingOf(device)]_vars

----------------------------------------------------------------------------
\* Two keys of the editor show the same: modifiers count where exact.
ShowsSame(k, l, exact) ==
    /\ k.kind = l.kind
    /\ IF k.kind \in {"macro", "td", "mm"} THEN k.name = l.name ELSE k.params = l.params
    /\ exact => k.mods = l.mods

\* The layer a key refers to is there, and a binding kept from before names one.
LayerOf(k) == IF k.kind \in {"mo", "tog"} THEN {k.params[1]}
              ELSE IF k.kind = "lt" THEN {k.params[2]} ELSE {}
NameOfLayer(b) == IF b.type = "layer" THEN {b.layer}
                  ELSE IF b.type = "tap_hold" /\ b.hold.type = "layer" THEN {b.hold.layer}
                  ELSE {}
Resolvable(k, binding) ==
    /\ \A i \in LayerOf(k) : i < Len(layers)
    /\ NameOfLayer(binding) \subseteq ToSet(LayerNamesOf(layers))

\* The editor tells the truth about what it saved: read back, every key is what
\* the editor shows, and a key set to transparent is nothing else.  Not told
\* apart are a key set to the form it already had (Ctrl+C to C), a layer that is
\* not there, and layers of one name.
SavedAsShown ==
    [][(Committing /\ Cardinality(ToSet(LayerNamesOf(layers))) = Len(layers)) =>
        \E after \in {ReadBody(device')} : \E shown \in {LowerConfig(after)} :
            /\ Len(shown) = Len(layers)
            /\ \A li \in DOMAIN layers, p \in 1..KeyCount :
                  LET k == layers[li].keys[p]
                      cell == <<layers[li].id, p>>
                      exact == ~reshaped /\ cell \notin ownForm
                  IN  Resolvable(k, config'.layers[li].bindings[p]) =>
                          /\ ShowsSame(shown[li].keys[p], k, exact)
                          /\ (exact /\ cell \in typed /\ k.kind = "trans") =>
                                 after.layers[li].bindings[p].type = "transparent"]_vars
=============================================================================
