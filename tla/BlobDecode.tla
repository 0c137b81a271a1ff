----------------------------- MODULE BlobDecode -----------------------------
\* The inverse of the compiler: a blob read back into a canonical
\* configuration.  Layers get synthetic names, composites and macros the names
\* of the NAMES table or synthetic ones, the keyboard as many keys as there are
\* positions.
EXTENDS Autocorrect

\* The frames are walked as records, so a frame is never longer than the body;
\* the first of an id counts.
HasTable(blob, id) == \E f \in ToSet(blob.frames) : f.id = id
Table(blob, id) == SelectSeq(blob.frames, LAMBDA f : f.id = id)[1]
Data(blob, id) == Table(blob, id).data

\* The little-endian reader, by offset.
At8(b, o) == b[o + 1]
At16(b, o) == b[o + 1] + 256 * b[o + 2]
At32(b, o) == At16(b, o) + 65536 * At16(b, o + 2)
Run8(b, o, n) == SubSeq(b, o + 1, o + n)
Run16(b, o, n) == [i \in 1..n |-> At16(b, o + 2 * (i - 1))]

\* A counted table of entries whose size may depend on what they hold.
Offsets(b, first, count, Size(_)) ==
    FoldLeft(LAMBDA at, i : Append(at, at[i] + Size(at[i])), <<first>>,
             [i \in 1..count |-> i])
Entries(b, Size(_), Read(_)) ==
    Each(Front(Offsets(b, 2, At16(b, 0), Size)), LAMBDA o : <<Read(o)>>)

\* The name of a code, or none.
NoName == "no-name"
NameOf(codes, code) == OneOf({n \in DOMAIN codes : codes[n] = code}, NoName)

\* maskToMod: the lowest bit wins.
LowestMod(mask) == Min(MaskToMods(mask))
LayerName(i) == "Layer " \o ToString(i)

----------------------------------------------------------------------------
\* A behaviour record back to an action.
RECORD_WIRE == 16

RecordAt(b, o) ==
    [type |-> At8(b, o), flavor |-> At8(b, o + 1), flags |-> At8(b, o + 2),
     subCount |-> At8(b, o + 3), tap |-> At16(b, o + 4), hold |-> At16(b, o + 6),
     tappingTermMs |-> At16(b, o + 8), quickTapMs |-> At16(b, o + 10),
     requirePriorIdleMs |-> At16(b, o + 12), subIndex |-> At16(b, o + 14)]

\* readRecordTable: the table must be as long as its count says.
RecordTableFits(b) == Len(b) >= 2 /\ 2 + At16(b, 0) * RECORD_WIRE <= Len(b)
Records(b) == Entries(b, LAMBDA o : RECORD_WIRE, LAMBDA o : RecordAt(b, o))

None == [type |-> "none"]
KeyPress(key, mods) == [type |-> "key_press", key |-> key, mods |-> mods]

\* The action of a key, or none when the catalog has no such usage.
OfKey(page, usage, F(_)) ==
    IF KeyAt(page, usage) = NoKey THEN None ELSE F(KeyAt(page, usage))
OfName(codes, code, F(_)) ==
    IF NameOf(codes, code) = NoName THEN None ELSE F(NameOf(codes, code))

\* tapHold: a time of 0 and a flag that is off are left out.
TapHold(key, hold, rec) ==
    LET th == [type |-> "tap_hold", tap |-> [key |-> key, mods |-> {}], hold |-> hold,
               flavor |-> IF NameOf(Flavor, rec.flavor) = NoName THEN "balanced"
                          ELSE NameOf(Flavor, rec.flavor)]
        timed(r, f) == With(r, f, rec[f] # 0, rec[f])
        flagged(r, f, bit) == With(r, f, BitSet(rec.flags, bit), TRUE)
    IN  flagged(flagged(timed(timed(timed(th, "tappingTermMs"), "quickTapMs"),
                              "requirePriorIdleMs"),
                        "retroTap", RETRO_TAP),
                "holdTriggerOnRelease", HOLD_TRIGGER_ON_RELEASE)

OutputAction(rec) ==
    OfName(OutputActionCode, rec.tap,
           LAMBDA a : With([type |-> "output", action |-> a], "profile",
                           rec.hold # OUTPUT_NO_PROFILE, rec.hold))

LightingAction(rec) ==
    OfName(LightingTargetCode, rec.hold, LAMBDA target :
    OfName(LightingActionCode, rec.tap, LAMBDA action :
        LET lit == [type |-> "lighting", target |-> target, action |-> action]
        IN  CASE action = "color" ->
                    lit @@ [hue |-> rec.tappingTermMs, saturation |-> rec.quickTapMs,
                            brightness |-> rec.requirePriorIdleMs]
              [] action = "set" -> lit @@ [level |-> rec.requirePriorIdleMs]
              [] OTHER -> lit))

MouseAction(rec) ==
    CASE rec.tap = MouseOp.mouse_key ->
            OfName(MouseButtonCode, rec.hold, LAMBDA n : [type |-> "mouse_key", button |-> n])
      [] rec.tap \in {MouseOp.mouse_move, MouseOp.mouse_scroll} ->
            OfName(MouseDirCode, rec.hold,
                   LAMBDA n : [type |-> NameOf(MouseOp, rec.tap), direction |-> n])
      [] OTHER -> None

SystemAction_(rec) ==
    OfName(SystemAction, rec.tap,
           LAMBDA n : CASE n = "ext_power_toggle" -> [type |-> "ext_power", action |-> "toggle"]
                        [] n = "ext_power_on" -> [type |-> "ext_power", action |-> "on"]
                        [] n = "ext_power_off" -> [type |-> "ext_power", action |-> "off"]
                        [] OTHER -> [type |-> n])

LayerModes ==
    [momentary |-> BehaviorType.Momentary, to |-> BehaviorType.To,
     toggle |-> BehaviorType.ToggleLayer, sticky |-> BehaviorType.StickyLayer]
LayerActions ==
    [tap_toggle |-> BehaviorType.LayerTapToggle, set_base_saved |-> BehaviorType.ToSaved,
     auto_layer |-> BehaviorType.AutoLayer]
Locks == [gui_lock |-> BehaviorType.GuiLock, secure |-> BehaviorType.Secure,
          autocorrect |-> BehaviorType.Autocorrect]
Plain == [transparent |-> BehaviorType.Trans, key_repeat |-> BehaviorType.KeyRepeat,
          caps_word |-> BehaviorType.CapsWord, alt_repeat |-> BehaviorType.AltRepeat,
          layer_lock |-> BehaviorType.LayerLock]
Slots == [macro_record |-> BehaviorType.MacroRecord, macro_play |-> BehaviorType.MacroPlay]

\* The records that stand alone.
AloneAction(rec, macroRef(_)) ==
    LET t == rec.type
        layer == LayerName(rec.hold)
    IN  CASE t \in {Plain[n] : n \in DOMAIN Plain} -> [type |-> NameOf(Plain, t)]
          [] t = BehaviorType.Key ->
                OfKey(HID_PAGE_KEYBOARD, rec.tap, LAMBDA k : KeyPress(k, {}))
          [] t = BehaviorType.KeyMods ->
                OfKey(HID_PAGE_KEYBOARD, rec.tap,
                      LAMBDA k : KeyPress(k, MaskToMods(rec.hold)))
          [] t = BehaviorType.Consumer ->
                OfKey(HID_PAGE_CONSUMER, rec.tap, LAMBDA k : KeyPress(k, {}))
          [] t = BehaviorType.SysCtrl ->
                OfKey(HID_PAGE_SYSTEM, rec.tap, LAMBDA k : KeyPress(k, {}))
          [] t = BehaviorType.ModTap ->
                IF MaskToMods(rec.hold) = {} THEN None
                ELSE OfKey(HID_PAGE_KEYBOARD, rec.tap, LAMBDA k :
                        TapHold(k, [type |-> "modifier", modifier |-> LowestMod(rec.hold)], rec))
          [] t = BehaviorType.LayerTap ->
                OfKey(HID_PAGE_KEYBOARD, rec.tap, LAMBDA k :
                        TapHold(k, [type |-> "layer", layer |-> layer], rec))
          [] t \in {LayerModes[n] : n \in DOMAIN LayerModes} ->
                [type |-> "layer", mode |-> NameOf(LayerModes, t), layer |-> layer]
          [] t = BehaviorType.StickyMod ->
                IF MaskToMods(rec.hold) = {} THEN None
                ELSE OfKey(HID_PAGE_KEYBOARD, ModUsage(LowestMod(rec.hold)),
                           LAMBDA k : [type |-> "sticky_key", key |-> k])
          [] t = BehaviorType.StickyKey ->
                OfKey(HID_PAGE_KEYBOARD, rec.tap, LAMBDA k : [type |-> "sticky_key", key |-> k])
          [] t = BehaviorType.KeyToggle ->
                OfKey(HID_PAGE_KEYBOARD, rec.tap, LAMBDA k : [type |-> "key_toggle", key |-> k])
          [] t = BehaviorType.Macro -> [type |-> "macro", ref |-> macroRef(rec.tap)]
          [] t = BehaviorType.System -> SystemAction_(rec)
          [] t = BehaviorType.Mouse -> MouseAction(rec)
          [] t = BehaviorType.Output -> OutputAction(rec)
          [] t = BehaviorType.Lighting -> LightingAction(rec)
          [] t = BehaviorType.AutoShift ->
                OfKey(HID_PAGE_KEYBOARD, rec.tap, LAMBDA k :
                        [type |-> "auto_shift", key |-> k, mods |-> MaskToMods(rec.hold)])
          [] t = BehaviorType.LayerMod ->
                [type |-> "layer_mod", layer |-> layer, mods |-> MaskToMods(rec.tap)]
          [] t \in {LayerActions[n] : n \in DOMAIN LayerActions} ->
                [type |-> NameOf(LayerActions, t), layer |-> layer]
          [] t \in {Locks[n] : n \in DOMAIN Locks} ->
                OfName(LockAction, rec.tap,
                       LAMBDA a : [type |-> NameOf(Locks, t), action |-> a])
          [] t = BehaviorType.TuneTerm -> [type |-> "tune_tap_term", ms |-> rec.tap]
          [] t = BehaviorType.Unicode -> [type |-> "unicode", codepoint |-> rec.tap]
          [] t \in {Slots[n] : n \in DOMAIN Slots} ->
                [type |-> NameOf(Slots, t), slot |-> rec.tap]
          [] t = BehaviorType.Leader ->
                With([type |-> "leader"], "windowMs", rec.tap # 0, rec.tap)
          [] t = BehaviorType.Peripheral ->
                OfName(PeripheralKind, rec.tap,
                       LAMBDA n : [type |-> "peripheral", kind |-> n, code |-> rec.hold])
          [] OTHER -> None

----------------------------------------------------------------------------
\* behaviorToAction: an action together with the definitions its decoding
\* pushed, in order.  A composite answers a reference to the definition it
\* pushes, after those of its slots; one reached twice is pushed twice.
Raised(act, td, mm) == [act |-> act, td |-> td, mm |-> mm]

\* ctx: the pool of sub-behaviours, the names and the macros.
RECURSIVE BehaviorToAction(_, _)

DecodeTapDance(rec, ctx) ==
    LET ref == IF rec.subIndex \in DOMAIN ctx.names.td THEN ctx.names.td[rec.subIndex]
               ELSE "td_" \o ToString(rec.subIndex)
        n == Min({rec.subCount, Max({0, Len(ctx.subs) - rec.subIndex})})
        slot == [i \in 1..n |-> BehaviorToAction(ctx.subs[rec.subIndex + i], ctx)]
        def == [id |-> ref, taps |-> [i \in 1..n |-> [count |-> i, action |-> slot[i].act]]]
    IN  Raised([type |-> "tap_dance", ref |-> ref],
               Append(Each(slot, LAMBDA x : x.td),
                      With(def, "tappingTermMs", rec.tappingTermMs # 0, rec.tappingTermMs)),
               Each(slot, LAMBDA x : x.mm))

\* The record the compiler emits for grave-escape is told by its shape.  Without
\* SUPPRESS every trigger modifier was kept; with a mask, those outside it were.
DecodeModMorph(rec, ctx) ==
    LET ref == IF rec.subIndex \in DOMAIN ctx.names.mm THEN ctx.names.mm[rec.subIndex]
               ELSE "mm_" \o ToString(rec.subIndex)
        sub(i) == ctx.subs[rec.subIndex + i]
        isKey(i, usage) == sub(i).type = BehaviorType.Key /\ sub(i).tap = usage
        slot == [i \in 1..2 |-> BehaviorToAction(sub(i), ctx)]
        mods == MaskToMods(rec.hold)
        suppress == BitSet(rec.flags, MORPH_SUPPRESS_MODS)
        kept == IF suppress THEN mods \ MaskToMods(rec.tap) ELSE mods
        def == [id |-> ref, mods |-> mods, bindings |-> <<slot[1].act, slot[2].act>>]
    IN  CASE rec.subCount < 2 \/ rec.subIndex + 2 > Len(ctx.subs) -> Raised(None, <<>>, <<>>)
          [] BitSet(rec.flags, MORPH_ANY_MOD) /\ rec.hold = 170 /\ ~suppress
             /\ isKey(1, 41) /\ isKey(2, 53) ->
                Raised([type |-> "grave_escape"], <<>>, <<>>)
          [] OTHER ->
                Raised([type |-> "mod_morph", ref |-> ref],
                       slot[1].td \o slot[2].td,
                       slot[1].mm \o slot[2].mm \o
                       <<With(def, "keepMods",
                              ~suppress \/ (rec.tap # 0 /\ kept # {}), kept)>>)

BehaviorToAction(rec, ctx) ==
    CASE rec.type = BehaviorType.TapDance -> DecodeTapDance(rec, ctx)
      [] rec.type = BehaviorType.ModMorph -> DecodeModMorph(rec, ctx)
      [] OTHER ->
            Raised(AloneAction(rec, LAMBDA i : IF i < Len(ctx.macros) THEN ctx.macros[i + 1].id
                                               ELSE "macro_" \o ToString(i)),
                   <<>>, <<>>)

----------------------------------------------------------------------------
\* The tables.
IfTable(blob, id, Read(_)) == IF HasTable(blob, id) THEN Read(Data(blob, id)) ELSE <<>>

\* The last name of a reference wins.
ByRef(names) ==
    [ref \in {n.ref : n \in ToSet(names)} |->
        names[Max({i \in DOMAIN names : names[i].ref = ref})].name]
NamesOf(records, kind) == ByRef(SelectSeq(records, LAMBDA r : r.kind = kind))
AllNames(records) ==
    [macros |-> NamesOf(records, NameKind.Macro), td |-> NamesOf(records, NameKind.TapDance),
     mm |-> NamesOf(records, NameKind.ModMorph)]
ReadNames(blob) ==
    AllNames(IF HasTable(blob, TableId.Names) THEN Data(blob, TableId.Names) ELSE <<>>)

\* A step whose key the catalog does not have is dropped.
MacroStep(op, arg) ==
    CASE op = MacroOp.wait -> <<[type |-> "wait", ms |-> arg]>>
      [] op = MacroOp.pause -> <<[type |-> "pause_for_release"]>>
      [] op \in 0..2 /\ KeyAt(HID_PAGE_KEYBOARD, arg) # NoKey ->
            <<[type |-> NameOf(MacroOp, op), key |-> KeyAt(HID_PAGE_KEYBOARD, arg)]>>
      [] OTHER -> <<>>

\* From version 2 on, two more bytes precede the steps.
StepsAt(b, first, n) ==
    Each([i \in 1..n |-> first + 4 * (i - 1)],
         LAMBDA s : MacroStep(At8(b, s), At16(b, s + 2)))
AllSteps(b, head) ==
    Entries(b, LAMBDA o : head + 4 * At16(b, o), LAMBDA o : StepsAt(b, o + head, At16(b, o)))
Named(steps, names) ==
    [i \in DOMAIN steps |->
        [id |-> IF i - 1 \in DOMAIN names THEN names[i - 1] ELSE "macro_" \o ToString(i - 1),
         steps |-> steps[i]]]
ReadMacros(t, names) == Named(AllSteps(t.data, IF t.version >= 2 THEN 4 ELSE 2), names)

\* The action a table refers to, or none when there is no such behaviour.
Decoded(decoded, idx) == IF idx < Len(decoded) THEN decoded[idx + 1] ELSE None

ReadCombos(b, decoded) ==
    LET combo(o) ==
            With([keys |-> Run16(b, o + 8, At16(b, o)), timeoutMs |-> At16(b, o + 2),
                  action |-> Decoded(decoded, At16(b, o + 6))],
                 "layers", At8(b, o + 4) # COMBO_ANY_LAYER, <<LayerName(At8(b, o + 4))>>)
        all == Entries(b, LAMBDA o : 8 + 2 * At16(b, o), combo)
    IN  [i \in DOMAIN all |-> all[i] @@ [name |-> "combo_" \o ToString(i - 1)]]

ReadConditionals(b) ==
    Entries(b, LAMBDA o : 2 + At8(b, o),
            LAMBDA o : [ifLayers |-> [j \in 1..At8(b, o) |-> LayerName(At8(b, o + 1 + j))],
                        thenLayer |-> LayerName(At8(b, o + 1))])

\* An override whose trigger the catalog does not have is dropped.
KeyOfByte(u) == KeyAt(HID_PAGE_KEYBOARD, u)
MaskNames(mask) == SelectSeq([i \in 1..16 |-> LayerName(i - 1)],
                             LAMBDA n : \E i \in 0..15 : BitSet(mask, i) /\ n = LayerName(i))
KeyOverrideAt(b, o) ==
    LET mods(r, f, mask) == With(r, f, mask # 0, MaskToMods(mask))
        replaced(r, key) == With(r, "replacement", At8(b, o + 4) # 0 /\ key # NoKey, key)
    IN  With(mods(replaced(mods(mods([trigger |-> KeyOfByte(At8(b, o)),
                                      triggerMods |-> MaskToMods(At8(b, o + 1))],
                                     "negativeMods", At8(b, o + 2)),
                                "suppressedMods", At8(b, o + 3)),
                           KeyOfByte(At8(b, o + 4))),
                  "replacementMods", At8(b, o + 5)),
             "layers", At16(b, o + 6) # 0, MaskNames(At16(b, o + 6)))
ReadKeyOverrides(b) ==
    SelectSeq(Entries(b, LAMBDA o : 8, LAMBDA o : KeyOverrideAt(b, o)),
              LAMBDA ko : ko.trigger # NoKey)

ReadLeaders(b, decoded) ==
    Entries(b, LAMBDA o : 4 + At8(b, o),
            LAMBDA o :
                [sequence |-> SelectSeq([k \in 1..At8(b, o) |->
                                            KeyAt(HID_PAGE_KEYBOARD, At8(b, o + 3 + k))],
                                        LAMBDA k : k # NoKey),
                 action |-> Decoded(decoded, At16(b, o + 2))])

\* Positions go back onto the tap-holds they were taken from.
ReadPosholds(b, decoded) ==
    LET entries == Entries(b, LAMBDA o : 4 + 2 * At8(b, o + 2),
                           LAMBDA o : [index |-> At16(b, o),
                                       positions |-> Run16(b, o + 4, At8(b, o + 2))])
        restore(d, e) ==
            IF e.index < Len(d) /\ e.positions # <<>> /\ d[e.index + 1].type = "tap_hold"
            THEN Put(d, e.index + 1, With(d[e.index + 1], "holdTriggerKeyPositions", TRUE,
                                          e.positions))
            ELSE d
    IN  FoldLeft(restore, decoded, entries)

\* Encoders go back into the slots of their layer; an unbound direction has no
\* behaviour, an unbound press is absent.
NoSlot == [type |-> "absent"]
ReadEncoders(b, decoded, layers) ==
    LET turn(idx) == IF idx = ENCODER_BH_NONE THEN None ELSE Decoded(decoded, idx)
        entries == Entries(b, LAMBDA o : 8, LAMBDA o :
            [slot |-> At8(b, o), layer |-> At8(b, o + 1),
             binding |-> With([cw |-> turn(At16(b, o + 2)), ccw |-> turn(At16(b, o + 4))],
                              "press", At16(b, o + 6) # ENCODER_BH_NONE, turn(At16(b, o + 6)))])
        put(slots, e) ==
            [i \in 1..Max({Len(slots), e.slot + 1}) |->
                IF i = e.slot + 1 THEN e.binding
                ELSE IF i <= Len(slots) THEN slots[i] ELSE NoSlot]
        attach(ls, e) ==
            IF e.layer >= Len(ls) THEN ls
            ELSE LET l == ls[e.layer + 1]
                 IN  Put(ls, e.layer + 1, [l EXCEPT !.encoders = put(@, e)])
    IN  FoldLeft(attach, layers, entries)

RaiseSemanticAction(kind, code, arg0, arg1) ==
    LET some(r, f, v) == With(r, f, v # 0, v)
    IN  CASE kind = 1 -> some([kind |-> "keyboard", usage |-> code], "mods", arg0)
          [] kind = 2 -> [kind |-> "consumer", usage |-> code]
          [] kind = 3 -> some(some([kind |-> "pointer", op |-> code], "code", arg0),
                              "magnitude", arg1)
          [] kind = 4 -> [kind |-> "system", action |-> code]
          [] kind = 5 -> With([kind |-> "output", action |-> code], "profile",
                              arg0 # OUTPUT_NO_PROFILE, arg0)
          [] kind = 6 ->
                some(some(some([kind |-> "lighting", action |-> code % 256,
                                target |-> (code \div 256) % 256],
                               "hue", arg0), "sat", arg1 % 256), "val", arg1 \div 256)
          [] OTHER -> [kind |-> "none"]

ReadActionBindings(b) ==
    [i \in 1..At16(b, 0) |->
        LET o == 4 + 10 * (i - 1)
        IN  [position |-> At16(b, o),
             action |-> RaiseSemanticAction(At8(b, o + 2), At16(b, o + 4), At16(b, o + 6),
                                            At16(b, o + 8))]]

\* The first layer's colours, black left out.
ReadRgb(b, numPositions) ==
    LET positions == IF At16(b, 4) = 0 THEN numPositions ELSE At16(b, 4)
        color(p) == Run8(b, 8 + 3 * p, 3)
    IN  IF Len(b) < 8 \/ At8(b, 0) = 0 \/ Len(b) < 8 + 3 * positions THEN <<>>
        ELSE [p \in {q \in 0..positions - 1 : color(q) # <<0, 0, 0>>} |-> color(p)]

\* The sections of the node: an empty record stands for one that is not there.
ReadMouse(b) ==
    LET n == At8(b, 4)
        accel == [i \in 1..n |-> Run16(b, 6 + 4 * (i - 1), 2)]
        timed == With(With(<<>>, "cpi", At16(b, 0) # 0, At16(b, 0)),
                      "autoLayerTimeoutMs", At16(b, 2) # 0, At16(b, 2))
    IN  IF Len(b) < 6 \/ Len(b) < 6 + 4 * n THEN <<>>
        ELSE With(timed, "accel", n # 0, accel)

ReadPersonality(b) ==
    LET at(i) == IF Len(b) > i THEN At8(b, i) ELSE 0
        who == With(<<>>, "personality", at(0) \in {1, 2},
                    IF at(0) = 1 THEN "keyboard" ELSE "mouse")
        role == With(who, "role", BitSet(at(1), 0),
                     IF BitSet(at(1), 1) THEN "coordinator" ELSE "follower")
    IN  With(role, "forwardMode", at(2) = 1, "physical")

ReadCluster(b) ==
    LET at(i) == 2 + CLUSTER_NODE_WIRE * (i - 1)
        some(r, f, v) == With(r, f, v # 0, v)
        node(o) ==
            some(some([uid |-> Run8(b, o + 1, At8(b, o)), positionBase |-> At16(b, o + 17),
                       rows |-> At8(b, o + 19), cols |-> At8(b, o + 20)],
                      "encoderBase", At16(b, o + 21)), "pointerBase", At16(b, o + 23))
    IN  IF Len(b) < 2 \/ Len(b) < 2 + At8(b, 0) * CLUSTER_NODE_WIRE
           \/ \E i \in 1..At8(b, 0) : At8(b, at(i)) > CLUSTER_UID_MAX
        THEN <<>>
        ELSE [i \in 1..At8(b, 0) |-> node(at(i))]

ReadLinkProfile(b) ==
    LET n == At8(b, 1)
        at(i) == 2 + LINK_PROFILE_OVR_WIRE * (i - 1)
        profile == NameOf(LinkProfileId, At8(b, 0))
    IN  IF Len(b) < 2 \/ Len(b) < 2 + n * LINK_PROFILE_OVR_WIRE \/ profile = NoName THEN <<>>
        ELSE With([profile |-> profile], "overrides", n # 0,
                  [i \in 1..n |-> [knob |-> At8(b, at(i)), value |-> At32(b, at(i) + 1)]])

\* The defaults of the LAYER table: the tails are there when it is long enough.
ReadDefaults(b) ==
    LET at(o, size) == IF Len(b) >= size THEN At16(b, o) ELSE 0
        tail == <<<<"releaseDebounceMs", 6, 8>>, <<"pressDebounceMs", 8, 14>>,
                  <<"matrixPressDebounceMs", 10, 14>>, <<"matrixReleaseDebounceMs", 12, 14>>,
                  <<"capsWordIdleMs", 14, 24>>, <<"stickyReleaseDefaultMs", 16, 24>>,
                  <<"macroDefaultWaitMs", 18, 24>>, <<"macroDefaultTapMs", 20, 24>>,
                  <<"matrixPollPeriodMs", 22, 24>>>>
    IN  FoldLeft(LAMBDA d, f : With(d, f[1], at(f[2], f[3]) # 0, at(f[2], f[3])),
                 [tappingTermMs |-> At16(b, 4)], tail)

----------------------------------------------------------------------------
\* decodeRemapprBlob.
Section(node, name, section) == With(node, name, section # <<>>, section)
NodeOf(blob) ==
    Section(Section(Section(IfTable(blob, TableId.Personality, ReadPersonality),
                            "mouse", IfTable(blob, TableId.Mouse, ReadMouse)),
                    "cluster", IfTable(blob, TableId.Cluster, ReadCluster)),
            "linkProfile", IfTable(blob, TableId.LinkProfile, ReadLinkProfile))

NumLayers(blob) == At16(Data(blob, TableId.Layer), 0)
NumKeys(blob) == At16(Data(blob, TableId.Layer), 2)
CellOf(blob, li, p) ==
    At16(Data(blob, TableId.Binding), 2 * ((li - 1) * NumKeys(blob) + p - 1))

\* A cell without a behaviour of its own has the first.
CellAction(decoded, idx) == decoded[IF idx < Len(decoded) THEN idx + 1 ELSE 1]
ReadLayers(blob, decoded) ==
    [li \in 1..NumLayers(blob) |->
        [name |-> LayerName(li - 1), encoders |-> <<>>,
         bindings |-> [p \in 1..NumKeys(blob) |-> CellAction(decoded, CellOf(blob, li, p))]]]

\* raised: the behaviours with what their decoding pushed; decoded: their
\* actions with the positions they are held to.
ReadSections(blob, macros, raised, decoded) ==
    [layers |-> IF HasTable(blob, TableId.Encoder)
                THEN ReadEncoders(Data(blob, TableId.Encoder), decoded,
                                  ReadLayers(blob, decoded))
                ELSE ReadLayers(blob, decoded),
     keys |-> NumKeys(blob),
     defaults |-> ReadDefaults(Data(blob, TableId.Layer)),
     combos |-> IfTable(blob, TableId.Combo, LAMBDA b : ReadCombos(b, decoded)),
     tapDances |-> Each(raised, LAMBDA x : x.td),
     modMorphs |-> Each(raised, LAMBDA x : x.mm),
     holdTaps |-> <<>>, macros |-> macros,
     conditionalLayers |-> IfTable(blob, TableId.Conditional, ReadConditionals),
     keyOverrides |-> IfTable(blob, TableId.KeyOverride, ReadKeyOverrides),
     leaderSequences |-> IfTable(blob, TableId.Leader, LAMBDA b : ReadLeaders(b, decoded)),
     actionBindings |-> IfTable(blob, TableId.ActionBinding, ReadActionBindings),
     perKey |-> IfTable(blob, TableId.Rgb, LAMBDA b : ReadRgb(b, NumKeys(blob))),
     node |-> NodeOf(blob)]

Actions(raised) == Each(raised, LAMBDA r : <<r.act>>)
Positioned(blob, plain) ==
    IF HasTable(blob, TableId.Poshold)
    THEN ReadPosholds(Data(blob, TableId.Poshold), plain) ELSE plain
RaiseAll(records, ctx) == Each(records, LAMBDA r : <<BehaviorToAction(r, ctx)>>)
ReadActions(blob, macros, raised) ==
    With(ReadSections(blob, macros, raised, Positioned(blob, Actions(raised))),
         "autocorrect", HasTable(blob, TableId.Autocorrect),
         IfTable(blob, TableId.Autocorrect, ReadAutocorrect))
ReadWith(blob, ctx) ==
    ReadActions(blob, ctx.macros, RaiseAll(Records(Data(blob, TableId.Behavior)), ctx))
ContextOf(blob, names) ==
    [subs |-> IfTable(blob, TableId.Subs, Records), names |-> names,
     macros |-> IF HasTable(blob, TableId.Macro)
                THEN ReadMacros(Table(blob, TableId.Macro), names.macros) ELSE <<>>]
ReadBody(blob) == ReadWith(blob, ContextOf(blob, ReadNames(blob)))

\* What the header, a missing table, its version, its size or its bounds refuse.
BodyCode(blob) ==
    LET needed == {TableId.Layer, TableId.Behavior, TableId.Binding}
        checked == needed \cup {TableId.Subs}
        layer == Data(blob, TableId.Layer)
        cells == At16(layer, 0) * At16(layer, 2)
    IN  CASE \E id \in needed : ~HasTable(blob, id) -> "MISSING"
          [] \E id \in checked : HasTable(blob, id) /\ Table(blob, id).version # 1 -> "TABLE_VER"
          [] Len(layer) < 8 -> "TABLE_FRAME"
          [] cells = 0 -> "BOUNDS"
          [] \E id \in checked \ {TableId.Layer, TableId.Binding} :
                HasTable(blob, id) /\ ~RecordTableFits(Data(blob, id)) -> "TABLE_FRAME"
          [] Len(Data(blob, TableId.Binding)) # 2 * cells -> "TABLE_FRAME"
          [] OTHER -> "OK"

DecodeCode(blob) ==
    CASE blob.magic # BLOB_MAGIC -> "MAGIC"
      [] blob.minReader > BLOB_READER_VERSION -> "READER_VER"
      [] blob.bodyLen > Len(blob.frames) -> "TRUNCATED"
      [] blob.crc # SubSeq(blob.frames, 1, blob.bodyLen) -> "CRC"
      [] OTHER -> BodyCode(blob)
=============================================================================
