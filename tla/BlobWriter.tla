----------------------------- MODULE BlobWriter -----------------------------
\* The RMBC blob the firmware stores a configuration in: the numbers of its
\* wire format, the little-endian writer with the widths of every field, and
\* the builder that lays the tables out.  A table's frame is kept as a record
\* (id, version and data); the data of every table but NAMES is the sequence of
\* bytes the program writes, so that a wrong width, stride or order shows.
EXTENDS KeyCatalog

BLOB_MAGIC == "RMBC"
BLOB_READER_VERSION == 1
ENCODER_BH_NONE == 65535
OUTPUT_NO_PROFILE == 255
COMBO_ANY_LAYER == 255
CLUSTER_UID_MAX == 16
CLUSTER_NODE_WIRE == 25
LINK_PROFILE_OVR_WIRE == 5

TableId ==
    [Layer |-> 1, Binding |-> 3, Behavior |-> 4, Combo |-> 5, Macro |-> 6,
     Rgb |-> 7, Mouse |-> 8, Subs |-> 12, Conditional |-> 13, KeyOverride |-> 14,
     Leader |-> 15, Personality |-> 16, ActionBinding |-> 17, Poshold |-> 18,
     Names |-> 19, Encoder |-> 20, Cluster |-> 21, LinkProfile |-> 23,
     Autocorrect |-> 24]

BehaviorType ==
    [None |-> 0, Trans |-> 1, Key |-> 2, ModTap |-> 3, LayerTap |-> 4,
     Momentary |-> 5, To |-> 6, StickyMod |-> 7, StickyLayer |-> 8,
     ModMorph |-> 9, TapDance |-> 10, Macro |-> 11, ToggleLayer |-> 12,
     KeyToggle |-> 13, KeyRepeat |-> 14, CapsWord |-> 15, System |-> 16,
     Mouse |-> 17, Output |-> 18, Lighting |-> 19, AutoShift |-> 20,
     Leader |-> 21, KeyMods |-> 22, AltRepeat |-> 23, LayerMod |-> 24,
     LayerTapToggle |-> 25, LayerLock |-> 26, ToSaved |-> 27, GuiLock |-> 28,
     Secure |-> 29, TuneTerm |-> 30, Unicode |-> 31, Autocorrect |-> 32,
     AutoLayer |-> 33, MacroRecord |-> 34, MacroPlay |-> 35, Peripheral |-> 36,
     Consumer |-> 37, SysCtrl |-> 38, StickyKey |-> 39]

\* The codes a behaviour carries in its tap and hold fields, by canonical name.
SystemAction ==
    [reset |-> 0, bootloader |-> 1, soft_off |-> 2, ext_power_toggle |-> 3,
     ext_power_on |-> 9, ext_power_off |-> 10]
MouseOp == [mouse_key |-> 0, mouse_move |-> 1, mouse_scroll |-> 2]
LockAction == [off |-> 0, on |-> 1, toggle |-> 2]
PeripheralKind ==
    [encoder |-> 0, dipswitch |-> 1, haptic |-> 2, audio |-> 3, joystick |-> 4,
     midi |-> 5, steno |-> 6, sequencer |-> 7, wpm |-> 8, rawhid |-> 9]
MouseButtonCode == [left |-> 0, right |-> 1, middle |-> 2, mb4 |-> 3, mb5 |-> 4]
MouseDirCode == [up |-> 0, down |-> 1, left |-> 2, right |-> 3]
OutputActionCode ==
    [usb |-> 0, bluetooth |-> 1, toggle |-> 2, none |-> 3, bluetooth_clear |-> 4,
     bluetooth_next |-> 5, bluetooth_prev |-> 6, bluetooth_disconnect |-> 7]
LightingTargetCode == [underglow |-> 0, backlight |-> 1, per_key |-> 2]
LightingActionCode ==
    [toggle |-> 0, on |-> 1, off |-> 2, brightness_up |-> 3,
     brightness_down |-> 4, hue_up |-> 5, hue_down |-> 6, saturation_up |-> 7,
     saturation_down |-> 8, effect_next |-> 9, effect_previous |-> 10,
     speed_up |-> 11, speed_down |-> 12, cycle |-> 13, color |-> 14, set |-> 15]
MacroOp == [tap |-> 0, press |-> 1, release |-> 2, wait |-> 3, pause |-> 4]
Flavor ==
    [hold_preferred |-> 0, balanced |-> 1, tap_preferred |-> 2,
     tap_unless_interrupted |-> 3]
NameKind == [Macro |-> 0, TapDance |-> 1, ModMorph |-> 2]
LinkProfileId == [balanced |-> 0, gaming |-> 1, powerSave |-> 2]

\* remappr_behavior.flags, by the number of the bit.
RETRO_TAP == 0
MORPH_SUPPRESS_MODS == 2
MORPH_ANY_MOD == 3
HOLD_TRIGGER_ON_RELEASE == 4

----------------------------------------------------------------------------
\* The byte writer: a field keeps the low bits its width has room for.
U8(v) == <<v % 256>>
U16(v) == <<v % 256, (v \div 256) % 256>>
U32(v) == U16(v % 65536) \o U16(v \div 65536)

Bytes(s) == Each(s, U8)
Words(s) == Each(s, U16)

\* tableBegin and tableEnd: one frame; Counted lays out a u16 count and the
\* entries behind it.
Frame(id, data) == <<[id |-> id, version |-> 1, data |-> data]>>
Counted(id, s, Enc(_)) == Frame(id, U16(Len(s)) \o Each(s, Enc))

\* The timing tail comes in two nested extents; the second forces the first.
LayerTable(numLayers, numPositions, t) ==
    LET v2 == <<t.pressDebounceMs, t.matrixPressDebounceMs, t.matrixReleaseDebounceMs>>
        v3 == <<t.capsWordIdleMs, t.stickyReleaseDefaultMs, t.macroDefaultWaitMs,
                t.macroDefaultTapMs, t.matrixPollPeriodMs>>
        set(tail) == \E i \in DOMAIN tail : tail[i] # 0
    IN  Frame(TableId.Layer,
              Words(<<numLayers, numPositions, t.tappingTermMs, t.releaseDebounceMs>>)
              \o (IF set(v2) \/ set(v3) THEN Words(v2) ELSE <<>>)
              \o (IF set(v3) THEN Words(v3) ELSE <<>>))

RecordBytes(r) ==
    Bytes(<<r.type, r.flavor, r.flags, r.subCount>>)
    \o Words(<<r.tap, r.hold, r.tappingTermMs, r.quickTapMs, r.requirePriorIdleMs,
               r.subIndex>>)
RecordTable(id, records) == Counted(id, records, RecordBytes)

BindingTable(cells) == Frame(TableId.Binding, Words(cells))

ComboTable(combos) ==
    Counted(TableId.Combo, combos,
        LAMBDA c : Words(<<Len(c.positions), c.timeoutMs>>) \o Bytes(<<c.layer, 0>>)
                   \o Words(<<c.outputIndex>> \o c.positions))

EncoderTable(encoders) ==
    Counted(TableId.Encoder, encoders,
        LAMBDA e : Bytes(<<e.encoderIndex, e.layer>>)
                   \o Words(<<e.cwIndex, e.ccwIndex, e.pressIndex>>))

MouseTable(m) ==
    Frame(TableId.Mouse, Words(<<m.cpi, m.autoLayerTimeoutMs>>)
                         \o Bytes(<<Len(m.accel), 0>>) \o Each(m.accel, Words))

MacroTable(macros) ==
    Counted(TableId.Macro, macros,
        LAMBDA m : U16(Len(m)) \o Each(m, LAMBDA s : Bytes(<<s.op, 0>>) \o U16(s.arg)))

\* A name's own bytes are left out: the entry keeps it whole.
NamesTable(records) ==
    Frame(TableId.Names, SelectSeq(records, LAMBDA r : r.name # ""))

PosholdTable(entries) ==
    Counted(TableId.Poshold, entries,
        LAMBDA e : U16(e.behaviorIndex) \o Bytes(<<Len(e.positions), 0>>)
                   \o Words(e.positions))

ConditionalTable(conditionals) ==
    Counted(TableId.Conditional, conditionals,
        LAMBDA c : Bytes(<<Len(c.ifLayers), c.thenLayer>> \o c.ifLayers))

KeyOverrideTable(records) ==
    Counted(TableId.KeyOverride, records,
        LAMBDA r : Bytes(<<r.trigger, r.triggerMods, r.negativeMods, r.suppressedMods,
                           r.replacement, r.replacementMods>>) \o U16(r.layers))

LeaderTable(records) ==
    Counted(TableId.Leader, records,
        LAMBDA r : Bytes(<<Len(r.usages), 0>>) \o U16(r.outputIndex) \o Bytes(r.usages))

RgbTable(numPositions, colors) ==
    Frame(TableId.Rgb, Bytes(<<1, 0, 1, 0>>) \o Words(<<numPositions, 0>>) \o Bytes(colors))

PersonalityTable(personality, roleFlags, fwdMode) ==
    Frame(TableId.Personality, Bytes(<<personality, roleFlags, fwdMode, 0>>))

\* The uid field is CLUSTER_UID_MAX bytes wide, padded with zeros.
ClusterTable(nodes) ==
    LET padded(uid) == [i \in 1..CLUSTER_UID_MAX |-> IF i <= Len(uid) THEN uid[i] ELSE 0]
    IN  Frame(TableId.Cluster,
              Bytes(<<Len(nodes), 0>>)
              \o Each(nodes, LAMBDA n :
                     U8(Len(n.uid)) \o Bytes(padded(n.uid)) \o U16(n.positionBase)
                     \o Bytes(<<n.rows, n.cols>>)
                     \o Words(<<n.encoderBase, n.pointerBase>>)))

ActionBindingTable(numPositions, records) ==
    Frame(TableId.ActionBinding,
          Words(<<Len(records), numPositions>>)
          \o Each(records, LAMBDA r :
                 U16(r.position) \o Bytes(<<r.kind, 0>>) \o Words(<<r.code, r.arg0, r.arg1>>)))

LinkProfileTable(profileId, overrides) ==
    Frame(TableId.LinkProfile,
          Bytes(<<profileId, Len(overrides)>>)
          \o Each(overrides, LAMBDA o : U8(o.knob) \o U32(o.value)))

AutocorrectTable(dict) == Frame(TableId.Autocorrect, dict)

\* finalize: the checksum covers the frames and is taken to be perfect.
Finalize(frames, configVersion) ==
    [magic |-> BLOB_MAGIC, minReader |-> BLOB_READER_VERSION,
     configVersion |-> configVersion, bodyLen |-> Len(frames), crc |-> frames,
     frames |-> frames]
=============================================================================
