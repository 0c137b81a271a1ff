--------------------------- MODULE RemapprService ---------------------------
(***************************************************************************)
(* The remappr keyboard service, clients/remappr/service.ts: an edit       *)
(* buffer over the last committed configuration, and the operations that   *)
(* push it to the device (commit) or drop it (discardChanges,              *)
(* resetSettings).  A push is a sequence of awaited commands -- BEGIN, the *)
(* chunks of the blob, VALIDATE, COMMIT -- on a channel that serialises    *)
(* exchanges but not operations, so two operations interleave command by   *)
(* command, and edits are made between the commands.                       *)
(*                                                                         *)
(* A layer's name and keys are one value; each of the edit maps (macros,   *)
(* tap dances, defaults, hold-taps, mod-morphs, conditional layers,        *)
(* autocorrect, node) is a knob with one value.                            *)
(***************************************************************************)
EXTENDS Integers, Sequences, FiniteSets

CONSTANTS
    Commits,      \* calls of commit()
    Discards,     \* calls of discardChanges()
    Vals,         \* contents of a layer, values of a knob
    Filler,       \* makeFiller(): the content of a fresh layer
    Knobs,        \* the surfaces that stage edits beside the layers
    StartLayers,  \* the layers of the configuration read at connect
    StartKnobs,
    Chunks,       \* chunks of a padded blob
    MaxLayers,    \* maxLayers
    MaxEdits,     \* bound: edits the user makes
    LateReplies,  \* may the device answer a command after its timeout
    Overlap,      \* may the user act while an operation is in flight
    None

Ops == Commits \cup Discards

ASSUME OpsAssumption == Commits \cap Discards = {} /\ None \notin Ops
ASSUME ContentAssumption ==
    /\ Filler \in Vals
    /\ StartLayers \in Seq(Vals) /\ StartLayers # <<>>
    /\ StartKnobs \in [Knobs -> Vals]
ASSUME BoundsAssumption ==
    /\ Chunks \in Nat \ {0} /\ MaxLayers \in Nat /\ MaxEdits \in Nat
    /\ Len(StartLayers) <= MaxLayers
    /\ LateReplies \in BOOLEAN /\ Overlap \in BOOLEAN

VARIABLES
    config,         \* config: what the service takes the device to run
    configVersion,  \* configVersion
    layers,         \* layers: the edited layers, each with its id
    nextLayerId,    \* nextLayerId
    edited,         \* the edit maps: a partial function on Knobs
    pendingChanges, \* pendingChanges
    removed,        \* history: ids removed, and not restored, since the seeding
    astray,         \* history: since the seeding, an id was restored that had been
                    \* handed out and not removed: a removal was undone late
    edits,          \* edits made so far
    cmd,            \* cmd[o]: the command o awaits, or "idle" / "done"
    chunk,          \* chunk[o]: the chunk WRITE_CONFIG_CHUNK carries
    blob,           \* blob[o]: what commit o built when it was called
    result,         \* result[o]: how o settled
    applied,        \* history: commits whose blob the device has activated
    disturbed,      \* did a commit share its time with an edit or another op
    line,           \* ops whose command waits for the channel, active one first
    waiting,        \* the active command is written and its reply awaited
    inbox,          \* device: commands received and not yet carried out
    replies,        \* statuses on their way to the host
    staging,        \* device: chunks staged, or None
    validated,      \* device: the staged blob passed VALIDATE
    active          \* device: the active blob

undoVars == <<removed, astray>>
bufferVars == <<layers, nextLayerId, edited, pendingChanges, undoVars>>
mirrorVars == <<config, configVersion>>
opVars == <<cmd, chunk, blob, result>>
channelVars == <<line, waiting, inbox, replies>>
deviceVars == <<staging, validated, active, applied>>
vars == <<bufferVars, mirrorVars, opVars, channelVars, deviceVars, edits,
          disturbed>>

Config == [layers : Seq(Vals), knobs : [Knobs -> Vals]]
Statuses == {"OK", "ERR_STATE", "ERR_INTEGRITY", "ERR_VERSION"}
Commands == {"BEGIN", "CHUNK", "VALIDATE", "COMMIT", "ROLLBACK"}
-----------------------------------------------------------------------------
(* The edit buffer.                                                        *)

NoEdits == [k \in {} |-> Filler]
Contents(ls) == [i \in DOMAIN ls |-> ls[i].val]
Seeded(cfg) == [i \in DOMAIN cfg.layers |-> [id |-> i - 1, val |-> cfg.layers[i]]]
IdsOf(ls) == {ls[i].id : i \in DOMAIN ls}
Without(s, i) == [j \in 1..Len(s) - 1 |-> IF j < i THEN s[j] ELSE s[j + 1]]
Inserted(s, i, x) ==
    [j \in 1..Len(s) + 1 |-> IF j < i THEN s[j] ELSE IF j = i THEN x ELSE s[j - 1]]

\* withEdits() and raiseNeutralToConfig(): what commit() would push now.
Raised ==
    [layers |-> Contents(layers),
     knobs  |-> [k \in Knobs |->
                    IF k \in DOMAIN edited THEN edited[k] ELSE config.knobs[k]]]

\* clearEdits(), seedLayersFromConfig() and markPending(false).
Reverted(cfg) ==
    /\ edited' = NoEdits
    /\ layers' = Seeded(cfg)
    /\ nextLayerId' = Len(cfg.layers)
    /\ pendingChanges' = FALSE
    /\ removed' = {} /\ astray' = FALSE

StartConfig == [layers |-> StartLayers, knobs |-> StartKnobs]
StartBlob == [config |-> StartConfig, version |-> 1]

Init ==
    /\ config = StartConfig /\ configVersion = 1
    /\ layers = Seeded(StartConfig) /\ nextLayerId = Len(StartLayers)
    /\ edited = NoEdits /\ pendingChanges = FALSE
    /\ removed = {} /\ astray = FALSE
    /\ edits = 0 /\ disturbed = FALSE
    /\ cmd = [o \in Ops |-> "idle"]
    /\ chunk = [o \in Ops |-> 0]
    /\ blob = [o \in Ops |-> StartBlob]
    /\ result = [o \in Ops |-> "none"]
    /\ line = <<>> /\ waiting = FALSE /\ inbox = <<>> /\ replies = <<>>
    /\ staging = None /\ validated = FALSE /\ active = StartBlob /\ applied = {}

InFlight(o) == cmd[o] \in Commands
Quiet == \A o \in Ops : ~InFlight(o)
Committing == \E o \in Commits : InFlight(o)

\* What every edit does around its own effect.
Edit ==
    /\ edits < MaxEdits
    /\ Overlap \/ Quiet
    /\ edits' = edits + 1
    /\ disturbed' = (disturbed \/ Committing)
    /\ pendingChanges' = TRUE
    /\ UNCHANGED <<mirrorVars, opVars, channelVars, deviceVars>>

\* setKey, setKeys, renameLayer: they find the layer by its id.
SetKey(id, v) ==
    /\ id \in IdsOf(layers)
    /\ Edit
    /\ LET i == CHOOSE j \in DOMAIN layers :
                   layers[j].id = id /\ \A m \in 1..j - 1 : layers[m].id # id
       IN  layers' = [layers EXCEPT ![i].val = v]
    /\ UNCHANGED <<nextLayerId, edited, undoVars>>

AddLayer ==
    /\ Len(layers) < MaxLayers
    /\ Edit
    /\ layers' = Append(layers, [id |-> nextLayerId, val |-> Filler])
    /\ nextLayerId' = nextLayerId + 1
    /\ UNCHANGED <<edited, undoVars>>

\* mutant: the last layer can be removed
RemoveAnyLayer(i) ==
    /\ \A j \in 1..i - 1 : layers[j].id # layers[i].id
    /\ Edit
    /\ layers' = Without(layers, i)
    /\ removed' = removed \cup {layers[i].id}
    /\ UNCHANGED <<nextLayerId, edited, astray>>

\* removeLayer looks its layer up by the id: the first one that has it.
RemoveLayer(i) ==
    /\ \A j \in 1..i - 1 : layers[j].id # layers[i].id
    /\ Len(layers) > 1
    /\ Edit
    /\ layers' = Without(layers, i)
    /\ removed' = removed \cup {layers[i].id}
    /\ UNCHANGED <<nextLayerId, edited, astray>>

MoveLayer(i, j) ==
    /\ Edit
    /\ layers' = Inserted(Without(layers, i), j, layers[i])
    /\ UNCHANGED <<nextLayerId, edited, undoVars>>

\* What the history keeps of a restore.
Undoes(id) ==
    /\ removed' = removed \ {id}
    /\ astray' = (astray \/ (id < nextLayerId /\ id \notin removed))

\* mutant: the restored id may be handed out again
RestoreLayerKeepingNext(id, i) ==
    /\ Edit /\ Undoes(id)
    /\ layers' = Inserted(layers, i, [id |-> id, val |-> Filler])
    /\ UNCHANGED <<nextLayerId, edited>>

\* restoreLayer: no check of the number of layers, nor of the id, which the
\* buffer may hold: a removal from before a discard or a reset, undone after it.
RestoreLayer(id, i) ==
    /\ Edit /\ Undoes(id)
    /\ layers' = Inserted(layers, i, [id |-> id, val |-> Filler])
    /\ nextLayerId' = IF id + 1 > nextLayerId THEN id + 1 ELSE nextLayerId
    /\ UNCHANGED edited

\* setConfigDefaults, setHoldTap, setModMorph, setConditionalLayers,
\* setAutocorrect, setNode, and the macro and tap-dance setters.
StageKnob(k, v) ==
    /\ Edit
    /\ edited' = [x \in DOMAIN edited \cup {k} |-> IF x = k THEN v ELSE edited[x]]
    /\ UNCHANGED <<layers, nextLayerId, undoVars>>

\* A patch key set to undefined drops the edit; the buffer stays pending.
UnstageKnob(k) ==
    /\ k \in DOMAIN edited
    /\ Edit
    /\ edited' = [x \in DOMAIN edited \ {k} |-> edited[x]]
    /\ UNCHANGED <<layers, nextLayerId, undoVars>>

\* resetSettings: local only, no command is sent.
ResetSettings ==
    /\ Overlap \/ Quiet
    /\ edits < MaxEdits /\ edits' = edits + 1
    /\ disturbed' = (disturbed \/ Committing)
    /\ Reverted(config)
    /\ UNCHANGED <<mirrorVars, opVars, channelVars, deviceVars>>
-----------------------------------------------------------------------------
(* The operations, command by command.                                     *)

StartCommit(o) ==
    /\ o \in Commits /\ cmd[o] = "idle"
    /\ Overlap \/ Quiet
    /\ blob' = [blob EXCEPT ![o] = [config |-> Raised,
                                    version |-> configVersion + 1]]
    /\ cmd' = [cmd EXCEPT ![o] = "BEGIN"]
    /\ line' = Append(line, o)
    /\ disturbed' = (disturbed \/ ~Quiet)
    /\ UNCHANGED <<bufferVars, mirrorVars, chunk, result, waiting, inbox, replies,
                   deviceVars, edits>>

\* mutant: discard forgets that the device may be staging
StartDiscardLocal(o) ==
    /\ o \in Discards /\ cmd[o] = "idle"
    /\ Overlap \/ Quiet
    /\ cmd' = [cmd EXCEPT ![o] = "done"]
    /\ result' = [result EXCEPT ![o] = "ok"]
    /\ Reverted(config)
    /\ disturbed' = (disturbed \/ Committing)
    /\ UNCHANGED <<mirrorVars, chunk, blob, channelVars, deviceVars, edits>>

StartDiscard(o) ==
    /\ o \in Discards /\ cmd[o] = "idle"
    /\ Overlap \/ Quiet
    /\ cmd' = [cmd EXCEPT ![o] = "ROLLBACK"]
    /\ line' = Append(line, o)
    /\ disturbed' = (disturbed \/ Committing)
    /\ UNCHANGED <<bufferVars, mirrorVars, chunk, blob, result, waiting, inbox,
                   replies, deviceVars, edits>>

\* The channel writes the command of the first operation in line.
Write ==
    /\ line # <<>> /\ ~waiting
    /\ waiting' = TRUE
    /\ LET o == Head(line)
       IN  inbox' = Append(inbox, [op |-> o, cmd |-> cmd[o], chunk |-> chunk[o]])
    /\ UNCHANGED <<bufferVars, mirrorVars, opVars, line, replies, deviceVars,
                   edits, disturbed>>

\* The await of o continues: it asks for the channel again with its next
\* command, behind whoever is in line, or it settles.
GoOn(o, next) ==
    /\ cmd' = [cmd EXCEPT ![o] = next]
    /\ chunk' = [chunk EXCEPT ![o] = IF next = "CHUNK" THEN @ + 1 ELSE @]
    /\ line' = Append(Tail(line), o)
    /\ UNCHANGED <<bufferVars, mirrorVars, blob, result>>

Finish(o, how) ==
    /\ cmd' = [cmd EXCEPT ![o] = "done"]
    /\ result' = [result EXCEPT ![o] = how]
    /\ line' = Tail(line)
    /\ UNCHANGED <<chunk, blob>>

\* mutant: a failed push resolves the promise
FailQuietly(o) == Finish(o, "ok") /\ UNCHANGED <<bufferVars, mirrorVars>>

Fail(o) == Finish(o, "failed") /\ UNCHANGED <<bufferVars, mirrorVars>>

\* mutant: the configuration remembered is raised again after the awaits
CommittedAnew(o) ==
    /\ Finish(o, "ok")
    /\ config' = Raised
    /\ configVersion' = blob[o].version
    /\ edited' = NoEdits
    /\ pendingChanges' = FALSE
    /\ UNCHANGED <<layers, nextLayerId, undoVars>>

\* mutant: the edit maps survive the commit
CommittedUncleared(o) ==
    /\ Finish(o, "ok")
    /\ config' = blob[o].config
    /\ configVersion' = blob[o].version
    /\ pendingChanges' = FALSE
    /\ UNCHANGED <<layers, nextLayerId, edited, undoVars>>

\* The last lines of commit().
Committed(o) ==
    /\ Finish(o, "ok")
    /\ config' = blob[o].config
    /\ configVersion' = blob[o].version
    /\ edited' = NoEdits
    /\ pendingChanges' = FALSE
    /\ UNCHANGED <<layers, nextLayerId, undoVars>>

\* discardChanges() after its ROLLBACK, whatever became of it.
Discarded(o) ==
    /\ Finish(o, "ok")
    /\ Reverted(config)
    /\ UNCHANGED mirrorVars

\* Operation o is resumed with a status, or with a timeout.
Resume(o, st) ==
    \/ cmd[o] = "BEGIN" /\ st = "OK" /\ GoOn(o, "CHUNK")
    \/ /\ cmd[o] = "CHUNK" /\ st = "OK"
       /\ GoOn(o, IF chunk[o] < Chunks THEN "CHUNK" ELSE "VALIDATE")
    \/ cmd[o] = "VALIDATE" /\ st = "OK" /\ GoOn(o, "COMMIT")
    \/ cmd[o] = "VALIDATE" /\ st \notin {"OK", "timeout"} /\ GoOn(o, "ROLLBACK")
    \/ cmd[o] = "COMMIT" /\ st = "OK" /\ Committed(o)
    \/ cmd[o] \in {"BEGIN", "CHUNK", "COMMIT"} /\ st # "OK" /\ Fail(o)
    \/ cmd[o] = "VALIDATE" /\ st = "timeout" /\ Fail(o)
    \/ cmd[o] = "ROLLBACK" /\ o \in Commits /\ Fail(o)
    \/ cmd[o] = "ROLLBACK" /\ o \in Discards /\ Discarded(o)

\* The channel takes the next reply frame for the reply of the active command.
Receive ==
    /\ waiting /\ replies # <<>>
    /\ waiting' = FALSE
    /\ replies' = Tail(replies)
    /\ Resume(Head(line), Head(replies))
    /\ UNCHANGED <<inbox, deviceVars, edits, disturbed>>

\* Without late replies a command times out only when the device lost it, or
\* carried it out and its reply was lost.
Timeout ==
    /\ waiting
    /\ LateReplies \/ (inbox = <<>> /\ replies = <<>>)
    /\ waiting' = FALSE
    /\ Resume(Head(line), "timeout")
    /\ UNCHANGED <<inbox, replies, deviceVars, edits, disturbed>>
-----------------------------------------------------------------------------
(* The device (external): the staging protocol of the firmware spec, 3.4.  *)

Whole(o) == [i \in 1..Chunks |-> [config |-> blob[o].config,
                                  version |-> blob[o].version, part |-> i]]

Intact == staging # None /\ \E o \in Commits : staging = Whole(o)
Staged == [config |-> staging[1].config, version |-> staging[1].version]

StatusFor(m) ==
    CASE m.cmd \in {"BEGIN", "ROLLBACK"} -> "OK"
      [] m.cmd = "CHUNK" -> IF staging = None THEN "ERR_STATE" ELSE "OK"
      [] m.cmd = "VALIDATE" -> IF staging = None THEN "ERR_STATE"
                               ELSE IF Intact THEN "OK" ELSE "ERR_INTEGRITY"
      [] m.cmd = "COMMIT" -> IF staging = None \/ ~validated THEN "ERR_STATE"
                             ELSE IF Staged.version <= active.version
                               THEN "ERR_VERSION" ELSE "OK"

Execute(m) ==
    /\ staging' =
         CASE m.cmd = "BEGIN" -> <<>>
           [] m.cmd = "CHUNK" /\ staging # None ->
                Append(staging, [config |-> blob[m.op].config,
                                 version |-> blob[m.op].version, part |-> m.chunk])
           [] m.cmd = "ROLLBACK" -> None
           [] m.cmd = "COMMIT" /\ StatusFor(m) = "OK" -> None
           [] OTHER -> staging
    /\ validated' = IF m.cmd = "VALIDATE" THEN StatusFor(m) = "OK"
                    ELSE IF m.cmd = "COMMIT" THEN validated /\ StatusFor(m) # "OK"
                    ELSE FALSE
    /\ active' = IF m.cmd = "COMMIT" /\ StatusFor(m) = "OK" THEN Staged ELSE active
    /\ applied' = IF m.cmd = "COMMIT" /\ StatusFor(m) = "OK"
                    THEN applied \cup {m.op} ELSE applied

DeviceExecutes ==
    /\ inbox # <<>>
    /\ Execute(Head(inbox))
    /\ inbox' = Tail(inbox)
    /\ \/ replies' = Append(replies, StatusFor(Head(inbox)))
       \/ UNCHANGED replies               \* the reply is lost
    /\ UNCHANGED <<bufferVars, mirrorVars, opVars, line, waiting, edits, disturbed>>

DeviceLoses ==
    /\ inbox # <<>>
    /\ inbox' = Tail(inbox)
    /\ UNCHANGED <<bufferVars, mirrorVars, opVars, line, waiting, replies,
                   deviceVars, edits, disturbed>>

UserEdits ==
    \/ \E id \in IdsOf(layers), v \in Vals : SetKey(id, v)
    \/ AddLayer
    \/ \E i \in DOMAIN layers : RemoveLayer(i)
    \/ \E i, j \in DOMAIN layers : MoveLayer(i, j)
    \/ \E id \in 0..MaxLayers, i \in 1..Len(layers) + 1 : RestoreLayer(id, i)
    \/ \E k \in Knobs, v \in Vals : StageKnob(k, v)
    \/ \E k \in Knobs : UnstageKnob(k)
    \/ ResetSettings

Next ==
    \/ UserEdits
    \/ \E o \in Ops : StartCommit(o) \/ StartDiscard(o)
    \/ Write \/ Receive \/ Timeout
    \/ DeviceExecutes \/ DeviceLoses

Spec == Init /\ [][Next]_vars
-----------------------------------------------------------------------------
Layer == [id : Nat, val : Vals]
Blob == [config : Config, version : Nat]
Part == [config : Config, version : Nat, part : 1..Chunks]
Command == [op : Ops, cmd : Commands, chunk : 0..Chunks]

\* Every variable has its type, and the keymap keeps at least one layer.
TypeOK ==
    /\ config \in Config /\ configVersion \in Nat
    /\ layers \in Seq(Layer) /\ layers # <<>>
    /\ nextLayerId \in Nat /\ removed \subseteq Nat /\ astray \in BOOLEAN
    /\ DOMAIN edited \subseteq Knobs /\ edited \in [DOMAIN edited -> Vals]
    /\ pendingChanges \in BOOLEAN /\ disturbed \in BOOLEAN
    /\ edits \in 0..MaxEdits
    /\ cmd \in [Ops -> Commands \cup {"idle", "done"}]
    /\ chunk \in [Ops -> 0..Chunks]
    /\ blob \in [Ops -> Blob]
    /\ result \in [Ops -> {"none", "ok", "failed"}]
    /\ line \in Seq(Ops) /\ waiting \in BOOLEAN
    /\ inbox \in Seq(Command) /\ replies \in Seq(Statuses)
    /\ staging \in Seq(Part) \cup {None} /\ validated \in BOOLEAN
    /\ active \in Blob /\ applied \subseteq Commits

\* "Decoded config = source of truth; updated only on a successful commit": the
\* service never believes itself ahead of the device, and whenever the two agree
\* on the version they agree on the configuration, also when two commits built
\* blobs of the same version and interleaved their chunks.
Truth ==
    /\ configVersion <= active.version
    /\ configVersion = active.version => config = active.config

\* A layer id names one layer, whatever the order of adding, moving, removing and
\* undoing a removal: setKey and removeLayer look layers up by it.  Excepted is a
\* buffer in which a removal was undone that the seeding had undone already: a
\* discard and a reset number the layers anew from 0, restoreLayer takes the id
\* without a look, and from then to the next seeding the first of two is edited.
LayerIdsUnique ==
    ~astray => \A i, j \in DOMAIN layers : layers[i].id = layers[j].id => i = j

\* Without pending changes the buffer shows the committed configuration, as long
\* as no commit shared its time with an edit or with another operation.
UnpendingIsClean ==
    ~pendingChanges /\ ~disturbed =>
        Contents(layers) = config.layers /\ edited = NoEdits

\* A discard whose ROLLBACK was answered leaves no staging behind on the device,
\* unless a commit that is still running goes on with it.
DiscardUnstages ==
    [][\A d \in Discards :
          result[d] = "none" /\ result'[d] = "ok" /\ Quiet' =>
              staging' = None \/ (waiting /\ replies = <<>>)]_vars

\* Firmware spec 3.7: config_version "must exceed the node's
\* active_config_version ... Bump it per push": no COMMIT is refused for it.
VersionAlwaysNewer == \A i \in DOMAIN replies : replies[i] # "ERR_VERSION"

\* setConfigDefaults: "Edits stage into `editedDefaults` and land on the next
\* commit()": what a commit clears from the edit maps is in what it committed.
StagedEditsLand ==
    [][configVersion' # configVersion =>
          \A k \in DOMAIN edited :
              k \in DOMAIN edited' \/ config'.knobs[k] = edited[k]]_vars

\* commit() is an atomic replacement of the device's configuration (ConfigPush):
\* chunk by chunk, interleaved with other operations, it takes effect as a whole
\* or not at all, and success is reported only when it has.
SizedConfigs ==
    [layers : UNION {[1..n -> Vals] : n \in 1..Len(StartLayers) + MaxEdits},
     knobs : [Knobs -> Vals]]

StageOf(o) ==
    IF cmd[o] = "idle" THEN "idle"
    ELSE IF cmd[o] = "done" THEN result[o]
    ELSE IF o \in applied THEN "applied" ELSE "open"

Push == INSTANCE ConfigPush
        WITH Pushes <- Commits,
             Configs <- SizedConfigs,
             active <- active.config,
             wanted <- [o \in Commits |-> blob[o].config],
             stage <- [o \in Commits |-> StageOf(o)]

PushAtomic == Push!Spec
=============================================================================
