----------------------- MODULE RemapprService_proofs -----------------------
(***************************************************************************)
(* Proofs about RemapprService, for any number of commits, discards, edits *)
(* and layers.  The first part needs nothing of the channel: the types,    *)
(* the order of the operations in line, and the edit buffer.  The second   *)
(* part follows a push to the device, and needs that no reply comes after  *)
(* its timeout (~LateReplies).                                             *)
(***************************************************************************)
EXTENDS RemapprService, LineLemmas, FiniteSetTheorems, TLAPS

(* The sequence operators of the buffer.                                   *)

LEMMA WithoutSeq ==
    ASSUME NEW S, NEW s \in Seq(S), NEW i \in DOMAIN s
    PROVE  /\ Without(s, i) \in Seq(S)
           /\ Len(Without(s, i)) = Len(s) - 1
           /\ \A j \in 1..Len(s) - 1 : Without(s, i)[j] = IF j < i THEN s[j] ELSE s[j + 1]
  <1>1. Len(s) \in Nat /\ Len(s) - 1 \in Nat /\ i \in 1..Len(s)
    OBVIOUS
  <1>2. \A j \in 1..Len(s) - 1 : (IF j < i THEN s[j] ELSE s[j + 1]) \in S
    BY <1>1
  <1> QED BY <1>1, <1>2 DEF Without

LEMMA InsertedSeq ==
    ASSUME NEW S, NEW s \in Seq(S), NEW i \in 1..Len(s) + 1, NEW x \in S
    PROVE  /\ Inserted(s, i, x) \in Seq(S)
           /\ Len(Inserted(s, i, x)) = Len(s) + 1
           /\ \A j \in 1..Len(s) + 1 :
                 Inserted(s, i, x)[j] = IF j < i THEN s[j] ELSE IF j = i THEN x ELSE s[j - 1]
  <1>1. Len(s) \in Nat /\ Len(s) + 1 \in Nat
    OBVIOUS
  <1>2. \A j \in 1..Len(s) + 1 :
           (IF j < i THEN s[j] ELSE IF j = i THEN x ELSE s[j - 1]) \in S
    BY <1>1
  <1> QED BY <1>1, <1>2 DEF Inserted

\* The next id is fresh; an id names one layer.
Below(ls, n) == \A i \in DOMAIN ls : ls[i].id < n
SoundLayers(ls, n) == ls \in Seq(Layer) /\ n \in Nat /\ Below(ls, n)
Distinct(ls) == \A i, j \in DOMAIN ls : ls[i].id = ls[j].id => i = j

LEMMA WithoutSound ==
    ASSUME NEW ls, NEW n, SoundLayers(ls, n), NEW i \in DOMAIN ls
    PROVE  /\ SoundLayers(Without(ls, i), n)
           /\ IdsOf(Without(ls, i)) \subseteq IdsOf(ls)
           /\ Distinct(ls) => Distinct(Without(ls, i)) /\ ls[i].id \notin IdsOf(Without(ls, i))
  <1> DEFINE w == Without(ls, i)
  <1>1. ls \in Seq(Layer) /\ i \in 1..Len(ls)
    BY DEF SoundLayers
  <1>2. /\ w \in Seq(Layer) /\ Len(w) = Len(ls) - 1
        /\ \A j \in 1..Len(ls) - 1 : w[j] = IF j < i THEN ls[j] ELSE ls[j + 1]
    BY <1>1, WithoutSeq
  <1> HIDE DEF w
  <1>3. ASSUME Distinct(ls) PROVE Distinct(w)
    <2> SUFFICES ASSUME NEW j \in DOMAIN w, NEW k \in DOMAIN w, w[j].id = w[k].id
                 PROVE  j = k
      BY DEF Distinct
    <2> DEFINE back(m) == IF m < i THEN m ELSE m + 1
    <2>1. j \in 1..Len(ls) - 1 /\ k \in 1..Len(ls) - 1
      BY <1>1, <1>2
    <2>2. /\ back(j) \in DOMAIN ls /\ back(k) \in DOMAIN ls
          /\ w[j] = ls[back(j)] /\ w[k] = ls[back(k)]
      BY <2>1, <1>1, <1>2
    <2>3. back(j) = back(k)
      BY <2>2, <1>3 DEF Distinct
    <2> QED BY <2>1, <2>3, <1>1
  <1>4. Below(w, n)
    BY <1>1, <1>2 DEF Below, SoundLayers
  <1>5. ASSUME Distinct(ls), NEW j \in DOMAIN w PROVE w[j].id # ls[i].id
    <2>1. /\ j \in DOMAIN ls /\ j + 1 \in DOMAIN ls /\ j \in Int /\ i \in Int
          /\ w[j] = IF j < i THEN ls[j] ELSE ls[j + 1]
      BY <1>1, <1>2
    <2>2. CASE j < i
      <3>1. w[j] = ls[j] /\ j # i
        BY <2>1, <2>2
      <3> QED BY <3>1, <2>1, <1>5 DEF Distinct
    <2>3. CASE ~(j < i)
      <3>1. w[j] = ls[j + 1] /\ j + 1 # i
        BY <2>1, <2>3
      <3> QED BY <3>1, <2>1, <1>5 DEF Distinct
    <2> QED BY <2>2, <2>3
  <1>6. ASSUME NEW j \in DOMAIN w PROVE w[j].id \in IdsOf(ls)
    <2>1. j \in DOMAIN ls /\ j + 1 \in DOMAIN ls /\ (w[j] = ls[j] \/ w[j] = ls[j + 1])
      BY <1>1, <1>2
    <2> QED BY <2>1 DEF IdsOf
  <1>7. IdsOf(w) = {w[j].id : j \in DOMAIN w}
    BY DEF IdsOf
  <1>8. SoundLayers(w, n)
    BY <1>2, <1>4 DEF SoundLayers
  <1> QED BY <1>3, <1>5, <1>6, <1>7, <1>8 DEF w

LEMMA InsertedSound ==
    ASSUME NEW ls, NEW n, SoundLayers(ls, n), NEW i \in 1..Len(ls) + 1,
           NEW x \in Layer, NEW m \in Nat, n <= m, x.id < m
    PROVE  /\ SoundLayers(Inserted(ls, i, x), m)
           /\ IdsOf(Inserted(ls, i, x)) \subseteq IdsOf(ls) \cup {x.id}
           /\ Distinct(ls) /\ x.id \notin IdsOf(ls) => Distinct(Inserted(ls, i, x))
  <1> DEFINE w == Inserted(ls, i, x)
  <1>1. ls \in Seq(Layer) /\ Len(ls) \in Nat /\ n \in Nat
    BY DEF SoundLayers
  <1>2. /\ w \in Seq(Layer) /\ Len(w) = Len(ls) + 1
        /\ \A j \in 1..Len(ls) + 1 :
              w[j] = IF j < i THEN ls[j] ELSE IF j = i THEN x ELSE ls[j - 1]
    BY <1>1, InsertedSeq
  <1> HIDE DEF w
  <1>3. DOMAIN w = 1..Len(ls) + 1 /\ DOMAIN ls = 1..Len(ls)
    BY <1>1, <1>2
  <1>4. ASSUME Distinct(ls), x.id \notin IdsOf(ls) PROVE Distinct(w)
    <2>a. \A j \in DOMAIN ls : ls[j].id # x.id
      BY <1>4 DEF IdsOf
    <2> SUFFICES ASSUME NEW j \in DOMAIN w, NEW k \in DOMAIN w, w[j].id = w[k].id
                 PROVE  j = k
      BY DEF Distinct
    <2> DEFINE back(p) == IF p < i THEN p ELSE p - 1
    <2>1. ASSUME NEW p \in DOMAIN w, p # i
          PROVE  back(p) \in DOMAIN ls /\ w[p] = ls[back(p)]
      BY <2>1, <1>1, <1>2, <1>3
    <2>2. w[i] = x
      BY <1>1, <1>2
    <2>3. CASE j # i /\ k # i
      <3>1. back(j) = back(k)
        BY <2>1, <2>3, <1>4 DEF Distinct
      <3> QED BY <3>1, <2>3, <1>3
    <2>4. CASE j = i \/ k = i
      BY <2>1, <2>2, <2>4, <2>a
    <2> QED BY <2>3, <2>4
  <1>5. ASSUME NEW j \in DOMAIN w
        PROVE  w[j].id < m /\ (w[j] = x \/ \E p \in DOMAIN ls : w[j] = ls[p])
    <2>1. \A p \in DOMAIN ls : ls[p].id < n /\ ls[p].id \in Nat
      <3>1. \A p \in DOMAIN ls : ls[p] \in Layer
        BY <1>1
      <3> QED BY <3>1 DEF SoundLayers, Below, Layer
    <2>2. w[j] = x \/ \E p \in DOMAIN ls : w[j] = ls[p]
      <3>1. CASE j < i
        BY <3>1, <1>1, <1>2, <1>3
      <3>2. CASE j = i
        BY <3>2, <1>1, <1>2, <1>3
      <3>3. CASE j > i
        <4>1. j - 1 \in DOMAIN ls /\ w[j] = ls[j - 1]
          BY <3>3, <1>1, <1>2, <1>3
        <4> QED BY <4>1
      <3> QED BY <3>1, <3>2, <3>3, <1>3
    <2> QED BY <2>1, <2>2, <1>1
  <1>6. IdsOf(w) \subseteq IdsOf(ls) \cup {x.id}
    <2>1. IdsOf(w) = {w[j].id : j \in DOMAIN w} /\ IdsOf(ls) = {ls[p].id : p \in DOMAIN ls}
      BY DEF IdsOf
    <2> QED BY <2>1, <1>5
  <1>7. SoundLayers(w, m)
    BY <1>2, <1>5 DEF SoundLayers, Below
  <1> QED BY <1>4, <1>6, <1>7 DEF w

LEMMA SeededSound ==
    ASSUME NEW cfg \in Config
    PROVE  /\ SoundLayers(Seeded(cfg), Len(cfg.layers)) /\ Distinct(Seeded(cfg))
           /\ Len(Seeded(cfg)) = Len(cfg.layers)
           /\ Contents(Seeded(cfg)) = cfg.layers
  <1> DEFINE n == Len(cfg.layers)
  <1>1. cfg.layers \in Seq(Vals) /\ n \in Nat /\ DOMAIN cfg.layers = 1..n
    BY DEF Config
  <1>2. Seeded(cfg) = [i \in 1..n |-> [id |-> i - 1, val |-> cfg.layers[i]]]
    BY <1>1 DEF Seeded
  <1>3. \A i \in 1..n : [id |-> i - 1, val |-> cfg.layers[i]] \in Layer
    BY <1>1 DEF Layer
  <1>4. Seeded(cfg) \in Seq(Layer) /\ Len(Seeded(cfg)) = n /\ DOMAIN Seeded(cfg) = 1..n
    BY <1>1, <1>2, <1>3
  <1>5. Distinct(Seeded(cfg)) /\ Below(Seeded(cfg), n)
    BY <1>1, <1>2, <1>4 DEF Distinct, Below
  <1>6. Contents(Seeded(cfg)) = cfg.layers
    <2>1. Contents(Seeded(cfg)) = [i \in 1..n |-> cfg.layers[i]]
      BY <1>2, <1>4 DEF Contents
    <2> QED BY <2>1, <1>1
  <1> QED BY <1>1, <1>4, <1>5, <1>6 DEF SoundLayers
-----------------------------------------------------------------------------
(* The invariant of the first part.                                        *)

\* Operations in line are those in flight, each once.
Ordered ==
    /\ line \in Seq(Ops) /\ NoRepeat(line) /\ waiting \in BOOLEAN
    /\ \A o \in Ops : InFlight(o) <=> On(line, o)
    /\ waiting => line # <<>>

\* What each operation's script says of its locals.
Scripted(o) ==
    /\ cmd[o] \in {"idle", "BEGIN"} => chunk[o] = 0
    /\ cmd[o] = "CHUNK" => chunk[o] >= 1
    /\ o \in Discards => cmd[o] \in {"idle", "ROLLBACK", "done"}
    /\ cmd[o] = "done" <=> result[o] # "none"

OpTypes ==
    /\ cmd \in [Ops -> Commands \cup {"idle", "done"}]
    /\ chunk \in [Ops -> 0..Chunks]
    /\ blob \in [Ops -> Blob]
    /\ result \in [Ops -> {"none", "ok", "failed"}]

OpsOK ==
    /\ OpTypes /\ \A o \in Ops : Scripted(o) /\ blob[o].config.layers # <<>>
    /\ Ordered

SoundCommand == {m \in Command : /\ m.cmd = "CHUNK" => m.chunk >= 1
                                 /\ m.cmd # "ROLLBACK" => m.op \in Commits}

\* The staged parts are those of one blob, all of them and in order.
Uniform ==
    /\ staging \in Seq(Part) /\ Len(staging) = Chunks
    /\ \A i \in 1..Chunks : /\ staging[i].config = staging[1].config
                            /\ staging[i].version = staging[1].version
                            /\ staging[i].part = i

DeviceOK ==
    /\ inbox \in Seq(SoundCommand) /\ replies \in Seq(Statuses)
    /\ staging \in Seq(Part) \cup {None} /\ validated \in BOOLEAN
    /\ validated => staging # None /\ Uniform
    /\ active \in Blob /\ applied \subseteq Commits

\* An id stands for a layer of the buffer or for one removed from it, not for both.
Named == ~astray => Distinct(layers) /\ IdsOf(layers) \cap removed = {}

BufferOK ==
    /\ SoundLayers(layers, nextLayerId) /\ layers # <<>>
    /\ removed \subseteq Nat /\ (\A id \in removed : id < nextLayerId)
    /\ astray \in BOOLEAN /\ Named
    /\ DOMAIN edited \subseteq Knobs /\ edited \in [DOMAIN edited -> Vals]
    /\ pendingChanges \in BOOLEAN

MirrorOK == config \in Config /\ config.layers # <<>> /\ configVersion \in Nat

Base ==
    /\ BufferOK /\ MirrorOK /\ OpsOK /\ DeviceOK
    /\ edits \in 0..MaxEdits /\ disturbed \in BOOLEAN

LEMMA BaseTypes == Base => TypeOK /\ LayerIdsUnique
  <1> SUFFICES ASSUME Base PROVE TypeOK /\ LayerIdsUnique  OBVIOUS
  <1>1. inbox \in Seq(Command)
    BY DEF Base, DeviceOK, SoundCommand
  <1>2. layers \in Seq(Layer) /\ nextLayerId \in Nat
    BY DEF Base, BufferOK, SoundLayers
  <1>3. TypeOK
    BY <1>1, <1>2
       DEF Base, BufferOK, MirrorOK, OpsOK, OpTypes, Ordered, DeviceOK, TypeOK
  <1>4. LayerIdsUnique
    BY DEF Base, BufferOK, Named, Distinct, LayerIdsUnique
  <1> QED BY <1>3, <1>4

LEMMA StartTypes ==
    /\ StartConfig \in Config /\ StartConfig.layers # <<>>
    /\ StartBlob \in Blob /\ NoEdits \in [{} -> Vals] /\ Filler \in Vals
  BY ContentAssumption DEF StartConfig, Config, StartBlob, Blob, NoEdits

LEMMA InitBase == Init => Base
  <1> SUFFICES ASSUME Init PROVE Base  OBVIOUS
  <1>1. /\ layers = Seeded(StartConfig) /\ nextLayerId = Len(StartConfig.layers)
        /\ config = StartConfig
    BY DEF Init, StartConfig
  <1>2. /\ SoundLayers(layers, nextLayerId) /\ Distinct(layers)
        /\ Len(layers) = Len(StartConfig.layers)
    BY <1>1, StartTypes, SeededSound
  <1>3. layers # <<>>
    <2>1. StartConfig.layers \in Seq(Vals) /\ StartConfig.layers # <<>>
      BY StartTypes DEF Config
    <2>2. Len(layers) > 0
      BY <2>1, <1>2
    <2> QED BY <2>2
  <1>4. DOMAIN edited \subseteq Knobs /\ edited \in [DOMAIN edited -> Vals]
    BY StartTypes DEF Init, NoEdits
  <1>5. BufferOK
    BY <1>2, <1>3, <1>4 DEF Init, BufferOK, Named
  <1>6. MirrorOK
    BY <1>1, StartTypes DEF Init, MirrorOK
  <1>7. OpTypes
    BY BoundsAssumption, StartTypes DEF Init, OpTypes
  <1>8. Ordered
    <2>1. line = <<>> /\ waiting = FALSE /\ cmd = [o \in Ops |-> "idle"]
      BY DEF Init
    <2>2. line \in Seq(Ops) /\ NoRepeat(line) /\ \A o : ~On(line, o)
      BY <2>1 DEF NoRepeat, On
    <2>3. \A o \in Ops : ~InFlight(o)
      BY <2>1 DEF InFlight, Commands
    <2> QED BY <2>1, <2>2, <2>3 DEF Ordered
  <1>9. \A o \in Ops : Scripted(o) /\ blob[o].config.layers # <<>>
    BY StartTypes DEF Init, Scripted, StartBlob
  <1>10. DeviceOK
    <2>1. inbox \in Seq(SoundCommand) /\ replies \in Seq(Statuses)
      BY DEF Init
    <2>2. staging \in Seq(Part) \cup {None} /\ validated = FALSE
      BY DEF Init
    <2>3. active \in Blob /\ applied \subseteq Commits
      BY StartTypes DEF Init
    <2> QED BY <2>1, <2>2, <2>3 DEF DeviceOK
  <1>11. edits \in 0..MaxEdits /\ disturbed \in BOOLEAN
    <2>1. edits = 0 /\ MaxEdits \in Nat
      BY BoundsAssumption DEF Init
    <2>2. edits \in 0..MaxEdits
      BY <2>1
    <2>3. disturbed = FALSE
      BY DEF Init
    <2> QED BY <2>2, <2>3
  <1> QED BY <1>5, <1>6, <1>7, <1>8, <1>9, <1>10, <1>11 DEF Base, OpsOK

\* What withEdits() makes of the buffer is a configuration with at least one layer.
LEMMA RaisedType ==
    ASSUME BufferOK, MirrorOK
    PROVE  Raised \in Config /\ Raised.layers # <<>> /\ Len(Raised.layers) = Len(layers)
  <1>1. layers \in Seq(Layer) /\ layers # <<>> /\ config \in Config
        /\ DOMAIN edited \subseteq Knobs /\ edited \in [DOMAIN edited -> Vals]
    BY DEF BufferOK, MirrorOK, SoundLayers
  <1>2. /\ Contents(layers) \in Seq(Vals) /\ Len(Contents(layers)) = Len(layers)
        /\ Contents(layers) # <<>>
    <2>1. Contents(layers) = [i \in 1..Len(layers) |-> layers[i].val]
      BY <1>1 DEF Contents
    <2>2. \A i \in 1..Len(layers) : layers[i].val \in Vals
      <3>1. \A i \in 1..Len(layers) : layers[i] \in Layer
        BY <1>1
      <3> QED BY <3>1 DEF Layer
    <2>3. Len(layers) \in Nat /\ Len(layers) > 0
      BY <1>1
    <2> HIDE DEF Layer
    <2>4. Contents(layers) \in Seq(Vals) /\ Len(Contents(layers)) = Len(layers)
      BY <2>1, <2>2, <2>3
    <2> QED BY <2>3, <2>4
  <1>3. [k \in Knobs |-> IF k \in DOMAIN edited THEN edited[k] ELSE config.knobs[k]]
           \in [Knobs -> Vals]
    BY <1>1 DEF Config
  <1> QED BY <1>2, <1>3 DEF Raised, Config

LEMMA RevertedBuffer ==
    ASSUME NEW cfg \in Config, cfg.layers # <<>>, Reverted(cfg)
    PROVE  BufferOK' /\ Contents(layers)' = cfg.layers
  <1>1. /\ SoundLayers(Seeded(cfg), Len(cfg.layers)) /\ Len(Seeded(cfg)) = Len(cfg.layers)
        /\ Distinct(Seeded(cfg)) /\ Contents(Seeded(cfg)) = cfg.layers
    BY SeededSound
  <1>2. Seeded(cfg) # <<>>
    <2>1. cfg.layers \in Seq(Vals) /\ Seeded(cfg) \in Seq(Layer)
      BY <1>1 DEF Config, SoundLayers
    <2>2. Len(cfg.layers) > 0
      BY <2>1
    <2> QED BY <2>1, <2>2, <1>1
  <1>3. /\ layers' = Seeded(cfg) /\ nextLayerId' = Len(cfg.layers) /\ edited' = NoEdits
        /\ pendingChanges' = FALSE /\ removed' = {} /\ astray' = FALSE
    BY DEF Reverted
  <1>4. SoundLayers(layers, nextLayerId)' /\ layers' # <<>> /\ Named'
    BY <1>1, <1>2, <1>3 DEF SoundLayers, Distinct, Below, Named
  <1>5. DOMAIN edited' \subseteq Knobs /\ edited' \in [DOMAIN edited' -> Vals]
    BY <1>3, StartTypes DEF NoEdits
  <1>6. Contents(layers)' = cfg.layers
    BY <1>1, <1>3 DEF Contents
  <1> QED BY <1>3, <1>4, <1>5, <1>6 DEF BufferOK

\* An edit keeps the buffer sound, and makes it longer by at most one layer.
LEMMA EditBuffer ==
    ASSUME BufferOK, MirrorOK, UserEdits
    PROVE  BufferOK' /\ (~ResetSettings => Len(layers') <= Len(layers) + 1)
  <1>a. /\ layers \in Seq(Layer) /\ layers # <<>> /\ nextLayerId \in Nat
        /\ DOMAIN edited \subseteq Knobs /\ edited \in [DOMAIN edited -> Vals]
        /\ Len(layers) \in Nat /\ Len(layers) > 0
    BY DEF BufferOK, SoundLayers
  <1>b. /\ SoundLayers(layers, nextLayerId) /\ Named
        /\ removed \subseteq Nat /\ (\A id \in removed : id < nextLayerId)
        /\ astray \in BOOLEAN
    BY DEF BufferOK
  <1>1. ASSUME NEW id \in IdsOf(layers), NEW v \in Vals, SetKey(id, v)
        PROVE  BufferOK' /\ Len(layers') <= Len(layers) + 1
    <2> DEFINE i == CHOOSE j \in DOMAIN layers :
                      layers[j].id = id /\ \A m \in 1..j - 1 : layers[m].id # id
    <2>1. /\ layers' = [layers EXCEPT ![i].val = v]
          /\ UNCHANGED <<nextLayerId, edited, removed, astray>> /\ pendingChanges' = TRUE
      BY <1>1 DEF SetKey, Edit, undoVars
    <2> HIDE DEF i
    <2>2. /\ DOMAIN layers' = DOMAIN layers /\ layers' \in Seq(Layer)
          /\ Len(layers') = Len(layers)
          /\ \A j \in DOMAIN layers : layers'[j].id = layers[j].id
      <3>1. ASSUME NEW j \in DOMAIN layers
            PROVE  layers'[j] \in Layer /\ layers'[j].id = layers[j].id
        <4>1. layers[j] \in Layer
          BY <1>a
        <4> QED BY <4>1, <2>1 DEF Layer
      <3>2. DOMAIN layers' = 1..Len(layers)
        BY <2>1, <1>a
      <3>3. layers' = [j \in 1..Len(layers) |-> layers'[j]]
        BY <2>1, <3>2
      <3>4. layers' \in Seq(Layer) /\ Len(layers') = Len(layers)
        BY <3>1, <3>2, <3>3, <1>a
      <3> QED BY <3>1, <3>2, <3>4, <1>a
    <2>3. SoundLayers(layers, nextLayerId)'
      BY <2>1, <2>2, <1>b DEF SoundLayers, Below
    <2>4. layers' # <<>>
      BY <2>2, <1>a
    <2>5. Named'
      <3>1. IdsOf(layers') = IdsOf(layers) /\ (Distinct(layers) => Distinct(layers'))
        BY <2>2 DEF IdsOf, Distinct
      <3> QED BY <3>1, <2>1, <1>b DEF Named, IdsOf, Distinct
    <2> QED BY <2>1, <2>2, <2>3, <2>4, <2>5, <1>a, <1>b DEF BufferOK
  <1>2. ASSUME AddLayer PROVE BufferOK' /\ Len(layers') <= Len(layers) + 1
    <2> DEFINE x == [id |-> nextLayerId, val |-> Filler]
    <2>1. /\ layers' = Append(layers, x) /\ nextLayerId' = nextLayerId + 1
          /\ UNCHANGED <<edited, removed, astray>> /\ pendingChanges' = TRUE
      BY <1>2 DEF AddLayer, Edit, undoVars
    <2>2. x \in Layer /\ x.id = nextLayerId
      BY <1>a, StartTypes DEF Layer
    <2> HIDE DEF x
    <2>3. layers' \in Seq(Layer) /\ Len(layers') = Len(layers) + 1 /\ layers' # <<>>
      BY <2>1, <2>2, <1>a
    <2>4. \A j \in DOMAIN layers' : (j \in DOMAIN layers /\ layers'[j] = layers[j])
                                     \/ (j = Len(layers) + 1 /\ layers'[j] = x)
      BY <2>1, <2>2, <1>a
    <2>5. \A j \in DOMAIN layers : layers[j].id < nextLayerId /\ layers[j].id \in Nat
      <3>1. \A j \in DOMAIN layers : layers[j] \in Layer
        BY <1>a
      <3> QED BY <3>1, <1>b DEF SoundLayers, Below, Layer
    <2>6. Below(layers', nextLayerId') /\ (Distinct(layers) => Distinct(layers'))
      BY <2>1, <2>2, <2>4, <2>5, <1>a DEF Distinct, Below
    <2>7. SoundLayers(layers, nextLayerId)'
      BY <2>1, <2>3, <2>6, <1>a DEF SoundLayers, Below
    <2>8. \A j \in DOMAIN layers' : layers'[j].id \in IdsOf(layers) \cup {nextLayerId}
      BY <2>2, <2>4 DEF IdsOf
    <2>9. IdsOf(layers') \subseteq IdsOf(layers) \cup {nextLayerId}
      BY <2>8 DEF IdsOf
    <2>10. nextLayerId \notin removed
      BY <1>a, <1>b
    <2>11. Named'
      BY <2>1, <2>6, <2>9, <2>10, <1>b DEF Named, Distinct, IdsOf
    <2>12. \A id \in removed' : id < nextLayerId'
      BY <2>1, <1>a, <1>b
    <2> QED BY <2>1, <2>3, <2>7, <2>11, <2>12, <1>a, <1>b DEF BufferOK
  <1>3. ASSUME NEW i \in DOMAIN layers, RemoveLayer(i)
        PROVE  BufferOK' /\ Len(layers') <= Len(layers) + 1
    <2>1. /\ layers' = Without(layers, i) /\ Len(layers) > 1
          /\ UNCHANGED <<nextLayerId, edited, astray>> /\ pendingChanges' = TRUE
          /\ removed' = removed \cup {layers[i].id}
      BY <1>3 DEF RemoveLayer, Edit
    <2>2. /\ SoundLayers(layers', nextLayerId) /\ Len(layers') = Len(layers) - 1
          /\ IdsOf(layers') \subseteq IdsOf(layers)
          /\ Distinct(layers) => Distinct(layers') /\ layers[i].id \notin IdsOf(layers')
      BY <2>1, <1>a, <1>b, WithoutSound, WithoutSeq
    <2>3. layers' # <<>>
      BY <2>1, <2>2, <1>a
    <2>4. SoundLayers(layers, nextLayerId)'
      BY <2>1, <2>2 DEF SoundLayers, Below
    <2>5. layers[i].id \in Nat /\ layers[i].id < nextLayerId
      <3>1. layers[i] \in Layer
        BY <1>a
      <3> QED BY <3>1, <1>b DEF Layer, SoundLayers, Below
    <2>6. removed' \subseteq Nat /\ (\A id \in removed' : id < nextLayerId')
      BY <2>1, <2>5, <1>b
    <2>7. Named'
      <3>1. ~astray => Distinct(layers') /\ IdsOf(layers') \cap removed' = {}
        BY <2>1, <2>2, <1>b DEF Named
      <3> QED BY <3>1, <2>1 DEF Named, Distinct, IdsOf
    <2> QED BY <2>1, <2>2, <2>3, <2>4, <2>6, <2>7, <1>a, <1>b DEF BufferOK
  <1>4. ASSUME NEW i \in DOMAIN layers, NEW j \in DOMAIN layers, MoveLayer(i, j)
        PROVE  BufferOK' /\ Len(layers') <= Len(layers) + 1
    <2> DEFINE w == Without(layers, i)
    <2>1. /\ layers' = Inserted(w, j, layers[i])
          /\ UNCHANGED <<nextLayerId, edited, removed, astray>> /\ pendingChanges' = TRUE
      BY <1>4 DEF MoveLayer, Edit, undoVars
    <2>2. /\ SoundLayers(w, nextLayerId) /\ Len(w) = Len(layers) - 1 /\ w \in Seq(Layer)
          /\ IdsOf(w) \subseteq IdsOf(layers)
          /\ Distinct(layers) => Distinct(w) /\ layers[i].id \notin IdsOf(w)
      BY <1>a, <1>b, WithoutSound, WithoutSeq
    <2>3. /\ layers[i] \in Layer /\ layers[i].id < nextLayerId /\ j \in 1..Len(w) + 1
          /\ layers[i].id \in IdsOf(layers)
      BY <2>2, <1>a, <1>b DEF SoundLayers, Below, IdsOf
    <2> HIDE DEF w
    <2>4. /\ SoundLayers(layers', nextLayerId) /\ Len(layers') = Len(w) + 1
          /\ IdsOf(layers') \subseteq IdsOf(w) \cup {layers[i].id}
          /\ Distinct(w) /\ layers[i].id \notin IdsOf(w) => Distinct(layers')
      <3>1. /\ SoundLayers(Inserted(w, j, layers[i]), nextLayerId)
            /\ IdsOf(Inserted(w, j, layers[i])) \subseteq IdsOf(w) \cup {layers[i].id}
            /\ Distinct(w) /\ layers[i].id \notin IdsOf(w)
                  => Distinct(Inserted(w, j, layers[i]))
        BY <2>2, <2>3, <1>a, InsertedSound
      <3>2. Len(Inserted(w, j, layers[i])) = Len(w) + 1
        BY <2>2, <2>3, InsertedSeq
      <3> QED BY <2>1, <3>1, <3>2
    <2>5. layers' # <<>>
      BY <2>2, <2>4, <1>a
    <2>6. SoundLayers(layers, nextLayerId)'
      BY <2>1, <2>4 DEF SoundLayers, Below
    <2>7. Named'
      <3>1. ~astray => Distinct(layers') /\ IdsOf(layers') \cap removed = {}
        BY <2>2, <2>3, <2>4, <1>b DEF Named
      <3> QED BY <3>1, <2>1 DEF Named, Distinct, IdsOf
    <2> QED BY <2>1, <2>2, <2>4, <2>5, <2>6, <2>7, <1>a, <1>b DEF BufferOK
  <1>5. ASSUME NEW id \in 0..MaxLayers, NEW i \in 1..Len(layers) + 1, RestoreLayer(id, i)
        PROVE  BufferOK' /\ Len(layers') <= Len(layers) + 1
    <2> DEFINE x == [id |-> id, val |-> Filler]
    <2>1. /\ layers' = Inserted(layers, i, x) /\ edited' = edited /\ pendingChanges' = TRUE
          /\ nextLayerId' = IF id + 1 > nextLayerId THEN id + 1 ELSE nextLayerId
          /\ removed' = removed \ {id}
          /\ astray' = (astray \/ (id < nextLayerId /\ id \notin removed))
      BY <1>5 DEF RestoreLayer, Edit, Undoes
    <2>2. /\ x \in Layer /\ x.id = id /\ id \in Nat /\ nextLayerId' \in Nat
          /\ nextLayerId <= nextLayerId' /\ id < nextLayerId'
      BY <2>1, <1>a, StartTypes, BoundsAssumption DEF Layer
    <2>3. ~(id < nextLayerId) => id \notin IdsOf(layers)
      BY <1>b DEF IdsOf, SoundLayers, Below
    <2> HIDE DEF x
    <2>4. /\ SoundLayers(layers', nextLayerId') /\ Len(layers') = Len(layers) + 1
          /\ IdsOf(layers') \subseteq IdsOf(layers) \cup {id}
          /\ Distinct(layers) /\ id \notin IdsOf(layers) => Distinct(layers')
      <3>1. /\ SoundLayers(Inserted(layers, i, x), nextLayerId')
            /\ IdsOf(Inserted(layers, i, x)) \subseteq IdsOf(layers) \cup {x.id}
            /\ Distinct(layers) /\ x.id \notin IdsOf(layers)
                  => Distinct(Inserted(layers, i, x))
        BY <2>2, <1>a, <1>b, InsertedSound
      <3>2. Len(Inserted(layers, i, x)) = Len(layers) + 1
        BY <2>2, <1>a, InsertedSeq
      <3> QED BY <2>1, <2>2, <3>1, <3>2
    <2>5. layers' # <<>>
      BY <2>4, <1>a DEF SoundLayers
    <2>6. SoundLayers(layers, nextLayerId)'
      BY <2>4 DEF SoundLayers, Below
    <2>7. removed' \subseteq Nat /\ (\A r \in removed' : r < nextLayerId')
      <3>1. ASSUME NEW r \in removed' PROVE r \in Nat /\ r < nextLayerId'
        <4>1. r \in Nat /\ r < nextLayerId
          BY <2>1, <1>b
        <4> QED BY <4>1, <2>2, <1>a
      <3> QED BY <3>1
    <2>8. astray' \in BOOLEAN
      BY <2>1
    <2>9. Named'
      <3>1. ~astray' => /\ Distinct(layers) /\ IdsOf(layers) \cap removed = {}
                        /\ id \notin IdsOf(layers)
        BY <2>1, <2>3, <1>b DEF Named
      <3>2. ~astray' => Distinct(layers') /\ IdsOf(layers') \cap removed' = {}
        BY <3>1, <2>1, <2>4
      <3> QED BY <3>2 DEF Named, Distinct, IdsOf
    <2> QED BY <2>1, <2>4, <2>5, <2>6, <2>7, <2>8, <2>9, <1>a DEF BufferOK
  <1>6. ASSUME NEW k \in Knobs, (\E v \in Vals : StageKnob(k, v)) \/ UnstageKnob(k)
        PROVE  BufferOK' /\ Len(layers') <= Len(layers) + 1
    <2>1. UNCHANGED <<layers, nextLayerId, removed, astray>> /\ pendingChanges' = TRUE
      BY <1>6 DEF StageKnob, UnstageKnob, Edit, undoVars
    <2>2. DOMAIN edited' \subseteq Knobs /\ edited' \in [DOMAIN edited' -> Vals]
      BY <1>6, <1>a DEF StageKnob, UnstageKnob
    <2>3. SoundLayers(layers, nextLayerId)'
      BY <2>1, <1>b DEF SoundLayers, Below
    <2>4. Named'
      BY <2>1, <1>b DEF Named, Distinct, IdsOf
    <2> QED BY <2>1, <2>2, <2>3, <2>4, <1>a, <1>b DEF BufferOK
  <1>7. ASSUME ResetSettings PROVE BufferOK'
    <2>1. Reverted(config) /\ config \in Config /\ config.layers # <<>>
      BY <1>7 DEF ResetSettings, MirrorOK
    <2> QED BY <2>1, RevertedBuffer
  <1> QED BY <1>1, <1>2, <1>3, <1>4, <1>5, <1>6, <1>7 DEF UserEdits

(* The line.                                                               *)

\* The three things that happen to the line: an operation joins it, the first one
\* goes to its end with its next command, the first one leaves it.
LEMMA Joins ==
    ASSUME NEW o \in Ops, OpsOK, cmd[o] = "idle",
           NEW first \in {"BEGIN", "ROLLBACK"}, o \in Discards => first = "ROLLBACK",
           cmd' = [cmd EXCEPT ![o] = first], line' = Append(line, o),
           UNCHANGED <<chunk, result, waiting>>,
           blob' \in [Ops -> Blob], \A p \in Ops : blob'[p].config.layers # <<>>
    PROVE  OpsOK'
  <1>1. OpTypes'
    BY DEF OpsOK, OpTypes, Commands
  <1>2. ~On(line, o)
    BY DEF OpsOK, Ordered, InFlight, Commands
  <1>3. /\ line' \in Seq(Ops) /\ NoRepeat(line') /\ line' # <<>>
        /\ \A x : On(line', x) <=> On(line, x) \/ x = o
    BY <1>2, AppendedToLine DEF OpsOK, Ordered
  <1>4. cmd'[o] = first /\ \A p \in Ops \ {o} : cmd'[p] = cmd[p]
    BY DEF OpsOK, OpTypes
  <1>5. \A p \in Ops : cmd'[p] \in Commands <=> On(line', p)
    BY <1>3, <1>4 DEF OpsOK, Ordered, InFlight, Commands
  <1>6. Ordered'
    BY <1>3, <1>5 DEF OpsOK, Ordered, InFlight, NoRepeat, On
  <1>7. ASSUME NEW p \in Ops PROVE Scripted(p)'
    <2>1. Scripted(p) /\ Scripted(o)
      BY DEF OpsOK
    <2> QED BY <2>1, <1>4 DEF Scripted
  <1> QED BY <1>1, <1>6, <1>7 DEF OpsOK

LEMMA HeadOfLine ==
    ASSUME OpsOK, line # <<>>
    PROVE  Head(line) \in Ops /\ InFlight(Head(line)) /\ cmd[Head(line)] \in Commands
  BY TailOfLine DEF OpsOK, Ordered, InFlight

LEMMA GoesOn ==
    ASSUME OpsOK, line # <<>>, NEW next, GoOn(Head(line), next), waiting' = FALSE,
           \/ cmd[Head(line)] = "BEGIN" /\ next = "CHUNK"
           \/ cmd[Head(line)] = "CHUNK" /\ chunk[Head(line)] < Chunks /\ next = "CHUNK"
           \/ cmd[Head(line)] = "CHUNK" /\ next = "VALIDATE"
           \/ cmd[Head(line)] = "VALIDATE" /\ next \in {"COMMIT", "ROLLBACK"}
    PROVE  OpsOK'
  <1> DEFINE o == Head(line)
  <1>1. o \in Ops /\ Scripted(o) /\ line \in Seq(Ops) /\ NoRepeat(line)
    BY HeadOfLine DEF OpsOK, Ordered
  <1>2. /\ Tail(line) \in Seq(Ops) /\ NoRepeat(Tail(line)) /\ On(line, o)
        /\ \A x : On(Tail(line), x) <=> On(line, x) /\ x # o
    BY <1>1, TailOfLine
  <1>3. /\ cmd' = [cmd EXCEPT ![o] = next]
        /\ chunk' = [chunk EXCEPT ![o] = IF next = "CHUNK" THEN @ + 1 ELSE @]
        /\ line' = Append(Tail(line), o) /\ UNCHANGED <<blob, result>>
    BY DEF GoOn
  <1> HIDE DEF o
  <1>4. /\ line' \in Seq(Ops) /\ NoRepeat(line') /\ line' # <<>>
        /\ \A x : On(line', x) <=> On(line, x)
    <2>1. ~On(Tail(line), o)
      BY <1>2
    <2>2. /\ line' \in Seq(Ops) /\ NoRepeat(line') /\ line' # <<>>
          /\ \A x : On(line', x) <=> On(Tail(line), x) \/ x = o
      BY <2>1, <1>1, <1>2, <1>3, AppendedToLine
    <2> QED BY <2>2, <1>2
  <1>5. next \in Commands /\ cmd[o] \in Commands
    BY DEF Commands, o
  <1>6. /\ cmd'[o] = next /\ \A p \in Ops \ {o} : cmd'[p] = cmd[p] /\ chunk'[p] = chunk[p]
        /\ chunk'[o] = IF next = "CHUNK" THEN chunk[o] + 1 ELSE chunk[o]
        /\ chunk[o] \in 0..Chunks
    BY <1>1, <1>3 DEF OpsOK, OpTypes
  <1>7. chunk'[o] \in 0..Chunks /\ (next = "CHUNK" => chunk'[o] >= 1)
    <2>1. next = "CHUNK" => chunk[o] < Chunks
      BY <1>1, BoundsAssumption DEF Scripted, o
    <2> QED BY <2>1, <1>6, BoundsAssumption
  <1>8. OpTypes'
    BY <1>1, <1>3, <1>5, <1>6, <1>7 DEF OpsOK, OpTypes
  <1>9. Ordered'
    <2>1. \A p \in Ops : cmd'[p] \in Commands <=> On(line', p)
      BY <1>1, <1>2, <1>4, <1>5, <1>6 DEF OpsOK, Ordered, InFlight
    <2> QED BY <2>1, <1>4 DEF Ordered, InFlight, NoRepeat, On
  <1>10. ASSUME NEW p \in Ops PROVE Scripted(p)'
    <2>1. CASE p = o
      <3>1. next \notin {"idle", "BEGIN", "done"} /\ cmd[o] \notin {"idle", "ROLLBACK", "done"}
        BY DEF o
      <3> QED BY <2>1, <3>1, <1>1, <1>3, <1>6, <1>7 DEF Scripted
    <2>2. CASE p # o
      BY <2>2, <1>3, <1>6 DEF OpsOK, Scripted
    <2> QED BY <2>1, <2>2
  <1> QED BY <1>3, <1>8, <1>9, <1>10 DEF OpsOK

LEMMA Leaves ==
    ASSUME OpsOK, line # <<>>, NEW how \in {"ok", "failed"}, Finish(Head(line), how),
           waiting' = FALSE
    PROVE  OpsOK'
  <1> DEFINE o == Head(line)
  <1>1. o \in Ops /\ line \in Seq(Ops) /\ NoRepeat(line)
    BY HeadOfLine DEF OpsOK, Ordered
  <1>2. /\ Tail(line) \in Seq(Ops) /\ NoRepeat(Tail(line))
        /\ \A x : On(Tail(line), x) <=> On(line, x) /\ x # o
    BY <1>1, TailOfLine
  <1>3. /\ cmd' = [cmd EXCEPT ![o] = "done"] /\ result' = [result EXCEPT ![o] = how]
        /\ line' = Tail(line) /\ UNCHANGED <<chunk, blob>>
    BY DEF Finish
  <1> HIDE DEF o
  <1>4. OpTypes'
    BY <1>1, <1>3 DEF OpsOK, OpTypes
  <1>5. /\ cmd'[o] = "done" /\ result'[o] = how
        /\ \A p \in Ops \ {o} : cmd'[p] = cmd[p] /\ result'[p] = result[p]
    BY <1>1, <1>3 DEF OpsOK, OpTypes
  <1>6. Ordered'
    <2>1. \A p \in Ops : cmd'[p] \in Commands <=> On(line', p)
      BY <1>1, <1>2, <1>3, <1>5 DEF OpsOK, Ordered, InFlight, Commands
    <2> QED BY <2>1, <1>2, <1>3 DEF Ordered, InFlight, NoRepeat, On
  <1>7. ASSUME NEW p \in Ops PROVE Scripted(p)'
    BY <1>3, <1>5 DEF OpsOK, Scripted
  <1> QED BY <1>3, <1>4, <1>6, <1>7 DEF OpsOK

(* The device.                                                             *)

\* A command of the first operation in line is one the device can carry out.
LEMMA Written ==
    ASSUME Base, Write
    PROVE  OpsOK' /\ DeviceOK'
  <1> DEFINE m == [op |-> Head(line), cmd |-> cmd[Head(line)], chunk |-> chunk[Head(line)]]
  <1>1. /\ line # <<>> /\ ~waiting /\ waiting' = TRUE /\ inbox' = Append(inbox, m)
        /\ UNCHANGED <<opVars, line, replies, deviceVars>>
    BY DEF Write
  <1>2. OpsOK /\ DeviceOK
    BY DEF Base
  <1>3. m \in SoundCommand
    <2>1. Head(line) \in Ops /\ cmd[Head(line)] \in Commands
      BY <1>1, <1>2, HeadOfLine
    <2>2. Scripted(Head(line)) /\ chunk[Head(line)] \in 0..Chunks
      BY <1>2, <2>1 DEF OpsOK, OpTypes
    <2>3. cmd[Head(line)] # "ROLLBACK" => Head(line) \in Commits
      BY <2>1, <2>2 DEF Scripted, Ops, Commands
    <2> QED BY <2>1, <2>2, <2>3 DEF SoundCommand, Command, Scripted
  <1> HIDE DEF m
  <1>4. inbox' \in Seq(SoundCommand)
    BY <1>1, <1>2, <1>3 DEF DeviceOK
  <1>5. DeviceOK'
    BY <1>1, <1>2, <1>4 DEF DeviceOK, deviceVars, Uniform
  <1>6. OpTypes' /\ \A p \in Ops : Scripted(p)' /\ blob'[p].config.layers # <<>>
    BY <1>1, <1>2 DEF OpsOK, OpTypes, opVars, Scripted
  <1>7. Ordered'
    BY <1>1, <1>2 DEF OpsOK, Ordered, opVars, InFlight, On, NoRepeat
  <1> QED BY <1>5, <1>6, <1>7 DEF OpsOK

\* One command, carried out.
LEMMA Executed ==
    ASSUME Base, NEW m \in SoundCommand, Execute(m)
    PROVE  /\ staging' \in Seq(Part) \cup {None} /\ validated' \in BOOLEAN
           /\ validated' => staging' # None /\ Uniform'
           /\ active' \in Blob /\ applied' \subseteq Commits
           /\ StatusFor(m) \in Statuses
  <1>1. /\ staging \in Seq(Part) \cup {None} /\ validated \in BOOLEAN
        /\ validated => staging # None /\ Uniform
        /\ active \in Blob /\ applied \subseteq Commits
    BY DEF Base, DeviceOK
  <1>2. /\ m.op \in Ops /\ m.cmd \in Commands /\ m.chunk \in 0..Chunks
        /\ m.cmd = "CHUNK" => m.chunk >= 1
        /\ m.cmd # "ROLLBACK" => m.op \in Commits
    BY DEF SoundCommand, Command
  <1>3. blob[m.op] \in Blob
    BY <1>2 DEF Base, OpsOK, OpTypes
  <1>4. CASE m.cmd = "BEGIN"
    <2>1. /\ staging' = <<>> /\ validated' = FALSE /\ active' = active
          /\ applied' = applied /\ StatusFor(m) = "OK"
      BY <1>4 DEF Execute, StatusFor
    <2>2. <<>> \in Seq(Part)
      OBVIOUS
    <2> QED BY <1>1, <2>1, <2>2 DEF Statuses
  <1>5. CASE m.cmd = "CHUNK"
    <2> DEFINE p == [config |-> blob[m.op].config, version |-> blob[m.op].version,
                     part |-> m.chunk]
    <2>1. /\ validated' = FALSE /\ active' = active /\ applied' = applied
          /\ StatusFor(m) \in {"OK", "ERR_STATE"}
      BY <1>5 DEF Execute, StatusFor
    <2>2. p \in Part
      BY <1>2, <1>3, <1>5, BoundsAssumption DEF Part, Blob
    <2> HIDE DEF p
    <2>3. staging' = IF staging # None THEN Append(staging, p) ELSE staging
      BY <1>5 DEF Execute, p
    <2>4. staging' \in Seq(Part) \cup {None}
      BY <1>1, <2>2, <2>3
    <2> QED BY <1>1, <2>1, <2>4 DEF Statuses
  <1>6. CASE m.cmd = "ROLLBACK"
    <2>1. /\ staging' = None /\ validated' = FALSE /\ active' = active
          /\ applied' = applied /\ StatusFor(m) = "OK"
      BY <1>6 DEF Execute, StatusFor
    <2> QED BY <1>1, <2>1 DEF Statuses
  <1>7. CASE m.cmd = "VALIDATE"
    <2>1. /\ staging' = staging /\ active' = active /\ applied' = applied
          /\ validated' = (StatusFor(m) = "OK")
          /\ StatusFor(m) = IF staging = None THEN "ERR_STATE"
                            ELSE IF Intact THEN "OK" ELSE "ERR_INTEGRITY"
      BY <1>7 DEF Execute, StatusFor
    <2>2. ASSUME staging # None, Intact PROVE Uniform
      <3>1. PICK o \in Commits : staging = Whole(o)
        BY <2>2 DEF Intact
      <3>2. staging \in Seq(Part)
        BY <1>1, <2>2
      <3>3. /\ DOMAIN staging = 1..Chunks
            /\ \A i \in 1..Chunks : staging[i] = [config |-> blob[o].config,
                                    version |-> blob[o].version, part |-> i]
        BY <3>1 DEF Whole
      <3>4. Len(staging) = Chunks
        BY <3>2, <3>3, BoundsAssumption
      <3> QED BY <3>2, <3>3, <3>4, BoundsAssumption DEF Uniform
    <2>3. validated' => staging' # None /\ Uniform'
      BY <2>1, <2>2 DEF Uniform
    <2> QED BY <1>1, <2>1, <2>3 DEF Statuses
  <1>8. CASE m.cmd = "COMMIT"
    <2>1. StatusFor(m) = IF staging = None \/ ~validated THEN "ERR_STATE"
                         ELSE IF Staged.version <= active.version
                           THEN "ERR_VERSION" ELSE "OK"
      BY <1>8 DEF StatusFor
    <2>2. CASE StatusFor(m) = "OK"
      <3>1. /\ staging' = None /\ active' = Staged /\ applied' = applied \cup {m.op}
            /\ validated' = FALSE
        BY <1>8, <2>2 DEF Execute
      <3>2. Uniform
        BY <1>1, <2>1, <2>2
      <3>3. staging[1] \in Part
        BY <3>2, BoundsAssumption DEF Uniform
      <3>4. Staged \in Blob
        BY <3>3 DEF Staged, Part, Blob
      <3> QED BY <1>1, <1>2, <1>8, <2>2, <3>1, <3>4 DEF Statuses
    <2>3. CASE StatusFor(m) # "OK"
      <3>1. /\ staging' = staging /\ active' = active /\ applied' = applied
            /\ validated' \in BOOLEAN /\ (validated' => validated)
        BY <1>1, <1>8, <2>3 DEF Execute
      <3>2. StatusFor(m) \in Statuses
        BY <2>1 DEF Statuses
      <3>3. Uniform => Uniform'
        BY <3>1 DEF Uniform
      <3> QED BY <1>1, <3>1, <3>2, <3>3
    <2> QED BY <2>2, <2>3
  <1> QED BY <1>2, <1>4, <1>5, <1>6, <1>7, <1>8 DEF Commands

\* A command leaves the inbox, carried out or lost.
LEMMA TakenFromInbox ==
    ASSUME Base, DeviceExecutes \/ DeviceLoses
    PROVE  OpsOK' /\ DeviceOK'
  <1>1. /\ inbox # <<>> /\ inbox' = Tail(inbox)
        /\ UNCHANGED <<opVars, line, waiting>>
    BY DEF DeviceExecutes, DeviceLoses
  <1>2. OpsOK /\ DeviceOK
    BY DEF Base
  <1>3. inbox' \in Seq(SoundCommand) /\ Head(inbox) \in SoundCommand
    <2>1. inbox \in Seq(SoundCommand)
      BY <1>2 DEF DeviceOK
    <2> QED BY <1>1, <2>1
  <1>4. DeviceOK'
    <2>1. CASE DeviceExecutes
      <3>1. /\ Execute(Head(inbox))
            /\ \/ replies' = Append(replies, StatusFor(Head(inbox)))
               \/ replies' = replies
        BY <2>1 DEF DeviceExecutes
      <3>2. /\ staging' \in Seq(Part) \cup {None} /\ validated' \in BOOLEAN
            /\ validated' => staging' # None /\ Uniform'
            /\ active' \in Blob /\ applied' \subseteq Commits
            /\ StatusFor(Head(inbox)) \in Statuses
        BY <1>3, <3>1, Executed
      <3>3. replies \in Seq(Statuses)
        BY <1>2 DEF DeviceOK
      <3>4. replies' \in Seq(Statuses)
        BY <3>1, <3>2, <3>3
      <3> QED BY <1>3, <3>2, <3>4 DEF DeviceOK
    <2>2. CASE DeviceLoses
      <3>1. UNCHANGED <<replies, deviceVars>>
        BY <2>2 DEF DeviceLoses
      <3> QED BY <1>2, <1>3, <3>1 DEF DeviceOK, deviceVars, Uniform
    <2> QED BY <2>1, <2>2
  <1>5. OpTypes' /\ \A p \in Ops : Scripted(p)' /\ blob'[p].config.layers # <<>>
    BY <1>1, <1>2 DEF OpsOK, OpTypes, opVars, Scripted
  <1>6. Ordered'
    BY <1>1, <1>2 DEF OpsOK, Ordered, opVars, InFlight, On, NoRepeat
  <1> QED BY <1>4, <1>5, <1>6 DEF OpsOK

\* An awaited command returns or times out.
LEMMA Resumed ==
    ASSUME Base, waiting, waiting' = FALSE, NEW st, Resume(Head(line), st)
    PROVE  OpsOK' /\ BufferOK' /\ MirrorOK'
  <1> DEFINE o == Head(line)
  <1>1. OpsOK /\ BufferOK /\ MirrorOK /\ line # <<>>
    BY DEF Base, OpsOK, Ordered
  <1>2. o \in Ops /\ blob[o] \in Blob /\ blob[o].config.layers # <<>> /\ Scripted(o)
    BY <1>1, HeadOfLine DEF OpsOK, OpTypes
  <1>3. ASSUME NEW next, GoOn(o, next),
               \/ cmd[o] = "BEGIN" /\ next = "CHUNK"
               \/ cmd[o] = "CHUNK" /\ chunk[o] < Chunks /\ next = "CHUNK"
               \/ cmd[o] = "CHUNK" /\ next = "VALIDATE"
               \/ cmd[o] = "VALIDATE" /\ next \in {"COMMIT", "ROLLBACK"}
        PROVE  OpsOK' /\ BufferOK' /\ MirrorOK'
    <2>1. OpsOK'
      BY <1>1, <1>3, GoesOn
    <2>2. UNCHANGED <<bufferVars, mirrorVars>>
      BY <1>3 DEF GoOn
    <2>3. BufferOK' /\ MirrorOK'
      BY <1>1, <2>2 DEF bufferVars, mirrorVars, BufferOK, MirrorOK, SoundLayers,
                        Distinct, Below, Named, IdsOf, undoVars
    <2> QED BY <2>1, <2>3
  <1>4. ASSUME Fail(o) PROVE OpsOK' /\ BufferOK' /\ MirrorOK'
    <2>1. OpsOK'
      BY <1>1, <1>4, Leaves DEF Fail
    <2>2. UNCHANGED <<bufferVars, mirrorVars>>
      BY <1>4 DEF Fail
    <2>3. BufferOK' /\ MirrorOK'
      BY <1>1, <2>2 DEF bufferVars, mirrorVars, BufferOK, MirrorOK, SoundLayers,
                        Distinct, Below, Named, IdsOf, undoVars
    <2> QED BY <2>1, <2>3
  <1>5. ASSUME Committed(o) PROVE OpsOK' /\ BufferOK' /\ MirrorOK'
    <2>1. OpsOK'
      BY <1>1, <1>5, Leaves DEF Committed
    <2>2. MirrorOK'
      BY <1>2, <1>5 DEF Committed, MirrorOK, Blob
    <2>3. /\ UNCHANGED <<layers, nextLayerId, removed, astray>>
          /\ edited' = NoEdits /\ pendingChanges' = FALSE
      BY <1>5 DEF Committed, undoVars
    <2>4. DOMAIN edited' \subseteq Knobs /\ edited' \in [DOMAIN edited' -> Vals]
      BY <2>3, StartTypes DEF NoEdits
    <2>5. BufferOK'
      BY <1>1, <2>3, <2>4
         DEF BufferOK, SoundLayers, Distinct, Below, Named, IdsOf
    <2> QED BY <2>1, <2>2, <2>5
  <1>6. ASSUME Discarded(o) PROVE OpsOK' /\ BufferOK' /\ MirrorOK'
    <2>1. OpsOK'
      BY <1>1, <1>6, Leaves DEF Discarded
    <2>2. BufferOK'
      BY <1>1, <1>6, RevertedBuffer DEF Discarded, MirrorOK
    <2>3. MirrorOK'
      BY <1>1, <1>6 DEF Discarded, MirrorOK, mirrorVars
    <2> QED BY <2>1, <2>2, <2>3
  <1>7. Resume(o, st)
    OBVIOUS
  <1> HIDE DEF o
  <1> QED BY <1>3, <1>4, <1>5, <1>6, <1>7 DEF Resume

LEMMA BaseStep == Base /\ [Next]_vars => Base'
  <1> SUFFICES ASSUME Base, [Next]_vars PROVE Base'  OBVIOUS
  <1>1. /\ BufferOK /\ MirrorOK /\ OpsOK /\ DeviceOK
        /\ edits \in 0..MaxEdits /\ disturbed \in BOOLEAN
    BY DEF Base
  <1>2. ASSUME UNCHANGED <<opVars, line, waiting>> PROVE OpsOK'
    <2>1. OpTypes' /\ \A p \in Ops : Scripted(p)' /\ blob'[p].config.layers # <<>>
      BY <1>1, <1>2 DEF OpsOK, OpTypes, opVars, Scripted
    <2>2. Ordered'
      BY <1>1, <1>2 DEF OpsOK, Ordered, opVars, InFlight, On, NoRepeat
    <2> QED BY <2>1, <2>2 DEF OpsOK
  <1>3. ASSUME UNCHANGED <<inbox, replies, deviceVars>> PROVE DeviceOK'
    BY <1>1, <1>3 DEF DeviceOK, deviceVars, Uniform
  <1>4. ASSUME UNCHANGED <<bufferVars, mirrorVars>> PROVE BufferOK' /\ MirrorOK'
    BY <1>1, <1>4 DEF bufferVars, mirrorVars, BufferOK, MirrorOK, SoundLayers,
                      Distinct, Below, Named, IdsOf, undoVars
  <1>5. CASE UserEdits
    <2>1. /\ edits' = edits + 1 /\ edits < MaxEdits
          /\ disturbed' = (disturbed \/ Committing)
          /\ UNCHANGED <<mirrorVars, opVars, channelVars, deviceVars>>
      BY <1>5 DEF UserEdits, SetKey, AddLayer, RemoveLayer, MoveLayer, RestoreLayer,
                  StageKnob, UnstageKnob, ResetSettings, Edit
    <2>2. BufferOK'
      BY <1>1, <1>5, EditBuffer
    <2>3. MirrorOK'
      BY <1>1, <2>1 DEF MirrorOK, mirrorVars
    <2>4. OpsOK' /\ DeviceOK'
      BY <2>1, <1>2, <1>3 DEF channelVars
    <2>5. edits' \in 0..MaxEdits
      BY <1>1, <2>1, BoundsAssumption
    <2>6. disturbed' \in BOOLEAN
      BY <2>1
    <2> QED BY <2>2, <2>3, <2>4, <2>5, <2>6 DEF Base
  <1>6. ASSUME NEW o \in Ops, StartCommit(o) PROVE Base'
    <2> DEFINE b == [config |-> Raised, version |-> configVersion + 1]
    <2>1. /\ o \in Commits /\ cmd[o] = "idle" /\ blob' = [blob EXCEPT ![o] = b]
          /\ cmd' = [cmd EXCEPT ![o] = "BEGIN"] /\ line' = Append(line, o)
          /\ UNCHANGED <<bufferVars, mirrorVars, chunk, result, waiting, inbox, replies,
                         deviceVars, edits>>
          /\ disturbed' = (disturbed \/ ~Quiet)
      BY <1>6 DEF StartCommit
    <2>2. b \in Blob /\ b.config.layers # <<>>
      BY <1>1, RaisedType DEF Blob, MirrorOK
    <2> HIDE DEF b
    <2>3. blob' \in [Ops -> Blob] /\ \A p \in Ops : blob'[p].config.layers # <<>>
      BY <1>1, <2>1, <2>2 DEF OpsOK, OpTypes
    <2>4. o \notin Discards
      BY <2>1, OpsAssumption
    <2>5. OpsOK'
      BY <1>1, <2>1, <2>3, <2>4, Joins
    <2>6. DeviceOK' /\ BufferOK' /\ MirrorOK'
      BY <2>1, <1>3, <1>4
    <2>7. disturbed' \in BOOLEAN
      BY <2>1
    <2> QED BY <1>1, <2>1, <2>5, <2>6, <2>7 DEF Base
  <1>7. ASSUME NEW o \in Ops, StartDiscard(o) PROVE Base'
    <2>1. /\ o \in Discards /\ cmd[o] = "idle"
          /\ cmd' = [cmd EXCEPT ![o] = "ROLLBACK"] /\ line' = Append(line, o)
          /\ UNCHANGED <<bufferVars, mirrorVars, chunk, blob, result, waiting, inbox,
                         replies, deviceVars, edits>>
          /\ disturbed' = (disturbed \/ Committing)
      BY <1>7 DEF StartDiscard
    <2>2. blob' \in [Ops -> Blob] /\ \A p \in Ops : blob'[p].config.layers # <<>>
      BY <1>1, <2>1 DEF OpsOK, OpTypes
    <2>3. OpsOK'
      BY <1>1, <2>1, <2>2, Joins
    <2>4. DeviceOK' /\ BufferOK' /\ MirrorOK'
      BY <2>1, <1>3, <1>4
    <2>5. disturbed' \in BOOLEAN
      BY <2>1
    <2> QED BY <1>1, <2>1, <2>3, <2>4, <2>5 DEF Base
  <1>8. CASE Write
    <2>1. OpsOK' /\ DeviceOK'
      BY <1>8, Written
    <2>2. UNCHANGED <<bufferVars, mirrorVars, edits, disturbed>>
      BY <1>8 DEF Write
    <2> QED BY <1>1, <1>4, <2>1, <2>2 DEF Base
  <1>9. CASE Receive \/ Timeout
    <2>1. /\ waiting /\ waiting' = FALSE /\ \E st : Resume(Head(line), st)
          /\ UNCHANGED <<inbox, deviceVars, edits, disturbed>>
          /\ replies' = replies \/ (replies # <<>> /\ replies' = Tail(replies))
      BY <1>9 DEF Receive, Timeout
    <2>2. OpsOK' /\ BufferOK' /\ MirrorOK'
      BY <2>1, Resumed
    <2>3. replies' \in Seq(Statuses)
      BY <1>1, <2>1 DEF DeviceOK
    <2>4. DeviceOK'
      BY <1>1, <2>1, <2>3 DEF DeviceOK, deviceVars, Uniform
    <2> QED BY <1>1, <2>1, <2>2, <2>4 DEF Base
  <1>10. CASE DeviceExecutes \/ DeviceLoses
    <2>1. OpsOK' /\ DeviceOK'
      BY <1>10, TakenFromInbox
    <2>2. UNCHANGED <<bufferVars, mirrorVars, edits, disturbed>>
      BY <1>10 DEF DeviceExecutes, DeviceLoses
    <2> QED BY <1>1, <1>4, <2>1, <2>2 DEF Base
  <1>11. CASE UNCHANGED vars
    <2>1. UNCHANGED <<bufferVars, mirrorVars, opVars, channelVars, deviceVars, edits,
                      disturbed>>
      BY <1>11 DEF vars
    <2> QED BY <1>1, <1>2, <1>3, <1>4, <2>1 DEF Base, channelVars
  <1> QED BY <1>5, <1>6, <1>7, <1>8, <1>9, <1>10, <1>11 DEF Next

THEOREM BaseTheorem == Spec => []Base
  BY InitBase, BaseStep, PTL DEF Spec

\* Every variable keeps its type, and the keymap at least one layer, whatever
\* commits, discards and edits interleave and whichever replies are lost or late.
THEOREM TypeTheorem == Spec => []TypeOK
  BY BaseTheorem, BaseTypes, PTL

\* A layer id names one layer, whatever the order of adding, moving, removing and
\* undoing a removal, until a removal is undone that a discard or a reset had
\* undone already, and again from the next discard or reset on.
THEOREM LayerIdsTheorem == Spec => []LayerIdsUnique
  BY BaseTheorem, BaseTypes, PTL

-----------------------------------------------------------------------------
(* The buffer against the configuration.                                   *)

\* A commit that shares its time with nothing pushes what the buffer shows.
Alone ==
    ~disturbed =>
        \A o \in Commits : InFlight(o) =>
            /\ blob[o].config.layers = Contents(layers)
            /\ \A p \in Ops : InFlight(p) => p = o

LEMMA CleanInit == Init => Alone /\ UnpendingIsClean
  <1> SUFFICES ASSUME Init PROVE Alone /\ UnpendingIsClean  OBVIOUS
  <1>1. cmd = [o \in Ops |-> "idle"]
    BY DEF Init
  <1>2. Alone
    BY <1>1 DEF Alone, InFlight, Commands, Ops
  <1>3. config = StartConfig /\ layers = Seeded(config) /\ edited = NoEdits
    BY DEF Init
  <1>4. Contents(layers) = config.layers
    BY <1>3, StartTypes, SeededSound
  <1> QED BY <1>2, <1>3, <1>4 DEF UnpendingIsClean

LEMMA CleanStep ==
    Base /\ Alone /\ UnpendingIsClean /\ [Next]_vars => Alone' /\ UnpendingIsClean'
  <1> SUFFICES ASSUME Base, Alone, UnpendingIsClean, [Next]_vars
               PROVE  Alone' /\ UnpendingIsClean'
    OBVIOUS
  <1>1. BufferOK /\ MirrorOK /\ OpsOK
    BY DEF Base
  <1>2. ASSUME UNCHANGED <<layers, edited, pendingChanges, config>>,
               disturbed => disturbed'
        PROVE  UnpendingIsClean'
    BY <1>2 DEF UnpendingIsClean, Contents
  <1>3. ASSUME UNCHANGED <<cmd, blob, layers>>, disturbed => disturbed'
        PROVE  Alone'
    BY <1>3 DEF Alone, InFlight, Contents
  <1>4. CASE UserEdits
    <2>1. /\ disturbed' = (disturbed \/ Committing) /\ UNCHANGED <<mirrorVars, opVars>>
          /\ pendingChanges' = TRUE \/ Reverted(config)
      BY <1>4 DEF UserEdits, SetKey, AddLayer, RemoveLayer, MoveLayer, RestoreLayer,
                  StageKnob, UnstageKnob, ResetSettings, Edit
    <2>2. Alone'
      BY <2>1 DEF Alone, Committing, InFlight, opVars
    <2>3. CASE pendingChanges' = TRUE
      BY <2>2, <2>3 DEF UnpendingIsClean
    <2>4. CASE Reverted(config)
      <3>1. Contents(layers)' = config.layers
        BY <1>1, <2>4, RevertedBuffer DEF MirrorOK
      <3>2. edited' = NoEdits /\ config' = config
        BY <2>1, <2>4 DEF Reverted, mirrorVars
      <3> QED BY <2>2, <3>1, <3>2 DEF UnpendingIsClean, NoEdits
    <2> QED BY <2>1, <2>3, <2>4
  <1>5. ASSUME NEW o \in Ops, StartCommit(o) PROVE Alone' /\ UnpendingIsClean'
    <2>1. /\ cmd' = [cmd EXCEPT ![o] = "BEGIN"] /\ disturbed' = (disturbed \/ ~Quiet)
          /\ blob' = [blob EXCEPT ![o] = [config |-> Raised, version |-> configVersion + 1]]
          /\ UNCHANGED <<bufferVars, mirrorVars>>
      BY <1>5 DEF StartCommit
    <2>2. UnpendingIsClean'
      BY <2>1, <1>2 DEF bufferVars, mirrorVars
    <2>3. ASSUME ~disturbed', NEW p \in Ops, InFlight(p)' PROVE p = o
      BY <2>1, <2>3, <1>1 DEF Quiet, InFlight, OpsOK, OpTypes
    <2>4. blob'[o].config.layers = Contents(layers)'
      BY <2>1, <1>1 DEF OpsOK, OpTypes, Raised, Contents, bufferVars
    <2>5. Alone'
      BY <2>3, <2>4 DEF Alone, Ops
    <2> QED BY <2>2, <2>5
  <1>6. ASSUME NEW o \in Ops, StartDiscard(o) PROVE Alone' /\ UnpendingIsClean'
    <2>1. /\ cmd' = [cmd EXCEPT ![o] = "ROLLBACK"] /\ o \in Discards
          /\ disturbed' = (disturbed \/ Committing)
          /\ UNCHANGED <<bufferVars, mirrorVars>>
      BY <1>6 DEF StartDiscard
    <2>2. UnpendingIsClean'
      BY <2>1, <1>2 DEF bufferVars, mirrorVars
    <2>3. ASSUME NEW p \in Commits, InFlight(p)' PROVE InFlight(p)
      BY <2>1, <2>3, <1>1, OpsAssumption DEF InFlight, OpsOK, OpTypes, Ops
    <2>4. Alone'
      BY <2>1, <2>3 DEF Alone, Committing
    <2> QED BY <2>2, <2>4
  <1>7. CASE Write \/ DeviceExecutes \/ DeviceLoses
    <2>1. UNCHANGED <<bufferVars, mirrorVars, opVars, disturbed>>
      BY <1>7 DEF Write, DeviceExecutes, DeviceLoses
    <2> QED BY <1>2, <1>3, <2>1 DEF bufferVars, mirrorVars, opVars
  <1>8. CASE Receive \/ Timeout
    <2> DEFINE o == Head(line)
    <2>1. waiting /\ disturbed' = disturbed /\ \E st : Resume(o, st)
      BY <1>8 DEF Receive, Timeout
    <2>2. o \in Ops /\ InFlight(o)
      BY <1>1, <2>1, HeadOfLine DEF OpsOK, Ordered
    <2>3. \/ \E next : GoOn(o, next)
          \/ Fail(o)
          \/ cmd[o] = "COMMIT" /\ Committed(o)
          \/ o \in Discards /\ Discarded(o)
      BY <2>1 DEF Resume
    <2> HIDE DEF o
    <2>4. ASSUME NEW next, cmd' = [cmd EXCEPT ![o] = next], UNCHANGED <<blob, layers>>
          PROVE  Alone'
      <3>1. ASSUME NEW p \in Ops, InFlight(p)' PROVE InFlight(p)
        BY <2>2, <2>4, <3>1, <1>1 DEF InFlight, OpsOK, OpTypes
      <3> QED BY <2>1, <2>4, <3>1 DEF Alone, Contents, Ops
    <2>5. CASE (\E next : GoOn(o, next)) \/ Fail(o)
      BY <2>1, <2>4, <2>5, <1>2 DEF GoOn, Fail, Finish, bufferVars, mirrorVars
    <2>6. CASE cmd[o] = "COMMIT" /\ Committed(o)
      <3>1. /\ cmd' = [cmd EXCEPT ![o] = "done"] /\ UNCHANGED <<blob, layers>>
            /\ config' = blob[o].config /\ edited' = NoEdits
        BY <2>6 DEF Committed, Finish
      <3>2. o \in Commits
        BY <1>1, <2>2, <2>6 DEF OpsOK, Scripted, Ops
      <3>3. ~disturbed => config'.layers = Contents(layers)'
        BY <2>2, <3>1, <3>2 DEF Alone, Contents
      <3>4. UnpendingIsClean'
        BY <2>1, <3>1, <3>3 DEF UnpendingIsClean, NoEdits
      <3> QED BY <2>4, <3>1, <3>4
    <2>7. CASE o \in Discards /\ Discarded(o)
      <3>1. /\ cmd' = [cmd EXCEPT ![o] = "done"] /\ blob' = blob
            /\ Reverted(config) /\ UNCHANGED mirrorVars
        BY <2>7 DEF Discarded, Finish
      <3>2. Contents(layers)' = config.layers
        BY <1>1, <3>1, RevertedBuffer DEF MirrorOK
      <3>3. edited' = NoEdits /\ config' = config
        BY <3>1 DEF Reverted, mirrorVars
      <3>4. UnpendingIsClean'
        BY <3>2, <3>3 DEF UnpendingIsClean, NoEdits
      <3>5. ASSUME ~disturbed', NEW p \in Commits, InFlight(p)' PROVE FALSE
        <4>1. p \in Ops /\ InFlight(p)
          BY <2>2, <3>1, <3>5, <1>1 DEF InFlight, OpsOK, OpTypes, Ops
        <4>2. p = o
          BY <2>1, <2>2, <3>5, <4>1 DEF Alone
        <4> QED BY <2>7, <3>5, <4>2, OpsAssumption
      <3>6. Alone'
        BY <3>5 DEF Alone
      <3> QED BY <3>4, <3>6
    <2> QED BY <2>3, <2>5, <2>6, <2>7
  <1>9. CASE UNCHANGED vars
    BY <1>2, <1>3, <1>9 DEF vars, bufferVars, mirrorVars, opVars
  <1> QED BY <1>4, <1>5, <1>6, <1>7, <1>8, <1>9 DEF Next

\* Without pending changes the buffer shows the committed configuration, as long
\* as no commit shared its time with an edit or with another operation.
THEOREM CleanTheorem == Spec => []UnpendingIsClean
  BY BaseTheorem, CleanInit, CleanStep, PTL DEF Spec

-----------------------------------------------------------------------------
(* The conversation with the device, when no reply outlives its timeout.   *)

Frame == [op |-> Head(line), cmd |-> cmd[Head(line)], chunk |-> chunk[Head(line)]]
LastPart(o) == [config |-> blob[o].config, version |-> blob[o].version, part |-> Chunks]
HasLast(o) == On(staging, LastPart(o))

\* What the device did when it answered the command of o with status st.
Answered(o, st) ==
    /\ cmd[o] = "CHUNK" /\ st = "OK" /\ chunk[o] = Chunks => HasLast(o)
    /\ cmd[o] = "VALIDATE" /\ st = "OK" => validated
    /\ cmd[o] = "COMMIT" /\ st = "OK" => o \in applied
    /\ cmd[o] = "ROLLBACK" => staging = None

\* At most one command or one answer is under way, that of the first in line.
Talk ==
    /\ ~waiting => inbox = <<>> /\ replies = <<>>
    /\ inbox # <<>> => inbox = <<Frame>> /\ replies = <<>>
    /\ replies # <<>> => /\ Tail(replies) = <<>> /\ inbox = <<>>
                         /\ Answered(Head(line), Head(replies))

\* A commit that has taken effect is over but for its answer.
Settling ==
    \A o \in applied :
        cmd[o] = "done" \/ (cmd[o] = "COMMIT" /\ waiting /\ inbox = <<>> /\ o = Head(line))

\* What a command does to the device, one kind of command at a time.
LEMMA Effects ==
    ASSUME NEW m, m.cmd \in Commands, Execute(m)
    PROVE  /\ m.cmd = "BEGIN" => staging' = <<>>
           /\ m.cmd = "CHUNK" =>
                 staging' = IF staging # None
                     THEN Append(staging, [config |-> blob[m.op].config,
                                           version |-> blob[m.op].version,
                                           part |-> m.chunk])
                     ELSE None
           /\ m.cmd = "CHUNK" /\ StatusFor(m) = "OK" => staging # None
           /\ m.cmd = "ROLLBACK" => staging' = None
           /\ m.cmd = "VALIDATE" =>
                 staging' = staging /\ (StatusFor(m) = "OK" => validated')
           /\ m.cmd = "COMMIT" /\ StatusFor(m) = "OK" =>
                 /\ staging # None /\ validated /\ ~(Staged.version <= active.version)
                 /\ staging' = None /\ active' = Staged
                 /\ applied' = applied \cup {m.op}
           /\ m.cmd = "COMMIT" /\ StatusFor(m) # "OK" => staging' = staging
           /\ ~(m.cmd = "COMMIT" /\ StatusFor(m) = "OK") =>
                 active' = active /\ applied' = applied
  <1>1. CASE m.cmd = "BEGIN"
    BY <1>1 DEF Execute
  <1>2. CASE m.cmd = "CHUNK"
    BY <1>2 DEF Execute, StatusFor
  <1>3. CASE m.cmd = "ROLLBACK"
    BY <1>3 DEF Execute
  <1>4. CASE m.cmd = "VALIDATE"
    BY <1>4 DEF Execute
  <1>5. CASE m.cmd = "COMMIT"
    <2>1. StatusFor(m) = "OK" =>
             staging # None /\ validated /\ ~(Staged.version <= active.version)
      BY <1>5 DEF StatusFor
    <2>2. CASE StatusFor(m) = "OK"
      BY <1>5, <2>1, <2>2 DEF Execute
    <2>3. CASE StatusFor(m) # "OK"
      BY <1>5, <2>3 DEF Execute
    <2> QED BY <2>2, <2>3
  <1> QED BY <1>1, <1>2, <1>3, <1>4, <1>5 DEF Commands

LEMMA TalkInit == Init => Talk /\ Settling
  <1> SUFFICES ASSUME Init PROVE Talk /\ Settling  OBVIOUS
  <1>1. inbox = <<>> /\ replies = <<>> /\ applied = {}
    BY DEF Init
  <1> QED BY <1>1 DEF Talk, Settling

\* The command that is answered or given up: an answer is its own.
LEMMA Answer ==
    ASSUME ~LateReplies, Base, Talk, Receive \/ Timeout
    PROVE  /\ waiting /\ waiting' = FALSE /\ inbox = <<>> /\ inbox' = <<>>
           /\ replies' = <<>> /\ UNCHANGED deviceVars
           /\ \E st : /\ Resume(Head(line), st)
                     /\ st = "OK" => /\ replies # <<>> /\ Head(replies) = "OK"
                                     /\ Answered(Head(line), "OK")
           /\ replies # <<>> => Answered(Head(line), Head(replies))
  <1>1. CASE Receive
    BY <1>1 DEF Receive, Talk
  <1>2. CASE Timeout
    BY <1>2 DEF Timeout
  <1> QED BY <1>1, <1>2

LEMMA TalkStep ==
    ASSUME ~LateReplies
    PROVE  Base /\ Talk /\ Settling /\ [Next]_vars => Talk' /\ Settling'
  <1> SUFFICES ASSUME Base, Talk, Settling, [Next]_vars PROVE Talk' /\ Settling'
    OBVIOUS
  <1>1. OpsOK /\ DeviceOK /\ Ordered /\ OpTypes
    BY DEF Base, OpsOK
  <1>2. ASSUME UNCHANGED <<opVars, channelVars, deviceVars>> PROVE Talk' /\ Settling'
    BY <1>2 DEF opVars, channelVars, deviceVars, Talk, Settling, Frame, Answered,
                HasLast, LastPart, On
  <1>3. ASSUME NEW o \in Ops, cmd[o] = "idle", NEW first, line' = Append(line, o),
               cmd' = [cmd EXCEPT ![o] = first],
               \A p \in Ops \ {o} : blob'[p] = blob[p],
               UNCHANGED <<chunk, waiting, inbox, replies, deviceVars>>
        PROVE  Talk' /\ Settling'
    <2>1. CASE ~waiting
      <3>1. inbox = <<>> /\ replies = <<>>
        BY <2>1 DEF Talk
      <3>2. \A p \in applied : p \in Ops /\ cmd[p] = "done"
        BY <2>1, <1>1 DEF Settling, DeviceOK, Ops
      <3>3. \A p \in applied : cmd'[p] = "done"
        BY <3>2, <1>1, <1>3 DEF OpTypes
      <3> QED BY <2>1, <3>1, <3>3, <1>3 DEF Talk, Settling, deviceVars
    <2>2. CASE waiting
      <3>1. PICK h \in Ops : h = Head(line) /\ InFlight(h)
        BY <1>1, <2>2, HeadOfLine DEF Ordered
      <3>2. h # o
        BY <3>1, <1>3 DEF InFlight, Commands
      <3>3. Head(line') = h
        BY <3>1, <1>1, <1>3, <2>2 DEF Ordered
      <3>4. cmd'[h] = cmd[h] /\ blob'[h] = blob[h] /\ chunk'[h] = chunk[h]
        BY <3>1, <3>2, <1>1, <1>3 DEF OpTypes
      <3>5. Frame' = Frame
        BY <3>1, <3>3, <3>4 DEF Frame
      <3>6. ASSUME NEW st, Answered(h, st) PROVE Answered(h, st)'
        BY <3>4, <3>6, <1>3 DEF Answered, HasLast, LastPart, On, deviceVars
      <3>7. Talk'
        <4>1. ASSUME replies # <<>> PROVE Answered(Head(line), Head(replies))'
          <5>1. Answered(h, Head(replies))
            BY <3>1, <4>1 DEF Talk
          <5>2. PICK st : st = Head(replies)
            OBVIOUS
          <5>3. Answered(h, st)'
            BY <5>1, <5>2, <3>6
          <5> QED BY <5>2, <5>3, <3>3, <1>3 DEF Answered, HasLast, LastPart
        <4> QED BY <2>2, <3>5, <4>1, <1>3 DEF Talk
      <3>8. Settling'
        <4>1. \A p \in applied : p \in Ops /\ cmd[p] # "idle"
          BY <1>1 DEF Settling, DeviceOK, Ops
        <4>2. \A p \in applied : cmd'[p] = cmd[p]
          BY <4>1, <1>1, <1>3 DEF OpTypes
        <4> QED BY <2>2, <3>1, <3>3, <4>2, <1>3 DEF Settling, deviceVars
      <3> QED BY <3>7, <3>8
    <2> QED BY <2>1, <2>2, <1>1 DEF Ordered
  <1>4. CASE UserEdits
    BY <1>2, <1>4 DEF UserEdits, SetKey, AddLayer, RemoveLayer, MoveLayer, RestoreLayer,
                      StageKnob, UnstageKnob, ResetSettings, Edit
  <1>5. ASSUME NEW o \in Ops, StartCommit(o) \/ StartDiscard(o)
        PROVE  Talk' /\ Settling'
    <2>1. /\ cmd[o] = "idle" /\ line' = Append(line, o)
          /\ \E first : cmd' = [cmd EXCEPT ![o] = first]
          /\ UNCHANGED <<chunk, waiting, inbox, replies, deviceVars>>
      BY <1>5 DEF StartCommit, StartDiscard
    <2>2. \A p \in Ops \ {o} : blob'[p] = blob[p]
      BY <1>1, <1>5 DEF StartCommit, StartDiscard, OpTypes
    <2> QED BY <2>1, <2>2, <1>3
  <1>6. CASE Write
    <2>1. /\ ~waiting /\ waiting' = TRUE /\ inbox' = Append(inbox, Frame)
          /\ UNCHANGED <<opVars, line, replies, deviceVars>>
      BY <1>6 DEF Write, Frame
    <2>2. inbox = <<>> /\ replies = <<>>
      BY <2>1 DEF Talk
    <2>3. inbox' = <<Frame>>
      BY <2>1, <2>2
    <2>4. Frame' = Frame
      BY <2>1 DEF Frame, opVars
    <2>5. Talk'
      BY <2>1, <2>2, <2>3, <2>4 DEF Talk
    <2>6. Settling'
      BY <2>1 DEF Settling, opVars, deviceVars
    <2> QED BY <2>5, <2>6
  <1>7. CASE Receive \/ Timeout
    <2>0. waiting
      BY <1>7, Answer
    <2>h. PICK h \in Ops : h = Head(line) /\ InFlight(h)
      BY <1>1, <2>0, HeadOfLine DEF Ordered
    <2>1. /\ waiting /\ waiting' = FALSE /\ inbox' = <<>> /\ replies' = <<>>
          /\ UNCHANGED deviceVars
      BY <1>7, Answer
    <2>r. \E st : Resume(Head(line), st)
      BY <1>7 DEF Receive, Timeout
    <2>2. Talk'
      BY <2>1 DEF Talk
    <2>4. /\ \E next : cmd' = [cmd EXCEPT ![h] = next]
          /\ cmd[h] = "COMMIT" => cmd' = [cmd EXCEPT ![h] = "done"]
      BY <2>r, <2>h DEF Resume, GoOn, Finish, Fail, Committed, Discarded
    <2>5. ASSUME NEW o \in applied PROVE cmd'[o] = "done"
      <3>1. o \in Ops
        BY <1>1 DEF DeviceOK, Ops
      <3>2. CASE o = h
        <4>1. cmd[h] = "COMMIT"
          BY <2>h, <3>2 DEF Settling, InFlight, Commands
        <4> QED BY <2>4, <3>1, <3>2, <4>1, <1>1 DEF OpTypes
      <3>3. CASE o # h
        <4>1. cmd[o] = "done"
          BY <2>h, <3>3 DEF Settling
        <4> QED BY <2>4, <3>1, <3>3, <4>1, <1>1 DEF OpTypes
      <3> QED BY <3>2, <3>3
    <2>6. Settling'
      BY <2>1, <2>5 DEF Settling, deviceVars
    <2> QED BY <2>2, <2>6
  <1>8. CASE DeviceExecutes
    <2>1. /\ inbox = <<Frame>> /\ replies = <<>> /\ waiting /\ inbox # <<>>
          /\ inbox' = Tail(inbox) /\ Execute(Head(inbox))
          /\ \/ replies' = Append(replies, StatusFor(Head(inbox)))
             \/ replies' = replies
          /\ UNCHANGED <<opVars, line, waiting>>
      BY <1>8 DEF DeviceExecutes, Talk
    <2>2. Head(inbox) = Frame /\ inbox' = <<>> /\ Execute(Frame)
      BY <2>1
    <2>s. PICK st : st = StatusFor(Frame)
      OBVIOUS
    <2>3. replies' = <<st>> \/ replies' = <<>>
      BY <2>1, <2>2, <2>s
    <2>4. PICK h \in Ops : h = Head(line) /\ cmd[h] \in Commands
      BY <1>1, <2>1, HeadOfLine DEF Ordered
    <2>5. Frame.cmd = cmd[h] /\ Frame.op = h /\ Frame.chunk = chunk[h]
      BY <2>4 DEF Frame
    <2>6. /\ cmd'[h] = cmd[h] /\ chunk'[h] = chunk[h] /\ blob'[h] = blob[h]
          /\ Head(line') = h
      BY <2>1, <2>4 DEF opVars
    <2>7. ASSUME cmd[h] = "CHUNK", st = "OK", chunk[h] = Chunks
          PROVE  HasLast(h)'
      <3>1. staging # None /\ staging' = Append(staging, LastPart(h))
        BY <2>2, <2>s, <2>4, <2>5, <2>7, Effects DEF LastPart
      <3>2. staging \in Seq(Part)
        BY <3>1, <1>1 DEF DeviceOK
      <3>3. Len(staging) + 1 \in DOMAIN staging' /\ staging'[Len(staging) + 1] = LastPart(h)
        BY <3>1, <3>2
      <3> QED BY <2>6, <3>3 DEF HasLast, LastPart, On
    <2>8. Answered(h, st)'
      <3>1. cmd[h] = "VALIDATE" /\ st = "OK" => validated'
        BY <2>2, <2>s, <2>4, <2>5, Effects
      <3>2. cmd[h] = "COMMIT" /\ st = "OK" => h \in applied'
        BY <2>2, <2>s, <2>4, <2>5, Effects
      <3>3. cmd[h] = "ROLLBACK" => staging' = None
        BY <2>2, <2>s, <2>4, <2>5, Effects
      <3> QED BY <2>6, <2>7, <3>1, <3>2, <3>3 DEF Answered
    <2>9. Talk'
      <3>1. CASE replies' = <<>>
        BY <2>1, <2>2, <3>1 DEF Talk
      <3>2. CASE replies' = <<st>>
        <4>1. Tail(replies') = <<>> /\ Head(replies') = st
          BY <3>2
        <4>2. Answered(Head(line), Head(replies))'
          BY <2>6, <2>8, <4>1 DEF Answered, HasLast, LastPart
        <4> QED BY <2>1, <2>2, <4>1, <4>2 DEF Talk
      <3> QED BY <2>3, <3>1, <3>2
    <2>10. \A o \in applied : cmd[o] = "done"
      BY <2>1 DEF Settling
    <2>11. applied' = applied \/ (cmd[h] = "COMMIT" /\ applied' = applied \cup {h})
      BY <2>2, <2>4, <2>5, Effects
    <2>12. Settling'
      BY <2>1, <2>2, <2>6, <2>10, <2>11 DEF Settling, opVars
    <2> QED BY <2>9, <2>12
  <1>9. CASE DeviceLoses
    <2>1. /\ inbox = <<Frame>> /\ replies = <<>> /\ inbox # <<>> /\ inbox' = Tail(inbox)
          /\ UNCHANGED <<opVars, line, waiting, replies, deviceVars>>
      BY <1>9 DEF DeviceLoses, Talk
    <2>2. inbox' = <<>>
      BY <2>1
    <2>3. Talk'
      BY <2>1, <2>2 DEF Talk
    <2>4. Settling'
      BY <2>1, <2>2 DEF Settling, opVars, deviceVars
    <2> QED BY <2>3, <2>4
  <1>10. CASE UNCHANGED vars
    BY <1>2, <1>10 DEF vars
  <1> QED BY <1>4, <1>5, <1>6, <1>7, <1>8, <1>9, <1>10 DEF Next

LEMMA TalkTheorem ==
    ASSUME ~LateReplies
    PROVE  Spec => []Talk /\ []Settling
  BY BaseTheorem, TalkInit, TalkStep, PTL DEF Spec

\* A discard whose ROLLBACK was answered leaves no staging behind on the device,
\* whatever it interleaved with, if no reply comes after its timeout.
THEOREM UnstageTheorem ==
    ASSUME ~LateReplies
    PROVE  Spec => DiscardUnstages
  <1> DEFINE A == \A d \in Discards :
                     result[d] = "none" /\ result'[d] = "ok" /\ Quiet' =>
                         staging' = None \/ (waiting /\ replies = <<>>)
  <1>1. Base /\ Talk /\ [Next]_vars => [A]_vars
    <2> SUFFICES ASSUME Base, Talk, Next, NEW d \in Discards,
                        result[d] = "none", result'[d] = "ok"
                 PROVE  staging' = None \/ (waiting /\ replies = <<>>)
      OBVIOUS
    <2>1. OpsOK /\ OpTypes /\ Ordered
      BY DEF Base, OpsOK
    <2>2. CASE Receive \/ Timeout
      <3>w. waiting /\ UNCHANGED deviceVars
        BY <2>2, Answer
      <3>2. PICK h \in Ops : h = Head(line)
        BY <2>1, <3>w, HeadOfLine DEF Ordered
      <3>1. /\ waiting /\ staging' = staging
            /\ replies # <<>> => Answered(Head(line), Head(replies))
        BY <2>2, Answer DEF deviceVars
      <3>r. \E st : Resume(Head(line), st)
        BY <2>2 DEF Receive, Timeout
      <3>3. result' = result \/ \E how : result' = [result EXCEPT ![h] = how]
        BY <3>r, <3>2 DEF Resume, GoOn, Finish, Fail, Committed, Discarded
      <3>4. d = h
        BY <2>1, <3>2, <3>3 DEF OpTypes, Ops
      <3>5. cmd[h] = "ROLLBACK"
        <4>1. cmd[h] \in {"idle", "ROLLBACK", "done"}
          BY <2>1, <3>2, <3>4 DEF OpsOK, Scripted
        <4>2. result' # result
          OBVIOUS
        <4> QED BY <3>r, <3>2, <4>1, <4>2 DEF Resume, GoOn
      <3> QED BY <3>1, <3>2, <3>5 DEF Answered
    <2>3. CASE ~(Receive \/ Timeout)
      <3>1. result' = result
        BY <2>3 DEF Next, UserEdits, SetKey, AddLayer, RemoveLayer, MoveLayer,
                    RestoreLayer, StageKnob, UnstageKnob, ResetSettings, Edit,
                    StartCommit, StartDiscard, Write, DeviceExecutes, DeviceLoses, opVars
      <3> QED BY <3>1
    <2> QED BY <2>2, <2>3
  <1> QED BY <1>1, BaseTheorem, TalkTheorem, PTL DEF Spec, DiscardUnstages

-----------------------------------------------------------------------------
(* A push takes effect as a whole.  Between the last chunk of a commit and  *)
(* its COMMIT other operations can send commands, each of them one at most  *)
(* before the commit is first in line.  A BEGIN among them empties the      *)
(* staging, and what the others add before the commit's next command is     *)
(* too short to pass for a whole blob, as long as there are not more than   *)
(* Chunks + 1 commits at a time.                                            *)

FewCommits == Cardinality({o \in Commits : InFlight(o)}) <= Chunks + 1

\* The commits that send a command before o does.
Ahead(o) == {x \in Commits : /\ Before(line, x, o)
                             /\ ~(x = Head(line) /\ waiting /\ inbox = <<>>)}

\* What is staged when o sends its VALIDATE or its COMMIT is its own blob, or
\* nothing that could be activated.
Reserved(o) ==
    cmd[o] \in {"VALIDATE", "COMMIT"} =>
        \/ staging = None
        \/ HasLast(o)
        \/ Len(staging) + 1 + Cardinality(Ahead(o)) <= Chunks

Activated ==
    replies # <<>> /\ cmd[Head(line)] = "COMMIT" /\ Head(replies) = "OK" =>
        active = blob[Head(line)]

LEMMA AheadIsFinite ==
    ASSUME OpsOK, NEW o \in Commits, InFlight(o)
    PROVE  /\ IsFiniteSet(Ahead(o)) /\ Cardinality(Ahead(o)) \in Nat
           /\ IsFiniteSet({p \in Commits : InFlight(p)})
           /\ Ahead(o) \subseteq {p \in Commits : InFlight(p)} \ {o}
  <1> DEFINE F == {p \in Commits : InFlight(p)}
  <1>1. line \in Seq(Ops) /\ NoRepeat(line) /\ o \in Ops /\ On(line, o)
    BY DEF OpsOK, Ordered, Ops
  <1>2. IsFiniteSet(F)
    <2>1. F \subseteq {x \in Ops : On(line, x)}
      BY DEF OpsOK, Ordered, Ops
    <2>2. IsFiniteSet({x \in Ops : On(line, x)})
      BY <1>1, LineIsFinite
    <2> QED BY <2>1, <2>2, FS_Subset
  <1>3. Ahead(o) \subseteq F \ {o}
    <2>1. ~Before(line, o, o) /\ \A x : Before(line, x, o) => On(line, x)
      BY <1>1, HeadIsBefore
    <2> QED BY <2>1 DEF Ahead, OpsOK, Ordered, Ops
  <1>4. IsFiniteSet(Ahead(o)) /\ Cardinality(Ahead(o)) \in Nat
    <2> HIDE DEF F
    <2>1. IsFiniteSet(F \ {o})
      BY <1>2, FS_RemoveElement
    <2>2. IsFiniteSet(Ahead(o))
      BY <1>3, <2>1, FS_Subset
    <2> QED BY <2>2, FS_CardinalityType
  <1> QED BY <1>2, <1>3, <1>4

\* All commits in flight but o and one other are Chunks - 1 at most.
LEMMA FewAhead ==
    ASSUME OpsOK, NEW o \in Commits, InFlight(o), FewCommits,
           NEW p \in Commits, p # o, InFlight(p)
    PROVE  Cardinality(Ahead(o) \ {p}) <= Chunks - 1
  <1> DEFINE F == {q \in Commits : InFlight(q)}
             G == F \ {o}
             H == G \ {p}
  <1>1. IsFiniteSet(F) /\ Ahead(o) \subseteq G
    BY AheadIsFinite
  <1>2. o \in F /\ p \in G
    OBVIOUS
  <1>3. Cardinality(F) <= Chunks + 1
    BY DEF FewCommits
  <1> HIDE DEF F
  <1>4. IsFiniteSet(G) /\ Cardinality(G) = Cardinality(F) - 1 /\ Cardinality(F) \in Nat
    BY <1>1, <1>2, FS_RemoveElement, FS_CardinalityType
  <1> HIDE DEF G
  <1>5. IsFiniteSet(H) /\ Cardinality(H) = Cardinality(G) - 1
    BY <1>2, <1>4, FS_RemoveElement
  <1>6. Ahead(o) \ {p} \subseteq H
    BY <1>1
  <1> HIDE DEF H
  <1>7. Cardinality(Ahead(o) \ {p}) <= Cardinality(H) /\ IsFiniteSet(Ahead(o) \ {p})
    BY <1>5, <1>6, FS_Subset
  <1>8. Cardinality(Ahead(o) \ {p}) \in Nat
    BY <1>7, FS_CardinalityType
  <1> QED BY <1>3, <1>4, <1>5, <1>7, <1>8, BoundsAssumption

LEMMA DeviceTakes ==
    ASSUME Base, Talk, DeviceExecutes
    PROVE  /\ waiting /\ inbox # <<>> /\ inbox' = <<>> /\ replies = <<>>
           /\ UNCHANGED <<opVars, line, waiting, mirrorVars>> /\ Execute(Frame)
           /\ replies' = <<StatusFor(Frame)>> \/ replies' = <<>>
           /\ Head(line) \in Ops /\ cmd[Head(line)] \in Commands
  <1>1. /\ inbox = <<Frame>> /\ replies = <<>> /\ waiting /\ inbox # <<>>
        /\ inbox' = Tail(inbox) /\ Execute(Head(inbox))
        /\ \/ replies' = Append(replies, StatusFor(Head(inbox)))
           \/ replies' = replies
        /\ UNCHANGED <<opVars, line, waiting, mirrorVars>>
    BY DEF DeviceExecutes, Talk
  <1>2. Head(inbox) = Frame /\ inbox' = <<>> /\ Execute(Frame)
    BY <1>1
  <1>3. replies' = <<StatusFor(Frame)>> \/ replies' = <<>>
    BY <1>1, <1>2
  <1>4. Head(line) \in Ops /\ cmd[Head(line)] \in Commands
    BY <1>1, HeadOfLine DEF Base, OpsOK, Ordered
  <1> QED BY <1>1, <1>2, <1>3, <1>4

\* The device activates the blob of the commit whose COMMIT it carries out.
LEMMA Activates ==
    ASSUME Base, Talk, \A o \in Commits : Reserved(o), DeviceExecutes,
           cmd[Head(line)] = "COMMIT", StatusFor(Frame) = "OK"
    PROVE  /\ Head(line) \in Commits /\ active' = blob[Head(line)]
           /\ applied' = applied \cup {Head(line)} /\ staging' = None
           /\ ~(active'.version <= active.version)
  <1>1. Execute(Frame) /\ Frame.cmd = "COMMIT" /\ Frame.op = Head(line)
    BY DeviceTakes DEF Frame
  <1>2. /\ staging # None /\ validated /\ ~(Staged.version <= active.version)
        /\ staging' = None /\ active' = Staged /\ applied' = applied \cup {Head(line)}
    <2>1. Frame.cmd \in Commands
      BY <1>1 DEF Commands
    <2>2. /\ staging # None /\ validated /\ ~(Staged.version <= active.version)
          /\ staging' = None /\ active' = Staged /\ applied' = applied \cup {Frame.op}
      BY <1>1, <2>1, Effects
    <2> QED BY <1>1, <2>2
  <1>3. PICK h \in Ops : h = Head(line)
    BY DeviceTakes
  <1>4. h \in Commits
    BY <1>3 DEF Base, OpsOK, Scripted, Ops
  <1>5. Uniform /\ Chunks \in Nat \ {0}
    BY <1>2, BoundsAssumption DEF Base, DeviceOK
  <1>6. HasLast(h)
    <2>1. IsFiniteSet(Ahead(h)) /\ Cardinality(Ahead(h)) \in Nat
      BY <1>3, <1>4, AheadIsFinite DEF Base, InFlight, Commands
    <2>2. Len(staging) = Chunks
      BY <1>5 DEF Uniform
    <2> QED BY <1>2, <1>3, <1>4, <1>5, <2>1, <2>2 DEF Reserved
  <1>7. PICK i \in 1..Chunks : staging[i] = LastPart(h)
    <2>1. DOMAIN staging = 1..Chunks
      BY <1>5 DEF Uniform
    <2> QED BY <1>6, <2>1 DEF HasLast, On
  <1>8. staging[1].config = blob[h].config /\ staging[1].version = blob[h].version
    BY <1>5, <1>7 DEF Uniform, LastPart
  <1>9. blob[h] \in Blob
    BY DEF Base, OpsOK, OpTypes
  <1>10. blob[h] = [config |-> blob[h].config, version |-> blob[h].version]
    BY <1>9 DEF Blob
  <1> QED BY <1>2, <1>3, <1>4, <1>8, <1>10 DEF Staged

LEMMA ReservedUnder ==
    ASSUME Base, NEW o \in Commits, Reserved(o), cmd'[o] = cmd[o], InFlight(o),
           UNCHANGED staging, blob'[o] = blob[o], Ahead(o)' \subseteq Ahead(o)
    PROVE  Reserved(o)'
  <1>1. IsFiniteSet(Ahead(o)) /\ Cardinality(Ahead(o)) \in Nat
    BY AheadIsFinite DEF Base
  <1>2. /\ IsFiniteSet(Ahead(o)') /\ Cardinality(Ahead(o)') <= Cardinality(Ahead(o))
    BY <1>1, FS_Subset
  <1>3. Cardinality(Ahead(o)') \in Nat
    BY <1>2, FS_CardinalityType
  <1>4. HasLast(o)' <=> HasLast(o)
    BY DEF HasLast, LastPart, On
  <1>5. CASE cmd[o] \in {"VALIDATE", "COMMIT"} /\ staging # None /\ ~HasLast(o)
    <2>1. Len(staging) + 1 + Cardinality(Ahead(o)) <= Chunks /\ Len(staging) \in Nat
      BY <1>5 DEF Reserved, Base, DeviceOK
    <2> QED BY <1>1, <1>2, <1>3, <2>1, BoundsAssumption DEF Reserved
  <1> QED BY <1>4, <1>5 DEF Reserved

LEMMA ReservedStep ==
    ASSUME ~LateReplies, Base, Talk, FewCommits, \A o \in Commits : Reserved(o),
           [Next]_vars, NEW o \in Commits
    PROVE  Reserved(o)'
  <1>1. OpsOK /\ DeviceOK /\ Ordered /\ OpTypes /\ o \in Ops /\ Reserved(o)
    BY DEF Base, OpsOK, Ops
  <1>2. ASSUME UNCHANGED <<opVars, channelVars, deviceVars>> PROVE Reserved(o)'
    BY <1>1, <1>2 DEF opVars, channelVars, deviceVars, Reserved, HasLast, LastPart, On,
                      Ahead, Before
  <1>3. CASE UserEdits
    BY <1>2, <1>3 DEF UserEdits, SetKey, AddLayer, RemoveLayer, MoveLayer, RestoreLayer,
                      StageKnob, UnstageKnob, ResetSettings, Edit
  <1>4. ASSUME NEW p \in Ops, StartCommit(p) \/ StartDiscard(p) PROVE Reserved(o)'
    <2>1. /\ cmd[p] = "idle" /\ line' = Append(line, p)
          /\ \E first \in {"BEGIN", "ROLLBACK"} : cmd' = [cmd EXCEPT ![p] = first]
          /\ UNCHANGED <<chunk, waiting, inbox, replies, deviceVars>>
      BY <1>4 DEF StartCommit, StartDiscard
    <2>2. \A q \in Ops \ {p} : blob'[q] = blob[q] /\ cmd'[q] = cmd[q]
      BY <1>1, <1>4, <2>1 DEF StartCommit, StartDiscard, OpTypes
    <2>3. CASE cmd'[o] \notin {"VALIDATE", "COMMIT"}
      BY <2>3 DEF Reserved
    <2>4. CASE cmd'[o] \in {"VALIDATE", "COMMIT"}
      <3>1. o # p
        BY <1>1, <2>1, <2>4 DEF OpTypes
      <3>2. InFlight(o)
        BY <1>1, <2>2, <2>4, <3>1 DEF InFlight, Commands
      <3>3. waiting => Head(line') = Head(line)
        BY <1>1, <2>1 DEF Ordered
      <3>4. \A x : Before(line', x, o) <=> Before(line, x, o)
        BY <1>1, <2>1, <3>1, BeforeAppend DEF Ordered
      <3>5. Ahead(o)' \subseteq Ahead(o)
        <4> SUFFICES ASSUME NEW x \in Commits, Before(line', x, o),
                            ~(x = Head(line') /\ waiting' /\ inbox' = <<>>)
                     PROVE  x \in Ahead(o)
          BY DEF Ahead, Before
        <4> QED BY <2>1, <3>3, <3>4 DEF Ahead
      <3>6. staging' = staging
        BY <2>1 DEF deviceVars
      <3> QED BY <1>1, <2>2, <3>1, <3>2, <3>5, <3>6, ReservedUnder
    <2> QED BY <2>3, <2>4
  <1>5. CASE Write \/ DeviceLoses
    <2>1. /\ UNCHANGED <<opVars, line, deviceVars>>
          /\ ~(waiting /\ inbox = <<>>)
      BY <1>5 DEF Write, DeviceLoses
    <2>2. CASE ~InFlight(o)
      BY <2>1, <2>2 DEF Reserved, InFlight, Commands, opVars
    <2>3. CASE InFlight(o)
      <3>1. Ahead(o)' \subseteq Ahead(o)
        <4> SUFFICES ASSUME NEW x \in Commits, Before(line', x, o)
                     PROVE  x \in Ahead(o)
          BY DEF Ahead, Before
        <4> QED BY <2>1 DEF Ahead
      <3> QED BY <1>1, <2>1, <2>3, <3>1, ReservedUnder DEF opVars, deviceVars
    <2> QED BY <2>2, <2>3
  <1>6. CASE Receive \/ Timeout
    <2>1. /\ waiting /\ waiting' = FALSE /\ inbox = <<>> /\ UNCHANGED deviceVars
          /\ replies # <<>> => Answered(Head(line), Head(replies))
      BY <1>6, Answer
    <2>2. PICK st : Resume(Head(line), st)
                    /\ (st = "OK" => replies # <<>> /\ Head(replies) = "OK")
      BY <1>6 DEF Receive, Timeout
    <2>3. PICK h \in Ops : h = Head(line) /\ InFlight(h)
      BY <1>1, <2>1, HeadOfLine DEF Ordered
    <2>4. /\ (\E next : cmd' = [cmd EXCEPT ![h] = next]) /\ blob' = blob
          /\ line' = Tail(line) \/ line' = Append(Tail(line), h)
      BY <2>2, <2>3 DEF Resume, GoOn, Finish, Fail, Committed, Discarded
    <2>5. staging' = staging
      BY <2>1 DEF deviceVars
    <2>6. CASE o # h
      <3>1. cmd'[o] = cmd[o]
        BY <1>1, <2>4, <2>6 DEF OpTypes
      <3>2. CASE ~InFlight(o)
        BY <3>1, <3>2 DEF Reserved, InFlight, Commands
      <3>3. CASE InFlight(o)
        <4>1. line \in Seq(Ops) /\ line # <<>> /\ NoRepeat(line)
          BY <1>1, <2>1 DEF Ordered
        <4>2. Tail(line) \in Seq(Ops)
          BY <4>1
        <4>3. \A x : Before(line', x, o) <=> Before(Tail(line), x, o)
          <5>1. CASE line' = Tail(line)
            BY <5>1
          <5>2. CASE line' = Append(Tail(line), h)
            BY <2>6, <4>2, <5>2, BeforeAppend
          <5> QED BY <2>4, <5>1, <5>2
        <4>4. \A x : Before(Tail(line), x, o) <=> Before(line, x, o) /\ x # h
          BY <2>3, <4>1, BeforeTail
        <4>5. Ahead(o)' \subseteq Ahead(o)
          <5> SUFFICES ASSUME NEW x \in Commits, Before(line', x, o)
                       PROVE  x \in Ahead(o)
            BY DEF Ahead, Before
          <5> QED BY <2>3, <4>3, <4>4 DEF Ahead
        <4> QED BY <1>1, <2>4, <2>5, <3>1, <3>3, <4>5, ReservedUnder
      <3> QED BY <3>2, <3>3
    <2>7. CASE o = h
      <3>1. CASE cmd'[h] \notin {"VALIDATE", "COMMIT"}
        BY <2>7, <3>1 DEF Reserved
      <3>2. CASE cmd'[h] \in {"VALIDATE", "COMMIT"}
        <4>1. \/ cmd[h] = "CHUNK" /\ st = "OK" /\ ~(chunk[h] < Chunks)
              \/ cmd[h] = "VALIDATE" /\ st = "OK"
          BY <1>1, <2>2, <2>3, <3>2
             DEF Resume, GoOn, Finish, Fail, Committed, Discarded, OpTypes
        <4>2. Answered(h, "OK")
          BY <2>1, <2>2, <2>3, <4>1
        <4>3. CASE cmd[h] = "CHUNK"
          <5>1. chunk[h] = Chunks
            BY <1>1, <4>1, <4>3, BoundsAssumption DEF OpTypes
          <5>2. HasLast(h)
            BY <4>2, <4>3, <5>1 DEF Answered
          <5> QED BY <2>4, <2>5, <2>7, <5>2 DEF Reserved, HasLast, LastPart, On
        <4>4. CASE cmd[h] = "VALIDATE"
          <5>1. staging # None /\ Uniform
            BY <1>1, <4>2, <4>4 DEF Answered, DeviceOK
          <5>2. Cardinality(Ahead(o)) \in Nat
            BY <1>1, <2>3, <2>7, AheadIsFinite
          <5>3. HasLast(h)
            BY <1>1, <2>7, <4>4, <5>1, <5>2, BoundsAssumption DEF Reserved, Uniform
          <5> QED BY <2>4, <2>5, <2>7, <5>3 DEF Reserved, HasLast, LastPart, On
        <4> QED BY <4>1, <4>3, <4>4
      <3> QED BY <3>1, <3>2
    <2> QED BY <2>6, <2>7
  <1>7. CASE DeviceExecutes
    <2>1. /\ waiting /\ inbox # <<>> /\ inbox' = <<>>
          /\ UNCHANGED <<opVars, line, waiting>> /\ Execute(Frame)
      BY <1>7, DeviceTakes
    <2>2. PICK h \in Ops : h = Head(line) /\ cmd[h] \in Commands
      BY <1>7, DeviceTakes
    <2>3. Frame.cmd = cmd[h] /\ Frame.op = h /\ Frame.chunk = chunk[h]
      BY <2>2 DEF Frame
    <2>4. CASE cmd[o] \notin {"VALIDATE", "COMMIT"}
      BY <2>1, <2>4 DEF Reserved, opVars
    <2>5. CASE cmd[o] \in {"VALIDATE", "COMMIT"}
      <3>1. InFlight(o) /\ On(line, o) /\ line \in Seq(Ops) /\ NoRepeat(line)
        BY <1>1, <2>5 DEF InFlight, Commands, Ordered
      <3>2. IsFiniteSet(Ahead(o)) /\ Cardinality(Ahead(o)) \in Nat
        BY <1>1, <3>1, AheadIsFinite
      <3>3. Ahead(o)' = Ahead(o) \ {h}
        <4>1. Ahead(o)' = {x \in Commits : Before(line, x, o) /\ x # h}
          BY <2>1, <2>2 DEF Ahead, Before
        <4>2. Ahead(o) = {x \in Commits : Before(line, x, o)}
          BY <2>1 DEF Ahead
        <4> QED BY <4>1, <4>2
      <3>4. /\ IsFiniteSet(Ahead(o)') /\ Cardinality(Ahead(o)') \in Nat
            /\ Cardinality(Ahead(o)') = IF h \in Ahead(o) THEN Cardinality(Ahead(o)) - 1
                                                          ELSE Cardinality(Ahead(o))
        <4>1. /\ IsFiniteSet(Ahead(o) \ {h})
              /\ Cardinality(Ahead(o) \ {h}) = IF h \in Ahead(o)
                     THEN Cardinality(Ahead(o)) - 1 ELSE Cardinality(Ahead(o))
          BY <3>2, FS_RemoveElement
        <4>2. Cardinality(Ahead(o) \ {h}) \in Nat
          BY <4>1, FS_CardinalityType
        <4> QED BY <3>3, <4>1, <4>2
      <3>5. h # o /\ h \in Commits => h \in Ahead(o)
        <4>1. h # o => Before(line, h, o)
          BY <2>2, <3>1, HeadIsBefore
        <4> QED BY <2>1, <4>1 DEF Ahead
      <3>6. h # o /\ cmd[h] # "ROLLBACK" => h \in Commits
        BY <1>1, <2>2 DEF OpsOK, Scripted, Ops, Commands
      <3>7. cmd'[o] = cmd[o] /\ blob'[o] = blob[o]
        BY <2>1 DEF opVars
      <3>8. ASSUME staging' = None PROVE Reserved(o)'
        BY <3>8 DEF Reserved
      <3>9. ASSUME staging' = staging PROVE Reserved(o)'
        <4>1. Ahead(o)' \subseteq Ahead(o)
          BY <3>3
        <4> QED BY <1>1, <3>1, <3>7, <3>9, <4>1, ReservedUnder
      <3>10. CASE cmd[h] = "BEGIN"
        <4>1. staging' = <<>>
          BY <2>1, <2>2, <2>3, <3>10, Effects
        <4>2. h # o /\ h \in Commits /\ h \in Ahead(o) /\ InFlight(h)
          BY <2>2, <2>5, <3>5, <3>6, <3>10 DEF InFlight
        <4>4. Cardinality(Ahead(o)') <= Chunks - 1
          BY <1>1, <3>1, <3>3, <4>2, FewAhead
        <4>5. Len(staging') + 1 + Cardinality(Ahead(o)') <= Chunks
          BY <3>4, <4>1, <4>4, BoundsAssumption
        <4> QED BY <4>5 DEF Reserved
      <3>11. CASE cmd[h] = "CHUNK"
        <4> DEFINE p == [config |-> blob[h].config, version |-> blob[h].version,
                         part |-> chunk[h]]
        <4>1. staging' = IF staging # None THEN Append(staging, p) ELSE None
          BY <2>1, <2>2, <2>3, <3>11, Effects
        <4>2. h # o /\ h \in Ahead(o)
          BY <2>5, <3>5, <3>6, <3>11
        <4> HIDE DEF p
        <4>3. CASE staging = None
          BY <3>8, <4>1, <4>3
        <4>4. CASE staging # None
          <5>1. /\ staging \in Seq(Part) /\ Len(staging) \in Nat
                /\ staging' = Append(staging, p)
            BY <1>1, <4>1, <4>4 DEF DeviceOK
          <5>2. /\ Len(staging') = Len(staging) + 1
                /\ \A i \in DOMAIN staging : i \in DOMAIN staging' /\ staging'[i] = staging[i]
            BY <5>1
          <5>3. HasLast(o) => HasLast(o)'
            BY <3>7, <5>2 DEF HasLast, LastPart, On
          <5>4. CASE ~HasLast(o)
            <6>1. Len(staging) + 1 + Cardinality(Ahead(o)) <= Chunks
              BY <1>1, <2>5, <4>4, <5>4 DEF Reserved
            <6>2. Len(staging') + 1 + Cardinality(Ahead(o)') <= Chunks
              BY <3>2, <3>4, <4>2, <5>1, <5>2, <6>1, BoundsAssumption
            <6> QED BY <6>2 DEF Reserved
          <5> QED BY <5>3, <5>4 DEF Reserved
        <4> QED BY <4>3, <4>4
      <3>12. CASE cmd[h] = "ROLLBACK"
        BY <2>1, <2>2, <2>3, <3>8, <3>12, Effects
      <3>13. CASE cmd[h] = "VALIDATE"
        BY <2>1, <2>2, <2>3, <3>9, <3>13, Effects
      <3>14. CASE cmd[h] = "COMMIT"
        BY <2>1, <2>2, <2>3, <3>8, <3>9, <3>14, Effects
      <3> QED BY <2>2, <3>10, <3>11, <3>12, <3>13, <3>14 DEF Commands
    <2> QED BY <2>4, <2>5
  <1>8. CASE UNCHANGED vars
    BY <1>2, <1>8 DEF vars
  <1> QED BY <1>3, <1>4, <1>5, <1>6, <1>7, <1>8 DEF Next

LEMMA PushingInit == Init => (\A o \in Commits : Reserved(o)) /\ Activated /\ Truth
  <1> SUFFICES ASSUME Init
               PROVE  (\A o \in Commits : Reserved(o)) /\ Activated /\ Truth
    OBVIOUS
  <1>1. cmd = [o \in Ops |-> "idle"] /\ replies = <<>>
    BY DEF Init
  <1>2. config = active.config /\ configVersion = 1 /\ active.version = 1
    BY DEF Init, StartBlob
  <1> QED BY <1>1, <1>2 DEF Reserved, Activated, Truth, Ops

\* The service and the device after one step: either the device has activated a
\* newer blob, or the service has taken over what the device runs, or neither.
LEMMA TruthStep ==
    ASSUME ~LateReplies, Base, Talk, \A o \in Commits : Reserved(o), Activated, Truth,
           [Next]_vars
    PROVE  Activated' /\ Truth'
  <1>1. OpsOK /\ DeviceOK /\ Ordered /\ OpTypes /\ configVersion \in Nat
    BY DEF Base, OpsOK, MirrorOK
  <1>2. ASSUME UNCHANGED <<mirrorVars, active>> PROVE Truth'
    BY <1>2 DEF Truth, mirrorVars
  <1>3. ASSUME replies' = <<>> PROVE Activated'
    BY <1>3 DEF Activated
  <1>4. CASE UserEdits \/ UNCHANGED vars
    <2>1. UNCHANGED <<mirrorVars, opVars, channelVars, deviceVars>>
      BY <1>4 DEF UserEdits, SetKey, AddLayer, RemoveLayer, MoveLayer, RestoreLayer,
                  StageKnob, UnstageKnob, ResetSettings, Edit, vars
    <2> QED BY <1>2, <2>1 DEF Activated, opVars, channelVars, deviceVars
  <1>5. ASSUME NEW o \in Ops, StartCommit(o) \/ StartDiscard(o) PROVE Activated' /\ Truth'
    <2>1. /\ cmd[o] = "idle" /\ line' = Append(line, o)
          /\ UNCHANGED <<waiting, replies, deviceVars, mirrorVars>>
      BY <1>5 DEF StartCommit, StartDiscard
    <2>2. \A p \in Ops \ {o} : blob'[p] = blob[p] /\ cmd'[p] = cmd[p]
      BY <1>1, <1>5 DEF StartCommit, StartDiscard, OpTypes
    <2>3. CASE replies = <<>>
      BY <1>2, <1>3, <2>1, <2>3 DEF deviceVars
    <2>4. CASE replies # <<>>
      <3>1. line # <<>> /\ waiting
        BY <1>1, <2>4 DEF Talk, Ordered
      <3>2. PICK h \in Ops : h = Head(line) /\ InFlight(h)
        BY <1>1, <3>1, HeadOfLine
      <3>3. h # o /\ Head(line') = h
        BY <1>1, <2>1, <3>1, <3>2 DEF InFlight, Commands, Ordered
      <3>4. Activated'
        BY <2>1, <2>2, <3>2, <3>3 DEF Activated, deviceVars
      <3> QED BY <1>2, <2>1, <3>4 DEF deviceVars
    <2> QED BY <2>3, <2>4
  <1>6. CASE Write \/ DeviceLoses
    <2>1. /\ UNCHANGED <<opVars, line, replies, deviceVars, mirrorVars>>
      BY <1>6 DEF Write, DeviceLoses
    <2> QED BY <1>2, <2>1 DEF Activated, opVars, deviceVars
  <1>7. CASE Receive \/ Timeout
    <2>1. waiting /\ UNCHANGED deviceVars /\ replies' = <<>>
      BY <1>7, Answer
    <2>2. PICK st : Resume(Head(line), st)
                    /\ (st = "OK" => replies # <<>> /\ Head(replies) = "OK")
      BY <1>7 DEF Receive, Timeout
    <2>3. PICK h \in Ops : h = Head(line)
      BY <1>1, <2>1, HeadOfLine DEF Ordered
    <2>4. \/ UNCHANGED mirrorVars
          \/ /\ cmd[h] = "COMMIT" /\ st = "OK"
             /\ config' = blob[h].config /\ configVersion' = blob[h].version
      BY <2>2, <2>3 DEF Resume, GoOn, Fail, Committed, Discarded
    <2>5. CASE cmd[h] = "COMMIT" /\ st = "OK" /\ config' = blob[h].config
               /\ configVersion' = blob[h].version
      <3>1. active = blob[h] /\ active' = active
        BY <2>1, <2>2, <2>3, <2>5 DEF Activated, deviceVars
      <3>2. config' = active'.config /\ configVersion' = active'.version
        BY <2>5, <3>1
      <3>3. active'.version \in Nat
        BY <1>1, <3>1 DEF DeviceOK, Blob
      <3> QED BY <1>3, <2>1, <3>2, <3>3 DEF Truth
    <2> QED BY <1>2, <1>3, <2>1, <2>4, <2>5 DEF deviceVars
  <1>8. CASE DeviceExecutes
    <2>1. /\ UNCHANGED <<opVars, line, mirrorVars>> /\ Execute(Frame)
          /\ replies' = <<StatusFor(Frame)>> \/ replies' = <<>>
      BY <1>8, DeviceTakes
    <2>2. PICK h \in Ops : h = Head(line) /\ cmd[h] \in Commands
      BY <1>8, DeviceTakes
    <2>3. Frame.cmd = cmd[h]
      BY <2>2 DEF Frame
    <2>4. PICK st : st = StatusFor(Frame)
      OBVIOUS
    <2>5. CASE cmd[h] = "COMMIT" /\ st = "OK"
      <3>1. active' = blob[h] /\ ~(active'.version <= active.version)
        BY <1>8, <2>2, <2>4, <2>5, Activates
      <3>2. Activated'
        BY <2>1, <2>2, <3>1 DEF Activated, opVars
      <3>3. active'.version \in Nat /\ active.version \in Nat
        <4>1. blob[h] \in Blob /\ active \in Blob
          BY <1>1 DEF OpTypes, DeviceOK
        <4> QED BY <3>1, <4>1 DEF Blob
      <3>4. configVersion' = configVersion /\ configVersion <= active.version
        BY <2>1 DEF mirrorVars, Truth
      <3>5. Truth'
        BY <1>1, <3>1, <3>3, <3>4 DEF Truth
      <3> QED BY <3>2, <3>5
    <2>6. CASE ~(cmd[h] = "COMMIT" /\ st = "OK")
      <3>1. active' = active
        BY <2>1, <2>2, <2>3, <2>4, <2>6, Effects
      <3>2. ~(replies' # <<>> /\ cmd'[Head(line')] = "COMMIT" /\ Head(replies') = "OK")
        BY <2>1, <2>2, <2>4, <2>6 DEF opVars
      <3>3. Activated'
        BY <3>2 DEF Activated
      <3> QED BY <1>2, <2>1, <3>1, <3>3
    <2> QED BY <2>5, <2>6
  <1> QED BY <1>4, <1>5, <1>6, <1>7, <1>8 DEF Next

Pushing == (\A o \in Commits : Reserved(o)) /\ Activated /\ Truth

LEMMA PushingTheorem ==
    ASSUME ~LateReplies
    PROVE  Spec /\ []FewCommits => []Pushing
  <1>1. Init => Pushing
    BY PushingInit DEF Pushing
  <1>2. Base /\ Talk /\ FewCommits /\ Pushing /\ [Next]_vars => Pushing'
    <2> SUFFICES ASSUME Base, Talk, FewCommits, Pushing, [Next]_vars PROVE Pushing'
      OBVIOUS
    <2>1. (\A o \in Commits : Reserved(o)) /\ Activated /\ Truth
      BY DEF Pushing
    <2>2. \A o \in Commits : Reserved(o)'
      BY <2>1, ReservedStep
    <2>3. Activated' /\ Truth'
      BY <2>1, TruthStep
    <2> QED BY <2>2, <2>3 DEF Pushing
  <1> QED BY <1>1, <1>2, BaseTheorem, TalkTheorem, PTL DEF Spec

\* The service never believes itself ahead of the device, and when the two agree on
\* the version they agree on the configuration, as long as no reply comes after its
\* timeout and no more than Chunks + 1 commits are in flight at once.
THEOREM TruthTheorem ==
    ASSUME ~LateReplies
    PROVE  Spec /\ []FewCommits => []Truth
  <1>1. Pushing => Truth
    BY DEF Pushing
  <1> QED BY <1>1, PushingTheorem, PTL

(* When at most Chunks + 1 commits are in flight at once.                  *)

LEMMA FewWhenFew ==
    ASSUME IsFiniteSet(Commits), Cardinality(Commits) <= Chunks + 1
    PROVE  FewCommits
  <1> DEFINE F == {o \in Commits : InFlight(o)}
  <1>1. F \subseteq Commits
    OBVIOUS
  <1> HIDE DEF F
  <1>2. IsFiniteSet(F) /\ Cardinality(F) <= Cardinality(Commits)
    BY <1>1, FS_Subset
  <1>3. Cardinality(F) \in Nat /\ Cardinality(Commits) \in Nat
    BY <1>2, FS_CardinalityType
  <1>4. Cardinality(F) <= Chunks + 1
    BY <1>2, <1>3, BoundsAssumption
  <1> QED BY <1>4 DEF FewCommits, F

\* An editor that waits for each operation has one in flight.
Single == \A o, p \in Ops : InFlight(o) /\ InFlight(p) => o = p

LEMMA SingleIsFew == Single => FewCommits
  <1> SUFFICES ASSUME Single PROVE FewCommits  OBVIOUS
  <1> DEFINE F == {o \in Commits : InFlight(o)}
  <1>1. \A o, p \in F : o = p
    BY DEF Single, Ops
  <1> HIDE DEF F
  <1>2. Cardinality(F) <= Chunks + 1
    <2>1. CASE F = {}
      BY <2>1, FS_EmptySet, BoundsAssumption
    <2>2. CASE F # {}
      <3>1. PICK o \in F : TRUE
        BY <2>2
      <3>2. F = {o}
        BY <1>1, <3>1
      <3>3. Cardinality(F) = 1
        BY <3>2, FS_Singleton
      <3> QED BY <3>3, BoundsAssumption
    <2> QED BY <2>1, <2>2
  <1> QED BY <1>2 DEF FewCommits, F

LEMMA SingleTheorem ==
    ASSUME ~Overlap
    PROVE  Spec => []Single
  <1>1. Init => Single
    BY DEF Init, Single, InFlight, Commands
  <1>2. Base /\ Single /\ [Next]_vars => Single'
    <2> SUFFICES ASSUME Base, Single, [Next]_vars PROVE Single'  OBVIOUS
    <2>1. OpsOK /\ OpTypes /\ Ordered
      BY DEF Base, OpsOK
    <2>2. CASE UserEdits \/ Write \/ DeviceExecutes \/ DeviceLoses \/ UNCHANGED vars
      <3>1. cmd' = cmd
        BY <2>2 DEF UserEdits, SetKey, AddLayer, RemoveLayer, MoveLayer, RestoreLayer,
                    StageKnob, UnstageKnob, ResetSettings, Edit, Write, DeviceExecutes,
                    DeviceLoses, opVars, vars
      <3> QED BY <3>1 DEF Single, InFlight
    <2>3. ASSUME NEW o \in Ops, StartCommit(o) \/ StartDiscard(o) PROVE Single'
      <3>1. Quiet /\ \E first : cmd' = [cmd EXCEPT ![o] = first]
        BY <2>3 DEF StartCommit, StartDiscard
      <3> QED BY <2>1, <3>1 DEF Single, Quiet, InFlight, OpTypes
    <2>4. CASE Receive \/ Timeout
      <3>1. waiting /\ \E st : Resume(Head(line), st)
        BY <2>4 DEF Receive, Timeout
      <3>2. PICK h \in Ops : h = Head(line) /\ InFlight(h)
        BY <2>1, <3>1, HeadOfLine DEF Ordered
      <3>3. \E next : cmd' = [cmd EXCEPT ![h] = next]
        BY <3>1, <3>2 DEF Resume, GoOn, Finish, Fail, Committed, Discarded
      <3>4. \A o \in Ops : InFlight(o)' => InFlight(o)
        BY <2>1, <3>2, <3>3 DEF InFlight, OpTypes
      <3> QED BY <3>4 DEF Single
    <2> QED BY <2>2, <2>3, <2>4 DEF Next
  <1> QED BY <1>1, <1>2, BaseTheorem, PTL DEF Spec

\* The same without a word on the commits in flight: an editor that lets one
\* operation end before it starts another, however many commits it makes.
THEOREM TruthOneAtATime ==
    ASSUME ~LateReplies, ~Overlap
    PROVE  Spec => []Truth
  BY TruthTheorem, SingleTheorem, SingleIsFew, PTL

\* And operations that interleave as they like, when there are few commits.
THEOREM TruthOfFewCommits ==
    ASSUME ~LateReplies, IsFiniteSet(Commits), Cardinality(Commits) <= Chunks + 1
    PROVE  Spec => []Truth
  BY TruthTheorem, FewWhenFew, PTL
-----------------------------------------------------------------------------
(* A push is an atomic replacement of the active configuration: every step *)
(* of the service and of the device is a step of ConfigPush, or none.      *)

Fits(n) == n <= Len(StartLayers) + edits

\* An edit makes a configuration longer by one layer at most.
Sized ==
    /\ Fits(Len(layers)) /\ Fits(Len(config.layers))
    /\ \A o \in Ops : Fits(Len(blob[o].config.layers))

LEMMA LengthTypes ==
    Base => /\ Len(layers) \in Nat /\ Len(config.layers) \in Nat
            /\ Len(StartLayers) \in Nat /\ edits \in Nat /\ edits <= MaxEdits
            /\ \A o \in Ops : Len(blob[o].config.layers) \in Nat
  <1> SUFFICES ASSUME Base
               PROVE  /\ Len(layers) \in Nat /\ Len(config.layers) \in Nat
                      /\ Len(StartLayers) \in Nat /\ edits \in Nat /\ edits <= MaxEdits
                      /\ \A o \in Ops : Len(blob[o].config.layers) \in Nat
    OBVIOUS
  <1>1. layers \in Seq(Layer) /\ config.layers \in Seq(Vals) /\ StartLayers \in Seq(Vals)
    BY ContentAssumption DEF Base, BufferOK, SoundLayers, MirrorOK, Config
  <1>2. \A o \in Ops : blob[o].config.layers \in Seq(Vals)
    BY DEF Base, OpsOK, OpTypes, Blob, Config
  <1>3. edits \in Nat /\ edits <= MaxEdits
    BY BoundsAssumption DEF Base
  <1> QED BY <1>1, <1>2, <1>3

LEMMA SizedInit == Init => Sized
  <1> SUFFICES ASSUME Init PROVE Sized  OBVIOUS
  <1>1. /\ config = StartConfig /\ layers = Seeded(StartConfig) /\ edits = 0
        /\ \A o \in Ops : blob[o].config = StartConfig
    BY DEF Init, StartBlob
  <1>2. StartConfig.layers = StartLayers /\ Len(StartLayers) \in Nat
    BY ContentAssumption DEF StartConfig
  <1>3. Len(Seeded(StartConfig)) = Len(StartLayers)
    BY <1>2, StartTypes, SeededSound
  <1> QED BY <1>1, <1>2, <1>3 DEF Sized, Fits

LEMMA SizedStep == Base /\ Base' /\ Sized /\ [Next]_vars => Sized'
  <1> SUFFICES ASSUME Base, Base', Sized, [Next]_vars PROVE Sized'  OBVIOUS
  <1>1. OpsOK /\ OpTypes /\ Ordered /\ BufferOK /\ MirrorOK
    BY DEF Base, OpsOK
  <1>2. ASSUME UNCHANGED <<layers, config, blob, edits>> PROVE Sized'
    BY <1>2 DEF Sized, Fits
  <1>3. ASSUME NEW cfg \in Config, Reverted(cfg)
        PROVE  Len(layers') = Len(cfg.layers)
    BY <1>3, SeededSound DEF Reverted
  <1>4. CASE UserEdits
    <2>1. edits' = edits + 1 /\ UNCHANGED <<config, blob>>
      BY <1>4 DEF UserEdits, SetKey, AddLayer, RemoveLayer, MoveLayer, RestoreLayer,
                  StageKnob, UnstageKnob, ResetSettings, Edit, mirrorVars, opVars
    <2>2. Len(layers') <= Len(layers) + 1 \/ Len(layers') = Len(config.layers)
      <3>1. CASE ResetSettings
        BY <1>1, <1>3, <3>1 DEF ResetSettings, MirrorOK
      <3>2. CASE ~ResetSettings
        BY <1>1, <1>4, <3>2, EditBuffer
      <3> QED BY <3>1, <3>2
    <2>3. /\ Len(layers) \in Nat /\ Len(config.layers) \in Nat
          /\ Len(StartLayers) \in Nat /\ edits \in Nat
          /\ \A o \in Ops : Len(blob[o].config.layers) \in Nat
      BY LengthTypes
    <2>4. Len(layers') \in Nat
      BY DEF Base, BufferOK, SoundLayers
    <2> QED BY <2>1, <2>2, <2>3, <2>4 DEF Sized, Fits
  <1>5. ASSUME NEW o \in Ops, StartCommit(o) PROVE Sized'
    <2>1. /\ blob' = [blob EXCEPT ![o] = [config |-> Raised, version |-> configVersion + 1]]
          /\ UNCHANGED <<layers, config, edits>>
      BY <1>5 DEF StartCommit, bufferVars, mirrorVars
    <2>2. Len(Raised.layers) = Len(layers)
      BY <1>1, RaisedType
    <2>3. \A p \in Ops : blob'[p].config = IF p = o THEN Raised ELSE blob[p].config
      BY <1>1, <2>1 DEF OpTypes
    <2> QED BY <2>1, <2>2, <2>3 DEF Sized, Fits
  <1>6. ASSUME NEW o \in Ops, StartDiscard(o) PROVE Sized'
    BY <1>2, <1>6 DEF StartDiscard, bufferVars, mirrorVars
  <1>7. CASE Write \/ DeviceExecutes \/ DeviceLoses \/ UNCHANGED vars
    <2>1. UNCHANGED <<layers, config, blob, edits>>
      BY <1>7 DEF Write, DeviceExecutes, DeviceLoses, vars, bufferVars, mirrorVars, opVars
    <2> QED BY <1>2, <2>1
  <1>8. CASE Receive \/ Timeout
    <2>1. waiting /\ edits' = edits /\ \E st : Resume(Head(line), st)
      BY <1>8 DEF Receive, Timeout
    <2>2. PICK h \in Ops : h = Head(line)
      BY <1>1, <2>1, HeadOfLine DEF Ordered
    <2>3. /\ blob' = blob
          /\ \/ UNCHANGED <<layers, config>>
             \/ layers' = layers /\ config' = blob[h].config
             \/ config' = config /\ Reverted(config)
      BY <2>1, <2>2 DEF Resume, GoOn, Finish, Fail, Committed, Discarded, bufferVars,
                        mirrorVars
    <2>4. config' = config /\ Reverted(config) => Len(layers') = Len(config.layers)
      BY <1>1, <1>3 DEF MirrorOK
    <2> QED BY <2>1, <2>2, <2>3, <2>4 DEF Sized, Fits
  <1> QED BY <1>4, <1>5, <1>6, <1>7, <1>8 DEF Next

LEMMA InSizedConfigs ==
    ASSUME Base, NEW cfg \in Config, cfg.layers # <<>>, Fits(Len(cfg.layers))
    PROVE  cfg \in SizedConfigs
  <1>1. /\ cfg.layers \in Seq(Vals) /\ cfg.knobs \in [Knobs -> Vals]
        /\ cfg = [layers |-> cfg.layers, knobs |-> cfg.knobs]
    BY DEF Config
  <1> DEFINE n == Len(cfg.layers)
  <1>2. n \in Nat /\ n > 0 /\ cfg.layers \in [1..n -> Vals]
    BY <1>1
  <1>3. n \in 1..Len(StartLayers) + MaxEdits
    BY <1>2, LengthTypes, BoundsAssumption DEF Fits
  <1> QED BY <1>1, <1>2, <1>3 DEF SizedConfigs

LEMMA PushInit == Init /\ Base /\ Sized => Push!Init
  <1> SUFFICES ASSUME Init, Base, Sized PROVE Push!Init  OBVIOUS
  <1>1. StartConfig \in SizedConfigs
    <2>1. config = StartConfig /\ config \in Config /\ config.layers # <<>>
      BY DEF Init, Base, MirrorOK
    <2>2. config \in SizedConfigs
      BY <2>1, InSizedConfigs DEF Sized
    <2> QED BY <2>1, <2>2
  <1>2. active.config = StartConfig /\ \A o \in Commits : blob[o].config = StartConfig
    BY DEF Init, StartBlob, Ops
  <1>3. \A o \in Commits : StageOf(o) = "idle"
    BY DEF Init, StageOf, Ops
  <1> QED BY <1>1, <1>2, <1>3 DEF Push!Init

LEMMA PushStep ==
    ASSUME ~LateReplies, Base, Base', Talk, Settling, Sized, Pushing, [Next]_vars
    PROVE  [Push!Next]_(<<active.config, [o \in Commits |-> blob[o].config],
                          [o \in Commits |-> StageOf(o)]>>)
  <1> DEFINE wanted == [o \in Commits |-> blob[o].config]
             stage == [o \in Commits |-> StageOf(o)]
  <1> SUFFICES Push!Next \/ (UNCHANGED active /\ wanted' = wanted /\ stage' = stage)
    OBVIOUS
  <1>1. OpsOK /\ OpTypes /\ Ordered /\ DeviceOK /\ BufferOK /\ MirrorOK
    BY DEF Base, OpsOK
  <1>2. ASSUME UNCHANGED <<active, applied, opVars>>
        PROVE  UNCHANGED active /\ wanted' = wanted /\ stage' = stage
    BY <1>2 DEF opVars, StageOf
  <1>3. CASE UserEdits \/ Write \/ DeviceLoses \/ UNCHANGED vars
    <2>1. UNCHANGED <<active, applied, opVars>>
      BY <1>3 DEF UserEdits, SetKey, AddLayer, RemoveLayer, MoveLayer, RestoreLayer,
                  StageKnob, UnstageKnob, ResetSettings, Edit, Write, DeviceLoses,
                  vars, opVars, deviceVars
    <2> QED BY <1>2, <2>1
  <1>4. ASSUME NEW o \in Ops, StartCommit(o) PROVE Push!Next
    <2>1. /\ o \in Commits /\ cmd[o] = "idle" /\ cmd' = [cmd EXCEPT ![o] = "BEGIN"]
          /\ blob' = [blob EXCEPT ![o] = [config |-> Raised, version |-> configVersion + 1]]
          /\ UNCHANGED <<result, deviceVars>>
      BY <1>4 DEF StartCommit
    <2>2. o \notin applied
      BY <2>1 DEF Settling
    <2>3. StageOf(o) = "idle" /\ StageOf(o)' = "open"
      BY <1>1, <2>1, <2>2 DEF StageOf, OpTypes, deviceVars
    <2>4. \A p \in Commits \ {o} : StageOf(p)' = StageOf(p)
      BY <1>1, <2>1 DEF StageOf, OpTypes, Ops, deviceVars
    <2>5. stage[o] = "idle" /\ stage' = [stage EXCEPT ![o] = "open"]
      BY <2>1, <2>3, <2>4
    <2>6. wanted' = [wanted EXCEPT ![o] = Raised]
      BY <1>1, <2>1 DEF OpTypes, Ops
    <2>7. Raised \in SizedConfigs
      <3>1. Raised \in Config /\ Raised.layers # <<>> /\ Fits(Len(Raised.layers))
        BY <1>1, RaisedType DEF Sized
      <3> QED BY <3>1, InSizedConfigs
    <2>8. active' = active
      BY <2>1 DEF deviceVars
    <2> QED BY <2>1, <2>5, <2>6, <2>7, <2>8 DEF Push!Next, Push!Start
  <1>5. ASSUME NEW o \in Ops, StartDiscard(o)
        PROVE  UNCHANGED active /\ wanted' = wanted /\ stage' = stage
    <2>1. /\ o \in Discards /\ cmd' = [cmd EXCEPT ![o] = "ROLLBACK"]
          /\ UNCHANGED <<blob, result, deviceVars>>
      BY <1>5 DEF StartDiscard
    <2>2. \A p \in Commits : StageOf(p)' = StageOf(p)
      BY <1>1, <2>1, OpsAssumption DEF StageOf, OpTypes, Ops, deviceVars
    <2> QED BY <2>1, <2>2 DEF deviceVars
  <1>6. CASE Receive \/ Timeout
    <2>1. /\ waiting /\ inbox = <<>> /\ UNCHANGED deviceVars
          /\ replies # <<>> => Answered(Head(line), Head(replies))
      BY <1>6, Answer
    <2>2. PICK st : Resume(Head(line), st)
                    /\ (st = "OK" => replies # <<>> /\ Head(replies) = "OK")
      BY <1>6 DEF Receive, Timeout
    <2>3. PICK h \in Ops : h = Head(line) /\ InFlight(h)
      BY <1>1, <2>1, HeadOfLine DEF Ordered
    <2>4. \/ /\ \E next \in Commands : cmd' = [cmd EXCEPT ![h] = next]
             /\ cmd[h] # "COMMIT" /\ UNCHANGED <<blob, result>>
          \/ /\ cmd' = [cmd EXCEPT ![h] = "done"] /\ blob' = blob
             /\ \/ result' = [result EXCEPT ![h] = "failed"]
                \/ /\ result' = [result EXCEPT ![h] = "ok"]
                   /\ (cmd[h] = "COMMIT" /\ st = "OK") \/ h \in Discards
      BY <2>2, <2>3 DEF Resume, GoOn, Finish, Fail, Committed, Discarded, Commands
    <2>5. \A p \in Commits \ {h} : StageOf(p)' = StageOf(p)
      BY <1>1, <2>1, <2>4 DEF StageOf, OpTypes, Ops, deviceVars
    <2>6. active' = active /\ wanted' = wanted
      BY <2>1, <2>4 DEF deviceVars
    <2>7. CASE h \notin Commits
      <3>1. stage' = stage
        BY <2>5, <2>7
      <3> QED BY <2>6, <3>1
    <2>8. CASE h \in Commits
      <3>1. cmd[h] # "idle" /\ cmd[h] # "done" /\ h \notin Discards
        BY <2>3, <2>8, OpsAssumption DEF InFlight, Commands
      <3>2. StageOf(h) = IF h \in applied THEN "applied" ELSE "open"
        BY <3>1 DEF StageOf
      <3>3. CASE \E next \in Commands : cmd' = [cmd EXCEPT ![h] = next]
        <4>1. cmd'[h] # "idle" /\ cmd'[h] # "done"
          BY <1>1, <3>3 DEF OpTypes, Commands
        <4>2. StageOf(h)' = StageOf(h)
          BY <2>1, <3>2, <4>1 DEF StageOf, deviceVars
        <4>3. stage' = stage
          BY <2>5, <4>2
        <4> QED BY <2>6, <4>3
      <3>4. CASE cmd' = [cmd EXCEPT ![h] = "done"] /\ result' = [result EXCEPT ![h] = "failed"]
        <4>1. StageOf(h)' = "failed"
          BY <1>1, <3>4 DEF StageOf, OpTypes
        <4>2. stage[h] \in {"open", "applied"} /\ stage' = [stage EXCEPT ![h] = "failed"]
          BY <2>5, <2>8, <3>2, <4>1
        <4> QED BY <2>6, <2>8, <4>2 DEF Push!Next, Push!Fail
      <3>5. CASE /\ cmd' = [cmd EXCEPT ![h] = "done"] /\ cmd[h] = "COMMIT" /\ st = "OK"
                 /\ result' = [result EXCEPT ![h] = "ok"]
        <4>1. h \in applied
          BY <2>1, <2>2, <2>3, <3>5 DEF Answered
        <4>2. StageOf(h)' = "ok"
          BY <1>1, <3>5 DEF StageOf, OpTypes
        <4>3. stage[h] = "applied" /\ stage' = [stage EXCEPT ![h] = "ok"]
          BY <2>5, <2>8, <3>2, <4>1, <4>2
        <4> QED BY <2>6, <2>8, <4>3 DEF Push!Next, Push!Succeed
      <3> QED BY <2>4, <3>1, <3>3, <3>4, <3>5
    <2> QED BY <2>7, <2>8
  <1>7. CASE DeviceExecutes
    <2>1. /\ inbox # <<>> /\ UNCHANGED <<opVars, line>> /\ Execute(Frame)
      BY <1>7, DeviceTakes
    <2>2. PICK h \in Ops : h = Head(line) /\ cmd[h] \in Commands
      BY <1>7, DeviceTakes
    <2>3. Frame.cmd = cmd[h]
      BY <2>2 DEF Frame
    <2>4. CASE cmd[h] = "COMMIT" /\ StatusFor(Frame) = "OK"
      <3>1. h \in Commits /\ active' = blob[h] /\ applied' = applied \cup {h}
        BY <1>7, <2>2, <2>4, Activates DEF Pushing
      <3>2. h \notin applied
        BY <2>1, <2>2, <2>4 DEF Settling
      <3>3. StageOf(h) = "open" /\ StageOf(h)' = "applied"
        BY <2>1, <2>4, <3>1, <3>2 DEF StageOf, opVars
      <3>4. \A p \in Commits \ {h} : StageOf(p)' = StageOf(p)
        BY <2>1, <3>1 DEF StageOf, opVars
      <3>5. stage[h] = "open" /\ stage' = [stage EXCEPT ![h] = "applied"]
        BY <3>1, <3>3, <3>4
      <3>6. wanted' = wanted
        BY <2>1 DEF opVars
      <3>7. active'.config = wanted[h]
        BY <3>1
      <3> QED BY <3>1, <3>5, <3>6, <3>7 DEF Push!Next, Push!Apply
    <2>5. CASE ~(cmd[h] = "COMMIT" /\ StatusFor(Frame) = "OK")
      <3>1. active' = active /\ applied' = applied
        BY <2>1, <2>2, <2>3, <2>5, Effects
      <3> QED BY <1>2, <2>1, <3>1
    <2> QED BY <2>4, <2>5
  <1> QED BY <1>3, <1>4, <1>5, <1>6, <1>7 DEF Next

\* commit() is an atomic replacement of the device's configuration: chunk by chunk,
\* interleaved with edits and with other commits and discards, it takes effect as a
\* whole or not at all, and success is reported only when it has.
THEOREM PushTheorem ==
    ASSUME ~LateReplies
    PROVE  Spec /\ []FewCommits => PushAtomic
  <1>1. Spec => []Sized
    BY SizedInit, SizedStep, BaseTheorem, PTL DEF Spec
  <1>2. Base /\ Base' /\ Talk /\ Settling /\ Sized /\ Pushing /\ [Next]_vars =>
           [Push!Next]_(<<active.config, [o \in Commits |-> blob[o].config],
                          [o \in Commits |-> StageOf(o)]>>)
    BY PushStep
  <1> QED BY <1>1, <1>2, PushInit, BaseTheorem, TalkTheorem, PushingTheorem, PTL
          DEF Spec, PushAtomic, Push!Spec, Push!pushVars

\* The same for an editor that lets one operation end before it starts another.
THEOREM PushOneAtATime ==
    ASSUME ~LateReplies, ~Overlap
    PROVE  Spec => PushAtomic
  BY PushTheorem, SingleTheorem, SingleIsFew, PTL

\* ... or has no more commits than a blob has chunks, and one.
THEOREM PushOfFewCommits ==
    ASSUME ~LateReplies, IsFiniteSet(Commits), Cardinality(Commits) <= Chunks + 1
    PROVE  Spec => PushAtomic
  BY PushTheorem, FewWhenFew, PTL
=============================================================================
