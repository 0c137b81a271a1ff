----------------------------- MODULE ZmkService -----------------------------
(***************************************************************************)
(* The ZMK Studio service, clients/zmk/service.ts: a cache of the          *)
(* keyboard's keymap, kept in step by repeating every accepted operation   *)
(* on it, and three shared reads (behaviors, layouts, keymap) that         *)
(* concurrent callers join.  Edits take effect on the keyboard at once;    *)
(* commit() makes them permanent.                                          *)
(*                                                                         *)
(* The library's call_rpc() admits one request at a time, in the order of  *)
(* the calls.  A promise that settles resumes its awaiters in microtasks,  *)
(* before any other event: `loop' holds what awaits what.                  *)
(*                                                                         *)
(* A layer's name and bindings are one value, so renameLayer is setKey.    *)
(***************************************************************************)
EXTENDS Integers, Sequences, FiniteSets

CONSTANTS
    Ops,            \* calls of the service's methods, each made once
    Offers,         \* Offers[o]: the methods o may be a call of
    Ids,            \* layer ids
    StartLayers,    \* the keyboard's layers at connect
    Vals, Fresh,    \* contents of a layer; that of one added or restored
    Edited,         \* the content setKey gives a layer
    MaxLayers,      \* layers the keyboard has room for
    BehaviorCount,  \* behaviors the keyboard lists
    Refuses,        \* may the keyboard refuse requests (it is locked)
    BJob, LJob, KJob,   \* behaviorsInFlight, layoutsInFlight, keymapInFlight
    None

Kinds == {"setKey", "addLayer", "removeLayer", "moveLayer", "restoreLayer",
          "setLayout", "commit", "discard", "reset", "refresh",
          "getKeymap", "source", "actionTypes", "physicalLayouts"}
Jobs == {BJob, LJob, KJob}
Procs == Ops \cup Jobs
Layouts == {0, 1}

Layer == [id : Ids, val : Vals]
Keymap == [layers : Seq(Layer), availableLayers : Int]
Device == [layers : Seq(Layer), layout : Layouts, savedLayers : Seq(Layer),
           savedLayout : Layouts, unsaved : BOOLEAN]
Answer == [ok : BOOLEAN, dev : Device, gen : Nat, id : Ids \cup {0}]

ASSUME OpsAssumption ==
    /\ Offers \in [Ops -> SUBSET Kinds]
    /\ Cardinality(Jobs) = 3 /\ Jobs \cap Ops = {}
ASSUME KeyboardAssumption ==
    /\ Ids \subseteq Nat /\ Fresh \in Vals /\ Edited \in Vals
    /\ MaxLayers \in Nat /\ Cardinality(Ids) >= MaxLayers
    /\ StartLayers \in Seq([id : Ids, val : Vals]) /\ Len(StartLayers) \in 1..MaxLayers
    /\ \A i, j \in DOMAIN StartLayers : StartLayers[i].id = StartLayers[j].id => i = j
    /\ BehaviorCount \in Nat \ {0} /\ Refuses \in BOOLEAN
ASSUME NoneAssumption == None \notin Layouts /\ None \notin Keymap /\ None \notin Answer

VARIABLES
    loop,       \* pc: where a process stands; wake: has its await settled;
                \* line: processes whose RPC waits for the mutex, holder first
    req,        \* req[o]: method and arguments of o
    idx,        \* idx[o]: the layerIndex removeLayer(id) found
    result,     \* result[o]: how o settled, and what a read returned
    cached,     \* cachedKeymap
    layouts,    \* layouts: the active layout's index, or None
    behaviors,  \* how many of the keyboard's behaviors are in `behaviors'
    fetched,    \* what the last getKeymap resolved with
    pendingChanges, \* pendingChanges
    dev,        \* keyboard: layers, layout, what is saved, unsaved changes
    reply,      \* the answer to the mutex holder's request, or None
    notes,      \* unsavedChangesStatusChanged notifications under way
    hist,       \* history: the keyboard's layers after each change
    seen,       \* history: how much of hist the delivered replies cover
    since,      \* since[o]: seen when o was called
    aimed       \* aimed[o]: seen when removeLayer looked its index up

clientVars == <<loop, req, idx, result, cached, layouts, behaviors, fetched,
                pendingChanges>>
vars == <<clientVars, dev, reply, notes, hist, seen, since, aimed>>

Request == [kind : Kinds, id : Ids \cup {0}, at : Nat, to : Nat]
NoRequest == [kind |-> "commit", id |-> 0, at |-> 0, to |-> 0]
Unsettled == [how |-> "none", layers |-> <<>>, known |-> 0]
KeymapOf(layers) == [layers |-> layers, availableLayers |-> MaxLayers - Len(layers)]
IdsOf(ls) == {ls[i].id : i \in DOMAIN ls}

Without(s, i) == SubSeq(s, 1, i - 1) \o SubSeq(s, i + 1, Len(s))
Inserted(s, i, x) == SubSeq(s, 1, i - 1) \o <<x>> \o SubSeq(s, i, Len(s))
WithVal(ls, id, v) ==
    [i \in DOMAIN ls |-> IF ls[i].id = id THEN [ls[i] EXCEPT !.val = v] ELSE ls[i]]

Init ==
    /\ loop = [pc |-> [p \in Procs |-> IF p \in Ops THEN "idle" ELSE "off"],
               wake |-> [p \in Procs |-> "no"], line |-> <<>>]
    /\ req = [o \in Ops |-> NoRequest] /\ idx = [o \in Ops |-> 0]
    /\ result = [o \in Ops |-> Unsettled]
    /\ cached = None /\ layouts = None /\ behaviors = 0
    /\ fetched = [layers |-> <<>>, known |-> 0]
    /\ pendingChanges = FALSE
    /\ dev = [layers |-> StartLayers, layout |-> 0,
              savedLayers |-> StartLayers, savedLayout |-> 0, unsaved |-> FALSE]
    /\ reply = None /\ notes = <<>>
    /\ hist = <<StartLayers>> /\ seen = 1
    /\ since = [o \in Ops |-> 1] /\ aimed = [o \in Ops |-> 1]
-----------------------------------------------------------------------------
(* The event loop: functions from one state of `loop' to the next.         *)

Park(s, p, at) == [s EXCEPT !.pc[p] = at, !.wake[p] = "no"]
Call(s, p, at) == [Park(s, p, at) EXCEPT !.line = Append(@, p)]
Ready(s, p) == [s EXCEPT !.wake[p] = "ok"]
Served(s) == [s EXCEPT !.line = Tail(@)]

\* Await points of a promise shared through an in-flight field.
Awaits(j) == CASE j = BJob -> {"onBehaviors"}
               [] j = LJob -> {"onLayouts"}
               [] j = KJob -> {"onKeymap", "aim", "aimAgain"}

\* The shared promise settles, its field is cleared, its awaiters resume.
SettleJob(s, j, how) ==
    [s EXCEPT !.pc[j] = "off", !.wake =
        [p \in Procs |-> IF p = j THEN "no"
                         ELSE IF s.pc[p] \in Awaits(j) /\ s.wake[p] = "no" THEN how
                         ELSE s.wake[p]]]

\* loadBehaviors(): nothing to do as soon as one behavior is known.
JoinBehaviors(s, p) ==
    LET t == Park(s, p, "onBehaviors") IN
    IF behaviors > 0 THEN Ready(t, p)
    ELSE IF t.pc[BJob] = "off" THEN Call(t, BJob, "list") ELSE t

JoinLayouts(s, p) ==
    LET t == Park(s, p, "onLayouts") IN
    IF layouts # None THEN Ready(t, p)
    ELSE IF t.pc[LJob] = "off" THEN Call(t, LJob, "rpc") ELSE t

\* mutant: a read that has completed is shared with later callers
JoinKeymapKept(s, p, at) ==
    LET t == Park(s, p, at) IN
    IF cached # None /\ fetched.layers # <<>> THEN Ready(t, p)
    ELSE IF t.pc[KJob] = "off" THEN JoinBehaviors(t, KJob) ELSE t

\* getKeymap(): concurrent callers share the read, a later one reads again.
JoinKeymap(s, p, at) ==
    LET t == Park(s, p, at) IN
    IF t.pc[KJob] = "off" THEN JoinBehaviors(t, KJob) ELSE t

\* Microtasks run before anything else happens.
Micro == \E p \in Procs : loop.wake[p] # "no"

Finish(s, o) == Park(s, o, "done")
Done(o, how) == result' = [result EXCEPT ![o].how = how]
-----------------------------------------------------------------------------
(* The calls.                                                              *)

Requests ==
    LET R(k, id, at, to) == [kind |-> k, id |-> id, at |-> at, to |-> to] IN
    UNION {{R(k, id, 0, 0) : k \in {"setKey", "removeLayer"}, id \in Ids},
           {R("moveLayer", 0, i, j) : i, j \in 1..MaxLayers},
           {R("restoreLayer", id, i, 0) : id \in Ids, i \in 1..MaxLayers},
           {R("setLayout", 0, l, 0) : l \in Layouts},
           {R(k, 0, 0, 0) : k \in {"addLayer", "commit", "discard", "reset", "refresh",
                                   "getKeymap", "source", "actionTypes",
                                   "physicalLayouts"}}}

Warm == cached # None /\ layouts # None /\ behaviors > 0

\* The part of a method that runs when it is called.
Issue(o) ==
    /\ loop.pc[o] = "idle" /\ ~Micro
    /\ \E r \in Requests :
        /\ r.kind \in Offers[o]
        /\ req' = [req EXCEPT ![o] = r]
        /\ loop' = CASE r.kind = "actionTypes" -> JoinBehaviors(loop, o)
                     [] r.kind = "physicalLayouts" -> JoinLayouts(loop, o)
                     [] r.kind = "getKeymap" -> JoinKeymap(loop, o, "onKeymap")
                     [] r.kind = "source" /\ Warm -> Finish(loop, o)
                     [] r.kind = "source" /\ ~Warm -> JoinKeymap(loop, o, "onKeymap")
                     [] r.kind = "removeLayer" /\ cached # None ->
                            Ready(Park(loop, o, "aim"), o)
                     [] r.kind = "removeLayer" /\ cached = None ->
                            JoinKeymap(loop, o, "aim")
                     [] OTHER -> Call(loop, o, "rpc")
        /\ result' = IF r.kind = "source" /\ Warm
                       THEN [result EXCEPT ![o] = [how |-> "ok", known |-> behaviors,
                                                   layers |-> cached.layers]]
                       ELSE result
    /\ since' = [since EXCEPT ![o] = seen]
    /\ UNCHANGED <<idx, cached, layouts, behaviors, fetched, pendingChanges,
                   dev, reply, notes, hist, seen, aimed>>

\* What a method does when a shared promise it awaits has settled.
Resume(o) ==
    /\ loop.wake[o] # "no" /\ loop.pc[o] \in {"onBehaviors", "onLayouts", "onKeymap"}
    /\ loop' = Finish(loop, o)
    /\ result' = [result EXCEPT ![o] =
          IF loop.wake[o] = "err" THEN [Unsettled EXCEPT !.how = "err"]
          ELSE CASE loop.pc[o] = "onKeymap" -> [how |-> "ok", layers |-> fetched.layers,
                                                known |-> fetched.known]
                 [] OTHER -> [Unsettled EXCEPT !.how = "ok", !.known = behaviors]]
    /\ UNCHANGED <<req, idx, cached, layouts, behaviors, fetched,
                   pendingChanges, dev, reply, notes, hist, seen, since, aimed>>

IndexIn(id) == CHOOSE i \in DOMAIN cached.layers : cached.layers[i].id = id

\* mutant: the index is off by one
AimNext(o) ==
    /\ loop.wake[o] = "ok" /\ loop.pc[o] \in {"aim", "aimAgain"}
    /\ req[o].id \in IdsOf(cached.layers)
    /\ idx' = [idx EXCEPT ![o] = (IndexIn(req[o].id) % Len(cached.layers)) + 1]
    /\ aimed' = [aimed EXCEPT ![o] = seen]
    /\ loop' = Call(loop, o, "rpc")
    /\ UNCHANGED <<req, result, cached, layouts, behaviors, fetched,
                   pendingChanges, dev, reply, notes, hist, seen, since>>

\* removeLayer: the id is looked up in the cache, and once more after a read.
Aim(o) ==
    /\ loop.wake[o] = "ok" /\ loop.pc[o] \in {"aim", "aimAgain"}
    /\ req[o].id \in IdsOf(cached.layers)
    /\ idx' = [idx EXCEPT ![o] = IndexIn(req[o].id)]
    /\ aimed' = [aimed EXCEPT ![o] = seen]
    /\ loop' = Call(loop, o, "rpc")
    /\ UNCHANGED <<req, result, cached, layouts, behaviors, fetched,
                   pendingChanges, dev, reply, notes, hist, seen, since>>

AimMisses(o) ==
    /\ loop.wake[o] # "no" /\ loop.pc[o] \in {"aim", "aimAgain"}
    /\ loop.wake[o] = "ok" => req[o].id \notin IdsOf(cached.layers)
    /\ IF loop.wake[o] = "ok" /\ loop.pc[o] = "aim"
         THEN loop' = JoinKeymap(loop, o, "aimAgain") /\ UNCHANGED result
         ELSE loop' = Finish(loop, o) /\ Done(o, "err")
    /\ UNCHANGED <<req, idx, cached, layouts, behaviors, fetched,
                   pendingChanges, dev, reply, notes, hist, seen, since, aimed>>
-----------------------------------------------------------------------------
(* What a method does with the reply to its request.                       *)

Replied(o, kind) ==
    /\ reply # None /\ ~Micro
    /\ o \in Ops /\ Head(loop.line) = o /\ req[o].kind \in kind
    /\ reply' = None /\ seen' = reply.gen
    /\ UNCHANGED <<req, idx, behaviors, fetched, dev, notes, hist, since,
                   aimed>>

Accepted(o, kind) == Replied(o, kind) /\ reply.ok /\ Done(o, "ok")

\* The caller is done, the cache repeats the edit, the change is not saved.
Mirrored(o, keymap) ==
    /\ cached' = IF cached = None THEN None ELSE keymap
    /\ pendingChanges' = TRUE
    /\ loop' = Finish(Served(loop), o)
    /\ UNCHANGED layouts

\* mutant: the change is marked before the reply is looked at
RefusedMarked(o) ==
    /\ Replied(o, Kinds) /\ ~reply.ok
    /\ Done(o, "err")
    /\ loop' = Finish(Served(loop), o)
    /\ pendingChanges' = TRUE
    /\ UNCHANGED <<cached, layouts>>

Refused(o) ==
    /\ Replied(o, Kinds) /\ ~reply.ok
    /\ Done(o, "err")
    /\ loop' = Finish(Served(loop), o)
    /\ UNCHANGED <<cached, layouts, pendingChanges>>

KeySet(o) ==
    /\ Accepted(o, {"setKey"})
    /\ Mirrored(o, [cached EXCEPT !.layers = WithVal(@, req[o].id, Edited)])

NewLayer(id) == CHOOSE l \in {reply.dev.layers[i] : i \in DOMAIN reply.dev.layers} :
                    l.id = id

LayerAdded(o) ==
    /\ Accepted(o, {"addLayer"})
    /\ Mirrored(o, [cached EXCEPT !.layers = Append(@, NewLayer(reply.id)),
                                  !.availableLayers = @ - 1])

LayerRemoved(o) ==
    /\ Accepted(o, {"removeLayer"})
    /\ Mirrored(o, [cached EXCEPT !.layers = Without(@, idx[o]),
                                  !.availableLayers = @ + 1])

LayerMoved(o) ==
    /\ Accepted(o, {"moveLayer"})
    /\ LET ls == cached.layers
           at == req[o].at
       IN  Mirrored(o, [cached EXCEPT !.layers =
                            Inserted(Without(ls, at), req[o].to, ls[at])])

LayerRestored(o) ==
    /\ Accepted(o, {"restoreLayer"})
    /\ Mirrored(o, [cached EXCEPT !.layers = Inserted(@, req[o].at, NewLayer(req[o].id)),
                                  !.availableLayers = @ - 1])

\* setActivePhysicalLayout: the reply is a whole keymap; then ensureLayouts().
LayoutSet(o) ==
    /\ Replied(o, {"setLayout"}) /\ reply.ok
    /\ cached' = KeymapOf(reply.dev.layers)
    /\ layouts' = IF layouts = None THEN None ELSE req[o].at
    /\ loop' = JoinLayouts(Served(loop), o)
    /\ UNCHANGED <<result, pendingChanges>>

Committed(o) ==
    /\ Accepted(o, {"commit"})
    /\ pendingChanges' = FALSE
    /\ loop' = Finish(Served(loop), o)
    /\ UNCHANGED <<cached, layouts>>

\* mutant: the cache outlives the changes it shows
DiscardedKept(o) ==
    /\ Accepted(o, {"discard", "reset"})
    /\ pendingChanges' = FALSE
    /\ loop' = Finish(Served(loop), o)
    /\ UNCHANGED <<cached, layouts>>

\* discardChanges, resetSettings: the cache is dropped.
Discarded(o) ==
    /\ Accepted(o, {"discard", "reset"})
    /\ cached' = None
    /\ pendingChanges' = FALSE
    /\ loop' = Finish(Served(loop), o)
    /\ UNCHANGED layouts

\* refreshPendingChanges
Refreshed(o) ==
    /\ Accepted(o, {"refresh"})
    /\ pendingChanges' = reply.dev.unsaved
    /\ loop' = Finish(Served(loop), o)
    /\ UNCHANGED <<cached, layouts>>
-----------------------------------------------------------------------------
(* The shared reads.                                                       *)

JobReplied(j) ==
    /\ reply # None /\ ~Micro
    /\ Head(loop.line) = j
    /\ reply' = None /\ seen' = reply.gen
    /\ UNCHANGED <<req, idx, result, pendingChanges, dev, notes, hist, since, aimed>>

JobRefused(j) ==
    /\ JobReplied(j) /\ ~reply.ok
    /\ loop' = SettleJob(Served(loop), j, "err")
    /\ UNCHANGED <<cached, layouts, behaviors, fetched>>

\* The list, then one behavior's details after the other.
BehaviorsRead ==
    /\ JobReplied(BJob) /\ reply.ok
    /\ behaviors' = IF loop.pc[BJob] = "list" THEN behaviors ELSE behaviors + 1
    /\ loop' = IF behaviors' < BehaviorCount THEN Call(Served(loop), BJob, "details")
                                             ELSE SettleJob(Served(loop), BJob, "ok")
    /\ UNCHANGED <<cached, layouts, fetched>>

LayoutsRead ==
    /\ JobReplied(LJob) /\ reply.ok
    /\ layouts' = reply.dev.layout
    /\ loop' = SettleJob(Served(loop), LJob, "ok")
    /\ UNCHANGED <<cached, behaviors, fetched>>

KeymapRead ==
    /\ JobReplied(KJob) /\ reply.ok
    /\ cached' = KeymapOf(reply.dev.layers)
    /\ fetched' = [layers |-> reply.dev.layers, known |-> behaviors]
    /\ loop' = SettleJob(Served(loop), KJob, "ok")
    /\ UNCHANGED <<layouts, behaviors>>

\* getKeymap between its awaits.
KeymapGoesOn ==
    /\ loop.wake[KJob] # "no"
    /\ loop' = CASE loop.wake[KJob] = "err" -> SettleJob(loop, KJob, "err")
                 [] loop.wake[KJob] = "ok" /\ loop.pc[KJob] = "onBehaviors" ->
                        JoinLayouts(loop, KJob)
                 [] OTHER -> Call(loop, KJob, "rpc")
    /\ UNCHANGED <<req, idx, result, cached, layouts, behaviors, fetched,
                   pendingChanges, dev, reply, notes, hist, seen, since, aimed>>

\* dispatchNotification
Notified ==
    /\ notes # <<>> /\ ~Micro
    /\ pendingChanges' = Head(notes)
    /\ notes' = Tail(notes)
    /\ UNCHANGED <<loop, req, idx, result, cached, layouts, behaviors, fetched,
                   dev, reply, hist, seen, since, aimed>>
-----------------------------------------------------------------------------
(* The keyboard (external).  It carries out the request of the mutex       *)
(* holder, or refuses it: it is locked, or the arguments make no sense.    *)

FreeId == CHOOSE id \in Ids \ IdsOf(dev.layers) :
              \A k \in Ids \ IdsOf(dev.layers) : id <= k

\* The layers after request r of o, and what it needs to be accepted.
Sensible(o) ==
    LET r == req[o]
        n == Len(dev.layers) IN
    CASE r.kind = "setKey" -> r.id \in IdsOf(dev.layers)
      [] r.kind = "addLayer" -> n < MaxLayers
      [] r.kind = "removeLayer" -> idx[o] \in 1..n
      [] r.kind = "moveLayer" -> r.at \in 1..n /\ r.to \in 1..n
      [] r.kind = "restoreLayer" -> /\ r.id \notin IdsOf(dev.layers)
                                    /\ n < MaxLayers /\ r.at \in 1..n + 1
      [] OTHER -> TRUE

LayersAfter(o) ==
    LET r == req[o]
        ls == dev.layers IN
    CASE r.kind = "setKey" -> WithVal(ls, r.id, Edited)
      [] r.kind = "addLayer" -> Append(ls, [id |-> FreeId, val |-> Fresh])
      [] r.kind = "removeLayer" -> Without(ls, idx[o])
      [] r.kind = "moveLayer" -> Inserted(Without(ls, r.at), r.to, ls[r.at])
      [] r.kind = "restoreLayer" -> Inserted(ls, r.at, [id |-> r.id, val |-> Fresh])
      [] r.kind = "discard" -> dev.savedLayers
      [] r.kind = "reset" -> StartLayers
      [] OTHER -> ls

DevAfter(o) ==
    LET k == req[o].kind
        ls == LayersAfter(o)
        l == CASE k = "setLayout" -> req[o].at
               [] k = "discard" -> dev.savedLayout
               [] k = "reset" -> 0
               [] OTHER -> dev.layout
        saves == k \in {"commit", "reset"} IN
    [layers |-> ls, layout |-> l,
     savedLayers |-> IF saves THEN ls ELSE dev.savedLayers,
     savedLayout |-> IF saves THEN l ELSE dev.savedLayout,
     unsaved |-> CASE k \in {"commit", "discard", "reset"} -> FALSE
                   [] k = "refresh" \/ (k = "setLayout" /\ l = dev.layout) -> dev.unsaved
                   [] OTHER -> TRUE]

\* The shared reads change nothing; an edit may change what is unsaved.
Read(p) ==
    /\ p \in Jobs
    /\ reply' = [ok |-> TRUE, dev |-> dev, gen |-> Len(hist), id |-> 0]
    /\ UNCHANGED <<dev, hist, notes>>

Execute(o) ==
    /\ o \in Ops /\ Sensible(o)
    /\ dev' = DevAfter(o)
    /\ hist' = IF dev'.layers = dev.layers THEN hist ELSE Append(hist, dev'.layers)
    /\ notes' = IF dev'.unsaved = dev.unsaved THEN notes ELSE Append(notes, dev'.unsaved)
    /\ reply' = [ok |-> TRUE, dev |-> dev', gen |-> Len(hist'),
                 id |-> IF req[o].kind = "addLayer" THEN FreeId ELSE 0]

Refuse == /\ Refuses \/ (Head(loop.line) \in Ops /\ ~Sensible(Head(loop.line)))
          /\ reply' = [ok |-> FALSE, dev |-> dev, gen |-> Len(hist), id |-> 0]
          /\ UNCHANGED <<dev, hist, notes>>

Keyboard ==
    /\ loop.line # <<>> /\ reply = None
    /\ Read(Head(loop.line)) \/ Execute(Head(loop.line)) \/ Refuse
    /\ UNCHANGED <<clientVars, seen, since, aimed>>

Reply(o) ==
    \/ KeySet(o) \/ LayerAdded(o) \/ LayerRemoved(o) \/ LayerMoved(o)
    \/ LayerRestored(o) \/ LayoutSet(o) \/ Committed(o) \/ Discarded(o)
    \/ Refreshed(o) \/ Refused(o)

Next ==
    \/ \E o \in Ops : Issue(o) \/ Resume(o) \/ Aim(o) \/ AimMisses(o) \/ Reply(o)
    \/ \E j \in Jobs : JobRefused(j)
    \/ BehaviorsRead \/ LayoutsRead \/ KeymapRead \/ KeymapGoesOn
    \/ Notified
    \/ Keyboard

Spec == Init /\ [][Next]_vars
-----------------------------------------------------------------------------
\* Every variable has its type, and the cache accounts for every layer slot.
TypeOK ==
    /\ loop.pc \in [Procs -> {"idle", "off", "list", "details", "rpc", "onBehaviors",
                              "onLayouts", "onKeymap", "aim", "aimAgain", "done"}]
    /\ loop.wake \in [Procs -> {"no", "ok", "err"}]
    /\ loop.line \in Seq(Procs)
    /\ req \in [Ops -> Request] /\ idx \in [Ops -> Nat]
    /\ result \in [Ops -> [how : {"none", "ok", "err"}, layers : Seq(Layer), known : Nat]]
    /\ cached \in Keymap \cup {None}
    /\ cached # None => cached.availableLayers = MaxLayers - Len(cached.layers)
    /\ layouts \in Layouts \cup {None}
    /\ behaviors \in 0..BehaviorCount
    /\ pendingChanges \in BOOLEAN
    /\ dev \in Device /\ reply \in Answer \cup {None}
    /\ notes \in Seq(BOOLEAN)
    /\ seen \in 1..Len(hist)

\* getConfigSource: "cachedKeymap tracks every mutation (setKey / layer ops) and is
\* dropped on discard/reset, so the raise stays faithful to device truth": with no
\* answer under way the cache, if there is one, is the keyboard's keymap, however
\* the operations of several callers were interleaved and which were refused.
CacheFaithful ==
    reply = None /\ cached # None => cached.layers = dev.layers

\* A read, shared or from the cache, returns a keymap the keyboard had no earlier
\* than the last operation that had settled when the read was called: a caller
\* reads its own writes.
FreshRead ==
    \A o \in Ops :
        result[o].how = "ok" /\ req[o].kind \in {"getKeymap", "source"} =>
            \E g \in since[o]..Len(hist) : result[o].layers = hist[g]

\* hasPendingChanges() tells what the keyboard would say, once every answer and
\* notification has arrived: the two report the same changes in different orders.
PendingHonest ==
    loop.line = <<>> /\ notes = <<>> => pendingChanges = dev.unsaved

\* removeLayer(id) looks an index up and sends it: the keyboard removes another
\* layer only if its layers changed between the two.
RemoveAimed ==
    [][\A o \in Ops :
          /\ reply = None /\ reply' # None /\ reply'.ok
          /\ Head(loop.line) = o /\ req[o].kind = "removeLayer"
          /\ hist[aimed[o]] = dev.layers
          => IdsOf(dev'.layers) = IdsOf(dev.layers) \ {req[o].id}]_vars
=============================================================================
