------------------------------ MODULE Connect ------------------------------
(***************************************************************************)
(* From a transport to a keyboard service: registry.ts asks the adapters   *)
(* in turn (pickAdapter, canHandle), the caller connects the one that      *)
(* answered (connect), and a Remappr connect authenticates with the        *)
(* identity that identity.ts keeps in the host's store.                    *)
(*                                                                         *)
(* A probe and a connect are scripts of exchanges, one at a time, each of  *)
(* which may fail.  The streams of a transport have one holder, the client *)
(* of one adapter, and what that client leaves unread its successor reads. *)
(* The adapter "mock", which opens no client, is left out.                 *)
(***************************************************************************)
EXTENDS Integers, Sequences, FiniteSets

CONSTANTS
    Callers,    \* tasks that call pickAdapter, then connect, on the transport
    Setups,     \* [board, kind, vid]: what may be plugged in, and how
    Orders,     \* the orders in which the adapters may have registered
    MaxMissed,  \* replies that go missing or come late
    MaxRounds,  \* transports opened one after another
    MaxFaults   \* failures of the host's store, and signals

None == "none"
Adapters == {"remappr", "vial", "via", "keychron", "zmk"}
RawHid == {"vial", "via", "keychron"}
Boards == {"node", "openNode", "dongle", "oldDongle", "vial", "mutedVial", "via",
           "keychron", "zmk"}

VARIABLES
    setup,      \* the board, the kind of transport, its vendor id, a saved vial.json
    order,      \* the adapters pickAdapter asks, in order
    aborted,    \* transport.abortController.signal.aborted
    cli,        \* the client that holds the transport's streams
    stale,      \* a reply nobody has read yet: what it answers
    missed,     \* number of replies lost or late
    astray,     \* history: the owner's probe failed on a missing or foreign reply
    call,       \* call[c]: where the caller is
    ident,      \* the host's identity, in the store and in memory; the board's bond
    rounds, faults,
    slipped,    \* history: a store failure or a connect that did not wait for prepare
    barred      \* history: a board refused the identity

transportVars == <<aborted, cli, stale, missed, astray>>
historyVars == <<slipped, barred>>
vars == <<setup, order, transportVars, call, ident, rounds, faults, historyVars>>

NoClient == [by |-> None, user |-> None, open |-> FALSE, orphan |-> FALSE,
             pump |-> FALSE, dongle |-> FALSE, caps |-> None, key |-> 0]
Idle == [pc |-> "idle", at |-> 0, step |-> None, who |-> None, sig |-> FALSE,
         hears |-> "no", svc |-> None, note |-> FALSE]
-----------------------------------------------------------------------------
(* The boards: what they answer, and what becomes of other requests.       *)

ViaVerbs == {"proto", "fw", "layers", "enc", "keys"}
NodeVerbs == {"info", "begin", "finish", "config"}
Probes2 == {"uinfo", "nodes", "pers", "limits"}

Says(b) ==
    CASE b = "node"     -> NodeVerbs \cup Probes2 \cup {"caps"}
      [] b = "openNode" -> {"info", "caps", "config"}  \* protocol 1, no authentication
      [] b = "dongle"   -> Probes2
      [] b = "oldDongle" -> {"nodes"}
      [] b = "vial"     -> ViaVerbs \cup {"kbid", "def"}
      [] b = "mutedVial" -> ViaVerbs \cup {"kbid"}     \* its definition does not parse
      [] b = "via"      -> ViaVerbs \ {"enc"}
      [] b = "keychron" -> ViaVerbs \cup {"kproto", "kfw", "kfeat", "kmisc", "kled",
                                         "kdefault"}
      [] OTHER          -> {"zinfo"}

Owner(b) ==
    CASE b \in {"node", "openNode", "dongle", "oldDongle"} -> "remappr"
      [] b \in {"vial", "mutedVial"} -> "vial"
      [] OTHER -> b

Silent == Owner(setup.board) \notin RawHid     \* QMK answers every frame, if only "unhandled"

\* A board that asks for no identity keeps nothing between two transports, and
\* the identity's steps are only followed for the others.
Authenticates == "begin" \in Says(setup.board)

\* The service the board should get.
Fitting(b) ==
    CASE b \in {"dongle", "oldDongle"} -> "dongle"
      [] OTHER -> Owner(b)

ASSUME CallersAssumption == Callers \cap {None, "cache"} = {}
ASSUME BoundsAssumption == MaxMissed \in Nat /\ MaxRounds \in Nat \ {0} /\ MaxFaults \in Nat

\* What is sold: QMK speaks over HID alone and ZMK Studio does not, Remappr and
\* Keychron boards have vendor ids of their own.
ASSUME SetupsAssumption ==
    \A s \in Setups :
        /\ s.board \in Boards /\ s.kind \in {"hid", "ble", "serial"}
        /\ Owner(s.board) \in RawHid => s.kind = "hid"
        /\ Owner(s.board) = "zmk" => s.kind # "hid"
        /\ s.kind = "hid" /\ s.vid # None =>
               /\ Owner(s.board) = "remappr" => s.vid = "1209"
               /\ Owner(s.board) = "keychron" => s.vid = "3434"

\* builtins.ts registers every adapter.
ASSUME OrdersAssumption ==
    \A registered \in Orders :
        /\ registered \in Seq(Adapters)
        /\ \A a \in Adapters : \E i \in DOMAIN registered : registered[i] = a
-----------------------------------------------------------------------------
(* The registry: which adapters pickAdapter asks, and in which order.      *)

Rank(a) ==
    CASE a = "remappr"  -> IF setup.vid = "1209" THEN 0 ELSE 2
      [] a = "keychron" -> IF setup.vid = "3434" THEN 0 ELSE 2
      [] OTHER -> 1

PriorityUnset(a) == IF a = "remappr" THEN 100 ELSE 0
Priority(a) == CASE a = "remappr" -> 100 [] a = "vial" -> 10 [] OTHER -> 0

Place(registered, a) == CHOOSE i \in DOMAIN registered : registered[i] = a

Earlier(registered, a, b) ==
    \/ Rank(a) < Rank(b)
    \/ Rank(a) = Rank(b) /\ Priority(a) > Priority(b)
    \/ /\ Rank(a) = Rank(b) /\ Priority(a) = Priority(b)
       /\ Place(registered, a) < Place(registered, b)

Asked == {a \in Adapters : Rank(a) < 2}

Candidates(registered) ==
    IF setup.kind = "hid" /\ setup.vid # None
    THEN CHOOSE sorted \in [1..Cardinality(Asked) -> Asked] :
            \A i, j \in DOMAIN sorted : i < j => Earlier(registered, sorted[i], sorted[j])
    ELSE registered

Refuses(a) ==       \* the hint alone says no
    \/ a = "remappr" /\ setup.kind = "serial"
    \/ a \in RawHid /\ setup.kind # "hid"
    \/ a = "zmk" /\ setup.kind = "hid"
-----------------------------------------------------------------------------
(* The scripts.  A step asks for something; ok and fail say where its       *)
(* answer and its failure lead: to another step, or to an end.  "informed", *)
(* "role" and "saved" depend on what is known by then.                      *)

Step(ask, ok, fail) == [ask |-> ask, ok |-> ok, fail |-> fail]
Optional(ask, next) == Step(ask, next, next)

Discover ==
    [r_info   |-> Step("info", "informed", "r_uinfo"),
     r_uinfo  |-> Step("uinfo", "informed", "r_nodes"),
     r_pers   |-> Optional("pers", "r_limits"),
     r_limits |-> Optional("limits", "role")]

RemapprProbe ==
    [r_nodes |-> Step("nodes", "found", "no"),
     r_caps  |-> Optional("caps", "found")]

EstablishSession ==
    [r_begin  |-> Step("begin", "r_finish", "drop"),
     r_finish |-> Step("finish", "r_config", "drop")]

LoadDeviceConfig == [r_config |-> Step("config", "serve", "drop")]

ViaProbe ==
    [v_proto  |-> Step("proto", "v_fw", "no"),
     v_fw     |-> Optional("fw", "v_layers"),
     v_layers |-> Step("layers", "found", "no")]

ViaCreate ==
    [v_enc  |-> Optional("enc", "v_keys"),
     v_keys |-> Step("keys", "serve", "throw")]

IdentifyVial ==
    [l_proto |-> Step("proto", "l_id", "no"),
     l_id    |-> Step("kbid", "found", "no")]

LoadVial ==
    [l_def    |-> Step("def", "l_fw", "f_layers"),
     l_fw     |-> Optional("fw", "l_layers"),
     l_layers |-> Step("layers", "l_keys", "f_layers")]

VialCreate == [l_keys |-> Step("keys", "serve", "throw")]

ConnectWithoutDeviceDef ==
    [f_layers |-> Step("layers", "saved", "drop"),
     f_saved  |-> Step("keys", "serve", "drop"),
     f_enc    |-> Optional("enc", "f_keys"),
     f_keys   |-> Step("keys", "serve", "drop")]

KeychronProbe ==
    [k_proto  |-> Step("kproto", "k_fw", "no"),
     k_fw     |-> Optional("kfw", "k_feat"),
     k_feat   |-> Optional("kfeat", "k_misc"),
     k_misc   |-> Optional("kmisc", "k_layers"),
     k_layers |-> Step("layers", "found", "no")]

KeychronConnect ==
    [k_led     |-> Optional("kled", "k_default"),
     k_default |-> Optional("kdefault", "k_enc"),
     k_enc     |-> Optional("enc", "k_keys"),
     k_keys    |-> Step("keys", "serve", "throw")]

ZmkProbe == [z_info |-> Step("zinfo", "found", "no")]

Parts == <<Discover, RemapprProbe, EstablishSession, LoadDeviceConfig,
           ViaProbe, ViaCreate,
           IdentifyVial, LoadVial, VialCreate, ConnectWithoutDeviceDef,
           KeychronProbe, KeychronConnect, ZmkProbe>>
Steps == UNION {DOMAIN Parts[i] : i \in DOMAIN Parts}
Script == [s \in Steps |-> Parts[CHOOSE i \in DOMAIN Parts : s \in DOMAIN Parts[i]][s]]

First(a) == CASE a = "remappr" -> "r_info" [] a = "via" -> "v_proto"
              [] a = "vial" -> "l_proto" [] a = "keychron" -> "k_proto"
              [] OTHER -> "z_info"

AfterProbe(client) ==       \* the first exchange of connect, once probed
    CASE client.by = "remappr" -> IF client.dongle THEN "serve"
                                  ELSE IF client.caps = "open" THEN "r_config" ELSE "r_begin"
      [] client.by = "via" -> "v_enc"
      [] client.by = "vial" -> "l_def"
      [] client.by = "keychron" -> "k_led"
      [] OTHER -> "serve"

Goes(s, good) ==
    LET next == IF good THEN Script[s].ok ELSE Script[s].fail IN
    CASE next = "informed" -> IF "pers" \in Says(setup.board) THEN "r_pers" ELSE "r_caps"
      [] next = "role"     -> IF cli.dongle THEN "found" ELSE "r_caps"
      [] next = "saved"    -> IF setup.saved THEN "f_saved" ELSE "f_enc"
      [] OTHER -> next

\* What a step's answer tells the client.
Learns(client, s, good) ==
    CASE s = "r_nodes" /\ good -> [client EXCEPT !.dongle = TRUE]
      [] s = "r_pers" /\ good -> [client EXCEPT !.dongle = (setup.board = "dongle")]
      [] s = "r_caps" /\ good ->
             [client EXCEPT !.caps = IF setup.board = "openNode" THEN "open" ELSE "auth"]
      [] s = "k_default" -> [client EXCEPT !.pump = good]    \* subscribe
      [] OTHER -> client

ServiceOf(s) ==
    CASE cli.by = "remappr" -> IF cli.dongle THEN "dongle" ELSE "remappr"
      [] s = "f_keys" -> "via"
      [] OTHER -> cli.by
\* The service comes with a notice of what could not be read.
NoticedSaved(s) == s = "f_saved"
Noticed(s) == s \in {"f_saved", "f_keys"}
-----------------------------------------------------------------------------
Init ==
    /\ setup \in {[board |-> s.board, kind |-> s.kind, vid |-> s.vid, saved |-> saved] :
                     s \in Setups, saved \in BOOLEAN}
    /\ setup.saved => Owner(setup.board) = "vial"
    /\ \E registered \in Orders : order = Candidates(registered)
    /\ aborted = FALSE /\ cli = NoClient /\ stale = None /\ missed = 0 /\ astray = FALSE
    /\ call = [c \in Callers |-> Idle]
    /\ ident = [host |-> 0, saving |-> 0, warm |-> "cold", cached |-> 0, mem |-> 0,
                bond |-> 0, minted |-> 0]
    /\ rounds = 1 /\ faults = 0 /\ slipped = FALSE /\ barred = FALSE

Fresh(a, c) == [NoClient EXCEPT !.by = a, !.user = c, !.open = TRUE]
Mine(c) == cli.user = c /\ cli.open
Cached(a) == cli.by = a /\ cli.user = "cache"

\* How a client is let go of: close() of a raw-HID client that is already
\* closed does nothing; rpc.close({abortTransport}) always aborts and releases.
Close(c) == cli' = (IF Mine(c) THEN NoClient ELSE cli) /\ UNCHANGED aborted
CloseAbortRpc(a, c) ==
    /\ aborted' = (aborted \/ a \notin RawHid)
    /\ cli' = IF cli.user = c /\ a \notin RawHid THEN NoClient ELSE cli
CloseAbort(a, c) ==
    CASE a = "remappr" -> /\ aborted' = TRUE
                          /\ cli' = IF cli.user = c THEN NoClient ELSE cli
      [] a \in RawHid -> IF Mine(c) THEN cli' = NoClient /\ aborted' = TRUE
                                    ELSE UNCHANGED <<cli, aborted>>
      [] a = "zmk"    -> /\ aborted' = TRUE
                         /\ cli' = IF cli.user = c THEN [cli EXCEPT !.open = FALSE] ELSE cli

\* What each adapter does with the client of a probe that was refused.
RefusedKept(a, c) ==
    IF a = "keychron" THEN UNCHANGED <<cli, aborted>>
    ELSE IF a \in RawHid THEN Close(c) ELSE CloseAbort(a, c)
Refused(a, c) ==
    IF a \in RawHid THEN Close(c)
    ELSE IF a = "zmk" /\ call[c].pc = "conn" THEN UNCHANGED <<cli, aborted>>
    ELSE CloseAbort(a, c)

\* loadOrCreateIdentity: from the host's store once prepare has read it, until
\* then from a store in memory.
Loaded == IF ident.warm = "ready" THEN ident.cached ELSE ident.mem
Key == IF Loaded = 0 THEN ident.minted + 1 ELSE Loaded
LoadIdentityUnsaved ==
    /\ slipped' = (slipped \/ ident.warm # "ready")
    /\ ident' = IF Loaded # 0 THEN ident
                ELSE [ident EXCEPT !.minted = Key, !.mem = Key, !.cached = Key]
LoadIdentity ==
    /\ slipped' = (slipped \/ ident.warm # "ready")
    /\ ident' = IF Loaded # 0 THEN ident
                ELSE IF ident.warm = "ready"
                THEN [ident EXCEPT !.minted = Key, !.cached = Key, !.saving = Key]
                ELSE [ident EXCEPT !.minted = Key, !.mem = Key]

\* connect once its session is probed: cl, taken from the cache or just made.
Enter(c, cl) ==
    IF call[c].sig /\ cl.by # None /\ ~(cl.by = "zmk" /\ call[c].hears = "pipes")
    THEN /\ IF cl.by \in {"via", "keychron"}
            THEN cli' = (IF cl.open THEN NoClient ELSE cl) /\ UNCHANGED aborted
            ELSE cli' = (IF cl.by = "zmk" \/ (cl.by = "vial" /\ ~cl.open)
                         THEN [cl EXCEPT !.open = FALSE] ELSE NoClient)
                 /\ aborted' = (aborted \/ cl.by # "vial" \/ cl.open)
         /\ call' = [call EXCEPT ![c].pc = "failed", ![c].step = "signal"]
         /\ UNCHANGED <<ident, slipped>>
    ELSE LET s == AfterProbe(cl) IN
         /\ IF s = "r_begin" THEN LoadIdentity ELSE UNCHANGED <<ident, slipped>>
         /\ cli' = IF s = "r_begin" THEN [cl EXCEPT !.key = Key] ELSE cl
         /\ UNCHANGED aborted
         /\ call' = [call EXCEPT ![c].pc = IF s = "serve" THEN "service" ELSE "conn",
                                 ![c].step = s,
                                 ![c].hears = IF @ = "pipes" THEN @ ELSE "yes",
                                 ![c].svc = IF s = "serve"
                                            THEN (IF cl.by = "zmk" THEN "zmk" ELSE "dongle")
                                            ELSE @]
-----------------------------------------------------------------------------
(* pickAdapter and connect.                                                *)

Pick(c) ==
    /\ call[c].pc = "idle"
    /\ call' = [call EXCEPT ![c].pc = "pick", ![c].at = 1, ![c].step = "next"]
    /\ UNCHANGED <<setup, order, transportVars, ident, rounds, faults, historyVars>>

\* The application knows the board, and connects its adapter without asking.
Name(c) ==
    /\ call[c].pc = "idle"
    /\ call' = [call EXCEPT ![c].pc = "picked", ![c].who = Owner(setup.board)]
    /\ UNCHANGED <<setup, order, transportVars, ident, rounds, faults, historyVars>>

TryNext(c) ==
    /\ call[c].pc = "pick" /\ call[c].step = "next"
    /\ IF call[c].at > Len(order)
       THEN /\ call' = [call EXCEPT ![c].pc = "null"]
            /\ UNCHANGED <<cli, astray>>
       ELSE LET a == order[call[c].at]
                skipped == [call EXCEPT ![c].at = @ + 1]
            IN  \/ /\ Refuses(a)
                   /\ call' = skipped /\ UNCHANGED <<cli, astray>>
                \/ /\ ~Refuses(a) /\ Cached(a)
                   /\ call' = [call EXCEPT ![c].pc = "picked", ![c].who = a]
                   /\ UNCHANGED <<cli, astray>>
                \/ /\ ~Refuses(a) /\ ~Cached(a) /\ cli.by # None     \* getReader throws
                   /\ call' = skipped
                   /\ astray' = (astray \/ a = Owner(setup.board))
                   /\ UNCHANGED cli
                \/ /\ ~Refuses(a) /\ cli.by = None
                   /\ cli' = Fresh(a, c)
                   /\ call' = [call EXCEPT ![c].step = First(a), ![c].who = a]
                   /\ UNCHANGED astray
    /\ UNCHANGED <<setup, order, aborted, stale, missed, ident, rounds, faults, historyVars>>

Connect(c) ==
    LET a == call[c].who IN
    /\ call[c].pc = "picked"
    /\ \/ /\ Cached(a)
          /\ Enter(c, [cli EXCEPT !.user = c])
       \/ /\ cli.by = None
          /\ cli' = [Fresh(a, c) EXCEPT !.open = (a = "zmk" => ~call[c].sig)]
          /\ call' = [call EXCEPT ![c].pc = "conn", ![c].step = First(a),
                                  ![c].hears = IF a = "zmk" THEN "pipes" ELSE @]
          /\ UNCHANGED <<aborted, ident, slipped>>
       \/ /\ ~Cached(a) /\ cli.by # None
          /\ call' = [call EXCEPT ![c].pc = "failed", ![c].step = "locked"]
          /\ UNCHANGED <<cli, aborted, ident, slipped>>
    /\ UNCHANGED <<setup, order, stale, missed, astray, rounds, faults, barred>>
-----------------------------------------------------------------------------
(* One exchange.                                                           *)

Bonded == ident.bond \notin {0, cli.key}
Knows(v) == v \in Says(setup.board) /\ ~(v = "finish" /\ Bonded)
Replies(v) == v \in Says(setup.board) \/ ~Silent
Tag(v) == IF v \in Says(setup.board) THEN v ELSE "unhandled"

\* The ways it may go: what the caller gets and what is left in the transport.
Way(good, orphan, left, late) ==
    [good |-> good, orphan |-> orphan, stale |-> left, missed |-> late]

Ways(c, v) ==
    IF ~Mine(c) \/ aborted THEN {Way(FALSE, cli.orphan, stale, 0)}
    ELSE IF cli.by \notin RawHid
    THEN {Way(Knows(v), FALSE, stale, 0)}
         \cup {Way(FALSE, FALSE, stale, n) : n \in {1} \cap (0..MaxMissed - missed)}
    ELSE IF ~cli.orphan /\ ~cli.pump /\ stale # None     \* reads what was left there
    THEN {Way(stale = v, FALSE, IF Replies(v) THEN Tag(v) ELSE None, 0)}
    ELSE IF cli.orphan /\ stale = None       \* the abandoned read takes the reply
    THEN {Way(FALSE, ~(cli.pump /\ Replies(v)), None, 0)}
    ELSE {Way(Knows(v), ~cli.pump /\ ~Replies(v), None, 0)}
         \cup {Way(FALSE, ~cli.pump, left, 1) :
                   left \in IF missed = MaxMissed \/ ~Replies(v) THEN {}
                           ELSE IF cli.pump THEN {None} ELSE {None, Tag(v)}}

\* The board bonds with the first identity whose FINISH it gets.
Bonds(c, v) == v = "finish" /\ Mine(c) /\ ~aborted /\ "finish" \in Says(setup.board)

Foreign(c, v, w) ==     \* the owner's probe fails on a reply that is not the board's
    /\ ~w.good /\ ~aborted
    /\ call[c].who = Owner(setup.board) /\ v \in Says(setup.board)
    /\ \/ Script[call[c].step].fail = "no"
       \/ v = "uinfo" \/ (v = "info" /\ "uinfo" \notin Says(setup.board))

Exchange(c) ==
    LET s == call[c].step  a == call[c].who  v == Script[s].ask IN
    /\ s \in Steps /\ call[c].pc \in {"pick", "conn"}
    /\ \E w \in Ways(c, v) :
        LET next == Goes(s, w.good)
            heard == IF cli.user = c
                     THEN [Learns(cli, s, w.good) EXCEPT !.orphan = w.orphan] ELSE cli
        IN
        /\ stale' = w.stale /\ missed' = missed + w.missed
        /\ astray' = (astray \/ Foreign(c, v, w))
        /\ barred' = (barred \/ (Bonds(c, v) /\ Bonded))
        /\ \/ /\ next \in Steps
              /\ call' = [call EXCEPT ![c].step = next]
              /\ cli' = heard
              /\ ident' = IF Bonds(c, v) /\ ~Bonded
                          THEN [ident EXCEPT !.bond = cli.key] ELSE ident
              /\ UNCHANGED <<aborted, slipped>>
           \/ /\ next = "found" /\ call[c].pc = "pick"
              /\ call' = [call EXCEPT ![c].pc = "picked"]
              /\ cli' = [heard EXCEPT !.user = "cache"]
              /\ UNCHANGED <<aborted, ident, slipped>>
           \/ /\ next = "found" /\ call[c].pc = "conn"
              /\ Enter(c, heard)
           \/ /\ next = "no"
              /\ call' = IF call[c].pc = "pick"
                         THEN [call EXCEPT ![c].at = @ + 1, ![c].step = "next"]
                         ELSE [call EXCEPT ![c].pc = "failed"]
              /\ Refused(a, c)
              /\ UNCHANGED <<ident, slipped>>
           \/ /\ next \in {"drop", "throw"}
              /\ call' = [call EXCEPT ![c].pc = "failed"]
              /\ IF next = "drop" THEN CloseAbort(a, c)
                                  ELSE cli' = heard /\ UNCHANGED aborted
              /\ ident' = IF Bonds(c, v) /\ ~Bonded
                          THEN [ident EXCEPT !.bond = cli.key] ELSE ident
              /\ UNCHANGED slipped
           \/ /\ next = "serve"
              /\ call' = [call EXCEPT ![c].pc = "service", ![c].svc = ServiceOf(s),
                                      ![c].note = Noticed(s)]
              /\ cli' = heard
              /\ UNCHANGED <<aborted, ident, slipped>>
    /\ UNCHANGED <<setup, order, rounds, faults>>
-----------------------------------------------------------------------------
(* Around them: the caller's signal, the host's store, a new transport.    *)

Abort(c) ==
    /\ ~call[c].sig /\ call[c].pc \in {"picked", "conn", "service"}
    /\ faults < MaxFaults /\ faults' = faults + 1
    /\ call' = [call EXCEPT ![c].sig = TRUE]
    /\ CASE call[c].hears = "yes" -> CloseAbort(call[c].who, c)
         [] call[c].hears = "pipes" ->
                cli' = (IF cli.user = c THEN [cli EXCEPT !.open = FALSE] ELSE cli)
                /\ UNCHANGED aborted
         [] OTHER -> UNCHANGED <<cli, aborted>>
    /\ UNCHANGED <<setup, order, stale, missed, astray, ident, rounds, historyVars>>

Prepare ==
    /\ ident.warm = "cold" /\ Authenticates
    /\ ident' = [ident EXCEPT !.warm = "reading"]
    /\ UNCHANGED <<setup, order, transportVars, call, rounds, faults, historyVars>>

Warmed ==
    /\ ident.warm = "reading"
    /\ ident' = [ident EXCEPT !.warm = "ready", !.cached = ident.host]
    /\ UNCHANGED <<setup, order, transportVars, call, rounds, faults, historyVars>>

\* host.get rejects: the store is installed all the same, empty.
ReadFails ==
    /\ ident.warm = "reading" /\ faults < MaxFaults
    /\ ident' = [ident EXCEPT !.warm = "ready"]
    /\ faults' = faults + 1 /\ slipped' = TRUE
    /\ UNCHANGED <<setup, order, transportVars, call, rounds, barred>>

Saved ==
    /\ ident.saving # 0
    /\ ident' = [ident EXCEPT !.host = ident.saving, !.saving = 0]
    /\ UNCHANGED <<setup, order, transportVars, call, rounds, faults, historyVars>>

SaveFails ==
    /\ ident.saving # 0 /\ faults < MaxFaults
    /\ ident' = [ident EXCEPT !.saving = 0]
    /\ faults' = faults + 1 /\ slipped' = TRUE
    /\ UNCHANGED <<setup, order, transportVars, call, rounds, barred>>

\* The keyboard is opened again on a new transport, by this run of the
\* application once its callers are done, or by the next one.
Reopen(restart) ==
    /\ rounds < MaxRounds /\ Authenticates
    /\ restart \/ \A c \in Callers : call[c].pc \notin {"pick", "conn"}
    /\ \E c \in Callers : call[c].pc # "idle"
    /\ rounds' = rounds + 1
    /\ aborted' = FALSE /\ cli' = NoClient /\ stale' = None /\ astray' = FALSE
    /\ call' = [c \in Callers |-> Idle]
    /\ ident' = IF restart
                THEN [ident EXCEPT !.warm = "cold", !.cached = 0, !.mem = 0, !.saving = 0]
                ELSE ident
    /\ slipped' = (slipped \/ (restart /\ ident.saving # 0))
    /\ UNCHANGED <<setup, order, missed, faults, barred>>

Next ==
    \/ \E c \in Callers :
          Pick(c) \/ Name(c) \/ TryNext(c) \/ Connect(c) \/ Exchange(c) \/ Abort(c)
    \/ Prepare \/ Warmed \/ ReadFails \/ Saved \/ SaveFails
    \/ \E restart \in BOOLEAN : Reopen(restart)

\* pickAdapter and connect run on by themselves: every exchange is answered
\* or times out.  When to call them is the application's choice.
Spec == Init /\ [][Next]_vars
             /\ \A c \in Callers : WF_vars(TryNext(c)) /\ WF_vars(Exchange(c))
-----------------------------------------------------------------------------
PCs == {"idle", "pick", "null", "picked", "conn", "failed", "service"}

Client == [by : Adapters \cup {None}, user : Callers \cup {"cache", None},
           open : BOOLEAN, orphan : BOOLEAN, pump : BOOLEAN, dongle : BOOLEAN,
           caps : {"open", "auth", None}, key : Nat]
Calling == [pc : PCs, at : Nat,
            step : Steps \cup {None, "next", "serve", "signal", "locked"},
            who : Adapters \cup {None}, sig : BOOLEAN, hears : {"no", "pipes", "yes"},
            svc : Adapters \cup {"dongle", None}, note : BOOLEAN]
Identity == [host : Nat, saving : Nat, warm : {"cold", "reading", "ready"},
             cached : Nat, mem : Nat, bond : Nat, minted : Nat]

\* Everything stays in the ranges the code gives it.
TypeOK ==
    /\ order \in Seq(Adapters) /\ aborted \in BOOLEAN /\ cli \in Client
    /\ missed \in 0..MaxMissed /\ astray \in BOOLEAN
    /\ call \in [Callers -> Calling] /\ ident \in Identity
    /\ rounds \in 1..MaxRounds /\ faults \in 0..MaxFaults
    /\ slipped \in BOOLEAN /\ barred \in BOOLEAN

Alone(c) == \A d \in Callers \ {c} : call[d].pc = "idle"
KnownHid == setup.kind = "hid" /\ setup.vid # None

\* Over HID with a vendor id, whatever order the adapters registered in, the
\* adapter picked is the board's own, and it is found: no adapter asked before it
\* spoils the streams (registry.ts).  Exceptions: its probe met a missing or
\* foreign reply, or another caller's client; and a board that shares the Remappr
\* vendor id, which the Remappr probe, asked first, leaves with a dead transport.
OwnerWins ==
    KnownHid /\ ~astray =>
        \A c \in Callers :
            /\ call[c].pc \in {"picked", "conn", "service"} => call[c].who = Owner(setup.board)
            /\ call[c].pc = "null" /\ Alone(c) =>
                   setup.vid = "1209" /\ Owner(setup.board) # "remappr"

\* A caller gets the service that fits the board; a Vial board is served as VIA
\* only with a notice, a dongle is never handed out as a keyboard.  Exceptions: as
\* above, and HID without a vendor id, where registration order decides.
RightService ==
    \A c \in Callers :
        call[c].pc = "service" /\ ~astray /\ (setup.kind = "hid" => KnownHid) =>
            \/ call[c].svc = Fitting(setup.board)
            \/ setup.board = "mutedVial" /\ call[c].svc = "via" /\ call[c].note
            \/ setup.board = "vial" /\ call[c].svc = "via" /\ call[c].note /\ missed > 0

\* Once no call is running, the streams are free, or aborted, or held for a cached
\* probe or a service: a refused probe, a failed or aborted connect let go of them.
\* Exceptions: connects that fail in the service's create, and ZMK's second probe.
LocksReleased ==
    (\A c \in Callers : call[c].pc \notin {"pick", "conn"}) /\ cli.by # None /\ ~aborted =>
        \/ cli.user = "cache"
        \/ \E c \in Callers : cli.user = c
               /\ \/ call[c].pc = "service"
                  \/ call[c].pc = "failed"
                     /\ call[c].step \in {"v_keys", "l_keys", "k_keys", "z_info"}

\* A connect that is told to stop ends, and never with a service in use.
AbortEnds ==
    \A c \in Callers :
        (call[c].sig /\ call[c].pc \in {"picked", "conn"} /\ cli.user = c)
            ~> (call[c].pc \in {"failed", "idle"} /\ ~(cli.user = c /\ cli.open))

\* A board that bonded with this host knows it again after every restart, unless
\* the store failed, or lost a write to a restart, or a connect did not wait for
\* prepare (identity.ts).
BondKept == barred => slipped
=============================================================================
