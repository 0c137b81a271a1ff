----------------------------- MODULE QmkService -----------------------------
(***************************************************************************)
(* The keyboard service of the QMK family: clients/qmk/service.ts (VIA)    *)
(* and clients/qmk-vial/service.ts with unlock.ts and macros.ts (Vial).    *)
(* The service mirrors the keymap; every write goes to the keyboard at     *)
(* once.  An operation is a series of sends over the raw-HID client, which *)
(* lets one out at a time, and whatever runs between two of them runs      *)
(* beside the other operations.                                            *)
(*                                                                         *)
(* One layer stands for all of them.  A send carries one key, one encoder  *)
(* direction or one macro: it is a chunk of the keymap or macro buffer.    *)
(* Requests whose replies never change (macro count, buffer size) are one  *)
(* send, "size", at the place of the last of them.                         *)
(***************************************************************************)
EXTENDS Integers, Sequences, SequencesExt

CONSTANTS
    Ops,        \* operations, each called once
    Offers,     \* Offers[o]: the requests that o may be
    Families,   \* the services of the run, a subset of {"via", "vial"}
    Layouts,    \* Layouts[d]: keyboard definition d, its keys and encoders
    Cells,      \* the keys of the matrix, a sequence
    Macros,     \* the macros in the shared buffer, a sequence
    Actions,    \* what a slot may hold
    Boot,       \* the one guarded keycode, QK_BOOT
    Blank       \* what a reset writes, and what a refused QK_BOOT becomes

Dirs == {"cw", "ccw"}
Slots == ToSet(Cells) \cup Dirs \cup ToSet(Macros)

Requests ==
    [kind : {"setKey"}, pos : Nat \ {0}, val : Actions]
    \cup [kind : {"setEncoder"}, dir : Dirs, val : Actions]
    \cup [kind : {"setMacro"}, idx : ToSet(Macros), val : Actions]
    \cup [kind : {"applyLayout"}, def : DOMAIN Layouts]
    \cup [kind : {"unlock"}, abortable : BOOLEAN]
    \cup [kind : {"reset", "lock", "getLockState", "setCombo"}]

\* A keyboard has keys, and a service that writes macros has a buffer for them.
ASSUME SlotsAssumption ==
    /\ Cells \in Seq(ToSet(Cells)) /\ Cells # <<>>
    /\ Macros \in Seq(ToSet(Macros)) /\ Macros # <<>>
    /\ ToSet(Cells) \cap Dirs = {} /\ ToSet(Macros) \cap (ToSet(Cells) \cup Dirs) = {}
\* A cell may be drawn twice: the KLE parser keeps every variant of a layout option.
ASSUME LayoutsAssumption ==
    \A d \in DOMAIN Layouts :
        Layouts[d].keys \in Seq(ToSet(Cells)) /\ Layouts[d].encoder \in BOOLEAN
ASSUME ActionsAssumption == Blank \in Actions /\ "none" \notin Actions
ASSUME OffersAssumption ==
    /\ Families \subseteq {"via", "vial"}
    /\ \A o \in Ops : Offers[o] \subseteq Requests

VARIABLES
    family,     \* which of the two classes the service is
    closed,     \* closed
    def,        \* def, with rowColMap
    keys,       \* layers[0].keys, by position
    enc,        \* layers[0].encoders: the encoder's two actions, or NoEncoder
    lockState,  \* lockState ("locked" and never looked at on VIA)
    pending,    \* pendingChanges
    op,         \* op[o]: the request, the send it awaits and its locals
    line,       \* sends inside the HID client, the one on the wire first
    dev,        \* the keyboard: memory, lock, and what it did to guarded writes
    races       \* history: which kinds of operations have overlapped

mirror == <<def, keys, enc>>
vars == <<family, closed, mirror, lockState, pending, op, line, dev, races>>

NoEncoder == [cw |-> "none", ccw |-> "none"]
NoReq == [kind |-> "none"]
NoCmd == [c |-> "none"]
NoReply == [how |-> "none"]
NoMem == [s \in Slots |-> Blank]
Idle == [pc |-> "idle", req |-> NoReq, cmd |-> NoCmd, reply |-> NoReply,
         rest |-> <<>>, seen |-> NoMem, before |-> NoMem,
         def |-> "none", late |-> FALSE]

Writes == {"setKey", "setEncoder"}
Reloads == {"applyLayout", "reset"}
-----------------------------------------------------------------------------
(* What the operations read: a definition's cells, then its encoder.       *)

\* A VIA encoder takes a request for each direction.
Plan(d) ==
    [i \in DOMAIN Cells |-> {Cells[i]}]
    \o (IF ~Layouts[d].encoder THEN <<>>
        ELSE IF family = "via" THEN <<{"cw"}, {"ccw"}>> ELSE <<Dirs>>)
ReadCmd(slots) == [c |-> "read", slots |-> slots]
Seen(o) ==          \* what o has read, with the reply it has just got
    [s \in Slots |-> IF s \in op[o].cmd.slots THEN op[o].reply.mem[s] ELSE op[o].seen[s]]

KeysRead(d, seen) == [p \in DOMAIN Layouts[d].keys |-> seen[Layouts[d].keys[p]]]
EncRead(d, seen) ==
    IF Layouts[d].encoder THEN [cw |-> seen["cw"], ccw |-> seen["ccw"]]
                          ELSE NoEncoder

\* next[position] = v, on an array that may have become shorter meanwhile.
PutAt(s, p, v) ==
    [i \in 1..(IF p > Len(s) THEN p ELSE Len(s)) |->
        IF i = p THEN v ELSE IF i \in DOMAIN s THEN s[i] ELSE "hole"]

Init ==
    /\ family \in Families
    /\ def \in DOMAIN Layouts
    /\ closed = FALSE /\ pending = FALSE
    /\ dev \in [mem : {NoMem}, locked : BOOLEAN,
                inProgress : {FALSE}, skipped : {FALSE}]
    /\ family = "via" => ~dev.locked
    /\ lockState = IF dev.locked \/ family = "via" THEN "locked" ELSE "unlocked"
    /\ keys = KeysRead(def, dev.mem) /\ enc = EncRead(def, dev.mem)
    /\ op = [o \in Ops |-> Idle]
    /\ line = <<>> /\ races = {}

Busy(o) == op[o].pc \in {"send", "wait"}
BusyAt(kinds) == \E o \in Ops : Busy(o) /\ op[o].req.kind \in kinds
Quiet == \A o \in Ops : ~Busy(o)
Guarded(r) == family = "vial" /\ (r.kind = "setMacro" \/ (r.kind \in Writes /\ r.val = Boot))
-----------------------------------------------------------------------------
(* Beginning, continuing and ending an operation.                          *)

Send(o, r, cmd) ==      \* r: the operation's record, cmd: what it sends next
    /\ op' = [op EXCEPT ![o] = [r EXCEPT !.pc = "send", !.cmd = cmd, !.reply = NoReply]]
    /\ line' = Append(line, o)

End(o, how) ==
    op' = [op EXCEPT ![o] = [Idle EXCEPT !.pc = how, !.req = op[o].req]]

\* Sends are answered in order, so only what begins amid the other may miss it.
Crossed(r) ==
    (IF r.kind \in Writes \cup Reloads /\ BusyAt(Reloads) THEN {"reload"} ELSE {})
    \cup (IF (r.kind = "lock" /\ \E o \in Ops : Busy(o) /\ Guarded(op[o].req))
             \/ (Guarded(r) /\ BusyAt({"lock"})) THEN {"lock"} ELSE {})
    \cup (IF r.kind = "setMacro" /\ BusyAt({"setMacro"}) THEN {"macro"} ELSE {})

\* mutant: no guard
MayWriteUnguarded(r) == TRUE

\* requireUnlocked() and guardKeycode()
MayWrite(r) == Guarded(r) => lockState = "unlocked"

\* positionToCoord() and the encoder look-up, under the current definition
Known(r) ==
    /\ r.kind = "setKey" => r.pos \in DOMAIN Layouts[def].keys
    /\ r.kind = "setEncoder" => Layouts[def].encoder

\* The closed check of the methods that make one.
Usable(r) ==
    /\ r.kind \in Writes \cup {"applyLayout", "getLockState"} => ~closed
    /\ r.kind = "applyLayout" /\ family = "via" => ~pending

\* The first send of each method.
First(r) ==
    CASE r.kind = "setKey" -> [c |-> "write", slot |-> Layouts[def].keys[r.pos], val |-> r.val]
      [] r.kind = "setEncoder" -> [c |-> "write", slot |-> r.dir, val |-> r.val]
      [] r.kind = "applyLayout" -> ReadCmd(Head(Plan(r.def)))
      [] r.kind = "reset" -> [c |-> "reset"]
      [] r.kind \in {"unlock", "getLockState"} -> [c |-> "status"]
      [] r.kind = "lock" -> [c |-> "lock"]
      [] r.kind = "setMacro" -> [c |-> "size"]
      [] OTHER -> [c |-> "entry"]                 \* setCombo and its like

Locals(o, r) ==
    [op[o] EXCEPT !.req = r,
                  !.before = IF r.kind = "setMacro" THEN dev.mem ELSE @,   \* history
                  !.def = IF r.kind = "applyLayout" THEN r.def ELSE @,
                  !.rest = IF r.kind = "applyLayout" THEN Plan(r.def) ELSE <<>>]

Refused(o, r) ==
    /\ op' = [op EXCEPT ![o] = [@ EXCEPT !.req = r, !.pc = "refused"]]
    /\ UNCHANGED <<line, lockState, races>>

Begin(o) ==
    /\ op[o].pc = "idle"
    /\ \E r \in Offers[o] :
         /\ family = "via" => r.kind \in Writes \cup Reloads
         /\ IF ~Usable(r) \/ ~MayWrite(r) \/ ~Known(r)
              THEN Refused(o, r)
              ELSE /\ Send(o, Locals(o, r), First(r))
                   /\ lockState' = IF r.kind = "unlock" THEN "unlocking" ELSE lockState
                   /\ races' = races \cup Crossed(r)
    /\ UNCHANGED <<family, closed, mirror, pending, dev>>

\* commit() only clears the flag: every write is durable already.
Commit ==
    /\ pending /\ pending' = FALSE
    /\ UNCHANGED <<family, closed, mirror, lockState, op, line, dev, races>>
-----------------------------------------------------------------------------
(* A reply arrives, and the code after the await runs.                     *)

Answered(o, c) ==
    /\ Busy(o) /\ op[o].cmd.c = c /\ op[o].reply.how = "ok"

Unmoved == UNCHANGED <<family, closed, races, dev>>

\* What the layer holds now, read after the await, with the new action in it.
\* An encoder unknown to the layer gets the action in both directions.
Stored(r) ==
    IF r.kind = "setKey" THEN keys' = PutAt(keys, r.pos, r.val) /\ UNCHANGED enc
    ELSE /\ enc' = IF enc = NoEncoder THEN [d \in Dirs |-> r.val]
                                      ELSE [enc EXCEPT ![r.dir] = r.val]
         /\ UNCHANGED keys

\* setKey() and setEncoder(): the echo names the write, so it matches.
Written(o) ==
    /\ Answered(o, "write") /\ op[o].req.kind \in Writes
    /\ Stored(op[o].req) /\ End(o, "ok")
    /\ UNCHANGED <<line, def, lockState, pending>> /\ Unmoved

\* mutant: the encoders of the old definition stay
InstallKeysOnly(o, seen) ==
    LET d == op[o].def IN
    /\ keys' = KeysRead(d, seen) /\ UNCHANGED enc
    /\ IF op[o].req.kind = "applyLayout" THEN def' = d /\ UNCHANGED pending
                                         ELSE pending' = FALSE /\ UNCHANGED def
    /\ End(o, "ok") /\ UNCHANGED line

\* applyLayout() installs the layers with their definition, resetSettings() the
\* layers alone and clears the flag.
Install(o, seen) ==
    LET d == op[o].def IN
    /\ keys' = KeysRead(d, seen) /\ enc' = EncRead(d, seen)
    /\ IF op[o].req.kind = "applyLayout" THEN def' = d /\ UNCHANGED pending
                                         ELSE pending' = FALSE /\ UNCHANGED def
    /\ End(o, "ok") /\ UNCHANGED line

\* One chunk of the keymap, or one encoder direction, read into the new layers.
ChunkRead(o) ==
    /\ Answered(o, "read") /\ op[o].req.kind \in Reloads
    /\ LET rest == Tail(op[o].rest) IN
       IF rest = <<>> THEN Install(o, Seen(o))
       ELSE /\ Send(o, [op[o] EXCEPT !.seen = Seen(o), !.rest = rest],
                    ReadCmd(Head(rest)))
            /\ UNCHANGED <<mirror, pending>>
    /\ UNCHANGED lockState /\ Unmoved

\* resetSettings() reads back under the definition of the moment.
ResetDone(o) ==
    /\ Answered(o, "reset")
    /\ Send(o, [op[o] EXCEPT !.def = def, !.rest = Plan(def)], ReadCmd(Head(Plan(def))))
    /\ UNCHANGED <<mirror, lockState, pending>> /\ Unmoved

\* setCombo() and the like raise the flag; setTapDance() does not.
EntryWritten(o) ==
    /\ Answered(o, "entry")
    /\ pending' \in {pending, TRUE}
    /\ End(o, "ok")
    /\ UNCHANGED <<line, mirror, lockState>> /\ Unmoved
-----------------------------------------------------------------------------
(* setMacro(): the buffer is read whole, changed, and written back whole.  *)

MacroSized(o) ==
    /\ Answered(o, "size")
    /\ IF op[o].rest = <<>>        \* before the read; else before the write-back
         THEN Send(o, [op[o] EXCEPT !.rest = Macros], ReadCmd({Macros[1]}))
         ELSE Send(o, op[o], [c |-> "write", slot |-> Macros[1],
                              val |-> op[o].seen[Macros[1]]])
    /\ UNCHANGED <<mirror, lockState, pending>> /\ Unmoved

\* mutant: the macro replaces what was read at another index
MacrosWithFirst(o, seen) == [seen EXCEPT ![Macros[1]] = op[o].req.val]
MacrosWith(o, seen) == [seen EXCEPT ![op[o].req.idx] = op[o].req.val]

MacroRead(o) ==
    /\ Answered(o, "read") /\ op[o].req.kind = "setMacro"
    /\ LET rest == Tail(op[o].rest) IN
       IF rest = <<>>
         THEN Send(o, [op[o] EXCEPT !.seen = MacrosWith(o, Seen(o)), !.rest = Macros],
                   [c |-> "size"])
         ELSE Send(o, [op[o] EXCEPT !.seen = Seen(o), !.rest = rest],
                   ReadCmd({Head(rest)}))
    /\ UNCHANGED <<mirror, lockState, pending>> /\ Unmoved

MacroWritten(o) ==
    /\ Answered(o, "write") /\ op[o].req.kind = "setMacro"
    /\ LET rest == Tail(op[o].rest)
       IN IF rest = <<>> THEN End(o, "ok") /\ pending' = TRUE /\ UNCHANGED line
          ELSE /\ Send(o, [op[o] EXCEPT !.rest = rest],
                       [c |-> "write", slot |-> Head(rest), val |-> op[o].seen[Head(rest)]])
               /\ UNCHANGED pending
    /\ UNCHANGED <<mirror, lockState>> /\ Unmoved
-----------------------------------------------------------------------------
(* The lock: lock(), getLockState() and the unlock flow.                   *)

\* mutant: the cached state is not told
LockedSilently(o) ==
    /\ Answered(o, "lock") /\ End(o, "ok")
    /\ UNCHANGED <<line, mirror, lockState, pending>> /\ Unmoved

Locked(o) ==
    /\ Answered(o, "lock")
    /\ lockState' = "locked" /\ End(o, "ok")
    /\ UNCHANGED <<line, mirror, pending>> /\ Unmoved

StatusOf(reply) ==
    IF reply.inProgress THEN "unlocking" ELSE IF reply.locked THEN "locked"
                                                              ELSE "unlocked"

LockStateRead(o) ==
    /\ Answered(o, "status") /\ op[o].req.kind = "getLockState"
    /\ lockState' = StatusOf(op[o].reply) /\ End(o, "ok")
    /\ UNCHANGED <<line, mirror, pending>> /\ Unmoved

Unlocked(o) == lockState' = "unlocked" /\ End(o, "ok") /\ UNCHANGED line
UnlockFails(o) == lockState' = "locked" /\ End(o, "failed") /\ UNCHANGED line

\* mutant: the loop has no deadline
PollOnForever(o) ==
    \/ /\ Send(o, op[o], [c |-> "poll"]) /\ UNCHANGED lockState
    \/ /\ op[o].req.abortable
       /\ UnlockFails(o)

\* The top of the poll loop: aborted, past the deadline, or another poll.
PollOn(o) ==
    \/ /\ ~op[o].late
       /\ Send(o, op[o], [c |-> "poll"]) /\ UNCHANGED lockState
    \/ /\ op[o].late \/ op[o].req.abortable
       /\ UnlockFails(o)

UnlockBegun(o) ==
    /\ Answered(o, "status") /\ op[o].req.kind = "unlock"
    /\ IF ~op[o].reply.locked /\ ~op[o].reply.inProgress THEN Unlocked(o)
       ELSE IF op[o].reply.inProgress THEN PollOn(o)
       ELSE Send(o, op[o], [c |-> "start"]) /\ UNCHANGED lockState
    /\ UNCHANGED <<mirror, pending>> /\ Unmoved

UnlockStarted(o) ==
    /\ Answered(o, "start") /\ PollOn(o)
    /\ UNCHANGED <<mirror, pending>> /\ Unmoved

Polled(o) ==
    /\ Answered(o, "poll") /\ op[o].pc = "send"
    /\ IF ~op[o].reply.locked THEN Unlocked(o)
       ELSE /\ op' = [op EXCEPT ![o].pc = "wait"]
            /\ UNCHANGED <<line, lockState>>
    /\ UNCHANGED <<mirror, pending>> /\ Unmoved

PollAgain(o) ==
    /\ op[o].pc = "wait" /\ PollOn(o)
    /\ UNCHANGED <<mirror, pending>> /\ Unmoved

\* timeoutMs have passed since the flow began.
Deadline(o) ==
    /\ Busy(o) /\ op[o].req.kind = "unlock" /\ ~op[o].late
    /\ op' = [op EXCEPT ![o].late = TRUE]
    /\ UNCHANGED <<family, closed, mirror, lockState, pending, line, dev, races>>
-----------------------------------------------------------------------------
\* A send failed: the operation ends where it stands.
SendFailed(o) ==
    /\ Busy(o) /\ op[o].reply.how = "error"
    /\ IF op[o].req.kind = "unlock" THEN UnlockFails(o)
       ELSE End(o, "failed") /\ UNCHANGED <<line, lockState>>
    /\ UNCHANGED <<mirror, pending>> /\ Unmoved

\* disconnect(), or the transport closes by itself.
ClientCloses ==
    /\ ~closed /\ closed' = TRUE
    /\ UNCHANGED <<family, mirror, lockState, pending, op, line, dev, races>>
-----------------------------------------------------------------------------
(* The channel and the keyboard (external).  A send is answered or fails;  *)
(* one that fails may have been carried out.  A locked Vial keyboard       *)
(* replies to the writes it guards and does not make them.                 *)

Refuses(o) == dev.locked /\ Guarded(op[o].req) /\ op[o].cmd.c = "write"

After(o) ==
    LET cmd == op[o].cmd IN
    CASE cmd.c = "write" /\ Refuses(o) ->
            {[dev EXCEPT !.skipped = TRUE,
                         !.mem = IF cmd.slot \in ToSet(Macros) THEN @
                                 ELSE [@ EXCEPT ![cmd.slot] = Blank]]}
      [] cmd.c = "write" /\ ~Refuses(o) -> {[dev EXCEPT !.mem[cmd.slot] = cmd.val]}
      [] cmd.c = "reset" ->
            {[dev EXCEPT !.mem = [s \in Slots |-> IF s \in ToSet(Macros) THEN @[s] ELSE Blank]]}
      [] cmd.c = "start" -> {[dev EXCEPT !.inProgress = TRUE]}
      [] cmd.c = "lock" -> {[dev EXCEPT !.locked = TRUE, !.inProgress = FALSE]}
      [] cmd.c = "poll" ->
            {dev} \cup (IF dev.inProgress      \* the keys have been held
                        THEN {[dev EXCEPT !.locked = FALSE, !.inProgress = FALSE]} ELSE {})
      [] OTHER -> {dev}

ReplyTo(o, d) ==
    CASE op[o].cmd.c = "read" -> [how |-> "ok", mem |-> [s \in op[o].cmd.slots |-> d.mem[s]]]
      [] op[o].cmd.c \in {"status", "poll"} ->
            [how |-> "ok", locked |-> d.locked, inProgress |-> d.inProgress]
      [] OTHER -> [how |-> "ok"]

OnWire(o) == line # <<>> /\ Head(line) = o

Channel(o) ==
    /\ OnWire(o)
    /\ line' = Tail(line)
    /\ \/ /\ ~closed /\ dev' \in After(o)
          /\ op' = [op EXCEPT ![o].reply = ReplyTo(o, dev')]
       \/ /\ dev' \in {dev} \cup After(o)
          /\ op' = [op EXCEPT ![o].reply = [how |-> "error"]]
    /\ UNCHANGED <<family, closed, mirror, lockState, pending, races>>
-----------------------------------------------------------------------------
\* The continuation of a promise that has settled.
Continue(o) ==
    \/ Written(o) \/ ChunkRead(o) \/ ResetDone(o) \/ EntryWritten(o)
    \/ MacroSized(o) \/ MacroRead(o) \/ MacroWritten(o)
    \/ Locked(o) \/ LockStateRead(o)
    \/ UnlockBegun(o) \/ UnlockStarted(o) \/ Polled(o)
    \/ SendFailed(o)

\* It runs before the channel's next frame and before any new call.
Settled == \E o \in Ops : Busy(o) /\ op[o].pc = "send" /\ op[o].reply.how # "none"

Next ==
    \/ \E o \in Ops : Continue(o)
    \/ ~Settled /\ \E o \in Ops :
          Begin(o) \/ Channel(o) \/ PollAgain(o)
    \/ \E o \in Ops : Deadline(o)
    \/ ~Settled /\ (Commit \/ ClientCloses)

Spec == Init /\ [][Next]_vars

\* Sends settle (RawHidClient!AllSettle), timers fire, continuations run: the
\* event loop does one of them while there is any, and time passes.
Progress(o) == Continue(o) \/ (~Settled /\ (Channel(o) \/ PollAgain(o)))
FairSpec ==
    /\ Spec
    /\ WF_vars(\E o \in Ops : Progress(o))
    /\ WF_vars(\E o \in Ops : Deadline(o))
-----------------------------------------------------------------------------
\* Every variable has its type, and an operation is in line while it awaits a
\* reply that has not come, and then once.
TypeOK ==
    /\ family \in Families /\ closed \in BOOLEAN /\ pending \in BOOLEAN
    /\ def \in DOMAIN Layouts
    /\ keys \in Seq(Actions \cup {"hole"}) /\ enc \in [Dirs -> Actions \cup {"none"}]
    /\ lockState \in {"locked", "unlocking", "unlocked"}
    /\ line \in Seq(Ops) /\ IsInjective(line)
    /\ \A o \in Ops :
        /\ op[o].pc \in {"idle", "send", "wait", "ok", "failed", "refused"}
        /\ op[o].req \in Requests \cup {NoReq}
        /\ op[o].seen \in [Slots -> Actions] /\ op[o].before \in [Slots -> Actions]
        /\ op[o].def \in DOMAIN Layouts \cup {"none"} /\ op[o].late \in BOOLEAN
        /\ o \in ToSet(line) <=> op[o].pc = "send" /\ op[o].reply = NoReply
    /\ dev \in [mem : [Slots -> Actions], locked : BOOLEAN,
                inProgress : BOOLEAN, skipped : BOOLEAN]
    /\ races \subseteq {"reload", "lock", "macro"}

Failed(kinds) == \E o \in Ops : op[o].pc = "failed" /\ op[o].req.kind \in kinds

\* A cell is shown as it is by a key of its own.  (Where a definition draws it
\* twice, setKey() puts its action at one of the two.)
Shown(cell) ==
    \E p \in DOMAIN keys : Layouts[def].keys[p] = cell /\ keys[p] = dev.mem[cell]

\* The mirror is the keyboard's keymap, under the definition in force, when
\* nothing is in flight: though each operation updates it from its own reply,
\* after an await, and a new definition replaces it whole.  What the code leaves
\* open: a write or a reset that failed may have been carried out, a write that
\* began in the middle of a reload (or a reload in the middle of another) is lost
\* to the reload or stored at a position of the old definition, and a keyboard
\* that locked after the guard skips the write and echoes it.
MirrorTrue ==
    Quiet /\ "reload" \notin races /\ ~dev.skipped /\ ~Failed(Writes \cup {"reset"}) =>
        /\ DOMAIN keys = DOMAIN Layouts[def].keys
        /\ \A cell \in ToSet(Layouts[def].keys) : Shown(cell)
        /\ enc = EncRead(def, dev.mem)

\* lockState says "unlocked" of an unlocked keyboard: the guards read it instead
\* of asking.  Until a lock() in flight has been answered it lags, and one that
\* was carried out but failed leaves it wrong.
LockHonest ==
    lockState = "unlocked" /\ family = "vial" /\ ~BusyAt({"lock"}) /\ ~Failed({"lock"}) =>
        ~dev.locked

\* vial.c skips guarded writes silently while locked; the service asks first "so
\* the caller gets LockedError instead of a write that 'succeeded' without
\* landing".  It does, unless a lock() was called beside the write or has failed.
GuardedLands == dev.skipped => "lock" \in races \/ Failed({"lock"})

\* A macro write that reports success changed its own macro and no other: the
\* buffer is shared, and goes back as it was read (macros.ts writeMacro).  There are
\* two exceptions.  Of two macro writes at once the later write-back undoes the
\* other.  And where the keyboard, locked meanwhile, has skipped a guarded write
\* (dev.skipped: a lock() beside the write or one that failed, see GuardedLands), the
\* rest of the buffer does not land and success is reported all the same.
MacroLands ==
    [][\A o \in Ops :
        op[o].req.kind = "setMacro" /\ Busy(o) /\ op'[o].pc = "ok"
        /\ "macro" \notin races /\ ~dev.skipped =>
            \A s \in ToSet(Macros) :
                dev.mem[s] = IF s = op[o].req.idx THEN op[o].req.val
                                                  ELSE op[o].before[s]]_vars

\* Every operation ends: in particular the unlock flow, whose loop has no other
\* bound than its deadline, ends though nobody holds the keys.  (An operation is
\* called once, so all of them are over in the end.)
OpsEnd == ~Quiet ~> Quiet
=============================================================================
