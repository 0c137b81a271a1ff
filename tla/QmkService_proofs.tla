------------------------- MODULE QmkService_proofs -------------------------
(***************************************************************************)
(* Proofs about QmkService, for any number of operations, any definitions, *)
(* cells and macros, on a VIA or a Vial keyboard.                          *)
(***************************************************************************)
EXTENDS QmkService, LineLemmas, TLAPS

Commands ==
    [c : {"write"}, slot : Slots, val : Actions]
    \cup [c : {"read"}, slots : SUBSET Slots]
    \cup [c : {"none", "reset", "size", "entry", "status", "start", "poll", "lock"}]
Replies ==
    [how : {"none", "ok", "error"}]
    \cup [how : {"ok"}, mem : UNION {[S -> Actions] : S \in SUBSET Slots}]
    \cup [how : {"ok"}, locked : BOOLEAN, inProgress : BOOLEAN]
Operation ==
    [pc : {"idle", "send", "wait", "ok", "failed", "refused"},
     req : Requests \cup {NoReq}, cmd : Commands, reply : Replies,
     rest : Seq(Slots \cup SUBSET Slots),
     seen : [Slots -> Actions], before : [Slots -> Actions],
     def : DOMAIN Layouts \cup {"none"}, late : BOOLEAN]
Keyboard == [mem : [Slots -> Actions], locked : BOOLEAN,
             inProgress : BOOLEAN, skipped : BOOLEAN]

Plain ==
    /\ family \in Families /\ closed \in BOOLEAN /\ pending \in BOOLEAN
    /\ def \in DOMAIN Layouts
    /\ keys \in Seq(Actions \cup {"hole"}) /\ enc \in [Dirs -> Actions \cup {"none"}]
    /\ lockState \in {"locked", "unlocking", "unlocked"}
    /\ races \subseteq {"reload", "lock", "macro"}
Types == Plain /\ op \in [Ops -> Operation] /\ dev \in Keyboard

\* In line while the reply is out; ready once it has come.
Out(o) == op[o].pc = "send" /\ op[o].reply.how = "none"
Ready(o) == op[o].pc = "send" /\ op[o].reply.how # "none"

Lined ==
    /\ line \in Seq(Ops) /\ NoRepeat(line)
    /\ \A o \in Ops : On(line, o) <=> Out(o)
    /\ \A o, p \in Ops : Ready(o) /\ Ready(p) => o = p

\* What an operation may be waiting for, by its kind.
Reading(o) ==
    /\ op[o].rest \in Seq(SUBSET Slots) /\ op[o].rest # <<>>
    /\ op[o].cmd = ReadCmd(Head(op[o].rest)) /\ op[o].def \in DOMAIN Layouts
MacroPhase(o) ==
    \/ op[o].cmd.c = "size" /\ op[o].rest \in {<<>>, Macros}
    \/ /\ op[o].rest \in Seq(ToSet(Macros)) /\ op[o].rest # <<>>
       /\ \/ op[o].cmd = ReadCmd({Head(op[o].rest)})
          \/ op[o].cmd = [c |-> "write", slot |-> Head(op[o].rest),
                          val |-> op[o].seen[Head(op[o].rest)]]
Scripted(o) ==
    LET r == op[o].req IN
    /\ op[o].pc = "idle" => r = NoReq
    /\ op[o].pc # "idle" => r \in Requests
    /\ op[o].pc = "wait" => r.kind = "unlock" /\ op[o].cmd.c = "poll"
                            /\ op[o].reply.how = "ok"
    /\ op[o].pc = "send" =>
         /\ op[o].cmd.c # "none"
         /\ r.kind = "setKey" => /\ op[o].cmd.c = "write" /\ op[o].cmd.val = r.val
                                 /\ op[o].cmd.slot \in ToSet(Cells)
         /\ r.kind = "setEncoder" =>
              op[o].cmd = [c |-> "write", slot |-> r.dir, val |-> r.val]
         /\ r.kind = "applyLayout" => Reading(o) /\ op[o].def = r.def
         /\ r.kind = "reset" => op[o].cmd.c = "reset" \/ Reading(o)
         /\ r.kind = "setMacro" => MacroPhase(o)
         /\ r.kind = "unlock" => op[o].cmd.c \in {"status", "start", "poll"}
         /\ r.kind = "lock" => op[o].cmd.c = "lock"
         /\ r.kind = "getLockState" => op[o].cmd.c = "status"
         /\ r.kind = "setCombo" => op[o].cmd.c = "entry"

\* A reply that has come says what the keyboard holds: nothing else has moved since.
Current(o) ==
    Ready(o) /\ op[o].reply.how = "ok" =>
        /\ op[o].cmd.c = "read" =>
             op[o].reply.mem = [s \in op[o].cmd.slots |-> dev.mem[s]]
        /\ op[o].cmd.c \in {"status", "poll"} =>
             op[o].reply.locked = dev.locked /\ op[o].reply.inProgress = dev.inProgress

Base == Types /\ Lined /\ \A o \in Ops : Scripted(o) /\ Current(o)

\* Guarded writes under way know the keyboard to be unlocked, and no lock() is.
LockClean == "lock" \notin races /\ ~Failed({"lock"})
Guarding ==
    LockClean => \A o \in Ops : Busy(o) /\ Guarded(op[o].req) =>
                    ~dev.locked /\ ~BusyAt({"lock"})

\* A macro write has read the buffer as it was when it began, and has written back
\* what it does not hold in rest any more.
MacroWrite(o) == Busy(o) /\ op[o].req.kind = "setMacro"
Aim(o, m) == IF m = op[o].req.idx THEN op[o].req.val ELSE op[o].before[m]
Passed(o, m) == ~On(op[o].rest, m)
Buffered(o) ==
    \A m \in ToSet(Macros) :
        /\ op[o].cmd.c # "write" => dev.mem[m] = op[o].before[m]
        /\ op[o].cmd.c = "read" /\ Passed(o, m) => op[o].seen[m] = op[o].before[m]
        /\ op[o].cmd.c = "write" \/ (op[o].cmd.c = "size" /\ op[o].rest # <<>>) =>
              op[o].seen[m] = Aim(o, m)
        /\ op[o].cmd.c = "write" /\ (Passed(o, m) \/ (Ready(o) /\ op[o].cmd.slot = m)) =>
              dev.mem[m] = Aim(o, m)
MacroOnce ==
    "macro" \notin races =>
        /\ \A o, p \in Ops : MacroWrite(o) /\ MacroWrite(p) => o = p
        /\ ~dev.skipped => \A o \in Ops :
              MacroWrite(o) /\ op[o].reply.how # "error" => Buffered(o)

\* One reload at a time, and the writes beside it are those that were in line before
\* it, to be carried out before it reads anything.
Reload(o) == Busy(o) /\ op[o].req.kind \in Reloads
Write(o) == Busy(o) /\ op[o].req.kind \in Writes
Wanted(d) == ToSet(Layouts[d].keys) \cup (IF Layouts[d].encoder THEN Dirs ELSE {})
Unread(o, s) == \E i \in DOMAIN op[o].rest : s \in op[o].rest[i]
Reloading ==
    "reload" \notin races => \A o \in Ops : Reload(o) =>
        /\ \A p \in Ops : Reload(p) => o = p
        /\ \A p \in Ops : Write(p) =>
              /\ Out(o) /\ (Out(p) => Before(line, p, o))
              /\ op[o].cmd.c = "read" => \A s \in Wanted(op[o].def) : Unread(o, s)
        /\ op[o].cmd.c = "read" =>
              /\ op[o].req.kind = "reset" => op[o].def = def
              /\ \A s \in Wanted(op[o].def) : Unread(o, s) \/ op[o].seen[s] = dev.mem[s]

\* A write in progress was checked under the definition in force.
Placed ==
    "reload" \notin races => \A o \in Ops : Write(o) =>
        /\ op[o].req.kind = "setKey" =>
              /\ op[o].req.pos \in DOMAIN Layouts[def].keys
              /\ Layouts[def].keys[op[o].req.pos] = op[o].cmd.slot
        /\ op[o].req.kind = "setEncoder" => Layouts[def].encoder
Echoed ==
    ~dev.skipped => \A o \in Ops : Write(o) /\ Ready(o) /\ op[o].reply.how = "ok" =>
        dev.mem[op[o].cmd.slot] = op[o].cmd.val

\* The mirror shows every slot, but one whose echo has come and is not handled yet.
Lost == \E o \in Ops : /\ op[o].req.kind \in Writes \cup {"reset"}
                       /\ op[o].pc = "failed" \/ (Ready(o) /\ op[o].reply.how = "error")
Erased == \E o \in Ops : Busy(o) /\ op[o].req.kind = "reset"
                         /\ (op[o].cmd.c = "read" \/ Ready(o))
Due(s) == \E o \in Ops : Write(o) /\ Ready(o) /\ op[o].cmd.slot = s
Mirrored ==
    "reload" \notin races /\ ~dev.skipped /\ ~Lost /\ ~Erased =>
        /\ DOMAIN keys = DOMAIN Layouts[def].keys
        /\ \A cell \in ToSet(Layouts[def].keys) : Shown(cell) \/ Due(cell)
        /\ Layouts[def].encoder => \A d \in Dirs : enc[d] = dev.mem[d] \/ Due(d)
        /\ ~Layouts[def].encoder => enc = NoEncoder

LockInv == Base /\ LockHonest /\ Guarding /\ GuardedLands
MirrorInv == Base /\ Reloading /\ Placed /\ Echoed /\ Mirrored
MacroInv == Base /\ MacroOnce

-----------------------------------------------------------------------------
(* What is read, and from where.                                           *)

LEMMA SlotKinds ==
    /\ ToSet(Cells) \subseteq Slots /\ Dirs \subseteq Slots /\ ToSet(Macros) \subseteq Slots
    /\ NoMem \in [Slots -> Actions] /\ Idle \in Operation
  <1>1. ToSet(Cells) \subseteq Slots /\ Dirs \subseteq Slots /\ ToSet(Macros) \subseteq Slots
    BY DEF Slots
  <1>2. NoMem \in [Slots -> Actions]
    BY ActionsAssumption DEF NoMem
  <1>3. NoCmd \in Commands /\ NoReply \in Replies /\ <<>> \in Seq(Slots \cup SUBSET Slots)
    BY DEF NoCmd, NoReply, Commands, Replies
  <1> QED BY <1>1, <1>2, <1>3 DEF Idle, Operation

LEMMA PlanProperties ==
    ASSUME NEW d \in DOMAIN Layouts
    PROVE  /\ Plan(d) \in Seq(SUBSET Slots) /\ Plan(d) # <<>>
           /\ Head(Plan(d)) \in SUBSET Slots
           /\ \A s \in Wanted(d) : \E i \in DOMAIN Plan(d) : s \in Plan(d)[i]
  <1> DEFINE cells == [i \in DOMAIN Cells |-> {Cells[i]}]
             rest == IF ~Layouts[d].encoder THEN <<>>
                     ELSE IF family = "via" THEN <<{"cw"}, {"ccw"}>> ELSE <<Dirs>>
  <1>1. PICK n \in Nat : n = Len(Cells) /\ n >= 1 /\ DOMAIN Cells = 1..n
    BY SlotsAssumption
  <1>2. cells \in Seq(SUBSET Slots) /\ Len(cells) = n /\ DOMAIN cells = 1..n
        /\ \A i \in 1..n : cells[i] = {Cells[i]}
    <2>1. \A i \in 1..n : {Cells[i]} \in SUBSET Slots
      BY <1>1, SlotsAssumption, SlotKinds DEF ToSet
    <2> QED BY <1>1, <2>1
  <1>3. rest \in Seq(SUBSET Slots) /\ (Layouts[d].encoder => \A s \in Dirs : \E i \in DOMAIN rest : s \in rest[i])
    <2>1. CASE ~Layouts[d].encoder
      BY <2>1
    <2>2. CASE Layouts[d].encoder /\ family = "via"
      <3>1. rest = <<{"cw"}, {"ccw"}>>
        BY <2>2
      <3>2. {"cw"} \in SUBSET Slots /\ {"ccw"} \in SUBSET Slots
        BY SlotKinds DEF Dirs
      <3> HIDE DEF rest
      <3>3. rest \in Seq(SUBSET Slots)
        BY <3>1, <3>2
      <3>4. 1 \in DOMAIN rest /\ 2 \in DOMAIN rest /\ rest[1] = {"cw"} /\ rest[2] = {"ccw"}
        BY <3>1
      <3> QED BY <3>3, <3>4 DEF Dirs
    <2>3. CASE Layouts[d].encoder /\ family # "via"
      <3>1. rest = <<Dirs>>
        BY <2>3
      <3>2. rest \in Seq(SUBSET Slots) /\ DOMAIN rest = 1..1 /\ rest[1] = Dirs
        BY <3>1, SlotKinds
      <3> QED BY <3>2
    <2> QED BY <2>1, <2>2, <2>3
  <1>4. Plan(d) = cells \o rest
    BY DEF Plan
  <1> HIDE DEF cells, rest
  <1>5. PICK m \in Nat : m = Len(rest) /\ DOMAIN rest = 1..m
    BY <1>3
  <1>6. /\ Plan(d) \in Seq(SUBSET Slots) /\ DOMAIN Plan(d) = 1..n + m
        /\ \A i \in 1..n + m : Plan(d)[i] = IF i <= n THEN cells[i] ELSE rest[i - n]
    <2>1. PICK a, b, S : a = cells /\ b = rest /\ S = SUBSET Slots
      OBVIOUS
    <2>2. a \in Seq(S) /\ b \in Seq(S) /\ Len(a) = n /\ Len(b) = m
      BY <1>2, <1>3, <1>5, <2>1
    <2>3. /\ a \o b \in Seq(S) /\ DOMAIN (a \o b) = 1..n + m
          /\ \A i \in 1..n + m : (a \o b)[i] = IF i <= n THEN a[i] ELSE b[i - n]
      BY <2>2
    <2> QED BY <2>1, <2>3, <1>4
  <1>7. ASSUME NEW s \in Wanted(d) PROVE \E i \in DOMAIN Plan(d) : s \in Plan(d)[i]
    <2>1. CASE s \in ToSet(Layouts[d].keys)
      <3>1. s \in ToSet(Cells)
        <4>1. PICK p \in DOMAIN Layouts[d].keys : s = Layouts[d].keys[p]
          BY <2>1 DEF ToSet
        <4>2. Layouts[d].keys \in Seq(ToSet(Cells))
          BY LayoutsAssumption
        <4> QED BY <4>1, <4>2
      <3>2. PICK i \in 1..n : s = Cells[i]
        BY <3>1, <1>1 DEF ToSet
      <3>3. i \in 1..n + m /\ Plan(d)[i] = {Cells[i]}
        BY <1>2, <1>6
      <3> QED BY <3>2, <3>3, <1>6
    <2>2. CASE Layouts[d].encoder /\ s \in Dirs
      <3>1. PICK i \in 1..m : s \in rest[i]
        BY <2>2, <1>3, <1>5
      <3>2. i + n \in 1..n + m /\ ~(i + n <= n) /\ i + n - n = i
        BY <1>1
      <3>3. Plan(d)[i + n] = rest[i]
        BY <3>2, <1>6
      <3> QED BY <3>1, <3>2, <3>3, <1>6
    <2> QED BY <1>7, <2>1, <2>2 DEF Wanted
  <1>8. Plan(d) # <<>> /\ Head(Plan(d)) \in SUBSET Slots
    BY <1>6, <1>1
  <1> QED BY <1>6, <1>7, <1>8

LEMMA ReadMirror ==
    ASSUME NEW d \in DOMAIN Layouts, NEW seen \in [Slots -> Actions]
    PROVE  /\ KeysRead(d, seen) \in Seq(Actions)
           /\ DOMAIN KeysRead(d, seen) = DOMAIN Layouts[d].keys
           /\ \A p \in DOMAIN Layouts[d].keys : KeysRead(d, seen)[p] = seen[Layouts[d].keys[p]]
           /\ EncRead(d, seen) \in [Dirs -> Actions \cup {"none"}]
           /\ Layouts[d].encoder => /\ EncRead(d, seen) \in [Dirs -> Actions]
                                    /\ \A s \in Dirs : EncRead(d, seen)[s] = seen[s]
           /\ ~Layouts[d].encoder => EncRead(d, seen) = NoEncoder
  <1>1. PICK n \in Nat : DOMAIN Layouts[d].keys = 1..n
    BY LayoutsAssumption
  <1>2. \A p \in 1..n : Layouts[d].keys[p] \in Slots
    BY <1>1, LayoutsAssumption, SlotKinds
  <1>3. /\ KeysRead(d, seen) \in Seq(Actions)
        /\ DOMAIN KeysRead(d, seen) = DOMAIN Layouts[d].keys
        /\ \A p \in DOMAIN Layouts[d].keys : KeysRead(d, seen)[p] = seen[Layouts[d].keys[p]]
    BY <1>1, <1>2 DEF KeysRead
  <1>4. [cw |-> seen["cw"], ccw |-> seen["ccw"]] \in [Dirs -> Actions]
    BY SlotKinds DEF Dirs
  <1>5. NoEncoder \in [Dirs -> Actions \cup {"none"}]
    BY DEF NoEncoder, Dirs
  <1> QED BY <1>3, <1>4, <1>5 DEF EncRead, Dirs

LEMMA PutActions ==
    ASSUME NEW s \in Seq(Actions \cup {"hole"}), NEW p \in Nat \ {0}, NEW v \in Actions
    PROVE  /\ PutAt(s, p, v) \in Seq(Actions \cup {"hole"})
           /\ p \in DOMAIN s => /\ DOMAIN PutAt(s, p, v) = DOMAIN s
                                /\ \A i \in DOMAIN s :
                                     PutAt(s, p, v)[i] = IF i = p THEN v ELSE s[i]
  <1>1. PICK n \in Nat : n = Len(s) /\ DOMAIN s = 1..n /\ \A i \in 1..n : s[i] \in Actions \cup {"hole"}
    OBVIOUS
  <1>2. PICK k \in Nat : k = IF p > n THEN p ELSE n
    BY <1>1
  <1>3. \A i \in 1..k : (IF i = p THEN v ELSE IF i \in DOMAIN s THEN s[i] ELSE "hole") \in Actions \cup {"hole"}
    BY <1>1
  <1>4. PutAt(s, p, v) = [i \in 1..k |-> IF i = p THEN v ELSE IF i \in DOMAIN s THEN s[i] ELSE "hole"]
    BY <1>1, <1>2 DEF PutAt
  <1>5. PutAt(s, p, v) \in Seq(Actions \cup {"hole"})
    BY <1>3, <1>4
  <1>6. p \in DOMAIN s => k = n
    BY <1>1, <1>2
  <1> QED BY <1>1, <1>4, <1>5, <1>6

-----------------------------------------------------------------------------
(* What beginning, continuing and ending an operation do to its record and *)
(* to the line.                                                            *)

Others(o) == \A p \in Ops \ {o} : op'[p] = op[p]
Sent(o) ==
    /\ op' \in [Ops -> Operation] /\ Others(o)
    /\ op'[o].pc = "send" /\ op'[o].reply = NoReply
    /\ line' \in Seq(Ops) /\ NoRepeat(line')
    /\ \A x : On(line', x) <=> On(line, x) \/ x = o
    /\ \A x, y : y # o => (Before(line', x, y) <=> Before(line, x, y))
    /\ \A x : On(line, x) => Before(line', x, o)
Ended(o, how) ==
    /\ op' \in [Ops -> Operation] /\ Others(o) /\ line' = line
    /\ op'[o] = [Idle EXCEPT !.pc = how, !.req = op[o].req]
    /\ op'[o].pc = how /\ op'[o].req = op[o].req /\ op'[o].reply = NoReply

LEMMA Sends ==
    ASSUME Types, Lined, NEW o \in Ops, ~Out(o),
           NEW r \in Operation, NEW cmd \in Commands, Send(o, r, cmd)
    PROVE  /\ Sent(o)
           /\ op'[o].cmd = cmd /\ op'[o].req = r.req /\ op'[o].rest = r.rest
           /\ op'[o].seen = r.seen /\ op'[o].before = r.before
           /\ op'[o].def = r.def /\ op'[o].late = r.late
  <1>1. PICK n : n = [r EXCEPT !.pc = "send", !.cmd = cmd, !.reply = NoReply]
    OBVIOUS
  <1>2. NoReply \in Replies
    BY DEF NoReply, Replies
  <1>3. /\ n \in Operation /\ n.pc = "send" /\ n.cmd = cmd /\ n.reply = NoReply
        /\ n.req = r.req /\ n.rest = r.rest /\ n.seen = r.seen /\ n.before = r.before
        /\ n.def = r.def /\ n.late = r.late
    BY <1>1, <1>2 DEF Operation
  <1>4. op \in [Ops -> Operation] /\ op' = [op EXCEPT ![o] = n]
    BY <1>1 DEF Send, Types
  <1>5. op' \in [Ops -> Operation] /\ op'[o] = n /\ Others(o)
    BY <1>3, <1>4 DEF Others
  <1>6. line \in Seq(Ops) /\ NoRepeat(line) /\ ~On(line, o) /\ line' = Append(line, o)
    BY DEF Lined, Send
  <1>7. /\ line' \in Seq(Ops) /\ NoRepeat(line')
        /\ \A x : On(line', x) <=> On(line, x) \/ x = o
    BY <1>6, AppendedToLine
  <1>8. \A x, y : y # o => (Before(line', x, y) <=> Before(line, x, y))
    BY <1>6, BeforeAppend
  <1>9. ASSUME NEW x, On(line, x) PROVE Before(line', x, o)
    <2>1. PICK n1 \in Nat : Len(line) = n1 /\ DOMAIN line = 1..n1
      BY <1>6
    <2>2. PICK i \in 1..n1 : line[i] = x
      BY <1>9, <2>1 DEF On
    <2>3. DOMAIN line' = 1..n1 + 1 /\ line'[i] = x /\ line'[n1 + 1] = o
      BY <1>6, <2>1, <2>2
    <2>4. i \in 1..n1 + 1 /\ n1 + 1 \in 1..n1 + 1 /\ i < n1 + 1
      OBVIOUS
    <2> QED BY <2>3, <2>4 DEF Before
  <1>10. Sent(o)
    BY <1>3, <1>5, <1>7, <1>8, <1>9 DEF Sent
  <1> QED BY <1>3, <1>5, <1>10

LEMMA Ends ==
    ASSUME Types, NEW o \in Ops, NEW how \in {"ok", "failed"}, End(o, how), line' = line
    PROVE  Ended(o, how)
  <1>1. PICK n : n = [Idle EXCEPT !.pc = how, !.req = op[o].req]
    OBVIOUS
  <1>2. op[o].req \in Requests \cup {NoReq} /\ op \in [Ops -> Operation]
    BY DEF Types, Operation
  <1>3. n \in Operation /\ n.pc = how /\ n.req = op[o].req /\ n.reply = NoReply
    BY <1>1, <1>2, SlotKinds DEF Operation, Idle
  <1>4. op' = [op EXCEPT ![o] = n]
    BY <1>1 DEF End
  <1> QED BY <1>1, <1>2, <1>3, <1>4 DEF Ended, Others

LEMMA BaseSent ==
    ASSUME Base, NEW o \in Ops, ~Out(o), Sent(o), Scripted(o)', dev' = dev, Plain'
    PROVE  Base'
  <1>1. Types'
    BY DEF Base, Types, Sent
  <1>2. \A p \in Ops \ {o} : op'[p] = op[p]
    BY DEF Sent, Others
  <1>3. ASSUME NEW p \in Ops \ {o} PROVE (Out(p)' <=> Out(p)) /\ (Ready(p)' <=> Ready(p))
    BY <1>2 DEF Out, Ready
  <1>4. Out(o)' /\ ~Ready(o)'
    BY DEF Sent, Out, Ready, NoReply
  <1>5. Lined'
    <2>1. \A p \in Ops : On(line', p) <=> Out(p)'
      BY <1>3, <1>4 DEF Base, Lined, Sent
    <2>2. \A p, q \in Ops : Ready(p)' /\ Ready(q)' => p = q
      BY <1>3, <1>4 DEF Base, Lined
    <2> QED BY <2>1, <2>2 DEF Sent, Lined
  <1>6. ASSUME NEW p \in Ops \ {o} PROVE Scripted(p)' /\ Current(p)'
    <2>1. Scripted(p) /\ Current(p) /\ op'[p] = op[p]
      BY <1>2 DEF Base
    <2>2. Scripted(p)'
      BY <2>1 DEF Scripted, Reading, MacroPhase
    <2>3. Current(p)'
      BY <2>1, <1>3 DEF Current
    <2> QED BY <2>2, <2>3
  <1>7. Current(o)'
    BY <1>4 DEF Current
  <1> QED BY <1>1, <1>5, <1>6, <1>7 DEF Base

LEMMA BaseEnded ==
    ASSUME Base, NEW o \in Ops, ~Out(o), op[o].pc # "idle", NEW how \in {"ok", "failed"},
           Ended(o, how), dev' = dev, Plain'
    PROVE  Base'
  <1>1. Types'
    BY DEF Base, Types, Ended
  <1>2. \A p \in Ops \ {o} : op'[p] = op[p]
    BY DEF Ended, Others
  <1>3. ASSUME NEW p \in Ops \ {o} PROVE (Out(p)' <=> Out(p)) /\ (Ready(p)' <=> Ready(p))
    BY <1>2 DEF Out, Ready
  <1>4. ~Out(o)' /\ ~Ready(o)'
    BY DEF Ended, Out, Ready
  <1>5. Lined'
    <2>1. \A p \in Ops : On(line', p) <=> Out(p)'
      BY <1>3, <1>4 DEF Base, Lined, Ended
    <2>2. \A p, q \in Ops : Ready(p)' /\ Ready(q)' => p = q
      BY <1>3, <1>4 DEF Base, Lined
    <2>3. line' = line
      BY DEF Ended
    <2> QED BY <2>1, <2>2, <2>3 DEF Base, Lined
  <1>6. ASSUME NEW p \in Ops \ {o} PROVE Scripted(p)' /\ Current(p)'
    <2>1. Scripted(p) /\ Current(p) /\ op'[p] = op[p]
      BY <1>2 DEF Base
    <2>2. Scripted(p)'
      BY <2>1 DEF Scripted, Reading, MacroPhase
    <2>3. Current(p)'
      BY <2>1, <1>3 DEF Current
    <2> QED BY <2>2, <2>3
  <1>7. Current(o)' /\ Scripted(o)'
    <2>1. Scripted(o) /\ op'[o].pc = how /\ op'[o].req = op[o].req
      BY DEF Base, Ended
    <2>2. op[o].req \in Requests
      BY <2>1 DEF Scripted
    <2> QED BY <1>4, <2>1, <2>2 DEF Current, Scripted
  <1> QED BY <1>1, <1>5, <1>6, <1>7 DEF Base

-----------------------------------------------------------------------------
(* Each continuation leaves a well-formed state, and turns one operation.  *)

LEMMA RequestFields ==
    ASSUME NEW r \in Requests
    PROVE  /\ r.kind \in {"setKey", "setEncoder", "setMacro", "applyLayout", "unlock",
                          "reset", "lock", "getLockState", "setCombo"}
           /\ r.kind = "setKey" => r.pos \in Nat \ {0} /\ r.val \in Actions
           /\ r.kind = "setEncoder" => r.dir \in Dirs /\ r.val \in Actions
           /\ r.kind = "setMacro" => r.idx \in ToSet(Macros) /\ r.val \in Actions
           /\ r.kind = "applyLayout" => r.def \in DOMAIN Layouts
           /\ r.kind = "unlock" => r.abortable \in BOOLEAN
           /\ r # NoReq
  BY DEF Requests, NoReq

LEMMA WiderSeq ==
    ASSUME NEW A, NEW B, A \subseteq B, NEW s \in Seq(A)
    PROVE  s \in Seq(B)
  OBVIOUS

LEMMA TailInSeq ==
    ASSUME NEW S, NEW s \in Seq(S), s # <<>>
    PROVE  /\ Head(s) \in S /\ Tail(s) \in Seq(S)
           /\ \A x : On(s, x) => x = Head(s) \/ On(Tail(s), x)
           /\ \A i \in DOMAIN s : i = 1 \/ (i - 1 \in DOMAIN Tail(s) /\ Tail(s)[i - 1] = s[i])
           /\ s[1] = Head(s)
  <1>1. PICK n \in Nat : n = Len(s) /\ n > 0 /\ DOMAIN s = 1..n
    OBVIOUS
  <1>2. /\ Head(s) = s[1] /\ Head(s) \in S /\ Tail(s) \in Seq(S) /\ DOMAIN Tail(s) = 1..n - 1
        /\ \A i \in 1..n - 1 : Tail(s)[i] = s[i + 1]
    BY <1>1
  <1>3. \A i \in 1..n : i = 1 \/ (i - 1 \in 1..n - 1 /\ Tail(s)[i - 1] = s[i])
    BY <1>1, <1>2
  <1>4. ASSUME NEW x, On(s, x), x # Head(s) PROVE On(Tail(s), x)
    <2>1. PICK i \in 1..n : s[i] = x
      BY <1>1, <1>4 DEF On
    <2> QED BY <2>1, <1>2, <1>3, <1>4 DEF On
  <1> QED BY <1>1, <1>2, <1>3, <1>4

\* What the continuations have in common.
Turn(o) ==
    /\ Busy(o) /\ ~Out(o) /\ UNCHANGED <<family, closed, dev, races>>
    /\ Others(o) /\ op'[o].req = op[o].req
    /\ \/ Sent(o)
       \/ op'[o].pc \in {"wait", "ok", "failed"} /\ line' = line
    /\ op'[o].pc = "failed" =>
         op[o].req.kind = "unlock" \/ (op[o].pc = "send" /\ op[o].reply.how = "error")

LEMMA AnsweredFacts ==
    ASSUME Base, NEW o \in Ops, NEW c, Answered(o, c), c # "poll" \/ op[o].pc = "send"
    PROVE  /\ op[o].pc = "send" /\ Ready(o) /\ ~Out(o) /\ Busy(o)
           /\ op[o] \in Operation /\ Scripted(o) /\ Current(o)
           /\ op[o].req \in Requests /\ op[o].cmd.c = c /\ op[o].reply.how = "ok"
           /\ \A p \in Ops : Ready(p) => p = o
  <1>1. op[o] \in Operation /\ Scripted(o) /\ Current(o)
    BY DEF Base, Types
  <1>2. op[o].pc \in {"send", "wait"} /\ op[o].cmd.c = c /\ op[o].reply.how = "ok"
    BY DEF Answered, Busy
  <1>3. op[o].pc = "send"
    BY <1>1, <1>2 DEF Scripted
  <1>4. op[o].req \in Requests
    BY <1>1, <1>3 DEF Scripted
  <1>5. Ready(o) /\ ~Out(o) /\ Busy(o)
    BY <1>2, <1>3 DEF Ready, Out, Busy
  <1> QED BY <1>1, <1>2, <1>3, <1>4, <1>5 DEF Base, Lined

LEMMA TurnSent ==
    ASSUME NEW o \in Ops, Busy(o), ~Out(o), Sent(o), op'[o].req = op[o].req,
           UNCHANGED <<family, closed, dev, races>>
    PROVE  Turn(o)
  BY DEF Turn, Sent

LEMMA TurnEnded ==
    ASSUME NEW o \in Ops, Busy(o), ~Out(o), NEW how \in {"ok", "failed"}, Ended(o, how),
           how = "failed" =>
             op[o].req.kind = "unlock" \/ (op[o].pc = "send" /\ op[o].reply.how = "error"),
           UNCHANGED <<family, closed, dev, races>>
    PROVE  Turn(o)
  BY DEF Turn, Ended

LEMMA WrittenTurns ==
    ASSUME Base, NEW o \in Ops, Written(o)
    PROVE  Base' /\ Turn(o) /\ Ended(o, "ok")
  <1>1. Answered(o, "write") /\ op[o].req.kind \in Writes /\ Stored(op[o].req)
        /\ End(o, "ok") /\ line' = line
        /\ UNCHANGED <<def, lockState, pending, family, closed, races, dev>>
    BY DEF Written, Unmoved
  <1>2. /\ op[o].pc = "send" /\ Ready(o) /\ ~Out(o) /\ Busy(o) /\ op[o].req \in Requests
    BY <1>1, AnsweredFacts
  <1>3. Types /\ Plain
    BY DEF Base, Types
  <1>4. Ended(o, "ok")
    BY <1>1, <1>3, Ends
  <1>5. PICK r \in Requests : r = op[o].req
    BY <1>2
  <1>6. keys' \in Seq(Actions \cup {"hole"}) /\ enc' \in [Dirs -> Actions \cup {"none"}]
    <2>1. CASE r.kind = "setKey"
      <3>1. keys' = PutAt(keys, r.pos, r.val) /\ enc' = enc
        BY <1>1, <1>5, <2>1 DEF Stored
      <3>2. r.pos \in Nat \ {0} /\ r.val \in Actions
        BY <2>1, RequestFields
      <3> QED BY <1>3, <3>1, <3>2, PutActions DEF Plain
    <2>2. CASE r.kind # "setKey"
      <3>1. r.kind = "setEncoder"
        BY <1>1, <1>5, <2>2 DEF Writes
      <3>2. r.dir \in Dirs /\ r.val \in Actions
        BY <3>1, RequestFields
      <3>3. keys' = keys /\ enc' = IF enc = NoEncoder THEN [d \in Dirs |-> r.val]
                                                     ELSE [enc EXCEPT ![r.dir] = r.val]
        BY <1>1, <1>5, <2>2 DEF Stored
      <3> QED BY <1>3, <3>2, <3>3 DEF Plain
    <2> QED BY <2>1, <2>2
  <1>7. Plain'
    BY <1>1, <1>3, <1>6 DEF Plain
  <1>8. Turn(o)
    BY <1>1, <1>2, <1>4, TurnEnded
  <1> QED BY <1>1, <1>2, <1>4, <1>7, <1>8, BaseEnded

\* What has been read is the keyboard's memory, as the reply is fresh.
LEMMA SeenFacts ==
    ASSUME Base, NEW o \in Ops, Answered(o, "read")
    PROVE  /\ Seen(o) \in [Slots -> Actions] /\ op[o].cmd.slots \in SUBSET Slots
           /\ \A s \in Slots :
                Seen(o)[s] = IF s \in op[o].cmd.slots THEN dev.mem[s] ELSE op[o].seen[s]
  <1>1. /\ op[o] \in Operation /\ Current(o) /\ Ready(o) /\ op[o].cmd.c = "read"
        /\ op[o].reply.how = "ok"
    BY AnsweredFacts
  <1>2. op[o].cmd.slots \in SUBSET Slots /\ op[o].seen \in [Slots -> Actions]
    BY <1>1 DEF Operation, Commands
  <1>3. dev.mem \in [Slots -> Actions]
    BY DEF Base, Types, Keyboard
  <1>4. op[o].reply.mem = [s \in op[o].cmd.slots |-> dev.mem[s]]
    BY <1>1 DEF Current
  <1>5. \A s \in Slots :
          Seen(o)[s] = IF s \in op[o].cmd.slots THEN dev.mem[s] ELSE op[o].seen[s]
    BY <1>4 DEF Seen
  <1>6. \A s \in Slots : Seen(o)[s] \in Actions
    BY <1>2, <1>3, <1>5
  <1>7. Seen(o) \in [Slots -> Actions]
    BY <1>6 DEF Seen
  <1> QED BY <1>2, <1>5, <1>7

\* The kind of an operation whose reply is a read, and what is left to it.
LEMMA ChunkReadTurns ==
    ASSUME Base, NEW o \in Ops, ChunkRead(o)
    PROVE  /\ Base' /\ Turn(o) /\ Answered(o, "read") /\ Reading(o)
           /\ op[o].req.kind \in Reloads /\ UNCHANGED lockState
           /\ \/ /\ Tail(op[o].rest) = <<>> /\ Ended(o, "ok") /\ Install(o, Seen(o))
              \/ /\ Sent(o) /\ UNCHANGED mirror
                 /\ op'[o].cmd.c = "read" /\ op'[o].seen = Seen(o)
                 /\ op'[o].rest = Tail(op[o].rest) /\ op'[o].def = op[o].def
  <1>1. /\ Answered(o, "read") /\ op[o].req.kind \in Reloads
        /\ UNCHANGED <<lockState, family, closed, races, dev>>
    BY DEF ChunkRead, Unmoved
  <1>2. /\ op[o].pc = "send" /\ Ready(o) /\ ~Out(o) /\ Busy(o) /\ op[o].req \in Requests
        /\ op[o] \in Operation /\ Scripted(o) /\ op[o].cmd.c = "read"
    BY <1>1, AnsweredFacts
  <1>3. Types /\ Plain /\ Lined
    BY DEF Base, Types
  <1>4. Reading(o)
    BY <1>1, <1>2 DEF Scripted, Reloads
  <1>5. PICK rest \in Seq(SUBSET Slots) : rest = Tail(op[o].rest)
    BY <1>4, TailInSeq DEF Reading
  <1>6. PICK seen \in [Slots -> Actions] : seen = Seen(o)
    BY <1>1, SeenFacts
  <1>7. op[o].def \in DOMAIN Layouts
    BY <1>4 DEF Reading
  <1>8. CASE rest = <<>>
    <2>1. Install(o, seen)
      BY <1>5, <1>6, <1>8 DEF ChunkRead
    <2>2. PICK d \in DOMAIN Layouts : d = op[o].def
      BY <1>7
    <2>3. /\ keys' = KeysRead(d, seen) /\ enc' = EncRead(d, seen) /\ End(o, "ok") /\ line' = line
          /\ def' \in {def, d} /\ pending' \in {pending, FALSE}
      BY <2>1, <2>2 DEF Install
    <2>4. Ended(o, "ok")
      BY <1>3, <2>3, Ends
    <2>5. keys' \in Seq(Actions) /\ enc' \in [Dirs -> Actions \cup {"none"}]
      BY <2>3, ReadMirror
    <2>6. keys' \in Seq(Actions \cup {"hole"})
      BY <2>5, WiderSeq
    <2>7. Plain'
      BY <1>1, <1>3, <2>3, <2>5, <2>6 DEF Plain
    <2>8. Turn(o)
      BY <1>1, <1>2, <2>4, TurnEnded
    <2> QED BY <1>1, <1>2, <1>4, <1>5, <1>6, <1>8, <2>1, <2>4, <2>7, <2>8, BaseEnded
  <1>9. CASE rest # <<>>
    <2>1. /\ Send(o, [op[o] EXCEPT !.seen = seen, !.rest = rest], ReadCmd(Head(rest)))
          /\ UNCHANGED <<mirror, pending>>
      BY <1>5, <1>6, <1>9 DEF ChunkRead
    <2>2. PICK n : n = [op[o] EXCEPT !.seen = seen, !.rest = rest]
      OBVIOUS
    <2>3. rest \in Seq(Slots \cup SUBSET Slots) /\ Head(rest) \in SUBSET Slots
      BY <1>9, WiderSeq, TailInSeq
    <2>4. /\ n \in Operation /\ n.seen = seen /\ n.rest = rest /\ n.def = op[o].def
          /\ n.req = op[o].req
      BY <1>2, <2>2, <2>3 DEF Operation
    <2>5. PICK cmd \in Commands : cmd = ReadCmd(Head(rest))
      BY <2>3 DEF ReadCmd, Commands
    <2>6. Send(o, n, cmd)
      BY <2>1, <2>2, <2>5
    <2>7. /\ Sent(o) /\ op'[o].cmd = cmd /\ op'[o].req = op[o].req /\ op'[o].rest = rest
          /\ op'[o].seen = seen /\ op'[o].def = op[o].def
      BY <1>2, <1>3, <2>4, <2>6, Sends
    <2>8. cmd.c = "read"
      BY <2>5 DEF ReadCmd
    <2>9. op'[o].pc = "send"
      BY <2>7 DEF Sent
    <2>10. Reading(o)'
      BY <1>7, <1>9, <2>5, <2>7 DEF Reading, ReadCmd
    <2>11. op[o].req.kind = "applyLayout" => op[o].def = op[o].req.def
      BY <1>2 DEF Scripted
    <2>12. Scripted(o)'
      BY <1>1, <1>2, <2>7, <2>8, <2>9, <2>10, <2>11 DEF Scripted, Reloads
    <2>13. Plain'
      BY <1>1, <1>3, <2>1 DEF Plain, mirror
    <2>14. Turn(o)
      BY <1>1, <1>2, <2>7, TurnSent
    <2> QED BY <1>1, <1>2, <1>4, <1>5, <1>6, <2>1, <2>7, <2>8, <2>12, <2>13, <2>14, BaseSent
  <1> QED BY <1>8, <1>9

LEMMA ResetDoneTurns ==
    ASSUME Base, NEW o \in Ops, ResetDone(o)
    PROVE  /\ Base' /\ Turn(o) /\ Sent(o) /\ op[o].req.kind = "reset" /\ Ready(o)
           /\ op'[o].cmd.c = "read" /\ op'[o].rest = Plan(def) /\ op'[o].def = def
           /\ UNCHANGED <<mirror, lockState>>
  <1>1. /\ Answered(o, "reset") /\ UNCHANGED <<mirror, lockState, pending, family, closed, races, dev>>
        /\ Send(o, [op[o] EXCEPT !.def = def, !.rest = Plan(def)], ReadCmd(Head(Plan(def))))
    BY DEF ResetDone, Unmoved
  <1>2. /\ op[o].pc = "send" /\ Ready(o) /\ ~Out(o) /\ Busy(o) /\ op[o].req \in Requests
        /\ op[o] \in Operation /\ Scripted(o) /\ op[o].cmd.c = "reset"
    BY <1>1, AnsweredFacts
  <1>3. Types /\ Plain /\ Lined /\ def \in DOMAIN Layouts
    BY DEF Base, Types, Plain
  <1>4. op[o].req.kind = "reset"
    <2>1. op[o].req.kind # "applyLayout"
      BY <1>2 DEF Scripted, Reading, ReadCmd
    <2>2. op[o].req.kind # "setMacro"
      BY <1>2 DEF Scripted, MacroPhase, ReadCmd
    <2> QED BY <1>2, <2>1, <2>2, RequestFields DEF Scripted
  <1>5. PICK plan \in Seq(SUBSET Slots) : plan = Plan(def)
    BY <1>3, PlanProperties
  <1>6. plan # <<>> /\ Head(plan) \in SUBSET Slots /\ plan \in Seq(Slots \cup SUBSET Slots)
    BY <1>3, <1>5, PlanProperties, WiderSeq
  <1>7. PICK n : n = [op[o] EXCEPT !.def = def, !.rest = plan]
    OBVIOUS
  <1>8. n \in Operation /\ n.rest = plan /\ n.def = def /\ n.req = op[o].req
    BY <1>2, <1>3, <1>6, <1>7 DEF Operation
  <1>9. PICK cmd \in Commands : cmd = ReadCmd(Head(plan))
    BY <1>6 DEF ReadCmd, Commands
  <1>10. Send(o, n, cmd)
    BY <1>1, <1>5, <1>7, <1>9
  <1>11. /\ Sent(o) /\ op'[o].cmd = cmd /\ op'[o].req = op[o].req /\ op'[o].rest = plan
         /\ op'[o].def = def
    BY <1>2, <1>3, <1>8, <1>10, Sends
  <1>12. cmd.c = "read" /\ op'[o].pc = "send"
    BY <1>9, <1>11 DEF ReadCmd, Sent
  <1>13. Reading(o)'
    BY <1>3, <1>6, <1>9, <1>11 DEF Reading, ReadCmd
  <1>14. Scripted(o)'
    BY <1>2, <1>4, <1>11, <1>12, <1>13 DEF Scripted
  <1>15. Plain'
    BY <1>1, <1>3 DEF Plain, mirror
  <1>16. Turn(o)
    BY <1>1, <1>2, <1>11, TurnSent
  <1> QED BY <1>1, <1>2, <1>4, <1>5, <1>11, <1>12, <1>14, <1>15, <1>16, BaseSent

\* Which operation waits for which reply.
LEMMA KindOf ==
    ASSUME NEW o \in Ops, Scripted(o), op[o].pc = "send", op[o].req \in Requests
    PROVE  /\ op[o].cmd.c = "entry" => op[o].req.kind = "setCombo"
           /\ op[o].cmd.c = "size" => op[o].req.kind = "setMacro"
           /\ op[o].cmd.c = "lock" <=> op[o].req.kind = "lock"
           /\ op[o].cmd.c = "status" => op[o].req.kind \in {"unlock", "getLockState"}
           /\ op[o].cmd.c \in {"start", "poll"} => op[o].req.kind = "unlock"
           /\ op[o].cmd.c = "write" => op[o].req.kind \in Writes \cup {"setMacro"}
           /\ op[o].cmd.c = "read" => op[o].req.kind \in Reloads \cup {"setMacro"}
           /\ op[o].cmd.c = "reset" => op[o].req.kind = "reset"
           /\ op[o].req.kind \in Writes => op[o].cmd.c = "write"
  <1>1. PICK r, c : r \in Requests /\ r = op[o].req /\ c = op[o].cmd.c
    OBVIOUS
  <1>2. r.kind \in {"setKey", "setEncoder", "setMacro", "applyLayout", "unlock",
                    "reset", "lock", "getLockState", "setCombo"}
    BY <1>1, RequestFields
  <1>3. /\ r.kind \in {"setKey", "setEncoder"} => c = "write"
        /\ r.kind \in {"applyLayout", "reset"} => c \in {"read", "reset"}
        /\ r.kind = "applyLayout" => c = "read"
        /\ r.kind = "setMacro" => c \in {"size", "read", "write"}
        /\ r.kind = "unlock" => c \in {"status", "start", "poll"}
        /\ r.kind = "lock" => c = "lock"
        /\ r.kind = "getLockState" => c = "status"
        /\ r.kind = "setCombo" => c = "entry"
    BY <1>1 DEF Scripted, Reading, MacroPhase, ReadCmd
  <1> QED BY <1>1, <1>2, <1>3 DEF Writes, Reloads

LEMMA EntryTurns ==
    ASSUME Base, NEW o \in Ops, EntryWritten(o)
    PROVE  /\ Base' /\ Turn(o) /\ Ended(o, "ok") /\ op[o].req.kind = "setCombo"
           /\ UNCHANGED <<mirror, lockState>>
  <1>1. /\ Answered(o, "entry") /\ End(o, "ok") /\ pending' \in {pending, TRUE} /\ line' = line
        /\ UNCHANGED <<mirror, lockState, family, closed, races, dev>>
    BY DEF EntryWritten, Unmoved
  <1>2. /\ op[o].pc = "send" /\ ~Out(o) /\ Busy(o) /\ op[o].req \in Requests
        /\ Scripted(o) /\ op[o].cmd.c = "entry" /\ op[o].req.kind = "setCombo"
    BY <1>1, AnsweredFacts, KindOf
  <1>3. Types /\ Plain
    BY DEF Base, Types
  <1>4. Ended(o, "ok")
    BY <1>1, <1>3, Ends
  <1>5. Plain'
    BY <1>1, <1>3 DEF Plain, mirror
  <1>6. Turn(o)
    BY <1>1, <1>2, <1>4, TurnEnded
  <1> QED BY <1>1, <1>2, <1>4, <1>5, <1>6, BaseEnded

\* A send from an operation's own record.
LEMMA SendsOwn ==
    ASSUME Base, NEW o \in Ops, Busy(o), ~Out(o), NEW cmd \in Commands, Send(o, op[o], cmd),
           UNCHANGED <<family, closed, dev, races>>
    PROVE  /\ Sent(o) /\ op'[o].cmd = cmd /\ op'[o].req = op[o].req /\ op'[o].rest = op[o].rest
           /\ op'[o].seen = op[o].seen /\ op'[o].before = op[o].before
           /\ op'[o].pc = "send" /\ Turn(o)
  <1>1. op[o] \in Operation /\ Types /\ Lined
    BY DEF Base, Types
  <1>2. /\ Sent(o) /\ op'[o].cmd = cmd /\ op'[o].req = op[o].req /\ op'[o].rest = op[o].rest
        /\ op'[o].seen = op[o].seen /\ op'[o].before = op[o].before
    BY <1>1, Sends
  <1>3. op'[o].pc = "send"
    BY <1>2 DEF Sent
  <1> QED BY <1>2, <1>3, TurnSent

LEMMA MacroSizedTurns ==
    ASSUME Base, NEW o \in Ops, MacroSized(o)
    PROVE  /\ Base' /\ Turn(o) /\ Sent(o) /\ op[o].req.kind = "setMacro"
           /\ op[o].cmd.c = "size" /\ op'[o].rest = Macros /\ Ready(o)
           /\ op'[o].seen = op[o].seen /\ op'[o].before = op[o].before
           /\ op[o].rest = <<>> => op'[o].cmd.c = "read"
           /\ op[o].rest # <<>> => op'[o].cmd.c = "write"
           /\ UNCHANGED <<mirror, lockState>>
  <1>1. Answered(o, "size") /\ UNCHANGED <<mirror, lockState, pending, family, closed, races, dev>>
    BY DEF MacroSized, Unmoved
  <1>2. /\ op[o].pc = "send" /\ ~Out(o) /\ Busy(o) /\ op[o].req \in Requests /\ Ready(o)
        /\ Scripted(o) /\ op[o].cmd.c = "size" /\ op[o].req.kind = "setMacro"
        /\ op[o] \in Operation
    BY <1>1, AnsweredFacts, KindOf
  <1>3. Types /\ Plain /\ Lined
    BY DEF Base, Types
  <1>4. op[o].rest \in {<<>>, Macros}
    BY <1>2 DEF Scripted, MacroPhase, ReadCmd
  <1>5. Macros \in Seq(ToSet(Macros)) /\ Macros # <<>> /\ Macros[1] = Head(Macros)
        /\ Macros[1] \in Slots
    BY SlotsAssumption, SlotKinds, TailInSeq
  <1>6. Plain'
    BY <1>1, <1>3 DEF Plain, mirror
  <1>7. CASE op[o].rest = <<>>
    <2>1. Send(o, [op[o] EXCEPT !.rest = Macros], ReadCmd({Macros[1]}))
      BY <1>7 DEF MacroSized
    <2>2. PICK n : n = [op[o] EXCEPT !.rest = Macros]
      OBVIOUS
    <2>3. Macros \in Seq(Slots \cup SUBSET Slots)
      BY <1>5, SlotKinds, WiderSeq
    <2>4. /\ n \in Operation /\ n.rest = Macros /\ n.req = op[o].req
          /\ n.seen = op[o].seen /\ n.before = op[o].before
      BY <1>2, <2>2, <2>3 DEF Operation
    <2>5. PICK cmd \in Commands : cmd = ReadCmd({Macros[1]})
      BY <1>5 DEF ReadCmd, Commands
    <2>6. Send(o, n, cmd)
      BY <2>1, <2>2, <2>5
    <2>7. /\ Sent(o) /\ op'[o].cmd = cmd /\ op'[o].req = op[o].req /\ op'[o].rest = Macros
          /\ op'[o].seen = op[o].seen /\ op'[o].before = op[o].before
      BY <1>2, <1>3, <2>4, <2>6, Sends
    <2>8. cmd.c = "read" /\ op'[o].pc = "send"
      BY <2>5, <2>7 DEF ReadCmd, Sent
    <2>9. MacroPhase(o)'
      BY <1>5, <2>5, <2>7 DEF MacroPhase
    <2>10. Scripted(o)'
      BY <1>2, <2>7, <2>8, <2>9 DEF Scripted
    <2>11. Turn(o)
      BY <1>1, <1>2, <2>7, TurnSent
    <2> QED BY <1>1, <1>2, <1>6, <1>7, <2>7, <2>8, <2>10, <2>11, BaseSent
  <1>8. CASE op[o].rest # <<>>
    <2>1. Send(o, op[o], [c |-> "write", slot |-> Macros[1], val |-> op[o].seen[Macros[1]]])
      BY <1>8 DEF MacroSized
    <2>2. op[o].seen[Macros[1]] \in Actions
      BY <1>2, <1>5 DEF Operation
    <2>3. PICK cmd \in Commands :
             cmd = [c |-> "write", slot |-> Macros[1], val |-> op[o].seen[Macros[1]]]
      BY <1>5, <2>2 DEF Commands
    <2>4. /\ Sent(o) /\ op'[o].cmd = cmd /\ op'[o].req = op[o].req /\ op'[o].rest = op[o].rest
          /\ op'[o].seen = op[o].seen /\ op'[o].before = op[o].before
          /\ op'[o].pc = "send" /\ Turn(o)
      BY <1>1, <1>2, <2>1, <2>3, SendsOwn
    <2>5. op[o].rest = Macros /\ cmd.c = "write"
      BY <1>4, <1>8, <2>3
    <2>6. MacroPhase(o)'
      BY <1>5, <2>3, <2>4, <2>5 DEF MacroPhase
    <2>7. Scripted(o)'
      BY <1>2, <2>4, <2>5, <2>6 DEF Scripted
    <2> QED BY <1>1, <1>2, <1>6, <1>8, <2>4, <2>5, <2>7, BaseSent
  <1> QED BY <1>7, <1>8

LEMMA MacroReadTurns ==
    ASSUME Base, NEW o \in Ops, MacroRead(o)
    PROVE  /\ Base' /\ Turn(o) /\ Sent(o) /\ op[o].req.kind = "setMacro" /\ Ready(o)
           /\ Answered(o, "read") /\ op[o].rest \in Seq(ToSet(Macros)) /\ op[o].rest # <<>>
           /\ op[o].cmd.slots = {Head(op[o].rest)}
           /\ op'[o].before = op[o].before
           /\ \/ /\ Tail(op[o].rest) = <<>> /\ op'[o].cmd.c = "size" /\ op'[o].rest = Macros
                 /\ op'[o].seen = MacrosWith(o, Seen(o))
              \/ /\ op'[o].cmd.c = "read" /\ op'[o].rest = Tail(op[o].rest)
                 /\ op'[o].seen = Seen(o)
           /\ UNCHANGED <<mirror, lockState>>
  <1>1. /\ Answered(o, "read") /\ op[o].req.kind = "setMacro"
        /\ UNCHANGED <<mirror, lockState, pending, family, closed, races, dev>>
    BY DEF MacroRead, Unmoved
  <1>2. /\ op[o].pc = "send" /\ ~Out(o) /\ Busy(o) /\ op[o].req \in Requests /\ Ready(o)
        /\ Scripted(o) /\ op[o].cmd.c = "read" /\ op[o] \in Operation
    BY <1>1, AnsweredFacts
  <1>3. Types /\ Plain /\ Lined
    BY DEF Base, Types
  <1>4. /\ op[o].rest \in Seq(ToSet(Macros)) /\ op[o].rest # <<>>
        /\ op[o].cmd = ReadCmd({Head(op[o].rest)})
    BY <1>1, <1>2 DEF Scripted, MacroPhase
  <1>5. PICK rest \in Seq(ToSet(Macros)) : rest = Tail(op[o].rest)
    BY <1>4, TailInSeq
  <1>6. PICK seen \in [Slots -> Actions] : seen = Seen(o)
    BY <1>1, SeenFacts
  <1>7. Plain'
    BY <1>1, <1>3 DEF Plain, mirror
  <1>8. op[o].cmd.slots = {Head(op[o].rest)}
    BY <1>4 DEF ReadCmd
  <1>9. CASE rest = <<>>
    <2>1. Send(o, [op[o] EXCEPT !.seen = MacrosWith(o, seen), !.rest = Macros], [c |-> "size"])
      BY <1>5, <1>6, <1>9 DEF MacroRead
    <2>2. PICK full \in [Slots -> Actions] : full = MacrosWith(o, seen)
      <3>1. op[o].req.idx \in Slots /\ op[o].req.val \in Actions
        BY <1>1, <1>2, RequestFields, SlotKinds
      <3> QED BY <3>1 DEF MacrosWith
    <2>3. PICK n : n = [op[o] EXCEPT !.seen = full, !.rest = Macros]
      OBVIOUS
    <2>4. Macros \in Seq(Slots \cup SUBSET Slots)
      BY SlotsAssumption, SlotKinds, WiderSeq
    <2>5. /\ n \in Operation /\ n.rest = Macros /\ n.req = op[o].req
          /\ n.seen = full /\ n.before = op[o].before
      BY <1>2, <2>3, <2>4 DEF Operation
    <2>6. PICK cmd \in Commands : cmd = [c |-> "size"]
      BY DEF Commands
    <2>7. Send(o, n, cmd)
      BY <2>1, <2>2, <2>3, <2>6
    <2>8. /\ Sent(o) /\ op'[o].cmd = cmd /\ op'[o].req = op[o].req /\ op'[o].rest = Macros
          /\ op'[o].seen = full /\ op'[o].before = op[o].before
      BY <1>2, <1>3, <2>5, <2>7, Sends
    <2>9. cmd.c = "size" /\ op'[o].pc = "send"
      BY <2>6, <2>8 DEF Sent
    <2>10. MacroPhase(o)'
      BY <2>8, <2>9 DEF MacroPhase
    <2>11. Scripted(o)'
      BY <1>1, <1>2, <2>8, <2>9, <2>10 DEF Scripted
    <2>12. Turn(o)
      BY <1>1, <1>2, <2>8, TurnSent
    <2> QED BY <1>1, <1>2, <1>4, <1>5, <1>6, <1>7, <1>8, <1>9, <2>2, <2>8, <2>9, <2>11, <2>12, BaseSent
  <1>10. CASE rest # <<>>
    <2>1. Send(o, [op[o] EXCEPT !.seen = seen, !.rest = rest], ReadCmd({Head(rest)}))
      BY <1>5, <1>6, <1>10 DEF MacroRead
    <2>2. PICK n : n = [op[o] EXCEPT !.seen = seen, !.rest = rest]
      OBVIOUS
    <2>3. rest \in Seq(Slots \cup SUBSET Slots) /\ Head(rest) \in Slots
      BY <1>10, SlotKinds, WiderSeq, TailInSeq
    <2>4. /\ n \in Operation /\ n.rest = rest /\ n.req = op[o].req
          /\ n.seen = seen /\ n.before = op[o].before
      BY <1>2, <2>2, <2>3 DEF Operation
    <2>5. PICK cmd \in Commands : cmd = ReadCmd({Head(rest)})
      BY <2>3 DEF ReadCmd, Commands
    <2>6. Send(o, n, cmd)
      BY <2>1, <2>2, <2>5
    <2>7. /\ Sent(o) /\ op'[o].cmd = cmd /\ op'[o].req = op[o].req /\ op'[o].rest = rest
          /\ op'[o].seen = seen /\ op'[o].before = op[o].before
      BY <1>2, <1>3, <2>4, <2>6, Sends
    <2>8. cmd.c = "read" /\ op'[o].pc = "send"
      BY <2>5, <2>7 DEF ReadCmd, Sent
    <2>9. MacroPhase(o)'
      BY <1>10, <2>5, <2>7 DEF MacroPhase
    <2>10. Scripted(o)'
      BY <1>1, <1>2, <2>7, <2>8, <2>9 DEF Scripted
    <2>11. Turn(o)
      BY <1>1, <1>2, <2>7, TurnSent
    <2> QED BY <1>1, <1>2, <1>4, <1>5, <1>6, <1>7, <1>8, <2>7, <2>8, <2>10, <2>11, BaseSent
  <1> QED BY <1>9, <1>10

LEMMA MacroWrittenTurns ==
    ASSUME Base, NEW o \in Ops, MacroWritten(o)
    PROVE  /\ Base' /\ Turn(o) /\ op[o].req.kind = "setMacro" /\ Ready(o)
           /\ Answered(o, "write") /\ op[o].rest \in Seq(ToSet(Macros)) /\ op[o].rest # <<>>
           /\ op[o].cmd.slot = Head(op[o].rest)
           /\ \/ Tail(op[o].rest) = <<>> /\ Ended(o, "ok")
              \/ /\ Sent(o) /\ op'[o].cmd.c = "write" /\ op'[o].rest = Tail(op[o].rest)
                 /\ op'[o].seen = op[o].seen /\ op'[o].before = op[o].before
           /\ UNCHANGED <<mirror, lockState>>
  <1>1. /\ Answered(o, "write") /\ op[o].req.kind = "setMacro"
        /\ UNCHANGED <<mirror, lockState, family, closed, races, dev>>
    BY DEF MacroWritten, Unmoved
  <1>2. /\ op[o].pc = "send" /\ ~Out(o) /\ Busy(o) /\ op[o].req \in Requests /\ Ready(o)
        /\ Scripted(o) /\ op[o].cmd.c = "write" /\ op[o] \in Operation
    BY <1>1, AnsweredFacts
  <1>3. Types /\ Plain /\ Lined
    BY DEF Base, Types
  <1>4. /\ op[o].rest \in Seq(ToSet(Macros)) /\ op[o].rest # <<>>
        /\ op[o].cmd = [c |-> "write", slot |-> Head(op[o].rest),
                        val |-> op[o].seen[Head(op[o].rest)]]
    BY <1>1, <1>2 DEF Scripted, MacroPhase, ReadCmd
  <1>5. PICK rest \in Seq(ToSet(Macros)) : rest = Tail(op[o].rest)
    BY <1>4, TailInSeq
  <1>6. op[o].cmd.slot = Head(op[o].rest)
    BY <1>4
  <1>7. CASE rest = <<>>
    <2>1. End(o, "ok") /\ pending' = TRUE /\ line' = line
      BY <1>5, <1>7 DEF MacroWritten
    <2>2. Ended(o, "ok")
      BY <1>3, <2>1, Ends
    <2>3. Plain'
      BY <1>1, <1>3, <2>1 DEF Plain, mirror
    <2>4. Turn(o)
      BY <1>1, <1>2, <2>2, TurnEnded
    <2> QED BY <1>1, <1>2, <1>4, <1>5, <1>6, <1>7, <2>2, <2>3, <2>4, BaseEnded
  <1>8. CASE rest # <<>>
    <2>1. /\ Send(o, [op[o] EXCEPT !.rest = rest],
                  [c |-> "write", slot |-> Head(rest), val |-> op[o].seen[Head(rest)]])
          /\ pending' = pending
      BY <1>5, <1>8 DEF MacroWritten
    <2>2. PICK n : n = [op[o] EXCEPT !.rest = rest]
      OBVIOUS
    <2>3. rest \in Seq(Slots \cup SUBSET Slots) /\ Head(rest) \in Slots
      BY <1>8, SlotKinds, WiderSeq, TailInSeq
    <2>4. /\ n \in Operation /\ n.rest = rest /\ n.req = op[o].req
          /\ n.seen = op[o].seen /\ n.before = op[o].before
      BY <1>2, <2>2, <2>3 DEF Operation
    <2>5. op[o].seen[Head(rest)] \in Actions
      BY <1>2, <2>3 DEF Operation
    <2>6. PICK cmd \in Commands :
             cmd = [c |-> "write", slot |-> Head(rest), val |-> op[o].seen[Head(rest)]]
      BY <2>3, <2>5 DEF Commands
    <2>7. Send(o, n, cmd)
      BY <2>1, <2>2, <2>6
    <2>8. /\ Sent(o) /\ op'[o].cmd = cmd /\ op'[o].req = op[o].req /\ op'[o].rest = rest
          /\ op'[o].seen = op[o].seen /\ op'[o].before = op[o].before
      BY <1>2, <1>3, <2>4, <2>7, Sends
    <2>9. cmd.c = "write" /\ op'[o].pc = "send"
      BY <2>6, <2>8 DEF Sent
    <2>10. MacroPhase(o)'
      BY <1>8, <2>6, <2>8 DEF MacroPhase
    <2>11. Scripted(o)'
      BY <1>1, <1>2, <2>8, <2>9, <2>10 DEF Scripted
    <2>12. Plain'
      BY <1>1, <1>3, <2>1 DEF Plain, mirror
    <2>13. Turn(o)
      BY <1>1, <1>2, <2>8, TurnSent
    <2> QED BY <1>1, <1>2, <1>4, <1>5, <1>6, <2>8, <2>9, <2>11, <2>12, <2>13, BaseSent
  <1> QED BY <1>7, <1>8

LEMMA LockedTurns ==
    ASSUME Base, NEW o \in Ops, Locked(o)
    PROVE  /\ Base' /\ Turn(o) /\ Ended(o, "ok") /\ op[o].req.kind = "lock"
           /\ UNCHANGED mirror /\ lockState' = "locked"
  <1>1. /\ Answered(o, "lock") /\ End(o, "ok") /\ line' = line /\ lockState' = "locked"
        /\ UNCHANGED <<mirror, pending, family, closed, races, dev>>
    BY DEF Locked, Unmoved
  <1>2. /\ op[o].pc = "send" /\ ~Out(o) /\ Busy(o) /\ op[o].req \in Requests
        /\ Scripted(o) /\ op[o].cmd.c = "lock" /\ op[o].req.kind = "lock"
    BY <1>1, AnsweredFacts, KindOf
  <1>3. Types /\ Plain
    BY DEF Base, Types
  <1>4. Ended(o, "ok")
    BY <1>1, <1>3, Ends
  <1>5. Plain'
    BY <1>1, <1>3 DEF Plain, mirror
  <1>6. Turn(o)
    BY <1>1, <1>2, <1>4, TurnEnded
  <1> QED BY <1>1, <1>2, <1>4, <1>5, <1>6, BaseEnded

\* "unlocked" is taken over only from a fresh status of an unlocked keyboard.
LEMMA LockStateTurns ==
    ASSUME Base, NEW o \in Ops, LockStateRead(o)
    PROVE  /\ Base' /\ Turn(o) /\ Ended(o, "ok") /\ op[o].req.kind = "getLockState"
           /\ UNCHANGED mirror /\ (lockState' = "unlocked" => ~dev.locked)
  <1>1. /\ Answered(o, "status") /\ op[o].req.kind = "getLockState" /\ End(o, "ok")
        /\ line' = line /\ lockState' = StatusOf(op[o].reply)
        /\ UNCHANGED <<mirror, pending, family, closed, races, dev>>
    BY DEF LockStateRead, Unmoved
  <1>2. /\ op[o].pc = "send" /\ Ready(o) /\ ~Out(o) /\ Busy(o) /\ op[o].req \in Requests
        /\ Current(o) /\ op[o].cmd.c = "status" /\ op[o].reply.how = "ok"
    BY <1>1, AnsweredFacts
  <1>3. Types /\ Plain
    BY DEF Base, Types
  <1>4. Ended(o, "ok")
    BY <1>1, <1>3, Ends
  <1>5. op[o].reply.locked = dev.locked /\ op[o].reply.inProgress = dev.inProgress
    BY <1>2 DEF Current
  <1>6. lockState' \in {"locked", "unlocking", "unlocked"}
        /\ (lockState' = "unlocked" => ~dev.locked)
    BY <1>1, <1>5 DEF StatusOf
  <1>7. Plain'
    BY <1>1, <1>3, <1>6 DEF Plain, mirror
  <1>8. Turn(o)
    BY <1>1, <1>2, <1>4, TurnEnded
  <1> QED BY <1>1, <1>2, <1>4, <1>6, <1>7, <1>8, BaseEnded

\* Every step of the unlock flow but the wait between two polls.
LEMMA UnlockMoves ==
    ASSUME Base, NEW o \in Ops, Busy(o), ~Out(o), op[o].req.kind = "unlock",
           \/ Unlocked(o) \/ PollOn(o)
           \/ Send(o, op[o], [c |-> "start"]) /\ UNCHANGED lockState,
           UNCHANGED <<mirror, pending, family, closed, races, dev>>
    PROVE  /\ Base' /\ Turn(o)
           /\ lockState' \in {lockState, "locked"} \/ Unlocked(o)
  <1>1. Types /\ Plain /\ Lined /\ Scripted(o) /\ op[o].pc \in {"send", "wait"}
        /\ op[o].req \in Requests
    BY DEF Base, Types, Busy, Scripted
  <1>2. ASSUME NEW how \in {"ok", "failed"}, End(o, how), line' = line,
               lockState' \in {"locked", "unlocked"}
        PROVE  Base' /\ Turn(o)
    <2>1. Ended(o, how)
      BY <1>1, <1>2, Ends
    <2>2. Plain'
      BY <1>1, <1>2 DEF Plain, mirror
    <2>3. Turn(o)
      BY <2>1, TurnEnded
    <2> QED BY <1>1, <2>1, <2>2, <2>3, BaseEnded
  <1>3. ASSUME NEW c \in {"start", "poll"}, Send(o, op[o], [c |-> c]), lockState' = lockState
        PROVE  Base' /\ Turn(o)
    <2>1. PICK cmd \in Commands : cmd = [c |-> c]
      BY DEF Commands
    <2>2. Send(o, op[o], cmd)
      BY <1>3, <2>1
    <2>3. /\ Sent(o) /\ op'[o].cmd = cmd /\ op'[o].req = op[o].req /\ op'[o].pc = "send" /\ Turn(o)
      BY <2>2, SendsOwn
    <2>4. op'[o].cmd.c = c
      BY <2>1, <2>3
    <2>5. Scripted(o)'
      BY <1>1, <2>3, <2>4 DEF Scripted, Writes
    <2>6. Plain'
      BY <1>1, <1>3 DEF Plain, mirror
    <2> QED BY <2>3, <2>5, <2>6, BaseSent
  <1>4. CASE Unlocked(o)
    BY <1>2, <1>4 DEF Unlocked
  <1>5. CASE PollOn(o)
    BY <1>2, <1>3, <1>5 DEF PollOn, UnlockFails
  <1>6. CASE Send(o, op[o], [c |-> "start"]) /\ UNCHANGED lockState
    BY <1>3, <1>6
  <1> QED BY <1>4, <1>5, <1>6

LEMMA UnlockTurns ==
    ASSUME Base, NEW o \in Ops,
           UnlockBegun(o) \/ UnlockStarted(o) \/ Polled(o) \/ PollAgain(o)
    PROVE  /\ Base' /\ Turn(o) /\ op[o].req.kind = "unlock" /\ UNCHANGED mirror
           /\ lockState' \in {lockState, "locked"} \/ ~dev.locked
  <1>1. UNCHANGED <<mirror, pending, family, closed, races, dev>>
    BY DEF UnlockBegun, UnlockStarted, Polled, PollAgain, Unmoved
  <1>2. Types /\ Plain /\ Lined /\ Scripted(o)
    BY DEF Base, Types
  <1>3. CASE PollAgain(o)
    <2>1. PollOn(o) /\ op[o].pc = "wait" /\ Busy(o) /\ ~Out(o)
      BY <1>3 DEF PollAgain, Busy, Out
    <2>2. op[o].req.kind = "unlock"
      BY <1>2, <2>1 DEF Scripted
    <2>3. Base' /\ Turn(o) /\ (lockState' \in {lockState, "locked"} \/ Unlocked(o))
      BY <1>1, <2>1, <2>2, UnlockMoves
    <2>4. lockState' \in {lockState, "locked"}
      BY <2>1 DEF PollOn, UnlockFails
    <2> QED BY <1>1, <2>2, <2>3, <2>4
  <1>4. CASE UnlockBegun(o)
    <2>1. Answered(o, "status") /\ op[o].req.kind = "unlock"
      BY <1>4 DEF UnlockBegun
    <2>2. /\ Busy(o) /\ ~Out(o) /\ Ready(o) /\ Current(o) /\ op[o].cmd.c = "status"
          /\ op[o].reply.how = "ok"
      BY <2>1, AnsweredFacts
    <2>3. op[o].reply.locked = dev.locked
      BY <2>2 DEF Current
    <2>4. \/ Unlocked(o) /\ ~op[o].reply.locked
          \/ PollOn(o)
          \/ Send(o, op[o], [c |-> "start"]) /\ UNCHANGED lockState
      BY <1>4 DEF UnlockBegun
    <2>5. Base' /\ Turn(o)
      BY <1>1, <2>1, <2>2, <2>4, UnlockMoves
    <2>6. lockState' \in {lockState, "locked"} \/ ~dev.locked
      BY <2>3, <2>4 DEF PollOn, UnlockFails
    <2> QED BY <1>1, <2>1, <2>5, <2>6
  <1>5. CASE UnlockStarted(o)
    <2>1. Answered(o, "start") /\ PollOn(o)
      BY <1>5 DEF UnlockStarted
    <2>2. /\ Busy(o) /\ ~Out(o) /\ op[o].cmd.c = "start" /\ op[o].pc = "send"
          /\ op[o].req \in Requests
      BY <2>1, AnsweredFacts
    <2>3. op[o].req.kind = "unlock"
      BY <1>2, <2>2, KindOf
    <2>4. Base' /\ Turn(o)
      BY <1>1, <2>1, <2>2, <2>3, UnlockMoves
    <2>5. lockState' \in {lockState, "locked"}
      BY <2>1 DEF PollOn, UnlockFails
    <2> QED BY <1>1, <2>3, <2>4, <2>5
  <1>6. CASE Polled(o)
    <2>1. Answered(o, "poll") /\ op[o].pc = "send"
      BY <1>6 DEF Polled
    <2>2. /\ Busy(o) /\ ~Out(o) /\ Ready(o) /\ Current(o) /\ op[o].cmd.c = "poll"
          /\ op[o].req \in Requests /\ op[o].reply.how = "ok" /\ op[o] \in Operation
      BY <2>1, AnsweredFacts
    <2>3. op[o].req.kind = "unlock"
      BY <1>2, <2>1, <2>2, KindOf
    <2>4. op[o].reply.locked = dev.locked
      BY <2>2 DEF Current
    <2>5. CASE ~op[o].reply.locked
      <3>1. Unlocked(o)
        BY <1>6, <2>5 DEF Polled
      <3>2. Base' /\ Turn(o)
        BY <1>1, <2>2, <2>3, <3>1, UnlockMoves
      <3> QED BY <1>1, <2>3, <2>4, <2>5, <3>2
    <2>6. CASE op[o].reply.locked
      <3>1. op' = [op EXCEPT ![o].pc = "wait"] /\ UNCHANGED <<line, lockState>>
        BY <1>6, <2>6 DEF Polled
      <3>2. PICK n : n = [op[o] EXCEPT !.pc = "wait"]
        OBVIOUS
      <3>3. /\ n \in Operation /\ n.pc = "wait" /\ n.req = op[o].req /\ n.cmd = op[o].cmd
            /\ n.reply = op[o].reply
        BY <2>2, <3>2 DEF Operation
      <3>4. op' = [op EXCEPT ![o] = n] /\ op \in [Ops -> Operation]
        BY <1>2, <3>1, <3>2 DEF Types
      <3>5. op' \in [Ops -> Operation] /\ op'[o] = n /\ Others(o)
        BY <3>3, <3>4 DEF Others
      <3>6. Scripted(o)' /\ ~Out(o)' /\ ~Ready(o)'
        BY <1>2, <2>1, <2>2, <2>3, <3>3, <3>5 DEF Scripted, Out, Ready
      <3>7. ASSUME NEW p \in Ops \ {o}
            PROVE  /\ (Out(p)' <=> Out(p)) /\ (Ready(p)' <=> Ready(p))
                   /\ Scripted(p)' /\ Current(p)'
        <4>1. op'[p] = op[p] /\ Scripted(p) /\ Current(p) /\ dev' = dev
          BY <1>1, <3>5 DEF Others, Base
        <4> QED BY <4>1 DEF Out, Ready, Scripted, Current, Reading, MacroPhase
      <3>8. Lined'
        BY <1>2, <2>2, <3>1, <3>6, <3>7 DEF Lined
      <3>9. Types'
        BY <1>1, <1>2, <3>1, <3>5 DEF Types, Plain, mirror
      <3>10. Current(o)'
        BY <3>6 DEF Current
      <3>11. Base'
        BY <3>6, <3>7, <3>8, <3>9, <3>10 DEF Base
      <3>12. Turn(o)
        BY <1>1, <2>2, <3>1, <3>3, <3>5 DEF Turn
      <3> QED BY <1>1, <2>3, <3>1, <3>11, <3>12
    <2> QED BY <2>5, <2>6
  <1> QED BY <1>3, <1>4, <1>5, <1>6

LEMMA FailureTurns ==
    ASSUME Base, NEW o \in Ops, SendFailed(o)
    PROVE  /\ Base' /\ Turn(o) /\ Ended(o, "failed") /\ op[o].reply.how = "error" /\ Ready(o)
           /\ UNCHANGED mirror /\ lockState' \in {lockState, "locked"}
  <1>1. /\ Busy(o) /\ op[o].reply.how = "error" /\ End(o, "failed") /\ line' = line
        /\ lockState' \in {lockState, "locked"}
        /\ UNCHANGED <<mirror, pending, family, closed, races, dev>>
    BY DEF SendFailed, Unmoved, UnlockFails
  <1>2. Types /\ Plain /\ Scripted(o)
    BY DEF Base, Types
  <1>3. op[o].pc = "send"
    BY <1>1, <1>2 DEF Scripted, Busy
  <1>4. Ready(o) /\ ~Out(o)
    BY <1>1, <1>3 DEF Ready, Out
  <1>5. Ended(o, "failed")
    BY <1>1, <1>2, Ends
  <1>6. Plain'
    BY <1>1, <1>2 DEF Plain, mirror
  <1>7. Turn(o)
    BY <1>1, <1>3, <1>4, <1>5, TurnEnded
  <1> QED BY <1>1, <1>3, <1>4, <1>5, <1>6, <1>7, BaseEnded

-----------------------------------------------------------------------------
(* A call begins, the channel answers, and the rest.                       *)

LEMMA FirstCommand ==
    ASSUME Plain, NEW r \in Requests, Known(r)
    PROVE  /\ First(r) \in Commands /\ First(r).c # "none"
           /\ r.kind = "setKey" =>
                First(r) = [c |-> "write", slot |-> Layouts[def].keys[r.pos], val |-> r.val]
                /\ Layouts[def].keys[r.pos] \in ToSet(Cells)
           /\ r.kind = "setEncoder" => First(r) = [c |-> "write", slot |-> r.dir, val |-> r.val]
           /\ r.kind = "applyLayout" => First(r) = ReadCmd(Head(Plan(r.def)))
           /\ r.kind = "reset" => First(r).c = "reset"
           /\ r.kind = "setMacro" => First(r).c = "size"
           /\ r.kind \in {"unlock", "getLockState"} => First(r).c = "status"
           /\ r.kind = "lock" => First(r).c = "lock"
           /\ r.kind = "setCombo" => First(r).c = "entry"
  <1>1. r.kind \in {"setKey", "setEncoder", "setMacro", "applyLayout", "unlock",
                    "reset", "lock", "getLockState", "setCombo"}
    BY RequestFields
  <1>2. CASE r.kind = "setKey"
    <2>1. PICK s : s = Layouts[def].keys[r.pos]
      OBVIOUS
    <2>2. First(r) = [c |-> "write", slot |-> s, val |-> r.val]
      BY <1>2, <2>1 DEF First
    <2>3. def \in DOMAIN Layouts /\ r.pos \in DOMAIN Layouts[def].keys
      BY <1>2 DEF Known, Plain
    <2>4. Layouts[def].keys \in Seq(ToSet(Cells))
      BY <2>3, LayoutsAssumption
    <2>5. s \in ToSet(Cells)
      BY <2>1, <2>3, <2>4
    <2>6. s \in Slots /\ r.val \in Actions
      BY <1>2, <2>5, SlotKinds, RequestFields
    <2>7. First(r) \in Commands /\ First(r).c = "write"
      BY <2>2, <2>6 DEF Commands
    <2> QED BY <1>2, <2>1, <2>2, <2>5, <2>7
  <1>3. CASE r.kind = "setEncoder"
    <2>1. First(r) = [c |-> "write", slot |-> r.dir, val |-> r.val]
      BY <1>3 DEF First
    <2>2. r.dir \in Slots /\ r.val \in Actions
      BY <1>3, SlotKinds, RequestFields
    <2>3. First(r) \in Commands /\ First(r).c = "write"
      BY <2>1, <2>2 DEF Commands
    <2> QED BY <1>3, <2>1, <2>3
  <1>4. CASE r.kind = "applyLayout"
    <2>1. First(r) = ReadCmd(Head(Plan(r.def)))
      BY <1>4 DEF First
    <2>2. Head(Plan(r.def)) \in SUBSET Slots
      BY <1>4, RequestFields, PlanProperties
    <2>3. First(r) \in Commands /\ First(r).c = "read"
      BY <2>1, <2>2 DEF Commands, ReadCmd
    <2> QED BY <1>4, <2>1, <2>3
  <1>5. CASE r.kind \in {"setMacro", "unlock", "reset", "lock", "getLockState", "setCombo"}
    <2>1. PICK c : c = IF r.kind = "reset" THEN "reset"
                       ELSE IF r.kind = "setMacro" THEN "size"
                       ELSE IF r.kind = "lock" THEN "lock"
                       ELSE IF r.kind = "setCombo" THEN "entry" ELSE "status"
      OBVIOUS
    <2>2. First(r) = [c |-> c]
      BY <1>5, <2>1 DEF First
    <2>3. c \in {"reset", "size", "lock", "entry", "status"}
      BY <2>1
    <2>4. First(r) \in Commands /\ First(r).c = c
      BY <2>2, <2>3 DEF Commands
    <2> QED BY <1>5, <2>1, <2>3, <2>4
  <1> QED BY <1>1, <1>2, <1>3, <1>4, <1>5

\* A call is turned away at once, or its first send joins the line.
Begun(o, r) ==
    /\ Sent(o) /\ op[o].pc = "idle" /\ r \in Offers[o] /\ r \in Requests
    /\ MayWrite(r) /\ Known(r)
    /\ op'[o].req = r /\ op'[o].cmd = First(r)
    /\ r.kind = "setMacro" => op'[o].rest = <<>> /\ op'[o].before = dev.mem
    /\ r.kind = "applyLayout" => op'[o].rest = Plan(r.def) /\ op'[o].def = r.def
    /\ lockState' \in {lockState, "unlocking"} /\ races' = races \cup Crossed(r)

LEMMA BeginTurns ==
    ASSUME Base, NEW o \in Ops, Begin(o)
    PROVE  /\ Base' /\ UNCHANGED <<family, closed, mirror, dev>> /\ Others(o)
           /\ \/ \E r \in Requests : Begun(o, r)
              \/ /\ op[o].pc = "idle" /\ op'[o].pc = "refused"
                 /\ UNCHANGED <<line, lockState, races>>
  <1>1. UNCHANGED <<family, closed, mirror, pending, dev>> /\ op[o].pc = "idle"
    BY DEF Begin
  <1>2. Types /\ Plain /\ Lined /\ op[o] \in Operation /\ ~Out(o)
    BY <1>1 DEF Base, Types, Out
  <1>3. PICK r \in Offers[o] :
           IF ~Usable(r) \/ ~MayWrite(r) \/ ~Known(r)
             THEN Refused(o, r)
             ELSE /\ Send(o, Locals(o, r), First(r))
                  /\ lockState' = IF r.kind = "unlock" THEN "unlocking" ELSE lockState
                  /\ races' = races \cup Crossed(r)
    BY DEF Begin
  <1>4. r \in Requests
    BY OffersAssumption
  <1>5. CASE ~Usable(r) \/ ~MayWrite(r) \/ ~Known(r)
    <2>1. /\ op' = [op EXCEPT ![o] = [@ EXCEPT !.req = r, !.pc = "refused"]]
          /\ UNCHANGED <<line, lockState, races>>
      BY <1>3, <1>5 DEF Refused
    <2>2. PICK n : n = [op[o] EXCEPT !.req = r, !.pc = "refused"]
      OBVIOUS
    <2>3. n \in Operation /\ n.pc = "refused" /\ n.req = r
      BY <1>2, <1>4, <2>2 DEF Operation
    <2>4. op' = [op EXCEPT ![o] = n] /\ op \in [Ops -> Operation]
      BY <1>2, <2>1, <2>2 DEF Types
    <2>5. op' \in [Ops -> Operation] /\ op'[o] = n /\ Others(o)
      BY <2>3, <2>4 DEF Others
    <2>6. Scripted(o)' /\ ~Out(o)' /\ ~Ready(o)'
      BY <1>4, <2>3, <2>5 DEF Scripted, Out, Ready
    <2>7. ASSUME NEW p \in Ops \ {o}
          PROVE  /\ (Out(p)' <=> Out(p)) /\ (Ready(p)' <=> Ready(p))
                 /\ Scripted(p)' /\ Current(p)'
      <3>1. op'[p] = op[p] /\ Scripted(p) /\ Current(p) /\ dev' = dev
        BY <1>1, <2>5 DEF Others, Base
      <3> QED BY <3>1 DEF Out, Ready, Scripted, Current, Reading, MacroPhase
    <2>8. Lined'
      BY <1>2, <2>1, <2>6, <2>7 DEF Lined
    <2>9. Types'
      BY <1>1, <1>2, <2>1, <2>5 DEF Types, Plain, mirror
    <2>10. Current(o)'
      BY <2>6 DEF Current
    <2>11. Base'
      BY <2>6, <2>7, <2>8, <2>9, <2>10 DEF Base
    <2> QED BY <1>1, <2>1, <2>3, <2>5, <2>11
  <1>6. CASE Usable(r) /\ MayWrite(r) /\ Known(r)
    <2>1. /\ Send(o, Locals(o, r), First(r))
          /\ lockState' = IF r.kind = "unlock" THEN "unlocking" ELSE lockState
          /\ races' = races \cup Crossed(r)
      BY <1>3, <1>6
    <2>2. dev.mem \in [Slots -> Actions]
      BY <1>2 DEF Types, Keyboard
    <2>3. r.kind = "applyLayout" => /\ r.def \in DOMAIN Layouts
                                    /\ Plan(r.def) \in Seq(SUBSET Slots) /\ Plan(r.def) # <<>>
                                    /\ Plan(r.def) \in Seq(Slots \cup SUBSET Slots)
      <3>1. r.kind = "applyLayout" => r.def \in DOMAIN Layouts
        BY <1>4, RequestFields
      <3>2. r.kind = "applyLayout" => Plan(r.def) \in Seq(SUBSET Slots) /\ Plan(r.def) # <<>>
        BY <3>1, PlanProperties
      <3> QED BY <3>1, <3>2, WiderSeq
    <2>4. PICK b \in [Slots -> Actions] : b = IF r.kind = "setMacro" THEN dev.mem ELSE op[o].before
      BY <1>2, <2>2 DEF Operation
    <2>5. PICK d \in DOMAIN Layouts \cup {"none"} :
             d = IF r.kind = "applyLayout" THEN r.def ELSE op[o].def
      BY <1>2, <2>3 DEF Operation
    <2>6. PICK rest \in Seq(Slots \cup SUBSET Slots) :
             rest = IF r.kind = "applyLayout" THEN Plan(r.def) ELSE <<>>
      <3>1. <<>> \in Seq(Slots \cup SUBSET Slots)
        OBVIOUS
      <3> QED BY <2>3, <3>1
    <2>7. PICK n : n = [op[o] EXCEPT !.req = r, !.before = b, !.def = d, !.rest = rest]
      OBVIOUS
    <2>8. n = Locals(o, r)
      BY <2>4, <2>5, <2>6, <2>7 DEF Locals
    <2>9. n \in Operation /\ n.req = r /\ n.before = b /\ n.def = d /\ n.rest = rest
      BY <1>2, <1>4, <2>7 DEF Operation
    <2>10. PICK cmd \in Commands : cmd = First(r) /\ cmd.c # "none"
      BY <1>2, <1>4, <1>6, FirstCommand
    <2>11. Send(o, n, cmd)
      BY <2>1, <2>8, <2>10
    <2>12. /\ Sent(o) /\ op'[o].cmd = cmd /\ op'[o].req = r /\ op'[o].rest = rest
           /\ op'[o].before = b /\ op'[o].def = d
      BY <1>2, <2>9, <2>11, Sends
    <2>13. Begun(o, r)
      <3>1. r.kind = "setMacro" => rest = <<>> /\ b = dev.mem
        BY <2>4, <2>6
      <3>2. r.kind = "applyLayout" => rest = Plan(r.def) /\ d = r.def
        BY <2>5, <2>6
      <3>3. lockState' \in {lockState, "unlocking"}
        BY <2>1
      <3> QED BY <1>1, <1>4, <1>6, <2>1, <2>10, <2>12, <3>1, <3>2, <3>3 DEF Begun
    <2>14. /\ r.kind = "setKey" => cmd.c = "write" /\ cmd.val = r.val /\ cmd.slot \in ToSet(Cells)
           /\ r.kind = "setEncoder" => cmd = [c |-> "write", slot |-> r.dir, val |-> r.val]
           /\ r.kind = "applyLayout" => cmd = ReadCmd(Head(Plan(r.def)))
           /\ r.kind = "reset" => cmd.c = "reset"
           /\ r.kind = "setMacro" => cmd.c = "size"
           /\ r.kind \in {"unlock", "getLockState"} => cmd.c = "status"
           /\ r.kind = "lock" => cmd.c = "lock"
           /\ r.kind = "setCombo" => cmd.c = "entry"
      BY <1>2, <1>4, <1>6, <2>10, FirstCommand
    <2>15. op'[o].pc = "send"
      BY <2>12 DEF Sent
    <2>16. r.kind = "applyLayout" => Reading(o)' /\ op'[o].def = r.def
      BY <2>3, <2>5, <2>6, <2>12, <2>14 DEF Reading
    <2>17. r.kind = "setMacro" => MacroPhase(o)'
      BY <2>6, <2>12, <2>14 DEF MacroPhase
    <2>18. Scripted(o)'
      BY <1>4, <2>10, <2>12, <2>14, <2>15, <2>16, <2>17 DEF Scripted
    <2>19. Crossed(r) \subseteq {"reload", "lock", "macro"}
      BY DEF Crossed
    <2>20. Plain'
      BY <1>1, <1>2, <2>1, <2>19 DEF Plain, mirror
    <2>21. Others(o)
      BY <2>12 DEF Sent
    <2> QED BY <1>1, <1>2, <1>4, <2>12, <2>13, <2>18, <2>20, <2>21, BaseSent
  <1> QED BY <1>5, <1>6

\* What carrying out a command may do to the keyboard.
Effect(o, d) ==
    /\ d \in Keyboard
    /\ dev.skipped => d.skipped
    /\ d.skipped => dev.skipped \/ Refuses(o)
    /\ d.locked => dev.locked \/ op[o].cmd.c = "lock"
    /\ \A s \in Slots : \/ d.mem[s] = dev.mem[s]
                        \/ op[o].cmd.c = "write" /\ op[o].cmd.slot = s
                        \/ op[o].cmd.c = "reset" /\ s \notin ToSet(Macros)

LEMMA AfterEffect ==
    ASSUME Types, NEW o \in Ops, NEW d \in {dev} \cup After(o)
    PROVE  /\ Effect(o, d)
           /\ d \in After(o) /\ op[o].cmd.c = "write" /\ ~d.skipped =>
                d.mem[op[o].cmd.slot] = op[o].cmd.val
  <1>1. PICK cmd \in Commands : cmd = op[o].cmd
    BY DEF Types, Operation
  <1>2. PICK mem \in [Slots -> Actions] : mem = dev.mem
    BY DEF Types, Keyboard
  <1>3. dev \in Keyboard
    BY DEF Types
  <1>4. PICK refuses \in BOOLEAN : refuses <=> Refuses(o)
    OBVIOUS
  <1>5. Effect(o, dev)
    BY <1>3 DEF Effect
  <1>6. CASE d \in After(o) /\ cmd.c = "write" /\ refuses
    <2>1. d = [dev EXCEPT !.skipped = TRUE,
                          !.mem = IF cmd.slot \in ToSet(Macros) THEN @
                                  ELSE [@ EXCEPT ![cmd.slot] = Blank]]
      BY <1>1, <1>4, <1>6 DEF After
    <2>2. cmd.slot \in Slots
      BY <1>6 DEF Commands
    <2>3. PICK m \in [Slots -> Actions] :
             /\ m = IF cmd.slot \in ToSet(Macros) THEN mem ELSE [mem EXCEPT ![cmd.slot] = Blank]
             /\ \A s \in Slots : s # cmd.slot => m[s] = mem[s]
      BY <2>2, ActionsAssumption
    <2>4. d = [dev EXCEPT !.skipped = TRUE, !.mem = m]
      BY <1>2, <2>1, <2>3
    <2>5. d \in Keyboard /\ d.skipped = TRUE /\ d.mem = m /\ d.locked = dev.locked
      BY <1>3, <2>4 DEF Keyboard
    <2> QED BY <1>1, <1>2, <1>4, <1>6, <2>3, <2>5 DEF Effect
  <1>7. CASE d \in After(o) /\ cmd.c = "write" /\ ~refuses
    <2>1. d = [dev EXCEPT !.mem[cmd.slot] = cmd.val]
      BY <1>1, <1>4, <1>7 DEF After
    <2>2. cmd.slot \in Slots /\ cmd.val \in Actions
      BY <1>7 DEF Commands
    <2>3. PICK m \in [Slots -> Actions] : m = [mem EXCEPT ![cmd.slot] = cmd.val]
      BY <2>2
    <2>4. d = [dev EXCEPT !.mem = m]
      BY <1>2, <2>1, <2>3
    <2>5. /\ d \in Keyboard /\ d.skipped = dev.skipped /\ d.mem = m /\ d.locked = dev.locked
          /\ m[cmd.slot] = cmd.val /\ \A s \in Slots : s # cmd.slot => m[s] = mem[s]
      BY <1>3, <2>2, <2>3, <2>4 DEF Keyboard
    <2> QED BY <1>1, <1>2, <1>7, <2>5 DEF Effect
  <1>8. CASE d \in After(o) /\ cmd.c = "reset"
    <2>1. d = [dev EXCEPT !.mem = [s \in Slots |-> IF s \in ToSet(Macros) THEN @[s] ELSE Blank]]
      BY <1>1, <1>8 DEF After
    <2>2. PICK m \in [Slots -> Actions] :
             m = [s \in Slots |-> IF s \in ToSet(Macros) THEN mem[s] ELSE Blank]
      BY ActionsAssumption
    <2>3. d = [dev EXCEPT !.mem = m]
      BY <1>2, <2>1, <2>2
    <2>4. d \in Keyboard /\ d.skipped = dev.skipped /\ d.mem = m /\ d.locked = dev.locked
      BY <1>3, <2>3 DEF Keyboard
    <2> QED BY <1>1, <1>2, <1>8, <2>2, <2>4 DEF Effect
  <1>9. CASE d \in After(o) /\ cmd.c \notin {"write", "reset"}
    <2>1. /\ cmd.c = "start" => d = [dev EXCEPT !.inProgress = TRUE]
          /\ cmd.c = "lock" => d = [dev EXCEPT !.locked = TRUE, !.inProgress = FALSE]
          /\ cmd.c = "poll" => d \in {dev, [dev EXCEPT !.locked = FALSE, !.inProgress = FALSE]}
          /\ cmd.c \notin {"start", "lock", "poll"} => d = dev
      BY <1>1, <1>9 DEF After
    <2>2. CASE cmd.c = "start"
      <3>1. /\ d \in Keyboard /\ d.skipped = dev.skipped /\ d.mem = dev.mem
            /\ d.locked = dev.locked
        BY <1>3, <2>1, <2>2 DEF Keyboard
      <3> QED BY <1>1, <1>9, <3>1 DEF Effect
    <2>3. CASE cmd.c = "lock"
      <3>1. d \in Keyboard /\ d.skipped = dev.skipped /\ d.mem = dev.mem
        BY <1>3, <2>1, <2>3 DEF Keyboard
      <3> QED BY <1>1, <1>9, <2>3, <3>1 DEF Effect
    <2>4. CASE cmd.c = "poll" /\ d # dev
      <3>1. d \in Keyboard /\ d.skipped = dev.skipped /\ d.mem = dev.mem /\ d.locked = FALSE
        BY <1>3, <2>1, <2>4 DEF Keyboard
      <3> QED BY <1>1, <1>9, <3>1 DEF Effect
    <2>5. CASE d = dev
      BY <1>1, <1>5, <1>9, <2>5
    <2> QED BY <2>1, <2>2, <2>3, <2>4, <2>5
  <1>10. CASE d \notin After(o)
    BY <1>5, <1>10
  <1> QED BY <1>4, <1>6, <1>7, <1>8, <1>9, <1>10

LEMMA SettledReady == Settled <=> \E o \in Ops : Ready(o)
  BY DEF Settled, Ready, Busy

LEMMA ChannelTurns ==
    ASSUME Base, ~Settled, NEW o \in Ops, Channel(o)
    PROVE  /\ Base' /\ Others(o) /\ Out(o) /\ Busy(o) /\ Busy(o)' /\ Ready(o)'
           /\ UNCHANGED <<family, closed, mirror, lockState, pending, races>>
           /\ op'[o].req = op[o].req /\ op'[o].cmd = op[o].cmd /\ op'[o].rest = op[o].rest
           /\ op'[o].seen = op[o].seen /\ op'[o].before = op[o].before
           /\ op'[o].def = op[o].def /\ op'[o].pc = "send"
           /\ Effect(o, dev')
           /\ op'[o].reply.how \in {"ok", "error"}
           /\ op'[o].reply.how = "ok" /\ op[o].cmd.c = "write" /\ ~dev'.skipped =>
                dev'.mem[op[o].cmd.slot] = op[o].cmd.val
           /\ Head(line) = o /\ line' = Tail(line)
  <1>1. Types /\ Plain /\ Lined /\ op[o] \in Operation /\ Scripted(o)
    BY DEF Base, Types
  <1>2. /\ line # <<>> /\ Head(line) = o /\ line' = Tail(line)
        /\ UNCHANGED <<family, closed, mirror, lockState, pending, races>>
    BY DEF Channel, OnWire
  <1>3. line \in Seq(Ops) /\ NoRepeat(line) /\ On(line, o)
    BY <1>1, <1>2, TailOfLine DEF Lined
  <1>4. Out(o) /\ op[o].pc = "send" /\ Busy(o)
    BY <1>1, <1>3 DEF Lined, Out, Busy
  <1>5. PICK reply :
           /\ op' = [op EXCEPT ![o].reply = reply]
           /\ \/ dev' \in After(o) /\ reply = ReplyTo(o, dev')
              \/ dev' \in {dev} \cup After(o) /\ reply = [how |-> "error"]
    BY DEF Channel
  <1>6. PICK d : d = dev' /\ d \in {dev} \cup After(o)
    BY <1>5
  <1>7. /\ Effect(o, d)
        /\ d \in After(o) /\ op[o].cmd.c = "write" /\ ~d.skipped =>
             d.mem[op[o].cmd.slot] = op[o].cmd.val
    BY <1>1, <1>6, AfterEffect
  <1>8. d \in Keyboard
    BY <1>7 DEF Effect
  <1>9. /\ reply \in Replies /\ reply.how \in {"ok", "error"}
        /\ reply.how = "ok" => d \in After(o)
        /\ reply.how = "ok" /\ op[o].cmd.c = "read" =>
             reply.mem = [s \in op[o].cmd.slots |-> d.mem[s]]
        /\ reply.how = "ok" /\ op[o].cmd.c \in {"status", "poll"} =>
             reply.locked = d.locked /\ reply.inProgress = d.inProgress
    <2>1. CASE reply = [how |-> "error"]
      BY <2>1 DEF Replies
    <2>2. CASE reply = ReplyTo(o, d) /\ d \in After(o) /\ op[o].cmd.c = "read"
      <3>1. reply = [how |-> "ok", mem |-> [s \in op[o].cmd.slots |-> d.mem[s]]]
        BY <2>2 DEF ReplyTo
      <3>2. op[o].cmd.slots \in SUBSET Slots
        BY <1>1, <2>2 DEF Operation, Commands
      <3>3. d.mem \in [Slots -> Actions]
        BY <1>8 DEF Keyboard
      <3>4. PICK S \in SUBSET Slots : S = op[o].cmd.slots
        BY <3>2
      <3>5. PICK mem : mem = [s \in S |-> d.mem[s]]
        OBVIOUS
      <3>6. mem \in [S -> Actions]
        BY <3>3, <3>5
      <3>7. mem \in UNION {[T -> Actions] : T \in SUBSET Slots}
        BY <3>6
      <3>8. reply = [how |-> "ok", mem |-> mem]
        BY <3>1, <3>4, <3>5
      <3> QED BY <2>2, <3>4, <3>5, <3>7, <3>8 DEF Replies
    <2>3. CASE reply = ReplyTo(o, d) /\ d \in After(o) /\ op[o].cmd.c \in {"status", "poll"}
      <3>1. reply = [how |-> "ok", locked |-> d.locked, inProgress |-> d.inProgress]
        BY <2>3 DEF ReplyTo
      <3>2. d.locked \in BOOLEAN /\ d.inProgress \in BOOLEAN
        BY <1>8 DEF Keyboard
      <3> QED BY <2>3, <3>1, <3>2 DEF Replies
    <2>4. CASE reply = ReplyTo(o, d) /\ d \in After(o) /\ op[o].cmd.c \notin {"read", "status", "poll"}
      <3>1. reply = [how |-> "ok"]
        BY <2>4 DEF ReplyTo
      <3> QED BY <2>4, <3>1 DEF Replies
    <2> QED BY <1>5, <1>6, <2>1, <2>2, <2>3, <2>4
  <1>10. PICK n : n = [op[o] EXCEPT !.reply = reply]
    OBVIOUS
  <1>11. /\ n \in Operation /\ n.reply = reply /\ n.pc = "send" /\ n.req = op[o].req
         /\ n.cmd = op[o].cmd /\ n.rest = op[o].rest /\ n.seen = op[o].seen
         /\ n.before = op[o].before /\ n.def = op[o].def
    BY <1>1, <1>4, <1>9, <1>10 DEF Operation
  <1>12. op' = [op EXCEPT ![o] = n] /\ op \in [Ops -> Operation]
    BY <1>1, <1>5, <1>10 DEF Types
  <1>13. op' \in [Ops -> Operation] /\ op'[o] = n /\ Others(o)
    BY <1>11, <1>12 DEF Others
  <1>14. Ready(o)' /\ ~Out(o)' /\ Busy(o)'
    BY <1>9, <1>11, <1>13 DEF Ready, Out, Busy
  <1>15. Scripted(o)'
    BY <1>1, <1>4, <1>11, <1>13 DEF Scripted, Reading, MacroPhase
  <1>16. Current(o)'
    BY <1>6, <1>9, <1>11, <1>13 DEF Current
  <1>17. \A p \in Ops : ~Ready(p)
    BY SettledReady
  <1>18. ASSUME NEW p \in Ops \ {o}
         PROVE  (Out(p)' <=> Out(p)) /\ ~Ready(p)' /\ Scripted(p)' /\ Current(p)'
    <2>1. op'[p] = op[p] /\ Scripted(p) /\ ~Ready(p)
      BY <1>13, <1>17 DEF Others, Base
    <2>2. (Out(p)' <=> Out(p)) /\ ~Ready(p)'
      BY <2>1 DEF Out, Ready
    <2>3. Scripted(p)'
      BY <2>1 DEF Scripted, Reading, MacroPhase
    <2> QED BY <2>2, <2>3 DEF Current
  <1>19. Lined'
    <2>1. /\ Tail(line) \in Seq(Ops) /\ NoRepeat(Tail(line))
          /\ \A x : On(Tail(line), x) <=> On(line, x) /\ x # o
      BY <1>2, <1>3, TailOfLine
    <2>2. \A p \in Ops : On(line', p) <=> Out(p)'
      BY <1>1, <1>2, <1>14, <1>18, <2>1 DEF Lined
    <2> QED BY <1>2, <1>14, <1>18, <2>1, <2>2 DEF Lined
  <1>20. Types'
    BY <1>1, <1>2, <1>6, <1>8, <1>13 DEF Types, Plain, mirror
  <1>21. Base'
    BY <1>15, <1>16, <1>18, <1>19, <1>20 DEF Base
  <1> QED BY <1>2, <1>4, <1>6, <1>7, <1>9, <1>11, <1>13, <1>14, <1>21

\* The deadline of an unlock flow, a commit() and a closed transport move no operation.
Rests ==
    /\ UNCHANGED <<family, mirror, lockState, line, dev, races>>
    /\ op' \in [Ops -> Operation]
    /\ \A p \in Ops : /\ op'[p].pc = op[p].pc /\ op'[p].req = op[p].req
                      /\ op'[p].cmd = op[p].cmd /\ op'[p].reply = op[p].reply
                      /\ op'[p].rest = op[p].rest /\ op'[p].seen = op[p].seen
                      /\ op'[p].before = op[p].before /\ op'[p].def = op[p].def

LEMMA RestsKeep ==
    ASSUME Base, Rests, Plain'
    PROVE  Base'
  <1>1. ASSUME NEW p \in Ops
        PROVE  (Out(p)' <=> Out(p)) /\ (Ready(p)' <=> Ready(p)) /\ Scripted(p)' /\ Current(p)'
    <2>1. /\ op'[p].pc = op[p].pc /\ op'[p].req = op[p].req /\ op'[p].cmd = op[p].cmd
          /\ op'[p].reply = op[p].reply /\ op'[p].rest = op[p].rest
          /\ op'[p].seen = op[p].seen /\ op'[p].def = op[p].def /\ dev' = dev
      BY DEF Rests
    <2>2. Scripted(p) /\ Current(p)
      BY DEF Base
    <2> QED BY <2>1, <2>2 DEF Out, Ready, Scripted, Current, Reading, MacroPhase
  <1>2. Lined'
    BY <1>1 DEF Base, Lined, Rests
  <1>3. Types'
    BY DEF Base, Types, Rests
  <1> QED BY <1>1, <1>2, <1>3 DEF Base

LEMMA QuietSteps ==
    ASSUME Base, (\E o \in Ops : Deadline(o)) \/ Commit \/ ClientCloses \/ UNCHANGED vars
    PROVE  Base' /\ Rests
  <1>1. Types /\ Plain /\ op \in [Ops -> Operation]
    BY DEF Base, Types
  <1>2. CASE Commit \/ ClientCloses \/ UNCHANGED vars
    <2>1. UNCHANGED <<family, mirror, lockState, op, line, dev, races>>
          /\ closed' \in BOOLEAN /\ pending' \in BOOLEAN
      BY <1>1, <1>2 DEF Commit, ClientCloses, vars, Plain
    <2>2. Rests
      BY <1>1, <2>1 DEF Rests
    <2>3. Plain'
      BY <1>1, <2>1 DEF Plain, mirror
    <2> QED BY <2>2, <2>3, RestsKeep
  <1>3. CASE \E o \in Ops : Deadline(o)
    <2>1. PICK o \in Ops : Deadline(o)
      BY <1>3
    <2>2. /\ op' = [op EXCEPT ![o].late = TRUE]
          /\ UNCHANGED <<family, closed, mirror, lockState, pending, line, dev, races>>
      BY <2>1 DEF Deadline
    <2>3. PICK n : n = [op[o] EXCEPT !.late = TRUE]
      OBVIOUS
    <2>4. /\ n \in Operation /\ n.pc = op[o].pc /\ n.req = op[o].req /\ n.cmd = op[o].cmd
          /\ n.reply = op[o].reply /\ n.rest = op[o].rest /\ n.seen = op[o].seen
          /\ n.before = op[o].before /\ n.def = op[o].def
      BY <1>1, <2>3 DEF Operation
    <2>5. op' = [op EXCEPT ![o] = n]
      BY <2>2, <2>3
    <2>6. Rests
      BY <1>1, <2>2, <2>4, <2>5 DEF Rests
    <2>7. Plain'
      BY <1>1, <2>2 DEF Plain, mirror
    <2> QED BY <2>6, <2>7, RestsKeep
  <1> QED BY <1>2, <1>3

LEMMA InitBase == Init => Base
  <1> SUFFICES ASSUME Init PROVE Base
    OBVIOUS
  <1>1. def \in DOMAIN Layouts /\ family \in Families
    BY DEF Init
  <1>2. dev \in Keyboard /\ dev.mem = NoMem
    BY SlotKinds DEF Init, Keyboard
  <1>3. keys \in Seq(Actions) /\ enc \in [Dirs -> Actions \cup {"none"}]
    BY <1>1, <1>2, SlotKinds, ReadMirror DEF Init
  <1>4. keys \in Seq(Actions \cup {"hole"})
    BY <1>3, WiderSeq
  <1>5. op = [o \in Ops |-> Idle] /\ line = <<>>
    BY DEF Init
  <1>6. \A o \in Ops : op[o] = Idle /\ op[o].pc = "idle" /\ op[o].req = NoReq
    BY <1>5 DEF Idle
  <1>7. Types
    BY <1>1, <1>2, <1>3, <1>4, <1>5, SlotKinds DEF Types, Plain, Init
  <1>8. Lined
    BY <1>5, <1>6 DEF Lined, Out, Ready, On, NoRepeat
  <1>9. \A o \in Ops : Scripted(o) /\ Current(o)
    BY <1>6 DEF Scripted, Current, Ready
  <1> QED BY <1>7, <1>8, <1>9 DEF Base

Continues(o) ==
    \/ Written(o) \/ ChunkRead(o) \/ ResetDone(o) \/ EntryWritten(o)
    \/ MacroSized(o) \/ MacroRead(o) \/ MacroWritten(o)
    \/ Locked(o) \/ LockStateRead(o)
    \/ UnlockBegun(o) \/ UnlockStarted(o) \/ Polled(o) \/ PollAgain(o)
    \/ SendFailed(o)

LEMMA ContinuesTurn ==
    ASSUME Base, NEW o \in Ops, Continues(o)
    PROVE  Base' /\ Turn(o)
  BY WrittenTurns, ChunkReadTurns, ResetDoneTurns, EntryTurns, MacroSizedTurns, MacroReadTurns,
     MacroWrittenTurns, LockedTurns, LockStateTurns, UnlockTurns, FailureTurns DEF Continues

\* The steps there are.
LEMMA Steps ==
    ASSUME [Next]_vars
    PROVE  \/ \E o \in Ops : Continues(o)
           \/ ~Settled /\ \E o \in Ops : Begin(o)
           \/ ~Settled /\ \E o \in Ops : Channel(o)
           \/ (\E o \in Ops : Deadline(o)) \/ Commit \/ ClientCloses \/ UNCHANGED vars
  BY DEF Next, Continue, Continues

LEMMA BaseNext ==
    ASSUME Base, [Next]_vars
    PROVE  Base'
  BY Steps, ContinuesTurn, BeginTurns, ChannelTurns, QuietSteps

LEMMA BaseAlways == Spec => []Base
  BY InitBase, BaseNext, PTL DEF Spec

LEMMA BaseTypes == Base => TypeOK
  <1> SUFFICES ASSUME Base PROVE TypeOK
    OBVIOUS
  <1>1. Types /\ Plain /\ Lined
    BY DEF Base, Types
  <1>2. IsInjective(line)
    BY <1>1 DEF Lined, NoRepeat, IsInjective
  <1>3. ASSUME NEW o \in Ops
        PROVE  /\ op[o].pc \in {"idle", "send", "wait", "ok", "failed", "refused"}
               /\ op[o].req \in Requests \cup {NoReq}
               /\ op[o].seen \in [Slots -> Actions] /\ op[o].before \in [Slots -> Actions]
               /\ op[o].def \in DOMAIN Layouts \cup {"none"} /\ op[o].late \in BOOLEAN
               /\ o \in ToSet(line) <=> op[o].pc = "send" /\ op[o].reply = NoReply
    <2>1. op[o] \in Operation
      BY <1>1 DEF Types
    <2>2. op[o].reply.how = "none" <=> op[o].reply = NoReply
      BY <2>1 DEF Operation, Replies, NoReply
    <2>3. o \in ToSet(line) <=> On(line, o)
      BY DEF ToSet, On
    <2>4. On(line, o) <=> Out(o)
      BY <1>1 DEF Lined
    <2> QED BY <2>1, <2>2, <2>3, <2>4 DEF Operation, Out
  <1> QED BY <1>1, <1>2, <1>3 DEF TypeOK, Types, Plain, Keyboard, Lined

\* The service's variables keep their types, whatever runs beside what, and an operation
\* is in the line of the raw-HID client exactly while it awaits a reply, and once.
THEOREM TypeTheorem == Spec => []TypeOK
  BY BaseAlways, BaseTypes, PTL

-----------------------------------------------------------------------------
(* The lock.                                                               *)

LEMMA FailedStays ==
    ASSUME NEW K, NEW o \in Ops, Others(o), op[o].pc # "failed", Failed(K)
    PROVE  Failed(K)'
  <1>1. PICK p \in Ops : op[p].pc = "failed" /\ op[p].req.kind \in K
    BY DEF Failed
  <1>2. op'[p] = op[p]
    BY <1>1 DEF Others
  <1> QED BY <1>1, <1>2 DEF Failed

LEMMA FailedRests ==
    ASSUME NEW K, Rests, Failed(K)
    PROVE  Failed(K)'
  BY DEF Failed, Rests

LEMMA TurnedBusy ==
    ASSUME NEW o \in Ops, Turn(o), NEW p \in Ops, Busy(p)'
    PROVE  Busy(p) /\ op'[p].req = op[p].req
  BY DEF Turn, Others, Busy

\* How a continuation moves the cached lock state.
LEMMA LockMoves ==
    ASSUME Base, NEW o \in Ops, Continues(o)
    PROVE  /\ lockState' = "unlocked" => lockState = "unlocked" \/ ~dev.locked
           /\ op[o].req.kind = "lock" => lockState' = "locked" \/ op'[o].pc = "failed"
  <1>1. CASE Written(o)
    <2>1. op[o].req.kind \in Writes /\ lockState' = lockState
      BY <1>1 DEF Written
    <2> QED BY <2>1 DEF Writes
  <1>7. CASE ChunkRead(o)
    <2>1. op[o].req.kind \in Reloads /\ lockState' = lockState
      BY <1>7, ChunkReadTurns
    <2> QED BY <2>1 DEF Reloads
  <1>2. CASE ResetDone(o) \/ EntryWritten(o) \/ MacroSized(o) \/ MacroRead(o) \/ MacroWritten(o)
    BY <1>2, ResetDoneTurns, EntryTurns, MacroSizedTurns, MacroReadTurns, MacroWrittenTurns
  <1>3. CASE Locked(o)
    BY <1>3, LockedTurns
  <1>4. CASE LockStateRead(o)
    BY <1>4, LockStateTurns DEF LockStateRead
  <1>5. CASE UnlockBegun(o) \/ UnlockStarted(o) \/ Polled(o) \/ PollAgain(o)
    BY <1>5, UnlockTurns
  <1>6. CASE SendFailed(o)
    BY <1>6, FailureTurns DEF Ended
  <1> QED BY <1>1, <1>2, <1>3, <1>4, <1>5, <1>6, <1>7 DEF Continues

LEMMA LockContinues ==
    ASSUME LockInv, NEW o \in Ops, Continues(o)
    PROVE  LockInv'
  <1>1. Base /\ Base' /\ Turn(o)
    BY ContinuesTurn DEF LockInv
  <1>2. UNCHANGED <<family, dev, races>> /\ Others(o) /\ op'[o].req = op[o].req /\ Busy(o)
    BY <1>1 DEF Turn
  <1>3. op[o].pc # "failed" /\ (Failed({"lock"}) => Failed({"lock"})')
    BY <1>2, FailedStays DEF Busy
  <1>4. BusyAt({"lock"})' => BusyAt({"lock"})
    BY <1>1, TurnedBusy DEF BusyAt
  <1>5. Guarding'
    <2> SUFFICES ASSUME LockClean', NEW p \in Ops, Busy(p)', Guarded(op[p].req)'
                 PROVE  ~dev'.locked /\ ~BusyAt({"lock"})'
      BY DEF Guarding
    <2>1. LockClean /\ Busy(p) /\ Guarded(op[p].req)
      BY <1>1, <1>2, <1>3, TurnedBusy DEF LockClean, Guarded
    <2>2. ~dev.locked /\ ~BusyAt({"lock"})
      BY <2>1 DEF LockInv, Guarding
    <2> QED BY <1>2, <1>4, <2>2
  <1>6. GuardedLands'
    BY <1>2, <1>3 DEF LockInv, GuardedLands
  <1>7. LockHonest'
    <2> SUFFICES ASSUME lockState' = "unlocked", family' = "vial", ~BusyAt({"lock"})',
                        ~Failed({"lock"})', dev.locked
                 PROVE  FALSE
      BY <1>2 DEF LockHonest
    <2>1. lockState = "unlocked" /\ (op[o].req.kind = "lock" => op'[o].pc = "failed")
      BY <1>1, LockMoves
    <2>2. op[o].req.kind # "lock"
      BY <1>2, <2>1 DEF Failed
    <2>3. ASSUME NEW p \in Ops, Busy(p), op[p].req.kind = "lock" PROVE FALSE
      <3>1. p # o /\ op'[p] = op[p]
        BY <1>2, <2>2, <2>3 DEF Others
      <3> QED BY <2>3, <3>1 DEF Busy, BusyAt
    <2>4. ~BusyAt({"lock"})
      BY <2>3 DEF BusyAt
    <2> QED BY <1>2, <1>3, <2>1, <2>4 DEF LockInv, LockHonest
  <1> QED BY <1>1, <1>5, <1>6, <1>7 DEF LockInv

LEMMA LockBegins ==
    ASSUME LockInv, NEW o \in Ops, Begin(o)
    PROVE  LockInv'
  <1>1. /\ Base /\ Base' /\ UNCHANGED <<family, closed, mirror, dev>> /\ Others(o)
        /\ \/ \E r \in Requests : Begun(o, r)
           \/ /\ op[o].pc = "idle" /\ op'[o].pc = "refused"
              /\ UNCHANGED <<line, lockState, races>>
    BY BeginTurns DEF LockInv
  <1>2. op[o].pc = "idle" /\ races \subseteq races' /\ lockState' \in {lockState, "unlocking"}
    BY <1>1 DEF Begun
  <1>3. Failed({"lock"}) => Failed({"lock"})'
    BY <1>1, <1>2, FailedStays
  <1>4. ASSUME NEW p \in Ops \ {o}
        PROVE  (Busy(p)' <=> Busy(p)) /\ op'[p].req = op[p].req
    BY <1>1 DEF Others, Busy
  <1>5. ~Busy(o)
    BY <1>2 DEF Busy
  <1>6. BusyAt({"lock"}) => BusyAt({"lock"})'
    BY <1>4, <1>5 DEF BusyAt
  <1>7. LockClean' => LockClean
    BY <1>2, <1>3 DEF LockClean
  <1>8. Guarding'
    <2> SUFFICES ASSUME LockClean', NEW p \in Ops, Busy(p)', Guarded(op[p].req)'
                 PROVE  ~dev'.locked /\ ~BusyAt({"lock"})'
      BY DEF Guarding
    <2>1. CASE op'[o].pc = "refused" /\ UNCHANGED races
      <3>1. ~Busy(o)' /\ p # o
        BY <2>1 DEF Busy
      <3>2. Busy(p) /\ Guarded(op[p].req)
        BY <1>1, <1>4, <3>1 DEF Guarded
      <3>3. ~dev.locked /\ ~BusyAt({"lock"})
        BY <1>7, <3>2 DEF LockInv, Guarding
      <3>4. ~BusyAt({"lock"})'
        BY <1>4, <3>1, <3>3 DEF BusyAt
      <3> QED BY <1>1, <3>3, <3>4
    <2>2. CASE \E r \in Requests : Begun(o, r)
      <3>1. PICK r \in Requests : Begun(o, r)
        BY <2>2
      <3>2. op'[o].req = r /\ MayWrite(r) /\ races' = races \cup Crossed(r)
        BY <3>1 DEF Begun
      <3>3. "lock" \notin Crossed(r)
        BY <3>2 DEF LockClean
      <3>4. CASE p = o
        <4>1. Guarded(r)
          BY <1>1, <3>2, <3>4 DEF Guarded
        <4>2. ~BusyAt({"lock"})
          BY <3>3, <4>1 DEF Crossed
        <4>3. lockState = "unlocked" /\ family = "vial" /\ ~Failed({"lock"})
          BY <1>7, <3>2, <4>1 DEF MayWrite, Guarded, LockClean
        <4>4. ~dev.locked
          BY <4>2, <4>3 DEF LockInv, LockHonest
        <4>5. r.kind # "lock"
          BY <4>1 DEF Guarded, Writes
        <4>6. ~BusyAt({"lock"})'
          BY <1>4, <3>2, <4>2, <4>5 DEF BusyAt
        <4> QED BY <1>1, <4>4, <4>6
      <3>5. CASE p # o
        <4>1. Busy(p) /\ Guarded(op[p].req)
          BY <1>1, <1>4, <3>5 DEF Guarded
        <4>2. ~dev.locked /\ ~BusyAt({"lock"})
          BY <1>7, <4>1 DEF LockInv, Guarding
        <4>3. r.kind # "lock"
          BY <3>3, <4>1 DEF Crossed
        <4>4. ~BusyAt({"lock"})'
          BY <1>4, <3>2, <4>2, <4>3 DEF BusyAt
        <4> QED BY <1>1, <4>2, <4>4
      <3> QED BY <3>4, <3>5
    <2> QED BY <1>1, <2>1, <2>2
  <1>9. GuardedLands'
    BY <1>1, <1>2, <1>3 DEF LockInv, GuardedLands
  <1>10. LockHonest'
    BY <1>1, <1>2, <1>3, <1>6 DEF LockInv, LockHonest
  <1> QED BY <1>1, <1>8, <1>9, <1>10 DEF LockInv

LEMMA LockChannel ==
    ASSUME LockInv, ~Settled, NEW o \in Ops, Channel(o)
    PROVE  LockInv'
  <1>1. /\ Base /\ Base' /\ Others(o) /\ Busy(o) /\ Busy(o)' /\ op[o].pc = "send"
        /\ UNCHANGED <<family, lockState, races>> /\ op'[o].req = op[o].req /\ Effect(o, dev')
    BY ChannelTurns DEF LockInv, Out
  <1>2. Failed({"lock"}) => Failed({"lock"})'
    BY <1>1, FailedStays
  <1>3. ASSUME NEW p \in Ops
        PROVE  (Busy(p)' <=> Busy(p)) /\ op'[p].req = op[p].req
    BY <1>1 DEF Others, Busy
  <1>4. BusyAt({"lock"})' <=> BusyAt({"lock"})
    BY <1>3 DEF BusyAt
  <1>5. Scripted(o) /\ op[o].req \in Requests
    BY <1>1 DEF Base, Scripted
  <1>6. dev'.locked => dev.locked \/ BusyAt({"lock"})
    <2>1. dev'.locked => dev.locked \/ op[o].cmd.c = "lock"
      BY <1>1 DEF Effect
    <2>2. op[o].cmd.c = "lock" => op[o].req.kind = "lock"
      BY <1>1, <1>5, KindOf
    <2> QED BY <1>1, <2>1, <2>2 DEF BusyAt
  <1>7. Guarding'
    <2> SUFFICES ASSUME LockClean', NEW p \in Ops, Busy(p)', Guarded(op[p].req)'
                 PROVE  ~dev'.locked /\ ~BusyAt({"lock"})'
      BY DEF Guarding
    <2>1. LockClean /\ Busy(p) /\ Guarded(op[p].req)
      BY <1>1, <1>2, <1>3 DEF LockClean, Guarded
    <2>2. ~dev.locked /\ ~BusyAt({"lock"})
      BY <2>1 DEF LockInv, Guarding
    <2> QED BY <1>4, <1>6, <2>2
  <1>8. GuardedLands'
    <2> SUFFICES ASSUME dev'.skipped, "lock" \notin races, ~Failed({"lock"})'
                 PROVE  FALSE
      BY <1>1 DEF GuardedLands
    <2>1. LockClean /\ ~dev.skipped
      BY <1>2 DEF LockClean, LockInv, GuardedLands
    <2>2. Refuses(o)
      BY <1>1, <2>1 DEF Effect
    <2> QED BY <1>1, <2>1, <2>2 DEF Refuses, LockInv, Guarding
  <1>9. LockHonest'
    BY <1>1, <1>2, <1>4, <1>6 DEF LockInv, LockHonest
  <1> QED BY <1>1, <1>7, <1>8, <1>9 DEF LockInv

LEMMA LockRests ==
    ASSUME LockInv, Base', Rests
    PROVE  LockInv'
  <1>1. UNCHANGED <<family, lockState, dev, races>>
    BY DEF Rests
  <1>2. Failed({"lock"}) => Failed({"lock"})'
    BY FailedRests
  <1>3. ASSUME NEW p \in Ops PROVE (Busy(p)' <=> Busy(p)) /\ op'[p].req = op[p].req
    BY DEF Rests, Busy
  <1>4. BusyAt({"lock"})' <=> BusyAt({"lock"})
    BY <1>3 DEF BusyAt
  <1>5. Guarding'
    BY <1>1, <1>2, <1>3, <1>4 DEF LockInv, Guarding, LockClean, Guarded
  <1>6. GuardedLands' /\ LockHonest'
    BY <1>1, <1>2, <1>4 DEF LockInv, GuardedLands, LockHonest
  <1> QED BY <1>5, <1>6 DEF LockInv

LEMMA InitLock == Init => LockInv
  <1> SUFFICES ASSUME Init PROVE LockInv
    OBVIOUS
  <1>1. Base /\ \A o \in Ops : ~Busy(o)
    BY InitBase DEF Init, Busy, Idle
  <1>2. dev.skipped = FALSE /\ (lockState = "unlocked" => ~dev.locked)
    BY DEF Init
  <1> QED BY <1>1, <1>2 DEF LockInv, LockHonest, Guarding, GuardedLands

LEMMA LockNext ==
    ASSUME LockInv, [Next]_vars
    PROVE  LockInv'
  <1>1. Base
    BY DEF LockInv
  <1> QED BY <1>1, Steps, LockContinues, LockBegins, LockChannel, QuietSteps, LockRests

LEMMA LockAlways == Spec => []LockInv
  BY InitLock, LockNext, PTL DEF Spec

\* The lock state the guards read is never "unlocked" of a locked Vial keyboard, but
\* while a lock() is unanswered or after one that failed.
THEOREM HonestTheorem == Spec => []LockHonest
  <1>1. LockInv => LockHonest
    BY DEF LockInv
  <1> QED BY <1>1, LockAlways, PTL

\* No guarded write is skipped in silence by a locked keyboard, unless a lock() ran
\* beside it or failed.
THEOREM LandsTheorem == Spec => []GuardedLands
  <1>1. LockInv => GuardedLands
    BY DEF LockInv
  <1> QED BY <1>1, LockAlways, PTL

-----------------------------------------------------------------------------
(* The macro buffer.                                                       *)

LEMMA BufferedKept ==
    ASSUME NEW p \in Ops, Buffered(p), NEW r, r = op'[p],
           r.cmd = op[p].cmd, r.rest = op[p].rest, r.seen = op[p].seen,
           r.before = op[p].before, r.req = op[p].req, Ready(p)' <=> Ready(p),
           \A m \in ToSet(Macros) : dev'.mem[m] = dev.mem[m]
    PROVE  Buffered(p)'
  BY DEF Buffered, Aim, Passed

\* Which continuations a macro write has.
LEMMA MacroContinues ==
    ASSUME Base, NEW o \in Ops, Continues(o), op[o].req.kind = "setMacro"
    PROVE  MacroSized(o) \/ MacroRead(o) \/ MacroWritten(o) \/ SendFailed(o)
  <1>1. CASE Written(o)
    BY <1>1 DEF Written, Writes
  <1>2. CASE ChunkRead(o)
    BY <1>2, ChunkReadTurns DEF Reloads
  <1>3. CASE ResetDone(o) \/ EntryWritten(o) \/ Locked(o) \/ LockStateRead(o)
    BY <1>3, ResetDoneTurns, EntryTurns, LockedTurns, LockStateTurns
  <1>4. CASE UnlockBegun(o) \/ UnlockStarted(o) \/ Polled(o) \/ PollAgain(o)
    BY <1>4, UnlockTurns
  <1> QED BY <1>1, <1>2, <1>3, <1>4 DEF Continues

\* A macro write moves on: what it has read is still what the buffer held, and what it
\* has written is there.
LEMMA BufferMoves ==
    ASSUME Base, NEW o \in Ops, Continues(o), op[o].req.kind = "setMacro",
           Busy(o)', op[o].reply.how # "error" => Buffered(o)
    PROVE  Buffered(o)'
  <1>1. Turn(o) /\ dev' = dev /\ op'[o].req = op[o].req
    BY ContinuesTurn DEF Turn
  <1>2. Macros \in Seq(ToSet(Macros)) /\ \A m \in ToSet(Macros) : On(Macros, m) /\ m \in Slots
    BY SlotsAssumption, SlotKinds DEF On, ToSet
  <1>3. CASE MacroSized(o)
    <2>1. /\ Sent(o) /\ op[o].cmd.c = "size" /\ op'[o].rest = Macros
          /\ op'[o].seen = op[o].seen /\ op'[o].before = op[o].before
          /\ op[o].rest = <<>> => op'[o].cmd.c = "read"
          /\ op[o].rest # <<>> => op'[o].cmd.c = "write"
      BY <1>3, MacroSizedTurns
    <2>2. ~Ready(o)' /\ Buffered(o)
      BY <1>3, <2>1 DEF Sent, Ready, NoReply, MacroSized, Answered
    <2>3. \A m \in ToSet(Macros) : ~Passed(o, m)'
      BY <1>2, <2>1 DEF Passed
    <2> QED BY <1>1, <2>1, <2>2, <2>3 DEF Buffered, Aim
  <1>4. CASE MacroRead(o)
    <2>1. /\ Sent(o) /\ Answered(o, "read")
          /\ op[o].rest \in Seq(ToSet(Macros)) /\ op[o].rest # <<>>
          /\ op[o].cmd.slots = {Head(op[o].rest)} /\ op'[o].before = op[o].before
          /\ \/ /\ Tail(op[o].rest) = <<>> /\ op'[o].cmd.c = "size" /\ op'[o].rest = Macros
                /\ op'[o].seen = MacrosWith(o, Seen(o))
             \/ /\ op'[o].cmd.c = "read" /\ op'[o].rest = Tail(op[o].rest)
                /\ op'[o].seen = Seen(o)
      BY <1>4, MacroReadTurns
    <2>2. ~Ready(o)' /\ Buffered(o) /\ op[o].cmd.c = "read"
      BY <2>1 DEF Sent, Ready, NoReply, Answered
    <2>3. PICK seen \in [Slots -> Actions] :
             /\ seen = Seen(o)
             /\ \A s \in Slots : seen[s] = IF s \in op[o].cmd.slots THEN dev.mem[s]
                                                                  ELSE op[o].seen[s]
      BY <2>1, SeenFacts
    <2>4. ASSUME NEW m \in ToSet(Macros), m = Head(op[o].rest) \/ Passed(o, m)
          PROVE  seen[m] = op[o].before[m]
      BY <1>2, <2>1, <2>2, <2>3, <2>4 DEF Buffered
    <2>5. ASSUME NEW m \in ToSet(Macros), ~On(Tail(op[o].rest), m)
          PROVE  seen[m] = op[o].before[m]
      BY <2>1, <2>4, <2>5, TailInSeq DEF Passed
    <2>6. \A m \in ToSet(Macros) : dev'.mem[m] = op[o].before[m]
      BY <1>1, <2>2 DEF Buffered
    <2>7. CASE Tail(op[o].rest) = <<>> /\ op'[o].cmd.c = "size" /\ op'[o].rest = Macros
               /\ op'[o].seen = MacrosWith(o, seen)
      <3>1. \A m \in ToSet(Macros) : ~On(Tail(op[o].rest), m)
        BY <2>7 DEF On
      <3>2. ASSUME NEW m \in ToSet(Macros) PROVE op'[o].seen[m] = Aim(o, m)'
        BY <1>1, <1>2, <2>1, <2>5, <2>7, <3>1 DEF MacrosWith, Aim
      <3> QED BY <2>1, <2>2, <2>6, <2>7, <3>2 DEF Buffered
    <2>8. CASE op'[o].cmd.c = "read" /\ op'[o].rest = Tail(op[o].rest) /\ op'[o].seen = seen
      BY <2>1, <2>2, <2>5, <2>6, <2>8 DEF Buffered, Passed
    <2> QED BY <2>1, <2>3, <2>7, <2>8
  <1>5. CASE MacroWritten(o)
    <2>1. /\ Answered(o, "write") /\ Ready(o)
          /\ op[o].rest \in Seq(ToSet(Macros)) /\ op[o].rest # <<>>
          /\ op[o].cmd.slot = Head(op[o].rest)
          /\ Sent(o) /\ op'[o].cmd.c = "write" /\ op'[o].rest = Tail(op[o].rest)
          /\ op'[o].seen = op[o].seen /\ op'[o].before = op[o].before
      BY <1>5, MacroWrittenTurns DEF Ended, Busy
    <2>2. ~Ready(o)' /\ Buffered(o) /\ op[o].cmd.c = "write"
      BY <2>1 DEF Sent, Ready, NoReply, Answered
    <2>3. ASSUME NEW m \in ToSet(Macros), Passed(o, m)' PROVE dev.mem[m] = Aim(o, m)
      <3>1. m = Head(op[o].rest) \/ Passed(o, m)
        BY <2>1, <2>3, TailInSeq DEF Passed
      <3> QED BY <2>1, <2>2, <3>1 DEF Buffered
    <2> QED BY <1>1, <2>1, <2>2, <2>3 DEF Buffered, Aim
  <1>6. CASE SendFailed(o)
    BY <1>6, FailureTurns DEF Ended, Busy
  <1> QED BY <1>3, <1>4, <1>5, <1>6, MacroContinues

LEMMA MacroTurns ==
    ASSUME MacroInv, NEW o \in Ops, Continues(o)
    PROVE  MacroInv'
  <1>1. /\ Base /\ Base' /\ Turn(o) /\ UNCHANGED <<dev, races>> /\ Others(o)
        /\ op'[o].req = op[o].req
    BY ContinuesTurn DEF MacroInv, Turn
  <1>2. ASSUME NEW p \in Ops, MacroWrite(p)' PROVE MacroWrite(p)
    BY <1>1, <1>2, TurnedBusy DEF MacroWrite
  <1>3. ASSUME "macro" \notin races, ~dev.skipped, NEW p \in Ops, MacroWrite(p)',
               op'[p].reply.how # "error"
        PROVE  Buffered(p)'
    <2>1. MacroWrite(p) /\ (op[p].reply.how # "error" => Buffered(p))
      BY <1>2, <1>3 DEF MacroInv, MacroOnce
    <2>2. CASE p = o
      BY <1>1, <1>3, <2>1, <2>2, BufferMoves DEF MacroWrite
    <2>3. CASE p # o
      <3>1. op'[p] = op[p] /\ (Ready(p)' <=> Ready(p))
        BY <1>1, <2>3 DEF Others, Ready
      <3> QED BY <1>1, <1>3, <2>1, <3>1, BufferedKept
    <2> QED BY <2>2, <2>3
  <1>4. MacroOnce'
    BY <1>1, <1>2, <1>3 DEF MacroInv, MacroOnce
  <1> QED BY <1>1, <1>4 DEF MacroInv

LEMMA MacroBegins ==
    ASSUME MacroInv, NEW o \in Ops, Begin(o)
    PROVE  MacroInv'
  <1>1. /\ Base /\ Base' /\ dev' = dev /\ Others(o) /\ op[o].pc = "idle"
        /\ \/ \E r \in Requests : Begun(o, r)
           \/ op'[o].pc = "refused" /\ UNCHANGED races
    BY BeginTurns DEF MacroInv, Begun
  <1>2. ASSUME NEW p \in Ops \ {o}
        PROVE  /\ MacroWrite(p)' <=> MacroWrite(p)
               /\ Buffered(p) => Buffered(p)'
               /\ op'[p] = op[p]
    <2>1. op'[p] = op[p] /\ (Ready(p)' <=> Ready(p))
      BY <1>1 DEF Others, Ready
    <2>2. Buffered(p) => Buffered(p)'
      BY <1>1, <2>1, BufferedKept
    <2> QED BY <2>1, <2>2 DEF MacroWrite, Busy
  <1>3. CASE op'[o].pc = "refused" /\ UNCHANGED races
    <2>1. ~MacroWrite(o)'
      BY <1>3 DEF MacroWrite, Busy
    <2> QED BY <1>1, <1>2, <1>3, <2>1 DEF MacroInv, MacroOnce
  <1>4. CASE \E r \in Requests : Begun(o, r)
    <2>1. PICK r \in Requests : Begun(o, r)
      BY <1>4
    <2>2. /\ op'[o].req = r /\ op'[o].cmd = First(r) /\ races' = races \cup Crossed(r)
          /\ r.kind = "setMacro" => op'[o].rest = <<>> /\ op'[o].before = dev.mem
          /\ Known(r) /\ op'[o].pc = "send" /\ op'[o].reply = NoReply
      BY <2>1 DEF Begun, Sent
    <2>3. r.kind = "setMacro" => op'[o].cmd.c = "size"
      BY <1>1, <2>2, FirstCommand DEF Base, Types
    <2>4. r.kind = "setMacro" => Buffered(o)'
      BY <1>1, <2>2, <2>3 DEF Buffered
    <2>5. ASSUME "macro" \notin races', r.kind = "setMacro", NEW p \in Ops \ {o}
          PROVE  ~MacroWrite(p)'
      <3>1. ~BusyAt({"setMacro"})
        BY <2>2, <2>5 DEF Crossed
      <3> QED BY <1>2, <3>1 DEF BusyAt, MacroWrite
    <2>6. MacroWrite(o)' => r.kind = "setMacro"
      BY <2>2 DEF MacroWrite
    <2>7. "macro" \notin races' => "macro" \notin races
      BY <2>2
    <2>8. MacroOnce'
      BY <1>1, <1>2, <2>4, <2>5, <2>6, <2>7 DEF MacroInv, MacroOnce
    <2> QED BY <1>1, <2>8 DEF MacroInv
  <1> QED BY <1>1, <1>3, <1>4

\* The macro buffer is changed only by writes of macros.
LEMMA MacroAlone ==
    ASSUME Base, NEW o \in Ops, op[o].pc = "send", Effect(o, dev'), NEW m \in ToSet(Macros),
           dev'.mem[m] # dev.mem[m]
    PROVE  op[o].req.kind = "setMacro" /\ op[o].cmd.c = "write" /\ op[o].cmd.slot = m
  <1>1. m \in Slots /\ m \notin ToSet(Cells) \cup Dirs
    BY SlotsAssumption, SlotKinds
  <1>2. op[o].cmd.c = "write" /\ op[o].cmd.slot = m
    BY <1>1 DEF Effect
  <1>3. Scripted(o) /\ op[o].req \in Requests
    BY DEF Base, Scripted
  <1>4. op[o].req.kind \in Writes \cup {"setMacro"}
    BY <1>2, <1>3, KindOf
  <1>5. op[o].req.kind = "setEncoder" => op[o].cmd.slot \in Dirs
    BY <1>3, RequestFields DEF Scripted
  <1> QED BY <1>1, <1>2, <1>3, <1>4, <1>5 DEF Writes, Scripted

LEMMA MacroChannel ==
    ASSUME MacroInv, ~Settled, NEW o \in Ops, Channel(o)
    PROVE  MacroInv'
  <1>1. /\ Base /\ Base' /\ Others(o) /\ Out(o) /\ Busy(o) /\ Busy(o)' /\ Ready(o)'
        /\ UNCHANGED races /\ op'[o].req = op[o].req /\ op'[o].cmd = op[o].cmd
        /\ op'[o].rest = op[o].rest /\ op'[o].seen = op[o].seen
        /\ op'[o].before = op[o].before /\ Effect(o, dev')
        /\ op'[o].reply.how = "ok" /\ op[o].cmd.c = "write" /\ ~dev'.skipped =>
             dev'.mem[op[o].cmd.slot] = op[o].cmd.val
        /\ op'[o].reply.how \in {"ok", "error"}
    BY ChannelTurns DEF MacroInv
  <1>2. op[o].pc = "send" /\ op[o].reply.how = "none" /\ Scripted(o) /\ ~Ready(o)
    BY <1>1 DEF Base, Out, Ready
  <1>3. ASSUME NEW p \in Ops
        PROVE  (MacroWrite(p)' <=> MacroWrite(p)) /\ (p # o => op'[p] = op[p])
    BY <1>1 DEF Others, MacroWrite, Busy
  <1>4. ASSUME "macro" \notin races, ~dev'.skipped, NEW p \in Ops, MacroWrite(p)',
               op'[p].reply.how # "error"
        PROVE  Buffered(p)'
    <2>1. ~dev.skipped
      BY <1>1, <1>4 DEF Effect
    <2>2. CASE p = o
      <3>1. Buffered(o) /\ op'[o].reply.how = "ok" /\ op[o].req.kind = "setMacro"
        BY <1>1, <1>2, <1>3, <1>4, <2>1, <2>2 DEF MacroInv, MacroOnce, MacroWrite
      <3>2. MacroPhase(o)
        BY <1>2, <3>1 DEF Scripted
      <3>3. ASSUME NEW m \in ToSet(Macros), op[o].cmd.c # "write"
            PROVE  dev'.mem[m] = dev.mem[m]
        BY <1>1, <1>2, <3>3, MacroAlone
      <3>4. ASSUME NEW m \in ToSet(Macros), op[o].cmd.c = "write",
                   Passed(o, m) \/ op[o].cmd.slot = m
            PROVE  dev'.mem[m] = Aim(o, m)
        <4>1. CASE op[o].cmd.slot = m
          <5>1. op[o].cmd.val = op[o].seen[m]
            BY <3>2, <3>4, <4>1 DEF MacroPhase, ReadCmd
          <5> QED BY <1>1, <1>4, <3>1, <3>4, <4>1, <5>1 DEF Buffered
        <4>2. CASE op[o].cmd.slot # m
          <5>1. dev'.mem[m] = dev.mem[m]
            BY <1>1, <1>2, <4>2, MacroAlone
          <5> QED BY <3>1, <3>4, <4>2, <5>1 DEF Buffered
        <4> QED BY <4>1, <4>2
      <3>5. \A m \in ToSet(Macros) : Aim(o, m)' = Aim(o, m) /\ (Passed(o, m)' <=> Passed(o, m))
        BY <1>1 DEF Aim, Passed
      <3> QED BY <1>1, <2>2, <3>1, <3>3, <3>4, <3>5 DEF Buffered
    <2>3. CASE p # o
      <3>1. op'[p] = op[p] /\ MacroWrite(p) /\ (Ready(p)' <=> Ready(p))
        BY <1>3, <1>4, <2>3 DEF Ready
      <3>2. Buffered(p) /\ ~MacroWrite(o)
        BY <1>4, <2>1, <2>3, <3>1 DEF MacroInv, MacroOnce
      <3>3. \A m \in ToSet(Macros) : dev'.mem[m] = dev.mem[m]
        BY <1>1, <1>2, <3>2, MacroAlone DEF MacroWrite
      <3> QED BY <3>1, <3>2, <3>3, BufferedKept
    <2> QED BY <2>2, <2>3
  <1>5. MacroOnce'
    BY <1>1, <1>3, <1>4 DEF MacroInv, MacroOnce
  <1> QED BY <1>1, <1>5 DEF MacroInv

LEMMA MacroRests ==
    ASSUME MacroInv, Base', Rests
    PROVE  MacroInv'
  <1>1. UNCHANGED <<dev, races>>
    BY DEF Rests
  <1>2. ASSUME NEW p \in Ops
        PROVE  /\ MacroWrite(p)' <=> MacroWrite(p)
               /\ Buffered(p) => Buffered(p)'
               /\ op'[p].reply = op[p].reply
    <2>1. /\ op'[p].cmd = op[p].cmd /\ op'[p].rest = op[p].rest /\ op'[p].seen = op[p].seen
          /\ op'[p].before = op[p].before /\ op'[p].req = op[p].req
          /\ op'[p].pc = op[p].pc /\ op'[p].reply = op[p].reply
      BY DEF Rests
    <2>2. (Ready(p)' <=> Ready(p)) /\ (MacroWrite(p)' <=> MacroWrite(p))
      BY <2>1 DEF Ready, MacroWrite, Busy
    <2> QED BY <1>1, <2>1, <2>2, BufferedKept
  <1>3. MacroOnce'
    BY <1>1, <1>2 DEF MacroInv, MacroOnce
  <1> QED BY <1>3 DEF MacroInv

LEMMA InitMacro == Init => MacroInv
  <1> SUFFICES ASSUME Init PROVE MacroInv
    OBVIOUS
  <1>1. Base /\ \A o \in Ops : ~MacroWrite(o)
    BY InitBase DEF Init, MacroWrite, Busy, Idle
  <1> QED BY <1>1 DEF MacroInv, MacroOnce

LEMMA MacroNext ==
    ASSUME MacroInv, [Next]_vars
    PROVE  MacroInv'
  <1>1. Base
    BY DEF MacroInv
  <1> QED BY <1>1, Steps, MacroTurns, MacroBegins, MacroChannel, QuietSteps, MacroRests

\* A macro write that ends well has its macro, and all others as they were.
Landed(o) ==
    op[o].req.kind = "setMacro" /\ Busy(o) /\ op'[o].pc = "ok"
    /\ "macro" \notin races /\ ~dev.skipped =>
        \A s \in ToSet(Macros) :
            dev.mem[s] = IF s = op[o].req.idx THEN op[o].req.val ELSE op[o].before[s]

LEMMA MacroEnds ==
    ASSUME MacroInv, [Next]_vars, NEW o \in Ops
    PROVE  Landed(o)
  <1> SUFFICES ASSUME op[o].req.kind = "setMacro", Busy(o), op'[o].pc = "ok",
                      "macro" \notin races, ~dev.skipped, NEW s \in ToSet(Macros)
               PROVE  dev.mem[s] = Aim(o, s)
    BY DEF Landed, Aim
  <1>1. Base /\ op[o].pc \in {"send", "wait"} /\ MacroWrite(o)
    BY DEF MacroInv, Busy, MacroWrite
  <1>2. ASSUME NEW p \in Ops, Others(p) PROVE p = o
    BY <1>1, <1>2 DEF Others
  <1>3. CASE \E p \in Ops : Continues(p)
    <2>1. Continues(o)
      BY <1>1, <1>2, <1>3, ContinuesTurn DEF Turn
    <2>2. MacroWritten(o)
      <3>1. ~MacroSized(o) /\ ~MacroRead(o)
        BY <1>1, MacroSizedTurns, MacroReadTurns DEF Sent
      <3>2. ~SendFailed(o)
        BY <1>1, FailureTurns DEF Ended
      <3> QED BY <1>1, <2>1, <3>1, <3>2, MacroContinues
    <2>3. /\ Ready(o) /\ Answered(o, "write")
          /\ op[o].rest \in Seq(ToSet(Macros)) /\ op[o].rest # <<>>
          /\ op[o].cmd.slot = Head(op[o].rest) /\ Tail(op[o].rest) = <<>>
      BY <1>1, <2>2, MacroWrittenTurns DEF Sent
    <2>4. op[o].cmd.c = "write" /\ Buffered(o)
      BY <1>1, <2>3 DEF Answered, MacroInv, MacroOnce
    <2>5. s = op[o].cmd.slot \/ Passed(o, s)
      <3>1. On(op[o].rest, s) => s = Head(op[o].rest) \/ On(Tail(op[o].rest), s)
        BY <2>3, TailInSeq
      <3>2. ~On(<<>>, s)
        BY DEF On
      <3> QED BY <2>3, <3>1, <3>2 DEF Passed
    <2> QED BY <2>3, <2>4, <2>5 DEF Buffered
  <1>4. CASE \E p \in Ops : Begin(p)
    <2>1. Begin(o)
      BY <1>1, <1>2, <1>4, BeginTurns
    <2> QED BY <1>1, <2>1 DEF Begin
  <1>5. CASE ~Settled /\ \E p \in Ops : Channel(p)
    <2>1. Channel(o)
      BY <1>1, <1>2, <1>5, ChannelTurns
    <2> QED BY <1>1, <1>5, <2>1, ChannelTurns
  <1>6. CASE (\E p \in Ops : Deadline(p)) \/ Commit \/ ClientCloses \/ UNCHANGED vars
    BY <1>1, <1>6, QuietSteps DEF Rests
  <1> QED BY <1>3, <1>4, <1>5, <1>6, Steps

\* A macro write that reports success has changed its own macro and no other, though
\* the buffer is read and written whole, send by send, beside everything else; but
\* where two macro writes ran at once, and where a keyboard that was locked meanwhile
\* has skipped a guarded write: those the property excepts, and of them this says
\* nothing.
THEOREM MacroTheorem == Spec => MacroLands
  <1>1. MacroInv /\ [Next]_vars => [\A o \in Ops : Landed(o)]_vars
    BY MacroEnds
  <1>2. [\A o \in Ops : Landed(o)]_vars =>
          [\A o \in Ops :
             op[o].req.kind = "setMacro" /\ Busy(o) /\ op'[o].pc = "ok"
             /\ "macro" \notin races /\ ~dev.skipped =>
                \A s \in ToSet(Macros) :
                    dev.mem[s] = IF s = op[o].req.idx THEN op[o].req.val
                                                      ELSE op[o].before[s]]_vars
    BY DEF Landed
  <1> QED BY <1>1, <1>2, InitMacro, MacroNext, PTL DEF Spec, MacroLands

-----------------------------------------------------------------------------
(* The mirror.                                                             *)

LEMMA NothingBeforeHead ==
    ASSUME NEW S, NEW s \in Seq(S), s # <<>>, NoRepeat(s), NEW x
    PROVE  ~Before(s, x, Head(s))
  <1>1. PICK n \in Nat : n > 0 /\ DOMAIN s = 1..n /\ Head(s) = s[1]
    OBVIOUS
  <1> QED BY <1>1 DEF Before, NoRepeat

\* The line as those see it who are in it already.
LineKept(o) == \A x, y : y # o => (Before(line', x, y) <=> Before(line, x, y))

LEMMA OtherKeeps ==
    ASSUME NEW o \in Ops, Others(o), NEW p \in Ops \ {o}
    PROVE  /\ op'[p] = op[p] /\ (Busy(p)' <=> Busy(p)) /\ (Reload(p)' <=> Reload(p))
           /\ (Write(p)' <=> Write(p)) /\ (Out(p)' <=> Out(p)) /\ (Ready(p)' <=> Ready(p))
  BY DEF Others, Busy, Reload, Write, Out, Ready

\* An operation that is no reload and no write any more concerns none.
LEMMA ReloadingKept ==
    ASSUME Reloading, NEW o \in Ops, Others(o), LineKept(o), ~Reload(o)', ~Write(o)',
           UNCHANGED <<dev, def>>, "reload" \notin races' => "reload" \notin races
    PROVE  Reloading'
  <1> SUFFICES ASSUME "reload" \notin races', NEW q \in Ops, Reload(q)'
               PROVE  /\ \A p \in Ops : Reload(p)' => q = p
                      /\ \A p \in Ops : Write(p)' =>
                            /\ Out(q)' /\ (Out(p)' => Before(line', p, q))
                            /\ op'[q].cmd.c = "read" => \A s \in Wanted(op'[q].def) : Unread(q, s)'
                      /\ op'[q].cmd.c = "read" =>
                            /\ op'[q].req.kind = "reset" => op'[q].def = def'
                            /\ \A s \in Wanted(op'[q].def) :
                                  Unread(q, s)' \/ op'[q].seen[s] = dev'.mem[s]
    BY DEF Reloading, Wanted
  <1>1. q # o /\ op'[q] = op[q] /\ Reload(q) /\ (Out(q)' <=> Out(q))
    BY OtherKeeps
  <1>2. \A s : Unread(q, s)' <=> Unread(q, s)
    BY <1>1 DEF Unread
  <1>3. ASSUME NEW p \in Ops, Reload(p)' PROVE q = p
    <2>1. p # o /\ Reload(p)
      BY <1>3, OtherKeeps
    <2> QED BY <1>1, <2>1 DEF Reloading
  <1>4. ASSUME NEW p \in Ops, Write(p)'
        PROVE  /\ Out(q)' /\ (Out(p)' => Before(line', p, q))
               /\ op'[q].cmd.c = "read" => \A s \in Wanted(op'[q].def) : Unread(q, s)'
    <2>1. p # o /\ Write(p) /\ (Out(p)' <=> Out(p))
      BY <1>4, OtherKeeps
    <2>2. Before(line', p, q) <=> Before(line, p, q)
      BY <1>1 DEF LineKept
    <2> QED BY <1>1, <1>2, <2>1, <2>2 DEF Reloading
  <1>5. ASSUME op'[q].cmd.c = "read"
        PROVE  /\ op'[q].req.kind = "reset" => op'[q].def = def'
               /\ \A s \in Wanted(op'[q].def) :
                      Unread(q, s)' \/ op'[q].seen[s] = dev'.mem[s]
    BY <1>1, <1>2, <1>5 DEF Reloading
  <1> QED BY <1>3, <1>4, <1>5

LEMMA PlacedKept ==
    ASSUME Placed, NEW o \in Ops, Others(o), ~Write(o)', def' = def,
           "reload" \notin races' => "reload" \notin races
    PROVE  Placed'
  <1> SUFFICES ASSUME "reload" \notin races', NEW p \in Ops, Write(p)'
               PROVE  /\ op'[p].req.kind = "setKey" =>
                            /\ op'[p].req.pos \in DOMAIN Layouts[def'].keys
                            /\ Layouts[def'].keys[op'[p].req.pos] = op'[p].cmd.slot
                      /\ op'[p].req.kind = "setEncoder" => Layouts[def'].encoder
    BY DEF Placed
  <1>1. p # o /\ op'[p] = op[p] /\ Write(p)
    BY OtherKeeps
  <1> QED BY <1>1 DEF Placed

LEMMA EchoedKept ==
    ASSUME Echoed, NEW o \in Ops, Others(o), ~Write(o)' \/ ~Ready(o)', dev' = dev
    PROVE  Echoed'
  <1> SUFFICES ASSUME ~dev'.skipped, NEW p \in Ops, Write(p)', Ready(p)', op'[p].reply.how = "ok"
               PROVE  dev'.mem[op'[p].cmd.slot] = op'[p].cmd.val
    BY DEF Echoed
  <1>1. p # o /\ op'[p] = op[p] /\ Write(p) /\ Ready(p)
    BY OtherKeeps
  <1> QED BY <1>1 DEF Echoed

\* What makes the mirror's promise void, and what it leaves open, of one operation.
LostBy(o) == /\ op[o].req.kind \in Writes \cup {"reset"}
             /\ op[o].pc = "failed" \/ (Ready(o) /\ op[o].reply.how = "error")
ErasedBy(o) == Busy(o) /\ op[o].req.kind = "reset" /\ (op[o].cmd.c = "read" \/ Ready(o))

LEMMA Promise ==
    ASSUME NEW o \in Ops, Others(o)
    PROVE  /\ (LostBy(o) => Lost') => (~Lost' => ~Lost)
           /\ (ErasedBy(o) => Erased') => (~Erased' => ~Erased)
           /\ LostBy(o)' => Lost'
           /\ ErasedBy(o)' => Erased'
           /\ ~(Write(o) /\ Ready(o)) => \A s : Due(s) => Due(s)'
  <1>1. ASSUME NEW p \in Ops \ {o}
        PROVE  (LostBy(p)' <=> LostBy(p)) /\ (ErasedBy(p)' <=> ErasedBy(p))
    BY OtherKeeps DEF LostBy, ErasedBy
  <1>2. (Lost <=> \E p \in Ops : LostBy(p)) /\ (Erased <=> \E p \in Ops : ErasedBy(p))
    BY DEF Lost, Erased, LostBy, ErasedBy
  <1>3. (Lost' <=> \E p \in Ops : LostBy(p)') /\ (Erased' <=> \E p \in Ops : ErasedBy(p)')
    BY DEF Lost, Erased, LostBy, ErasedBy
  <1>4. ASSUME ~(Write(o) /\ Ready(o)), NEW s, Due(s) PROVE Due(s)'
    <2>1. PICK p \in Ops : Write(p) /\ Ready(p) /\ op[p].cmd.slot = s
      BY <1>4 DEF Due
    <2>2. p # o
      BY <1>4, <2>1
    <2> QED BY <2>1, <2>2, OtherKeeps DEF Due
  <1> QED BY <1>1, <1>2, <1>3, <1>4

LEMMA MirroredKept ==
    ASSUME Mirrored, UNCHANGED <<mirror, dev>>,
           "reload" \notin races' => "reload" \notin races,
           ~Lost' => ~Lost, ~Erased' => ~Erased, \A s : Due(s) => Due(s)'
    PROVE  Mirrored'
  <1> SUFFICES ASSUME "reload" \notin races', ~dev'.skipped, ~Lost', ~Erased'
               PROVE  /\ DOMAIN keys' = DOMAIN Layouts[def'].keys
                      /\ \A cell \in ToSet(Layouts[def'].keys) : Shown(cell)' \/ Due(cell)'
                      /\ Layouts[def'].encoder => \A d \in Dirs : enc'[d] = dev'.mem[d] \/ Due(d)'
                      /\ ~Layouts[def'].encoder => enc' = NoEncoder
    BY DEF Mirrored
  <1>1. UNCHANGED <<def, keys, enc, dev>>
    BY DEF mirror
  <1>2. \A cell : Shown(cell) => Shown(cell)'
    BY <1>1 DEF Shown
  <1> QED BY <1>1, <1>2 DEF Mirrored

\* A continuation of an operation that neither writes the keymap nor reads it back, and
\* one that gives up: the mirror stays as it is.
LEMMA MirrorPasses ==
    ASSUME MirrorInv, Base', NEW o \in Ops, Turn(o), UNCHANGED mirror,
           ~Reload(o)', ~Write(o)',
           op[o].req.kind \in Writes \cup {"reset"} => op'[o].pc = "failed"
    PROVE  MirrorInv'
  <1>1. /\ UNCHANGED <<dev, races, def>> /\ Others(o) /\ Busy(o) /\ op'[o].req = op[o].req
        /\ LineKept(o)
    BY DEF Turn, mirror, Sent, LineKept
  <1>2. Reloading' /\ Placed' /\ Echoed'
    BY <1>1, ReloadingKept, PlacedKept, EchoedKept DEF MirrorInv
  <1>3. CASE op[o].req.kind \in Writes \cup {"reset"}
    <2>1. Lost'
      BY <1>1, <1>3 DEF Lost
    <2> QED BY <1>2, <2>1 DEF MirrorInv, Mirrored
  <1>4. CASE op[o].req.kind \notin Writes \cup {"reset"}
    <2>1. ~LostBy(o) /\ ~ErasedBy(o) /\ ~Write(o)
      BY <1>4 DEF LostBy, ErasedBy, Write
    <2>2. Mirrored'
      BY <1>1, <2>1, Promise, MirroredKept DEF MirrorInv
    <2> QED BY <1>2, <2>2 DEF MirrorInv
  <1> QED BY <1>3, <1>4

\* setKey() and setEncoder(): the echo's write enters the mirror where it was made.
LEMMA MirrorWritten ==
    ASSUME MirrorInv, NEW o \in Ops, Written(o)
    PROVE  MirrorInv'
  <1>1. Base /\ Base' /\ Turn(o) /\ Ended(o, "ok")
    BY WrittenTurns DEF MirrorInv
  <1>2. /\ Answered(o, "write") /\ op[o].req.kind \in Writes /\ Stored(op[o].req)
        /\ UNCHANGED <<def, dev, races>>
    BY DEF Written, Unmoved
  <1>3. /\ op[o].pc = "send" /\ Ready(o) /\ Busy(o) /\ op[o].req \in Requests /\ Write(o)
        /\ op[o].reply.how = "ok" /\ Scripted(o) /\ \A p \in Ops : Ready(p) => p = o
    BY <1>1, <1>2, AnsweredFacts DEF Write
  <1>4. Others(o) /\ LineKept(o) /\ ~Busy(o)' /\ op'[o].pc = "ok"
    BY <1>1 DEF Ended, LineKept, Busy
  <1>5. Reloading' /\ Placed' /\ Echoed'
    BY <1>2, <1>4, ReloadingKept, PlacedKept, EchoedKept DEF MirrorInv, Reload, Write
  <1>6. (~Lost' => ~Lost) /\ (~Erased' => ~Erased)
    <2>1. ~LostBy(o) /\ ~ErasedBy(o)
      BY <1>2, <1>3 DEF LostBy, ErasedBy, Writes
    <2> QED BY <1>4, <2>1, Promise
  <1>7. PICK r \in Requests : r = op[o].req
    BY <1>3
  <1>8. PICK slot, val : slot = op[o].cmd.slot /\ val = op[o].cmd.val
    OBVIOUS
  <1>9. ASSUME NEW s PROVE Due(s) <=> s = slot
    BY <1>3, <1>8 DEF Due
  <1> SUFFICES ASSUME "reload" \notin races, ~dev.skipped, ~Lost, ~Erased
               PROVE  /\ DOMAIN keys' = DOMAIN Layouts[def].keys
                      /\ \A cell \in ToSet(Layouts[def].keys) : Shown(cell)'
                      /\ Layouts[def].encoder => \A d \in Dirs : enc'[d] = dev.mem[d]
                      /\ ~Layouts[def].encoder => enc' = NoEncoder
    BY <1>1, <1>2, <1>5, <1>6 DEF MirrorInv, Mirrored
  <1>10. /\ DOMAIN keys = DOMAIN Layouts[def].keys
         /\ \A cell \in ToSet(Layouts[def].keys) : Shown(cell) \/ cell = slot
         /\ Layouts[def].encoder => \A d \in Dirs : enc[d] = dev.mem[d] \/ d = slot
         /\ ~Layouts[def].encoder => enc = NoEncoder
    BY <1>9 DEF MirrorInv, Mirrored
  <1>11. dev.mem[slot] = val
    BY <1>3, <1>8 DEF MirrorInv, Echoed
  <1>12. /\ def \in DOMAIN Layouts /\ keys \in Seq(Actions \cup {"hole"})
         /\ dev.mem \in [Slots -> Actions] /\ enc \in [Dirs -> Actions \cup {"none"}]
    BY <1>1 DEF Base, Types, Plain, Keyboard
  <1>13. ToSet(Layouts[def].keys) \subseteq ToSet(Cells)
    <2>1. Layouts[def].keys \in Seq(ToSet(Cells))
      BY <1>12, LayoutsAssumption
    <2> QED BY <2>1 DEF ToSet
  <1>14. CASE r.kind = "setKey"
    <2>1. /\ r.pos \in Nat \ {0} /\ r.val \in Actions /\ r.pos \in DOMAIN Layouts[def].keys
          /\ Layouts[def].keys[r.pos] = slot /\ val = r.val /\ slot \in ToSet(Cells)
      BY <1>3, <1>7, <1>8, <1>14, RequestFields DEF MirrorInv, Placed, Scripted
    <2>2. keys' = PutAt(keys, r.pos, r.val) /\ enc' = enc
      BY <1>2, <1>7, <1>14 DEF Stored
    <2>3. /\ DOMAIN keys' = DOMAIN keys
          /\ \A i \in DOMAIN keys : keys'[i] = IF i = r.pos THEN r.val ELSE keys[i]
      BY <1>10, <1>12, <2>1, <2>2, PutActions
    <2>4. ASSUME NEW cell \in ToSet(Layouts[def].keys) PROVE Shown(cell)'
      <3>1. CASE cell = slot
        <4>1. r.pos \in DOMAIN keys' /\ Layouts[def].keys[r.pos] = cell
              /\ keys'[r.pos] = dev.mem[cell]
          BY <1>10, <1>11, <2>1, <2>3, <3>1
        <4> QED BY <1>2, <4>1 DEF Shown
      <3>2. CASE cell # slot
        <4>1. PICK p \in DOMAIN keys : Layouts[def].keys[p] = cell /\ keys[p] = dev.mem[cell]
          BY <1>10, <3>2 DEF Shown
        <4>2. p # r.pos
          BY <2>1, <3>2, <4>1
        <4>3. p \in DOMAIN keys' /\ keys'[p] = dev.mem[cell]
          BY <2>3, <4>1, <4>2
        <4> QED BY <1>2, <4>1, <4>3 DEF Shown
      <3> QED BY <3>1, <3>2
    <2>5. slot \notin Dirs
      BY <2>1, SlotsAssumption
    <2> QED BY <1>10, <2>2, <2>3, <2>4, <2>5
  <1>15. CASE r.kind # "setKey"
    <2>1. r.kind = "setEncoder"
      BY <1>2, <1>7, <1>15 DEF Writes
    <2>2. /\ r.dir \in Dirs /\ r.val \in Actions /\ slot = r.dir /\ val = r.val
          /\ Layouts[def].encoder
      BY <1>3, <1>7, <1>8, <2>1, RequestFields DEF MirrorInv, Placed, Scripted
    <2>3. PICK e \in Dirs : e # slot
      BY <2>2 DEF Dirs
    <2>4. enc[e] = dev.mem[e] /\ dev.mem[e] \in Actions
      BY <1>10, <1>12, <2>2, <2>3, SlotKinds
    <2>5. enc # NoEncoder
      BY <2>3, <2>4, ActionsAssumption DEF NoEncoder, Dirs
    <2>6. enc' = [enc EXCEPT ![slot] = val] /\ keys' = keys
      BY <1>2, <1>7, <1>15, <2>2, <2>5 DEF Stored
    <2>7. \A d \in Dirs : enc'[d] = dev.mem[d]
      BY <1>10, <1>11, <1>12, <2>2, <2>6
    <2>8. ASSUME NEW cell \in ToSet(Layouts[def].keys) PROVE Shown(cell)'
      <3>1. cell # slot
        BY <1>13, <2>2, SlotsAssumption
      <3> QED BY <1>2, <1>10, <2>6, <3>1 DEF Shown
    <2> QED BY <1>10, <2>2, <2>6, <2>7, <2>8
  <1> QED BY <1>14, <1>15

LEMMA WantedSlots ==
    ASSUME NEW d \in DOMAIN Layouts
    PROVE  Wanted(d) \subseteq Slots /\ Wanted(d) \cap ToSet(Macros) = {}
  <1>1. Layouts[d].keys \in Seq(ToSet(Cells))
    BY LayoutsAssumption
  <1>2. ToSet(Layouts[d].keys) \subseteq ToSet(Cells)
    BY <1>1 DEF ToSet
  <1> QED BY <1>2, SlotsAssumption, SlotKinds DEF Wanted

\* A chunk that has come moves its slots from those to be read to those that are.
LEMMA ChunkSeen ==
    ASSUME MirrorInv, NEW o \in Ops, Answered(o, "read"), Reading(o), Reload(o),
           "reload" \notin races, NEW s \in Wanted(op[o].def)
    PROVE  \/ Seen(o)[s] = dev.mem[s]
           \/ \E i \in DOMAIN Tail(op[o].rest) : s \in Tail(op[o].rest)[i]
  <1>1. PICK rest \in Seq(SUBSET Slots) : rest = op[o].rest /\ rest # <<>>
    BY DEF Reading
  <1>2. /\ op[o].cmd = ReadCmd(Head(rest)) /\ op[o].def \in DOMAIN Layouts
        /\ op[o].cmd.c = "read"
    BY <1>1 DEF Reading, ReadCmd
  <1>3. /\ rest[1] = Head(rest)
        /\ \A i \in DOMAIN rest : i = 1 \/ (i - 1 \in DOMAIN Tail(rest) /\ Tail(rest)[i - 1] = rest[i])
    BY <1>1, TailInSeq
  <1>4. s \in Slots /\ op[o].cmd.slots = Head(rest)
    BY <1>2, WantedSlots DEF ReadCmd
  <1>5. Seen(o)[s] = IF s \in op[o].cmd.slots THEN dev.mem[s] ELSE op[o].seen[s]
    BY <1>4, SeenFacts DEF MirrorInv
  <1>6. Unread(o, s) \/ op[o].seen[s] = dev.mem[s]
    BY <1>2 DEF MirrorInv, Reloading
  <1>7. CASE Unread(o, s)
    <2>1. PICK i \in DOMAIN rest : s \in rest[i]
      BY <1>1, <1>7 DEF Unread
    <2>2. i = 1 => Seen(o)[s] = dev.mem[s]
      BY <1>3, <1>4, <1>5, <2>1
    <2> QED BY <1>1, <1>3, <2>1, <2>2
  <1>8. CASE op[o].seen[s] = dev.mem[s]
    BY <1>5, <1>8
  <1> QED BY <1>6, <1>7, <1>8

\* A reload whose answer has come: no write is on its way.
LEMMA NoneBeside ==
    ASSUME MirrorInv, "reload" \notin races, NEW o \in Ops, Reload(o), Ready(o)
    PROVE  (\A p \in Ops : ~Write(p)) /\ (\A p \in Ops : Reload(p) => p = o)
  BY DEF MirrorInv, Reloading, Out, Ready

\* applyLayout() and resetSettings() end: what they install is what the keyboard holds.
LEMMA MirrorInstalled ==
    ASSUME MirrorInv, NEW o \in Ops, ChunkRead(o), Tail(op[o].rest) = <<>>,
           Ended(o, "ok"), Install(o, Seen(o))
    PROVE  MirrorInv'
  <1>1. /\ Base /\ Base' /\ Turn(o) /\ Answered(o, "read") /\ Reading(o)
        /\ op[o].req.kind \in Reloads
    BY ChunkReadTurns DEF MirrorInv
  <1>2. Ready(o) /\ Busy(o) /\ Reload(o) /\ op[o].cmd.c = "read"
    BY <1>1, AnsweredFacts DEF Reload
  <1>3. UNCHANGED <<dev, races>> /\ Others(o) /\ ~Busy(o)'
    BY <1>1 DEF Turn, Ended, Busy
  <1>4. Echoed'
    BY <1>3, EchoedKept DEF MirrorInv, Write
  <1>5. PICK d \in DOMAIN Layouts, seen \in [Slots -> Actions] : d = op[o].def /\ seen = Seen(o)
    BY <1>1, SeenFacts DEF Reading
  <1>6. /\ keys' = KeysRead(d, seen) /\ enc' = EncRead(d, seen)
        /\ op[o].req.kind = "applyLayout" => def' = d
        /\ op[o].req.kind # "applyLayout" => def' = def
    BY <1>5 DEF Install
  <1> SUFFICES ASSUME "reload" \notin races
               PROVE  Reloading' /\ Placed' /\ Mirrored'
    <2>1. "reload" \in races => Reloading' /\ Placed' /\ Mirrored'
      BY <1>3 DEF Reloading, Placed, Mirrored
    <2> QED BY <1>1, <1>4, <2>1 DEF MirrorInv
  <1>7. \A p \in Ops : ~Write(p)' /\ ~Reload(p)'
    <2>1. (\A p \in Ops : ~Write(p)) /\ (\A p \in Ops : Reload(p) => p = o)
      BY <1>2, NoneBeside
    <2>2. ~Write(o)' /\ ~Reload(o)'
      BY <1>3 DEF Write, Reload
    <2> QED BY <1>3, <2>1, <2>2, OtherKeeps
  <1>8. Reloading' /\ Placed'
    BY <1>7 DEF Reloading, Placed
  <1>9. def' = d
    BY <1>1, <1>2, <1>5, <1>6 DEF MirrorInv, Reloading, Reloads
  <1>10. ASSUME NEW s \in Wanted(d) PROVE seen[s] = dev.mem[s]
    <2>1. \/ Seen(o)[s] = dev.mem[s]
          \/ \E i \in DOMAIN Tail(op[o].rest) : s \in Tail(op[o].rest)[i]
      BY <1>1, <1>2, <1>5, ChunkSeen
    <2>2. DOMAIN <<>> = {}
      OBVIOUS
    <2> QED BY <1>5, <2>1, <2>2
  <1>11. /\ DOMAIN keys' = DOMAIN Layouts[d].keys
         /\ \A p \in DOMAIN Layouts[d].keys : keys'[p] = seen[Layouts[d].keys[p]]
         /\ Layouts[d].encoder => \A s \in Dirs : enc'[s] = seen[s]
         /\ ~Layouts[d].encoder => enc' = NoEncoder
    BY <1>6, ReadMirror
  <1>12. ASSUME NEW cell \in ToSet(Layouts[d].keys) PROVE Shown(cell)'
    <2>1. PICK p \in DOMAIN Layouts[d].keys : Layouts[d].keys[p] = cell
      BY DEF ToSet
    <2>2. keys'[p] = dev.mem[cell]
      BY <1>10, <1>11, <2>1 DEF Wanted
    <2> QED BY <1>3, <1>9, <1>11, <2>1, <2>2 DEF Shown
  <1>13. Layouts[d].encoder => \A s \in Dirs : enc'[s] = dev.mem[s]
    BY <1>10, <1>11 DEF Wanted
  <1>14. Mirrored'
    BY <1>3, <1>9, <1>11, <1>12, <1>13 DEF Mirrored
  <1> QED BY <1>8, <1>14

\* A reload's next chunk, or its first after the reset.
LEMMA MirrorReads ==
    ASSUME MirrorInv, Base', NEW o \in Ops, Turn(o), Sent(o), Ready(o), op[o].reply.how = "ok",
           op[o].req.kind \in Reloads, op'[o].cmd.c = "read", UNCHANGED mirror,
           "reload" \notin races =>
              /\ op[o].req.kind = "reset" => op'[o].def = def
              /\ \A s \in Wanted(op'[o].def) : Unread(o, s)' \/ op'[o].seen[s] = dev.mem[s]
    PROVE  MirrorInv'
  <1>1. /\ UNCHANGED <<dev, races, def>> /\ Others(o) /\ Busy(o) /\ Reload(o)
        /\ op'[o].req = op[o].req /\ Busy(o)' /\ ~Ready(o)' /\ ~Write(o) /\ ~Write(o)'
    BY DEF Turn, mirror, Sent, Reload, Write, Busy, Ready, NoReply, Reloads, Writes
  <1>2. Placed' /\ Echoed'
    BY <1>1, PlacedKept, EchoedKept DEF MirrorInv
  <1>3. Reloading'
    <2> SUFFICES ASSUME "reload" \notin races PROVE Reloading'
      BY <1>1 DEF Reloading
    <2>1. (\A p \in Ops : ~Write(p)) /\ (\A p \in Ops : Reload(p) => p = o)
      BY <1>1, NoneBeside
    <2>2. \A p \in Ops : ~Write(p)' /\ (Reload(p)' => p = o)
      BY <1>1, <2>1, OtherKeeps
    <2> QED BY <1>1, <2>2 DEF Reloading, Wanted
  <1>4. Mirrored'
    <2>1. ~LostBy(o)
      BY DEF LostBy, Ready
    <2>2. ErasedBy(o) => Erased'
      <3>1. ErasedBy(o) => ErasedBy(o)'
        BY <1>1 DEF ErasedBy
      <3> QED BY <1>1, <3>1, Promise
    <2> QED BY <1>1, <2>1, <2>2, Promise, MirroredKept DEF MirrorInv
  <1> QED BY <1>2, <1>3, <1>4 DEF MirrorInv

LEMMA MirrorContinues ==
    ASSUME MirrorInv, NEW o \in Ops, Continues(o)
    PROVE  MirrorInv'
  <1>1. Base /\ Base' /\ Turn(o) /\ op'[o].req = op[o].req
    BY ContinuesTurn DEF MirrorInv, Turn
  <1>2. CASE Written(o)
    BY <1>2, MirrorWritten
  <1>3. CASE ChunkRead(o)
    <2>1. /\ Answered(o, "read") /\ Reading(o) /\ op[o].req.kind \in Reloads
          /\ \/ Tail(op[o].rest) = <<>> /\ Ended(o, "ok") /\ Install(o, Seen(o))
             \/ /\ Sent(o) /\ UNCHANGED mirror
                /\ op'[o].cmd.c = "read" /\ op'[o].seen = Seen(o)
                /\ op'[o].rest = Tail(op[o].rest) /\ op'[o].def = op[o].def
      BY <1>1, <1>3, ChunkReadTurns
    <2>2. CASE Tail(op[o].rest) = <<>> /\ Ended(o, "ok") /\ Install(o, Seen(o))
      BY <1>3, <2>2, MirrorInstalled
    <2>3. CASE /\ Sent(o) /\ UNCHANGED mirror
               /\ op'[o].cmd.c = "read" /\ op'[o].seen = Seen(o)
               /\ op'[o].rest = Tail(op[o].rest) /\ op'[o].def = op[o].def
      <3>1. Ready(o) /\ op[o].reply.how = "ok" /\ Reload(o) /\ op[o].cmd.c = "read"
        BY <1>1, <2>1, AnsweredFacts DEF Reload
      <3>2. ASSUME "reload" \notin races, NEW s \in Wanted(op[o].def)
            PROVE  Unread(o, s)' \/ op'[o].seen[s] = dev.mem[s]
        BY <2>1, <2>3, <3>1, <3>2, ChunkSeen DEF Unread
      <3>3. "reload" \notin races /\ op[o].req.kind = "reset" => op'[o].def = def
        BY <2>3, <3>1 DEF MirrorInv, Reloading
      <3> QED BY <1>1, <2>1, <2>3, <3>1, <3>2, <3>3, MirrorReads
    <2> QED BY <2>1, <2>2, <2>3
  <1>4. CASE ResetDone(o)
    <2>1. /\ Sent(o) /\ op[o].req.kind = "reset" /\ Ready(o)
          /\ op'[o].cmd.c = "read" /\ op'[o].rest = Plan(def) /\ op'[o].def = def
          /\ UNCHANGED mirror
      BY <1>1, <1>4, ResetDoneTurns
    <2>2. op[o].reply.how = "ok" /\ def \in DOMAIN Layouts
      BY <1>1, <1>4 DEF ResetDone, Answered, Base, Types, Plain
    <2>3. \A s \in Wanted(op'[o].def) : Unread(o, s)'
      BY <2>1, <2>2, PlanProperties DEF Unread
    <2> QED BY <1>1, <2>1, <2>2, <2>3, MirrorReads DEF Reloads
  <1>5. CASE EntryWritten(o) \/ Locked(o) \/ LockStateRead(o) \/ MacroSized(o)
             \/ MacroRead(o) \/ MacroWritten(o)
             \/ UnlockBegun(o) \/ UnlockStarted(o) \/ Polled(o) \/ PollAgain(o)
    <2>1. /\ UNCHANGED mirror
          /\ op[o].req.kind \in {"setCombo", "lock", "getLockState", "setMacro", "unlock"}
      BY <1>1, <1>5, EntryTurns, LockedTurns, LockStateTurns, MacroSizedTurns,
         MacroReadTurns, MacroWrittenTurns, UnlockTurns
    <2>2. op[o].req.kind \notin Writes \cup Reloads
      BY <2>1 DEF Writes, Reloads
    <2> QED BY <1>1, <2>1, <2>2, MirrorPasses DEF Reload, Write, Reloads
  <1>6. CASE SendFailed(o)
    <2>1. UNCHANGED mirror /\ op'[o].pc = "failed"
      BY <1>1, <1>6, FailureTurns DEF Ended
    <2> QED BY <1>1, <2>1, MirrorPasses DEF Reload, Write, Busy
  <1> QED BY <1>2, <1>3, <1>4, <1>5, <1>6 DEF Continues

LEMMA MirrorBegins ==
    ASSUME MirrorInv, NEW o \in Ops, Begin(o)
    PROVE  MirrorInv'
  <1>1. /\ Base /\ Base' /\ UNCHANGED <<mirror, dev, def>> /\ Others(o) /\ op[o].pc = "idle"
        /\ \/ \E r \in Requests : Begun(o, r)
           \/ op'[o].pc = "refused" /\ UNCHANGED <<line, races>>
    BY BeginTurns DEF MirrorInv, Begun, mirror
  <1>2. /\ ~Busy(o) /\ ~Ready(o) /\ ~LostBy(o) /\ ~ErasedBy(o)
        /\ LineKept(o) /\ races \subseteq races'
    BY <1>1 DEF Busy, Ready, LostBy, ErasedBy, LineKept, Begun, Sent
  <1>3. (~Lost' => ~Lost) /\ (~Erased' => ~Erased) /\ \A s : Due(s) => Due(s)'
    BY <1>1, <1>2, Promise
  <1>4. ~Ready(o)'
    BY <1>1 DEF Begun, Sent, Ready, NoReply
  <1>5. Mirrored' /\ Echoed'
    BY <1>1, <1>2, <1>3, <1>4, MirroredKept, EchoedKept DEF MirrorInv
  <1>6. CASE ~Reload(o)' /\ ~Write(o)'
    <2>1. Reloading' /\ Placed'
      BY <1>1, <1>2, <1>6, ReloadingKept, PlacedKept DEF MirrorInv
    <2> QED BY <1>1, <1>5, <2>1 DEF MirrorInv
  <1>7. CASE Reload(o)' \/ Write(o)'
    <2>1. PICK r \in Requests : Begun(o, r)
      BY <1>1, <1>7 DEF Reload, Write, Busy
    <2>2. /\ Sent(o) /\ op'[o].req = r /\ op'[o].cmd = First(r) /\ Known(r)
          /\ races' = races \cup Crossed(r)
          /\ r.kind = "applyLayout" => op'[o].rest = Plan(r.def) /\ op'[o].def = r.def
          /\ op'[o].pc = "send" /\ op'[o].reply = NoReply
      BY <2>1 DEF Begun, Sent
    <2>3. r.kind \in Writes \cup Reloads
      BY <1>7, <2>2 DEF Reload, Write
    <2> SUFFICES ASSUME "reload" \notin races' PROVE Reloading' /\ Placed'
      <3>1. "reload" \in races' => Reloading' /\ Placed'
        BY DEF Reloading, Placed
      <3> QED BY <1>1, <1>5, <3>1 DEF MirrorInv
    <2>4. \A p \in Ops : ~Reload(p)
      <3>1. "reload" \notin Crossed(r)
        BY <2>2
      <3>2. ~BusyAt(Reloads)
        BY <2>3, <3>1 DEF Crossed
      <3> QED BY <3>2 DEF BusyAt, Reload
    <2>5. "reload" \notin races
      BY <1>2
    <2>6. Plain
      BY <1>1 DEF Base, Types
    <2>7. CASE r.kind \in Writes
      <3>1. ~Reload(o)'
        BY <2>2, <2>7 DEF Reload, Writes, Reloads
      <3>2. \A p \in Ops : ~Reload(p)'
        BY <1>1, <2>4, <3>1, OtherKeeps
      <3>3. Reloading'
        BY <3>2 DEF Reloading
      <3>4. r.kind = "setKey" => /\ r.pos \in DOMAIN Layouts[def].keys
                                 /\ Layouts[def].keys[r.pos] = op'[o].cmd.slot
        BY <2>2, <2>6, FirstCommand DEF Known
      <3>5. r.kind = "setEncoder" => Layouts[def].encoder
        BY <2>2 DEF Known
      <3>6. ASSUME NEW p \in Ops, Write(p)'
            PROVE  /\ op'[p].req.kind = "setKey" =>
                         /\ op'[p].req.pos \in DOMAIN Layouts[def'].keys
                         /\ Layouts[def'].keys[op'[p].req.pos] = op'[p].cmd.slot
                   /\ op'[p].req.kind = "setEncoder" => Layouts[def'].encoder
        <4>1. CASE p = o
          BY <1>1, <2>2, <3>4, <3>5, <4>1
        <4>2. CASE p # o
          <5>1. op'[p] = op[p] /\ Write(p)
            BY <1>1, <3>6, <4>2, OtherKeeps
          <5> QED BY <1>1, <2>5, <5>1 DEF MirrorInv, Placed
        <4> QED BY <4>1, <4>2
      <3>7. Placed'
        BY <3>6 DEF Placed
      <3> QED BY <3>3, <3>7
    <2>8. CASE r.kind \in Reloads
      <3>1. ~Write(o)' /\ Out(o)'
        BY <2>2, <2>8 DEF Write, Writes, Reloads, Out, NoReply
      <3>2. Placed'
        BY <1>1, <2>5, <3>1, PlacedKept DEF MirrorInv
      <3>3. \A p \in Ops : Reload(p)' => p = o
        BY <1>1, <2>4, OtherKeeps
      <3>4. ASSUME NEW p \in Ops, Write(p)', Out(p)' PROVE Before(line', p, o)
        <4>1. p # o /\ Out(p)
          BY <1>1, <3>1, <3>4, OtherKeeps
        <4>2. On(line, p)
          BY <1>1, <4>1 DEF Base, Lined
        <4> QED BY <2>2, <4>2 DEF Sent
      <3>5. ASSUME op'[o].cmd.c = "read"
            PROVE  /\ op'[o].req.kind # "reset"
                   /\ \A s \in Wanted(op'[o].def) : Unread(o, s)'
        <4>1. r.kind # "reset"
          BY <2>2, <2>6, <3>5, FirstCommand
        <4>2. r.kind = "applyLayout" /\ r.def \in DOMAIN Layouts
          BY <2>8, <4>1, RequestFields DEF Reloads
        <4>3. \A s \in Wanted(op'[o].def) : Unread(o, s)'
          BY <2>2, <4>2, PlanProperties DEF Unread
        <4> QED BY <2>2, <4>1, <4>3
      <3>6. Reloading'
        BY <3>1, <3>3, <3>4, <3>5 DEF Reloading, Wanted
      <3> QED BY <3>2, <3>6
    <2> QED BY <2>3, <2>7, <2>8
  <1> QED BY <1>6, <1>7

\* Which slots of the keymap a command changes, while no reload is crossed.
LEMMA MirrorAlone ==
    ASSUME Base, NEW o \in Ops, op[o].pc = "send", Effect(o, dev'),
           NEW d \in DOMAIN Layouts, NEW s \in Wanted(d), dev'.mem[s] # dev.mem[s]
    PROVE  \/ Write(o) /\ op[o].cmd.c = "write" /\ op[o].cmd.slot = s
           \/ Reload(o) /\ op[o].req.kind = "reset" /\ op[o].cmd.c = "reset"
  <1>1. s \in Slots /\ s \notin ToSet(Macros)
    BY WantedSlots
  <1>2. \/ op[o].cmd.c = "write" /\ op[o].cmd.slot = s
        \/ op[o].cmd.c = "reset"
    BY <1>1 DEF Effect
  <1>3. Scripted(o) /\ op[o].req \in Requests /\ Busy(o)
    BY DEF Base, Scripted, Busy
  <1>4. CASE op[o].cmd.c = "reset"
    BY <1>3, <1>4, KindOf DEF Reload, Reloads
  <1>5. CASE op[o].cmd.c = "write" /\ op[o].cmd.slot = s
    <2>1. op[o].req.kind \in Writes \cup {"setMacro"}
      BY <1>3, <1>5, KindOf
    <2>2. op[o].req.kind # "setMacro"
      <3> SUFFICES ASSUME op[o].req.kind = "setMacro" PROVE FALSE
        OBVIOUS
      <3>1. op[o].rest \in Seq(ToSet(Macros)) /\ op[o].rest # <<>>
            /\ op[o].cmd.slot = Head(op[o].rest)
        BY <1>3, <1>5 DEF Scripted, MacroPhase, ReadCmd
      <3>2. Head(op[o].rest) \in ToSet(Macros)
        BY <3>1, TailInSeq
      <3> QED BY <1>1, <1>5, <3>1, <3>2
    <2> QED BY <1>3, <1>5, <2>1, <2>2 DEF Write
  <1> QED BY <1>2, <1>4, <1>5

LEMMA MirrorChannel ==
    ASSUME MirrorInv, ~Settled, NEW o \in Ops, Channel(o)
    PROVE  MirrorInv'
  <1>1. /\ Base /\ Base' /\ Others(o) /\ Out(o) /\ Busy(o) /\ Busy(o)' /\ Ready(o)'
        /\ UNCHANGED <<mirror, races>> /\ op'[o].req = op[o].req /\ op'[o].cmd = op[o].cmd
        /\ op'[o].rest = op[o].rest /\ op'[o].seen = op[o].seen /\ op'[o].def = op[o].def
        /\ op'[o].pc = "send" /\ Effect(o, dev') /\ op'[o].reply.how \in {"ok", "error"}
        /\ op'[o].reply.how = "ok" /\ op[o].cmd.c = "write" /\ ~dev'.skipped =>
             dev'.mem[op[o].cmd.slot] = op[o].cmd.val
        /\ Head(line) = o /\ line' = Tail(line)
    BY ChannelTurns DEF MirrorInv
  <1>2. /\ UNCHANGED <<def, keys, enc>> /\ op[o].pc = "send" /\ op[o].reply.how = "none"
        /\ (dev.skipped => dev'.skipped)
    BY <1>1 DEF mirror, Out, Effect
  <1>3. /\ line \in Seq(Ops) /\ NoRepeat(line) /\ On(line, o) /\ line # <<>>
        /\ def \in DOMAIN Layouts /\ \A p \in Ops : ~Ready(p)
    <2>1. /\ line \in Seq(Ops) /\ NoRepeat(line) /\ On(line, o) /\ def \in DOMAIN Layouts
          /\ \A p \in Ops : ~Ready(p)
      BY <1>1, SettledReady DEF Base, Types, Plain, Lined
    <2>2. line # <<>>
      BY <2>1 DEF On
    <2> QED BY <2>1, <2>2
  <1>4. ASSUME NEW p \in Ops
        PROVE  /\ (Reload(p)' <=> Reload(p)) /\ (Write(p)' <=> Write(p))
               /\ op'[p].req = op[p].req /\ op'[p].cmd = op[p].cmd /\ op'[p].def = op[p].def
               /\ op'[p].seen = op[p].seen /\ \A s : Unread(p, s)' <=> Unread(p, s)
               /\ p # o => op'[p] = op[p] /\ (Out(p)' <=> Out(p)) /\ ~Ready(p)'
    <2>1. CASE p = o
      BY <1>1, <2>1 DEF Reload, Write, Unread
    <2>2. CASE p # o
      <3>1. op'[p] = op[p] /\ (Busy(p)' <=> Busy(p)) /\ (Out(p)' <=> Out(p)) /\ ~Ready(p)'
            /\ (Reload(p)' <=> Reload(p)) /\ (Write(p)' <=> Write(p))
        BY <1>1, <1>3, <2>2, OtherKeeps
      <3> QED BY <3>1 DEF Unread
    <2> QED BY <2>1, <2>2
  <1>5. ASSUME NEW p \in Ops, Write(p) PROVE Out(p)
    <2>1. Scripted(p) /\ op[p].pc \in {"send", "wait"} /\ op[p].req.kind \in Writes
      BY <1>1, <1>5 DEF Base, Write, Busy
    <2>2. op[p].pc = "send"
      BY <2>1 DEF Scripted, Writes
    <2> QED BY <1>3, <2>2 DEF Out, Ready
  <1>6. Placed'
    BY <1>1, <1>2, <1>4 DEF MirrorInv, Placed
  <1>7. Echoed'
    <2> SUFFICES ASSUME ~dev'.skipped, NEW p \in Ops, Write(p)', Ready(p)',
                        op'[p].reply.how = "ok"
                 PROVE  dev'.mem[op'[p].cmd.slot] = op'[p].cmd.val
      BY DEF Echoed
    <2>1. p = o /\ Write(o)
      BY <1>4
    <2>2. Scripted(o) /\ op[o].req \in Requests /\ op[o].req.kind \in Writes
      BY <1>1, <1>2, <2>1 DEF Base, Scripted, Write
    <2>3. op[o].cmd.c = "write"
      BY <1>2, <2>2, KindOf
    <2> QED BY <1>1, <2>1, <2>3
  <1>8. Reloading'
    <2> SUFFICES ASSUME "reload" \notin races, NEW q \in Ops, Reload(q)
                 PROVE  /\ \A p \in Ops : Reload(p) => q = p
                        /\ \A p \in Ops : Write(p) =>
                              /\ Out(q)' /\ (Out(p)' => Before(line', p, q))
                              /\ op[q].cmd.c = "read" => \A s \in Wanted(op[q].def) : Unread(q, s)
                        /\ op[q].cmd.c = "read" =>
                              /\ op[q].req.kind = "reset" => op[q].def = def
                              /\ \A s \in Wanted(op[q].def) :
                                    Unread(q, s) \/ op[q].seen[s] = dev'.mem[s]
      BY <1>1, <1>2, <1>4 DEF Reloading, Wanted
    <2>1. \A p \in Ops : Reload(p) => q = p
      BY DEF MirrorInv, Reloading
    <2>2. ASSUME NEW p \in Ops, Write(p)
          PROVE  /\ Out(q)' /\ (Out(p)' => Before(line', p, q))
                 /\ op[q].cmd.c = "read" => \A s \in Wanted(op[q].def) : Unread(q, s)
      <3>1. /\ Out(q) /\ Before(line, p, q)
            /\ op[q].cmd.c = "read" => \A s \in Wanted(op[q].def) : Unread(q, s)
        BY <1>5, <2>2 DEF MirrorInv, Reloading
      <3>2. q # o
        BY <1>1, <1>3, <3>1, NothingBeforeHead
      <3>3. Out(q)'
        BY <1>4, <3>1, <3>2
      <3>4. ASSUME Out(p)' PROVE Before(line', p, q)
        <4>1. p # o
          BY <1>1, <3>4 DEF Out, Ready
        <4> QED BY <1>1, <1>3, <3>1, <4>1, BeforeTail
      <3> QED BY <3>1, <3>3, <3>4
    <2>3. ASSUME op[q].cmd.c = "read"
          PROVE  /\ op[q].req.kind = "reset" => op[q].def = def
                 /\ \A s \in Wanted(op[q].def) : Unread(q, s) \/ op[q].seen[s] = dev'.mem[s]
      <3>1. /\ op[q].req.kind = "reset" => op[q].def = def
            /\ \A s \in Wanted(op[q].def) : Unread(q, s) \/ op[q].seen[s] = dev.mem[s]
        BY <2>3 DEF MirrorInv, Reloading
      <3>2. op[q].def \in DOMAIN Layouts
        <4>1. Scripted(q) /\ op[q].pc \in {"send", "wait"} /\ op[q].req.kind \in Reloads
          BY <1>1 DEF Base, Reload, Busy
        <4>2. op[q].pc = "send"
          BY <4>1 DEF Scripted, Reloads
        <4>3. Reading(q)
          BY <2>3, <4>1, <4>2 DEF Scripted, Reloads
        <4> QED BY <4>3 DEF Reading
      <3>3. ASSUME NEW s \in Wanted(op[q].def), ~Unread(q, s) PROVE dev'.mem[s] = dev.mem[s]
        <4>1. ~Write(o)
          BY <2>3, <3>3 DEF MirrorInv, Reloading
        <4>2. Reload(o) /\ op[o].cmd.c = "reset" => FALSE
          BY <2>1, <2>3
        <4> QED BY <1>1, <1>2, <3>2, <4>1, <4>2, MirrorAlone
      <3> QED BY <3>1, <3>3
    <2> QED BY <2>1, <2>2, <2>3
  <1>9. Mirrored'
    <2>1. (LostBy(o) => FALSE) /\ (ErasedBy(o) => ErasedBy(o)')
      BY <1>1, <1>2 DEF LostBy, ErasedBy, Ready
    <2>2. /\ ~Lost' => ~Lost /\ ~LostBy(o)'
          /\ ~Erased' => ~Erased /\ ~ErasedBy(o)'
      BY <1>1, <2>1, Promise
    <2> SUFFICES ASSUME "reload" \notin races, ~dev'.skipped, ~Lost', ~Erased'
                 PROVE  /\ DOMAIN keys = DOMAIN Layouts[def].keys
                        /\ \A cell \in ToSet(Layouts[def].keys) : Shown(cell)' \/ Due(cell)'
                        /\ Layouts[def].encoder => \A d \in Dirs : enc[d] = dev'.mem[d] \/ Due(d)'
                        /\ ~Layouts[def].encoder => enc = NoEncoder
      BY <1>1, <1>2 DEF Mirrored
    <2>3. \A s : ~Due(s)
      BY <1>3 DEF Due
    <2>4. /\ DOMAIN keys = DOMAIN Layouts[def].keys
          /\ \A cell \in ToSet(Layouts[def].keys) : Shown(cell)
          /\ Layouts[def].encoder => \A d \in Dirs : enc[d] = dev.mem[d]
          /\ ~Layouts[def].encoder => enc = NoEncoder
      BY <1>2, <2>2, <2>3 DEF MirrorInv, Mirrored
    <2>5. ASSUME NEW s \in Wanted(def), dev'.mem[s] # dev.mem[s] PROVE Due(s)'
      <3>1. \/ Write(o) /\ op[o].cmd.c = "write" /\ op[o].cmd.slot = s
            \/ Reload(o) /\ op[o].req.kind = "reset" /\ op[o].cmd.c = "reset"
        BY <1>1, <1>2, <1>3, <2>5, MirrorAlone
      <3>2. op[o].req.kind # "reset"
        BY <1>1, <2>2 DEF ErasedBy
      <3>3. Write(o)' /\ Ready(o)' /\ op'[o].cmd.slot = s
        BY <1>1, <1>4, <3>1, <3>2
      <3> QED BY <3>3 DEF Due
    <2>6. ASSUME NEW cell \in ToSet(Layouts[def].keys) PROVE Shown(cell)' \/ Due(cell)'
      <3>1. cell \in Wanted(def)
        BY DEF Wanted
      <3>2. dev'.mem[cell] = dev.mem[cell] => Shown(cell)'
        BY <1>2, <2>4 DEF Shown
      <3> QED BY <2>5, <3>1, <3>2
    <2>7. ASSUME Layouts[def].encoder, NEW d \in Dirs PROVE enc[d] = dev'.mem[d] \/ Due(d)'
      BY <2>4, <2>5, <2>7 DEF Wanted
    <2> QED BY <2>4, <2>6, <2>7
  <1> QED BY <1>1, <1>6, <1>7, <1>8, <1>9 DEF MirrorInv

LEMMA MirrorRests ==
    ASSUME MirrorInv, Base', Rests
    PROVE  MirrorInv'
  <1>1. UNCHANGED <<mirror, def, keys, enc, line, dev, races>>
    BY DEF Rests, mirror
  <1>2. ASSUME NEW p \in Ops
        PROVE  /\ op'[p].req = op[p].req /\ op'[p].cmd = op[p].cmd /\ op'[p].def = op[p].def
               /\ op'[p].seen = op[p].seen /\ op'[p].reply = op[p].reply
               /\ (Reload(p)' <=> Reload(p)) /\ (Write(p)' <=> Write(p))
               /\ (Out(p)' <=> Out(p)) /\ (Ready(p)' <=> Ready(p))
               /\ (LostBy(p)' <=> LostBy(p)) /\ (ErasedBy(p)' <=> ErasedBy(p))
               /\ \A s : Unread(p, s)' <=> Unread(p, s)
    <2>1. /\ op'[p].pc = op[p].pc /\ op'[p].req = op[p].req /\ op'[p].cmd = op[p].cmd
          /\ op'[p].reply = op[p].reply /\ op'[p].rest = op[p].rest
          /\ op'[p].seen = op[p].seen /\ op'[p].def = op[p].def
      BY DEF Rests
    <2>2. /\ (Reload(p)' <=> Reload(p)) /\ (Write(p)' <=> Write(p))
          /\ (Out(p)' <=> Out(p)) /\ (Ready(p)' <=> Ready(p))
      BY <2>1 DEF Reload, Write, Out, Ready, Busy
    <2>3. (LostBy(p)' <=> LostBy(p)) /\ (ErasedBy(p)' <=> ErasedBy(p))
      BY <2>1, <2>2 DEF LostBy, ErasedBy, Busy
    <2> QED BY <2>1, <2>2, <2>3 DEF Unread
  <1>3. Reloading'
    BY <1>1, <1>2 DEF MirrorInv, Reloading, Wanted
  <1>4. Placed' /\ Echoed'
    BY <1>1, <1>2 DEF MirrorInv, Placed, Echoed
  <1>5. (Lost' => Lost) /\ (Lost => Lost') /\ (Erased => Erased')
    BY <1>2 DEF Lost, Erased, LostBy, ErasedBy
  <1>6. \A s : Due(s) => Due(s)'
    BY <1>2 DEF Due
  <1>7. Mirrored'
    BY <1>1, <1>5, <1>6, MirroredKept DEF MirrorInv
  <1> QED BY <1>3, <1>4, <1>7 DEF MirrorInv

LEMMA InitMirror == Init => MirrorInv
  <1> SUFFICES ASSUME Init PROVE MirrorInv
    OBVIOUS
  <1>1. Base /\ \A o \in Ops : ~Reload(o) /\ ~Write(o)
    BY InitBase DEF Init, Reload, Write, Busy, Idle
  <1>2. /\ def \in DOMAIN Layouts /\ dev.mem \in [Slots -> Actions]
        /\ keys = KeysRead(def, dev.mem) /\ enc = EncRead(def, dev.mem)
    BY <1>1 DEF Init, Base, Types, Plain, Keyboard
  <1>3. PICK mem \in [Slots -> Actions] : mem = dev.mem
    BY <1>2
  <1>4. /\ DOMAIN keys = DOMAIN Layouts[def].keys
        /\ \A p \in DOMAIN Layouts[def].keys : keys[p] = mem[Layouts[def].keys[p]]
        /\ Layouts[def].encoder => \A s \in Dirs : enc[s] = mem[s]
        /\ ~Layouts[def].encoder => enc = NoEncoder
    BY <1>2, <1>3, ReadMirror
  <1>5. \A cell \in ToSet(Layouts[def].keys) : Shown(cell)
    BY <1>3, <1>4 DEF Shown, ToSet
  <1>6. Mirrored
    BY <1>3, <1>4, <1>5 DEF Mirrored
  <1> QED BY <1>1, <1>6 DEF MirrorInv, Reloading, Placed, Echoed

LEMMA MirrorNext ==
    ASSUME MirrorInv, [Next]_vars
    PROVE  MirrorInv'
  <1>1. Base
    BY DEF MirrorInv
  <1> QED BY <1>1, Steps, MirrorContinues, MirrorBegins, MirrorChannel, QuietSteps, MirrorRests

\* When nothing is in flight the mirror is the keyboard's keymap under the definition in
\* force, whatever writes, reloads and other calls have run beside each other, but for
\* the cases the service leaves open.
THEOREM MirrorTheorem == Spec => []MirrorTrue
  <1>1. ASSUME MirrorInv PROVE MirrorTrue
    <2> SUFFICES ASSUME Quiet, "reload" \notin races, ~dev.skipped, ~Failed(Writes \cup {"reset"})
                 PROVE  /\ DOMAIN keys = DOMAIN Layouts[def].keys
                        /\ \A cell \in ToSet(Layouts[def].keys) : Shown(cell)
                        /\ enc = EncRead(def, dev.mem)
      BY DEF MirrorTrue
    <2>1. \A o \in Ops : ~Busy(o) /\ ~Ready(o)
      BY DEF Quiet, Busy, Ready
    <2>2. ~Lost /\ ~Erased /\ \A s : ~Due(s)
      BY <2>1 DEF Lost, Erased, Due, Failed
    <2>3. /\ DOMAIN keys = DOMAIN Layouts[def].keys
          /\ \A cell \in ToSet(Layouts[def].keys) : Shown(cell)
          /\ Layouts[def].encoder => \A d \in Dirs : enc[d] = dev.mem[d]
          /\ ~Layouts[def].encoder => enc = NoEncoder
      BY <1>1, <2>2 DEF MirrorInv, Mirrored
    <2>4. /\ def \in DOMAIN Layouts /\ enc \in [Dirs -> Actions \cup {"none"}]
          /\ dev.mem \in [Slots -> Actions]
      BY <1>1 DEF MirrorInv, Base, Types, Plain, Keyboard
    <2>5. PICK mem \in [Slots -> Actions] : mem = dev.mem
      BY <2>4
    <2>6. /\ EncRead(def, mem) \in [Dirs -> Actions \cup {"none"}]
          /\ Layouts[def].encoder => \A s \in Dirs : EncRead(def, mem)[s] = mem[s]
          /\ ~Layouts[def].encoder => EncRead(def, mem) = NoEncoder
      BY <2>4, ReadMirror
    <2>7. enc = EncRead(def, mem)
      BY <2>3, <2>4, <2>5, <2>6
    <2> QED BY <2>3, <2>5, <2>7
  <1>2. MirrorInv => MirrorTrue
    BY <1>1
  <1> QED BY <1>2, InitMirror, MirrorNext, PTL DEF Spec
=============================================================================
