----------------------------- MODULE RemapprRpc -----------------------------
(***************************************************************************)
(* The remappr control client, clients/remappr/rpc.ts: callers share one   *)
(* byte stream, exchanges are serialised by a promise chain, and a single  *)
(* waiter (or a buffer, when nobody waits) receives the frames the read    *)
(* pump routes.  The keyboard, or a dongle that relays to nodes, is at the *)
(* other end: it answers requests late, out of order, in fragments, or     *)
(* not at all.                                                             *)
(*                                                                         *)
(* A frame is a record of what the client looks at.  `req' is not on the   *)
(* wire: it names the exchange a frame answers.                            *)
(***************************************************************************)
EXTENDS Integers, Sequences, FiniteSets

CONSTANTS
    Calls,       \* the calls made on this client, each made once
    Offers,      \* Offers[c]: which of the four entry points c may use
    Retries,     \* Retries[c]: opts.retries of a universal call, 0 elsewhere
    Frags,       \* Frags[c]: frames in the device's answer to c
    Sequenced,   \* Sequenced[c]: does the firmware number c's fragments
    RidMod,      \* UCH_REQ_FIRE_AND_FORGET: request ids are 0 .. RidMod - 1
    MaxRids,     \* bound: universal exchanges in a run
    MaxFlight,   \* bound: frames on their way to the host
    NoCall

Kinds == {"plain", "sealed", "universal", "relay"}
Framed == {"universal", "relay"}           \* the kinds that allot a request id

ASSUME OffersAssumption ==
    /\ Offers \in [Calls -> SUBSET Kinds]
    /\ Retries \in [Calls -> Nat]
    /\ \A c \in Calls : Retries[c] > 0 => Offers[c] \subseteq {"universal"}
    /\ Frags \in [Calls -> Nat \ {0}]
    /\ \A c \in Calls : Frags[c] > 1 => Offers[c] \subseteq {"universal"}
    /\ Sequenced \in [Calls -> BOOLEAN]

\* Request ids do not wrap within a run: see MaxRids in the README.
ASSUME RidAssumption ==
    RidMod \in Nat /\ MaxRids \in Nat /\ MaxRids < RidMod

ASSUME BoundAssumption == MaxFlight \in Nat

ASSUME NoCallAssumption == NoCall \notin Calls

VARIABLES
    closed,      \* closed
    pumping,     \* the pump's loop is still running
    queue,       \* calls on the `queue' promise chain, the running one first
    kind,        \* kind[c]: the entry point c was issued through
    pc,          \* pc[c]: where the call stands between two awaits
    attempt,     \* attempt[c] of callUniversalPlain
    req,         \* req[c]: the exchange c has made last
    seq,         \* sequence numbers allotted (the code keeps them mod 256)
    rids,        \* request ids allotted (the code keeps them mod RidMod)
    respWaiter,  \* the call whose nextFrame() is armed, or NoCall
    respBuffer,  \* frames routed while nobody waited
    got,         \* got[c]: the frame nextFrame() resolved with
    asm,         \* asm[c]: assembled, inChain, expIdx, chainCnt
    outcome,     \* outcome[c]: what the caller's promise settled with
    pending,     \* device: requests it has still to answer
    toHost       \* frames on their way to the host

clientVars == <<kind, queue, pc, attempt, req, seq, rids, got, asm, outcome>>
vars == <<clientVars, closed, pumping, respWaiter, respBuffer, pending, toHost>>

Frame == [cls : {"legacy", "sealed", "universal", "event"},
          req : Nat, rid : 0..RidMod - 1, idx : Nat, cnt : Nat,
          first : BOOLEAN, more : BOOLEAN, ok : BOOLEAN]

Request == [call : Calls, req : Nat, next : Nat]
Fragment == [req : Nat, idx : Nat]
Assembly == [body : Seq(Fragment), inChain : BOOLEAN, expIdx : Nat, chainCnt : Nat]
Outcome == [how : {"none", "error", "reply"},
            cls : {"legacy", "sealed", "universal", "event"},
            ok : BOOLEAN, body : Seq(Fragment)]

\* assembled is the list of fragments taken; inChain, expIdx and chainCnt are
\* the source's local variables.
EmptyAsm == [body |-> <<>>, inChain |-> FALSE, expIdx |-> 0, chainCnt |-> 0]

NoFrame == [cls |-> "event", req |-> 0, rid |-> 0, idx |-> 0, cnt |-> 0,
            first |-> FALSE, more |-> FALSE, ok |-> FALSE]

Unsettled == [how |-> "none", cls |-> "event", ok |-> FALSE, body |-> <<>>]
Error == [Unsettled EXCEPT !.how = "error"]
Reply(cls, ok, body) == [how |-> "reply", cls |-> cls, ok |-> ok, body |-> body]

Piece(f) == [req |-> f.req, idx |-> f.idx]
-----------------------------------------------------------------------------
Init ==
    /\ closed = FALSE /\ pumping = TRUE
    /\ queue = <<>>
    /\ kind = [c \in Calls |-> "plain"]
    /\ pc = [c \in Calls |-> "idle"]
    /\ attempt = [c \in Calls |-> 1]
    /\ req = [c \in Calls |-> 0]
    /\ seq = 0 /\ rids = 0
    /\ respWaiter = NoCall /\ respBuffer = <<>>
    /\ got = [c \in Calls |-> NoFrame]
    /\ asm = [c \in Calls |-> EmptyAsm]
    /\ outcome = [c \in Calls |-> Unsettled]
    /\ pending = {} /\ toHost = <<>>

Running(c) == queue # <<>> /\ Head(queue) = c

\* The locals of an exchange end with it.
EndRoundTrip(c) ==
    /\ got' = [got EXCEPT ![c] = NoFrame]
    /\ asm' = [asm EXCEPT ![c] = EmptyAsm]

\* The caller's promise settles and the chain moves on to the next exchange.
Settle(c, result) ==
    /\ pc' = [pc EXCEPT ![c] = "done"]
    /\ outcome' = [outcome EXCEPT ![c] = result]
    /\ queue' = Tail(queue)
    /\ EndRoundTrip(c)
    /\ UNCHANGED attempt

\* callUniversalPlain: a transient failure is tried again while the budget
\* lasts, after a pause outside the chain.
MayRetry(c) == Retries[c] > 0 /\ attempt[c] < Retries[c] + 1

Retry(c) ==
    /\ MayRetry(c)
    /\ pc' = [pc EXCEPT ![c] = "backoff"]
    /\ attempt' = [attempt EXCEPT ![c] = @ + 1]
    /\ queue' = Tail(queue)
    /\ EndRoundTrip(c)
    /\ UNCHANGED outcome

FailTransient(c) ==
    Retry(c) \/ (~MayRetry(c) /\ Settle(c, Error))

\* mutant: arms the waiter without looking at the buffer
NextFrameUnbuffered(c, a) ==
    /\ respWaiter' = c
    /\ pc' = [pc EXCEPT ![c] = "waiting"]
    /\ asm' = [asm EXCEPT ![c] = a]
    /\ got' = [got EXCEPT ![c] = NoFrame]
    /\ UNCHANGED <<queue, attempt, outcome, respBuffer>>

\* nextFrame(): a buffered frame first, even on a closed client; then the
\* closed check; then the waiter is armed.  `a' is what c has assembled so far.
NextFrame(c, a) ==
    \/ /\ respBuffer # <<>>
       /\ got' = [got EXCEPT ![c] = Head(respBuffer)]
       /\ asm' = [asm EXCEPT ![c] = a]
       /\ respBuffer' = Tail(respBuffer)
       /\ pc' = [pc EXCEPT ![c] = "got"]
       /\ UNCHANGED <<queue, attempt, outcome, respWaiter>>
    \/ /\ respBuffer = <<>> /\ closed
       /\ Settle(c, Error)
       /\ UNCHANGED <<respWaiter, respBuffer>>
    \/ /\ respBuffer = <<>> /\ ~closed
       /\ respWaiter' = c
       /\ pc' = [pc EXCEPT ![c] = "waiting"]
       /\ asm' = [asm EXCEPT ![c] = a]
       /\ got' = [got EXCEPT ![c] = NoFrame]
       /\ UNCHANGED <<queue, attempt, outcome, respBuffer>>
-----------------------------------------------------------------------------
(* The callers and the exchange chain.                                     *)

Issue(c) ==
    /\ pc[c] = "idle"
    /\ kind' \in {[kind EXCEPT ![c] = k] : k \in Offers[c]}
    /\ pc' = [pc EXCEPT ![c] = "queued"]
    /\ queue' = Append(queue, c)
    /\ UNCHANGED <<attempt, req, seq, rids, got, asm, outcome, closed, pumping,
                   respWaiter, respBuffer, pending, toHost>>

Backoff(c) ==
    /\ pc[c] = "backoff"
    /\ pc' = [pc EXCEPT ![c] = "queued"]
    /\ queue' = Append(queue, c)
    /\ UNCHANGED <<kind, attempt, req, seq, rids, got, asm, outcome, closed, pumping,
                   respWaiter, respBuffer, pending, toHost>>

\* mutant: an exchange that waited its turn does not look at `closed' again
StartUnchecked(c) ==
    /\ pc[c] = "queued" /\ Running(c)
    /\ seq' = seq + 1
    /\ req' = [req EXCEPT ![c] = IF kind[c] \in Framed THEN rids + 1 ELSE seq + 1]
    /\ rids' = IF kind[c] \in Framed THEN rids + 1 ELSE rids
    /\ pending' = pending \cup {[call |-> c, req |-> req'[c], next |-> 0]}
    /\ pc' = [pc EXCEPT ![c] = "writing"]
    /\ UNCHANGED <<kind, queue, attempt, got, asm, outcome, closed, pumping, respWaiter,
                   respBuffer, toHost>>

\* mutant: exchanges are not serialised
StartOutOfTurn(c) ==
    /\ pc[c] = "queued" /\ ~closed
    /\ seq' = seq + 1
    /\ req' = [req EXCEPT ![c] = IF kind[c] \in Framed THEN rids + 1 ELSE seq + 1]
    /\ rids' = IF kind[c] \in Framed THEN rids + 1 ELSE rids
    /\ pending' = pending \cup {[call |-> c, req |-> req'[c], next |-> 0]}
    /\ pc' = [pc EXCEPT ![c] = "writing"]
    /\ UNCHANGED <<kind, queue, attempt, got, asm, outcome, closed, pumping, respWaiter,
                   respBuffer, toHost>>

\* exchange(): the closed check, the ids, and the call of writer.write().  The
\* device may have the frame, and answer it, before write() resolves.
Start(c) ==
    /\ pc[c] = "queued" /\ Running(c)
    /\ ~closed
    /\ seq' = seq + 1
    /\ IF kind[c] \in Framed
         THEN /\ rids < MaxRids
              /\ rids' = rids + 1
              /\ req' = [req EXCEPT ![c] = rids + 1]
         ELSE /\ req' = [req EXCEPT ![c] = seq + 1]
              /\ UNCHANGED rids
    /\ pending' = pending \cup {[call |-> c, req |-> req'[c], next |-> 0]}
    /\ pc' = [pc EXCEPT ![c] = "writing"]
    /\ UNCHANGED <<kind, queue, attempt, got, asm, outcome, closed, pumping, respWaiter,
                   respBuffer, toHost>>

StartClosed(c) ==
    /\ pc[c] = "queued" /\ Running(c)
    /\ closed
    /\ Settle(c, Error)
    /\ UNCHANGED <<kind, req, seq, rids, closed, pumping, respWaiter,
                   respBuffer, pending, toHost>>

Written(c) ==
    /\ pc[c] = "writing"
    /\ NextFrame(c, asm[c])
    /\ UNCHANGED <<kind, req, seq, rids, closed, pumping, pending, toHost>>

\* The transport refuses the write: not a timeout, so never retried.
WriteFails(c) ==
    /\ pc[c] = "writing"
    /\ Settle(c, Error)
    /\ UNCHANGED <<kind, req, seq, rids, closed, pumping, respWaiter,
                   respBuffer, pending, toHost>>

\* mutant: the timer disarms the waiter and forgets to reject
TimeoutSilent(c) ==
    /\ pc[c] = "waiting" /\ respWaiter = c
    /\ respWaiter' = NoCall
    /\ UNCHANGED <<clientVars, closed, pumping, respBuffer, pending, toHost>>

Timeout(c) ==
    /\ pc[c] = "waiting" /\ respWaiter = c
    /\ respWaiter' = NoCall
    /\ FailTransient(c)
    /\ UNCHANGED <<kind, req, seq, rids, closed, pumping, respBuffer, pending,
                   toHost>>
-----------------------------------------------------------------------------
(* What a call does with the frame it is handed.                           *)

\* callPlain, and the plaintext branch of callSealed: any frame is the reply.
TakePlain(c) ==
    /\ pc[c] = "got"
    /\ kind[c] = "plain" \/ (kind[c] = "sealed" /\ got[c].cls # "sealed")
    /\ Settle(c, Reply(got[c].cls, got[c].ok, <<Piece(got[c])>>))
    /\ UNCHANGED <<kind, req, seq, rids, closed, pumping, respWaiter,
                   respBuffer, pending, toHost>>

\* A sealed reply opens under the session key, or the call fails.
TakeSealed(c) ==
    /\ pc[c] = "got" /\ kind[c] = "sealed" /\ got[c].cls = "sealed"
    /\ \/ Settle(c, Reply("sealed", got[c].ok, <<Piece(got[c])>>))
       \/ Settle(c, Error)
    /\ UNCHANGED <<kind, req, seq, rids, closed, pumping, respWaiter,
                   respBuffer, pending, toHost>>

\* callSealedRelay: any universal frame is the reply, whatever its request id.
TakeRelay(c) ==
    /\ pc[c] = "got" /\ kind[c] = "relay"
    /\ \/ /\ got[c].cls = "universal"
          /\ Settle(c, Reply("universal", got[c].ok, <<Piece(got[c])>>))
       \/ Settle(c, Error)    \* not universal, or the seal does not open
    /\ UNCHANGED <<kind, req, seq, rids, closed, pumping, respWaiter,
                   respBuffer, pending, toHost>>

MineUnfiltered(c, f) == f.cls = "universal"    \* mutant: any request id will do

\* universalRoundTrip's filter: not a legacy frame, and the id asked for.
Mine(c, f) == f.cls = "universal" /\ f.rid = req[c] % RidMod

Stray(c, f) == f.more /\ ~f.first /\ ~asm[c].inChain

SkipFrame(c) ==
    /\ pc[c] = "got" /\ kind[c] = "universal"
    /\ ~Mine(c, got[c]) \/ Stray(c, got[c])
    /\ NextFrame(c, asm[c])
    /\ UNCHANGED <<kind, req, seq, rids, closed, pumping, pending, toHost>>

\* The chain state a fragment meets: FRAG_FIRST restarts the assembly.
Base(c, f) ==
    IF f.first
      THEN [body |-> <<>>, inChain |-> TRUE, expIdx |-> 0, chainCnt |-> f.cnt]
      ELSE asm[c]

Extend(a, f) ==
    [a EXCEPT !.body = Append(@, Piece(f)),
              !.expIdx = IF a.chainCnt > 0 THEN @ + 1 ELSE @]

\* mutant: only the length of the chain is checked
GapInLength(c, f) ==
    LET a == Base(c, f)
    IN  a.chainCnt > 0 /\ ~f.more /\ a.expIdx + 1 > a.chainCnt

\* A hole in the numbering (FragmentLostError).
Gap(c, f) ==
    LET a == Base(c, f)
    IN  IF ~f.first /\ ~f.more /\ ~asm[c].inChain
          THEN f.cnt > 0 /\ f.idx # 0
          ELSE \/ a.chainCnt > 0 /\ f.idx # a.expIdx
               \/ a.chainCnt > 0 /\ ~f.more /\ a.expIdx + 1 # a.chainCnt

GapFound(c) ==
    /\ pc[c] = "got" /\ kind[c] = "universal"
    /\ Mine(c, got[c]) /\ ~Stray(c, got[c]) /\ Gap(c, got[c])
    /\ FailTransient(c)
    /\ UNCHANGED <<kind, req, seq, rids, closed, pumping, respWaiter,
                   respBuffer, pending, toHost>>

MoreToCome(c) ==
    LET f == got[c] IN
    /\ pc[c] = "got" /\ kind[c] = "universal"
    /\ Mine(c, f) /\ ~Stray(c, f) /\ ~Gap(c, f) /\ f.more
    /\ NextFrame(c, Extend(Base(c, f), f))
    /\ UNCHANGED <<kind, req, seq, rids, closed, pumping, pending, toHost>>

\* The last fragment, or a whole reply in one frame.  ERR_STATE is retried
\* while the budget lasts and returned to the caller after that.
Complete(c) ==
    LET f == got[c]
        body == IF asm[c].inChain \/ f.first
                  THEN Extend(Base(c, f), f).body ELSE <<Piece(f)>> IN
    /\ pc[c] = "got" /\ kind[c] = "universal"
    /\ Mine(c, f) /\ ~Stray(c, f) /\ ~Gap(c, f) /\ ~f.more
    /\ \/ ~f.ok /\ Retry(c)
       \/ (f.ok \/ ~MayRetry(c)) /\ Settle(c, Reply("universal", f.ok, body))
    /\ UNCHANGED <<kind, req, seq, rids, closed, pumping, respWaiter,
                   respBuffer, pending, toHost>>
-----------------------------------------------------------------------------
(* The read pump, and the end of the transport.                            *)

RouteFrame ==
    LET f == Head(toHost) IN
    /\ pumping /\ toHost # <<>>
    /\ pumping' = ~closed      \* the loop's condition, tested after each chunk
    /\ toHost' = IF closed THEN <<>> ELSE Tail(toHost)
    /\ \/ /\ f.cls = "event"
          /\ UNCHANGED <<respWaiter, respBuffer, got, pc>>
       \/ /\ f.cls # "event" /\ respWaiter # NoCall
          /\ got' = [got EXCEPT ![respWaiter] = f]
          /\ pc' = [pc EXCEPT ![respWaiter] = "got"]
          /\ respWaiter' = NoCall
          /\ UNCHANGED respBuffer
       \/ /\ f.cls # "event" /\ respWaiter = NoCall
          /\ respBuffer' = Append(respBuffer, f)
          /\ UNCHANGED <<respWaiter, got, pc>>
    /\ UNCHANGED <<kind, queue, attempt, req, seq, rids, asm, outcome, closed, pending>>

\* fireClosed(): on close(), an aborted transport, the end of the stream or a
\* read error.  In the last two the pump is what stops.
FireClosed ==
    /\ ~closed
    /\ closed' = TRUE
    /\ pumping' \in BOOLEAN
    /\ toHost' = IF pumping' THEN toHost ELSE <<>>
    /\ respWaiter' = NoCall
    /\ IF respWaiter = NoCall
         THEN UNCHANGED <<pc, outcome, queue, attempt, got, asm>>
         ELSE Settle(respWaiter, Error)
    /\ UNCHANGED <<kind, req, seq, rids, respBuffer, pending>>
-----------------------------------------------------------------------------
(* The device (external): each pending request is answered frame by frame, *)
(* in any order among requests; any frame may be lost on the air.  What it *)
(* sends after the pump stopped reaches nobody and is left out.            *)

AnswerFrame(p, ok) ==
    LET n == Frags[p.call]
        k == kind[p.call] IN
    [cls |-> CASE k \in Framed -> "universal"
               [] k = "sealed" /\ ok -> "sealed"
               [] OTHER -> "legacy",
     req |-> p.req,
     rid |-> IF k \in Framed THEN p.req % RidMod ELSE 0,
     idx |-> p.next,
     cnt |-> IF n > 1 /\ ok /\ Sequenced[p.call] THEN n ELSE 0,
     first |-> n > 1 /\ ok /\ p.next = 0,
     more |-> ok /\ p.next + 1 < n,
     ok |-> ok]

Answered(p) ==
    pending' = (pending \ {p}) \cup
               (IF p.next + 1 < Frags[p.call] THEN {[p EXCEPT !.next = @ + 1]}
                                              ELSE {})

DeviceSend(p) ==
    /\ toHost' = Append(toHost, AnswerFrame(p, TRUE))
    /\ Answered(p)
    /\ UNCHANGED <<clientVars, closed, pumping, respWaiter, respBuffer>>

\* ERR_STATE (the dongle heard nothing from the node), ERR_AUTH.
DeviceRefuse(p) ==
    /\ p.next = 0
    /\ toHost' = Append(toHost, AnswerFrame(p, FALSE))
    /\ pending' = pending \ {p}
    /\ UNCHANGED <<clientVars, closed, pumping, respWaiter, respBuffer>>

\* Losing the last frame is never sending it.
DeviceLose(p) ==
    /\ p.next + 1 < Frags[p.call]
    /\ Answered(p)
    /\ UNCHANGED <<clientVars, closed, pumping, respWaiter, respBuffer, toHost>>

DeviceEvent ==
    /\ toHost' = Append(toHost, NoFrame)
    /\ UNCHANGED <<clientVars, closed, pumping, respWaiter, respBuffer, pending>>

ClientStep(c) ==
    \/ Start(c) \/ StartClosed(c) \/ Backoff(c)
    \/ Written(c) \/ WriteFails(c) \/ Timeout(c)
    \/ TakePlain(c) \/ TakeSealed(c) \/ TakeRelay(c)
    \/ SkipFrame(c) \/ GapFound(c) \/ MoreToCome(c) \/ Complete(c)

Device ==
    /\ pumping /\ Len(toHost) < MaxFlight
    /\ \/ \E p \in pending : DeviceSend(p) \/ DeviceRefuse(p) \/ DeviceLose(p)
       \/ DeviceEvent

Next ==
    \/ \E c \in Calls : Issue(c) \/ ClientStep(c)
    \/ RouteFrame \/ FireClosed
    \/ Device

Spec == Init /\ [][Next]_vars

\* Timers fire, write() settles one way or the other, and the promise chain
\* runs.  Nothing is asked of the device, of the callers or of the transport.
FairSpec == Spec /\ \A c \in Calls : WF_vars(ClientStep(c))
-----------------------------------------------------------------------------
PCs == {"idle", "queued", "writing", "waiting", "got", "backoff", "done"}

\* What the calls are made of, and the budget: no universal call is attempted
\* more often than its retries allow.
CallTypes ==
    /\ queue \in Seq(Calls)
    /\ pc \in [Calls -> PCs]
    /\ attempt \in [Calls -> Nat]
    /\ \A c \in Calls : attempt[c] \in 1..Retries[c] + 1
    /\ got \in [Calls -> Frame]
    /\ asm \in [Calls -> Assembly]
    /\ outcome \in [Calls -> Outcome]

\* Every variable has its type.
TypeOK ==
    /\ CallTypes
    /\ closed \in BOOLEAN /\ pumping \in BOOLEAN
    /\ kind \in [Calls -> Kinds]
    /\ req \in [Calls -> Nat]
    /\ seq \in Nat /\ rids \in 0..MaxRids
    /\ respWaiter \in Calls \cup {NoCall}
    /\ respBuffer \in Seq(Frame) /\ toHost \in Seq(Frame)
    /\ pending \subseteq Request

\* An armed waiter belongs to the running exchange of a live client, and no
\* frame lies in the buffer that it should have been given instead.
WaiterServed ==
    respWaiter # NoCall =>
        /\ ~closed
        /\ Running(respWaiter) /\ pc[respWaiter] = "waiting"
        /\ respBuffer = <<>>

\* The client is strictly synchronous: of all calls only the one at the head of
\* the chain has left the queue and not yet settled or paused.
Busy(c) == pc[c] \in {"writing", "waiting", "got"}
OneExchange == \A c \in Calls : Busy(c) => Running(c)

\* A universal call settles with frames that answer its own last request: not
\* with a late answer to an earlier attempt, to another call, or to the legacy
\* probe that timed out before it.
UniversalOwnReply ==
    \A c \in Calls : kind[c] = "universal" /\ outcome[c].how = "reply" =>
        /\ outcome[c].cls = "universal"
        /\ \A i \in DOMAIN outcome[c].body : outcome[c].body[i].req = req[c]

\* Where the firmware numbers its fragments, a body is returned whole or not at
\* all, whichever frames the air lost.
Whole(c) == outcome[c].body = [i \in 1..Frags[c] |-> [req |-> req[c], idx |-> i - 1]]
SequencedComplete ==
    \A c \in Calls :
        /\ kind[c] = "universal" /\ Sequenced[c]
        /\ outcome[c].how = "reply" /\ outcome[c].ok
        => Whole(c)

\* Nothing is written on a closed client: neither by an exchange that waited its
\* turn nor by a retry.
ClosedSendsNothing == [][closed => seq' = seq]_vars

\* SPEC 6.3 says a reply is "the frame whose (cmd,seq) matches": a plain call
\* would settle with the answer to its own request.
PlainOwnReply ==
    \A c \in Calls : kind[c] = "plain" /\ outcome[c].how = "reply" =>
        /\ outcome[c].cls = "legacy"
        /\ \A i \in DOMAIN outcome[c].body : outcome[c].body[i].req = req[c]

\* Universal calls keep the contract of CallContract: each is answered at most
\* once, wholly and by its own reply, or fails, and it does one of the two.
Universals == {c \in Calls : Offers[c] = {"universal"}}

StatusOf(c) ==
    CASE pc[c] = "idle" -> "idle"
      [] outcome[c].how = "none" /\ pc[c] # "idle" -> "open"
      [] outcome[c].how = "error" -> "failed"
      [] OTHER -> IF \/ ~outcome[c].ok /\ outcome[c].body[1].req = req[c]
                     \/ Sequenced[c] /\ Whole(c)
                     \/ ~Sequenced[c] /\ outcome[c].body[1].req = req[c]
                    THEN "answered" ELSE "wrong"

Contract == INSTANCE CallContract
            WITH Callers <- Universals,
                 status <- [c \in Universals |-> StatusOf(c)]

ContractKept == Contract!FairSpec
=============================================================================
