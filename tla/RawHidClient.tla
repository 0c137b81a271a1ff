---------------------------- MODULE RawHidClient ----------------------------
(***************************************************************************)
(* The raw-HID client shared by the QMK, Vial and Keychron adapters,       *)
(* hid/rawHidClient.ts.  Sends are serialised by a promise chain.  Until   *)
(* somebody subscribes, a send reads its reply itself, racing              *)
(* reader.read() against a timer; after that a background pump reads every *)
(* report and hands it to the one pending send whose command byte it       *)
(* carries, or to the subscribers.                                         *)
(*                                                                         *)
(* The stream answers its reads in the order they were made.  A read that  *)
(* lost its race is still in line, and what it receives is dropped.        *)
(* A report is one whole frame, so the accumulator holds nothing between   *)
(* reads.                                                                  *)
(***************************************************************************)
EXTENDS Integers, Sequences, FiniteSets

CONSTANTS
    Calls,      \* sends, each made once
    Cmd,        \* Cmd[c]: the command byte of the frame c sends
    PushCmds,   \* command bytes of unsolicited reports; a send may have one of them
    MaxPushes,  \* bound: unsolicited reports the device sends
    Prompt,     \* does the device answer, when it does, before the timeout
    Mute,       \* requests that the firmware does not implement
    NoCall, Pump

ASSUME CallsAssumption == NoCall \notin Calls /\ Pump \notin Calls
ASSUME DeviceAssumption ==
    MaxPushes \in Nat /\ Prompt \in BOOLEAN /\ Mute \subseteq Calls

VARIABLES
    closed,       \* closed
    pumpStarted,  \* pumpStarted
    queue,        \* sends on the `queue' promise chain, the running one first
    pc,           \* pc[c]: where the send stands between two awaits
    mode,         \* mode[c]: which read path c took
    pending,      \* the send whose reply the pump looks for, or NoCall
    reads,        \* outstanding reader.read() calls, by who made them
    outcome,      \* outcome[c]: what the promise settled with
    inbox,        \* device: requests received and not yet answered, in order
    toHost,       \* reports on their way to the host
    pushes        \* unsolicited reports sent so far

callVars == <<queue, pc, mode, outcome>>
vars == <<callVars, closed, pumpStarted, pending, reads, inbox, toHost, pushes>>

Report == [call : Calls \cup {NoCall}, cmd : {Cmd[c] : c \in Calls} \cup PushCmds]

Unsettled == [how |-> "none", from |-> NoCall]
Reply(r) == [how |-> "reply", from |-> r.call]
Failure(why) == [how |-> why, from |-> NoCall]
-----------------------------------------------------------------------------
Init ==
    /\ closed = FALSE /\ pumpStarted = FALSE
    /\ queue = <<>>
    /\ pc = [c \in Calls |-> "idle"]
    /\ mode = [c \in Calls |-> "none"]
    /\ pending = NoCall
    /\ reads = <<>>
    /\ outcome = [c \in Calls |-> Unsettled]
    /\ inbox = <<>> /\ toHost = <<>> /\ pushes = 0

Running(c) == queue # <<>> /\ Head(queue) = c

Settle(c, result) ==
    /\ pc' = [pc EXCEPT ![c] = "done"]
    /\ outcome' = [outcome EXCEPT ![c] = result]
    /\ queue' = Tail(queue)
    /\ UNCHANGED mode

\* send() on a closed client throws before it joins the chain.
Send(c) ==
    /\ pc[c] = "idle"
    /\ IF closed
         THEN /\ pc' = [pc EXCEPT ![c] = "done"]
              /\ outcome' = [outcome EXCEPT ![c] = Failure("closed")]
              /\ UNCHANGED queue
         ELSE /\ pc' = [pc EXCEPT ![c] = "queued"]
              /\ queue' = Append(queue, c)
              /\ UNCHANGED outcome
    /\ UNCHANGED <<mode, closed, pumpStarted, pending, reads, inbox, toHost, pushes>>

StartClosed(c) ==
    /\ pc[c] = "queued" /\ Running(c) /\ closed
    /\ Settle(c, Failure("closed"))
    /\ UNCHANGED <<closed, pumpStarted, pending, reads, inbox, toHost, pushes>>

\* The idle path awaits write() before it reads.
StartIdle(c) ==
    /\ pc[c] = "queued" /\ Running(c) /\ ~closed /\ ~pumpStarted
    /\ inbox' = Append(inbox, c)
    /\ pc' = [pc EXCEPT ![c] = "writing"]
    /\ mode' = [mode EXCEPT ![c] = "idle"]
    /\ UNCHANGED <<queue, outcome, closed, pumpStarted, pending, reads, toHost,
                   pushes>>

\* sendPumped() arms `pending' first and does not await the write.
StartPumped(c) ==
    /\ pc[c] = "queued" /\ Running(c) /\ ~closed /\ pumpStarted
    /\ inbox' = Append(inbox, c)
    /\ pc' = [pc EXCEPT ![c] = "pending"]
    /\ mode' = [mode EXCEPT ![c] = "pumped"]
    /\ pending' = c
    /\ UNCHANGED <<queue, outcome, closed, pumpStarted, reads, toHost, pushes>>

\* readFrameIdle(): the closed check, then a read of one's own.
Written(c) ==
    /\ pc[c] = "writing"
    /\ IF closed
         THEN Settle(c, Failure("closed")) /\ UNCHANGED reads
         ELSE /\ reads' = Append(reads, c)
              /\ pc' = [pc EXCEPT ![c] = "reading"]
              /\ UNCHANGED <<queue, outcome, mode>>
    /\ UNCHANGED <<closed, pumpStarted, pending, inbox, toHost, pushes>>

\* A failed write did not reach the device, which has had no time to answer.
WriteFails(c) ==
    /\ pc[c] \in {"writing", "pending"}
    /\ inbox # <<>> /\ inbox[Len(inbox)] = c
    /\ inbox' = SubSeq(inbox, 1, Len(inbox) - 1)
    /\ pending' = NoCall
    /\ Settle(c, Failure("write"))
    /\ UNCHANGED <<closed, pumpStarted, reads, toHost, pushes>>

\* A prompt device is heard before the timer, unless it does not answer.
Overdue == ~Prompt \/ (inbox = <<>> /\ toHost = <<>>)

\* mutant: the timed-out send stays armed
TimeoutPumpedArmed(c) ==
    /\ pc[c] = "pending" /\ Overdue
    /\ Settle(c, Failure("timeout"))
    /\ UNCHANGED <<closed, pumpStarted, pending, reads, inbox, toHost, pushes>>

TimeoutPumped(c) ==
    /\ pc[c] = "pending" /\ Overdue
    /\ pending' = IF pending # NoCall /\ Cmd[pending] = Cmd[c] THEN NoCall
                                                                ELSE pending
    /\ Settle(c, Failure("timeout"))
    /\ UNCHANGED <<closed, pumpStarted, reads, inbox, toHost, pushes>>

NoTimeoutIdle(c) == FALSE    \* mutant: the idle read has no timer

\* The timer wins the race; the read it raced stays in line.
TimeoutIdle(c) ==
    /\ pc[c] = "reading" /\ Overdue
    /\ Settle(c, Failure("timeout"))
    /\ UNCHANGED <<closed, pumpStarted, pending, reads, inbox, toHost, pushes>>

\* subscribe(): the first subscriber starts the pump.
Subscribe ==
    /\ ~pumpStarted /\ ~closed
    /\ pumpStarted' = TRUE
    /\ reads' = Append(reads, Pump)
    /\ UNCHANGED <<callVars, closed, pending, inbox, toHost, pushes>>
-----------------------------------------------------------------------------
(* A report arrives for the read that has waited longest.                  *)

\* mutant: the pump hands the pending send any report
PumpMatchesAny(r) == pending # NoCall
PumpMatches(r) == pending # NoCall /\ r.cmd = Cmd[pending]

\* mutant: a send does not give up its read, whoever runs now receives it
DeliverToRunning ==
    /\ reads # <<>> /\ toHost # <<>> /\ Head(reads) # Pump
    /\ reads' = Tail(reads) /\ toHost' = Tail(toHost)
    /\ IF queue # <<>> /\ pc[Head(queue)] \in {"writing", "reading"}
         THEN Settle(Head(queue), Reply(Head(toHost)))
         ELSE UNCHANGED callVars
    /\ UNCHANGED <<closed, pumpStarted, pending, inbox, pushes>>

DeliverIdle ==
    /\ reads # <<>> /\ toHost # <<>> /\ Head(reads) # Pump
    /\ reads' = Tail(reads) /\ toHost' = Tail(toHost)
    /\ IF pc[Head(reads)] = "reading"
         THEN Settle(Head(reads), Reply(Head(toHost)))
         ELSE UNCHANGED callVars          \* the race is over: the report is lost
    /\ UNCHANGED <<closed, pumpStarted, pending, inbox, pushes>>

\* The loop's condition is tested after each report.
DeliverPump ==
    LET r == Head(toHost) IN
    /\ reads # <<>> /\ toHost # <<>> /\ Head(reads) = Pump
    /\ reads' = IF closed THEN Tail(reads) ELSE Append(Tail(reads), Pump)
    /\ toHost' = Tail(toHost)
    /\ IF PumpMatches(r)
         THEN Settle(pending, Reply(r)) /\ pending' = NoCall
         ELSE UNCHANGED <<callVars, pending>>         \* to the subscribers
    /\ UNCHANGED <<closed, pumpStarted, inbox, pushes>>

\* The transport's abort signal: the reads end later, with the stream.
Abort ==
    /\ ~closed
    /\ closed' = TRUE
    /\ UNCHANGED <<callVars, pumpStarted, pending, reads, inbox, toHost, pushes>>

\* The stream ends, close() releases the reader, or a read fails: every read is
\* answered, the running send and the pending one are rejected.
EndStream ==
    /\ ~closed \/ reads # <<>>
    /\ closed' = TRUE
    /\ reads' = <<>> /\ toHost' = <<>>
    /\ pending' = NoCall
    /\ IF \E c \in Calls : Running(c) /\ pc[c] \in {"reading", "pending"}
         THEN Settle(Head(queue), Failure("closed"))
         ELSE UNCHANGED callVars
    /\ UNCHANGED <<pumpStarted, inbox, pushes>>

\* A read fails on a client that is closed already: the pump returns without
\* rejecting the pending send, which is left to its timer.
ReadFailsClosed ==
    /\ closed /\ reads # <<>>
    /\ reads' = <<>> /\ toHost' = <<>>
    /\ IF \E c \in Calls : Running(c) /\ pc[c] = "reading"
         THEN Settle(Head(queue), Failure("closed"))
         ELSE UNCHANGED callVars
    /\ UNCHANGED <<closed, pumpStarted, pending, inbox, pushes>>
-----------------------------------------------------------------------------
(* The keyboard (external): it answers the requests it implements, in the  *)
(* order they came, and pushes reports of its own.                         *)

DeviceAnswers ==
    /\ inbox # <<>>
    /\ inbox' = Tail(inbox)
    /\ toHost' = IF Head(inbox) \in Mute THEN toHost
                 ELSE Append(toHost, [call |-> Head(inbox), cmd |-> Cmd[Head(inbox)]])
    /\ UNCHANGED <<callVars, closed, pumpStarted, pending, reads, pushes>>

DevicePushes ==
    /\ pushes < MaxPushes
    /\ pushes' = pushes + 1
    /\ \E k \in PushCmds : toHost' = Append(toHost, [call |-> NoCall, cmd |-> k])
    /\ UNCHANGED <<callVars, closed, pumpStarted, pending, reads, inbox>>

ClientStep(c) ==
    \/ StartClosed(c) \/ StartIdle(c) \/ StartPumped(c)
    \/ Written(c) \/ WriteFails(c)
    \/ TimeoutPumped(c) \/ TimeoutIdle(c)

Next ==
    \/ \E c \in Calls : Send(c) \/ ClientStep(c)
    \/ Subscribe
    \/ DeliverIdle \/ DeliverPump
    \/ Abort \/ EndStream \/ ReadFailsClosed
    \/ DeviceAnswers \/ DevicePushes

Spec == Init /\ [][Next]_vars

\* Timers fire and the promise chain runs; nothing is asked of the device.
FairSpec == Spec /\ \A c \in Calls : WF_vars(ClientStep(c))
-----------------------------------------------------------------------------
\* Every variable has its type, and a send that is over stays in no queue.
TypeOK ==
    /\ closed \in BOOLEAN /\ pumpStarted \in BOOLEAN
    /\ queue \in Seq(Calls)
    /\ pc \in [Calls -> {"idle", "queued", "writing", "reading", "pending", "done"}]
    /\ \A i \in DOMAIN queue : pc[queue[i]] \notin {"idle", "done"}
    /\ mode \in [Calls -> {"none", "idle", "pumped"}]
    /\ pending \in Calls \cup {NoCall}
    /\ reads \in Seq(Calls \cup {Pump})
    /\ outcome \in [Calls -> [how : {"none", "reply", "timeout", "write", "closed"},
                              from : Calls \cup {NoCall}]]
    /\ inbox \in Seq(Calls) /\ toHost \in Seq(Report)
    /\ pushes \in 0..MaxPushes

\* One send at a time is between its write and its reply, and what the pump
\* looks for is the reply to that one, never to a send that has given up.
OneAwaiting ==
    /\ \A c \in Calls : pc[c] \in {"writing", "reading", "pending"} => Running(c)
    /\ pending # NoCall => pc[pending] = "pending"

\* On the idle path a send gets its own reply or none: the reads left behind by
\* timed-out sends absorb the replies that came too late for them.  A report
\* pushed before anybody subscribed is the exception: it is taken for a reply.
IdleOwnReply ==
    \A c \in Calls : mode[c] = "idle" /\ outcome[c].how = "reply" /\ pushes = 0 =>
        outcome[c].from = c

\* On the pumped path a pushed report settles a send only if it has the send's
\* command byte, as some of Keychron's have.  A reply to another send does only
\* if it carries that byte too, and some send of the command timed out or took a
\* pushed report for its reply: from then on each takes the reply to the last.
PumpedOwnReply ==
    \A c \in Calls : mode[c] = "pumped" /\ outcome[c].how = "reply" =>
        LET f == outcome[c].from IN
        \/ f = c
        \/ f = NoCall /\ Cmd[c] \in PushCmds
        \/ /\ f # NoCall /\ Cmd[f] = Cmd[c]
           /\ \/ pushes > 0
              \/ \E g \in Calls : Cmd[g] = Cmd[c] /\ outcome[g].how = "timeout"

\* Every send settles, however the device, the subscribers and the transport
\* behave: no send waits forever, alone or behind another.
AllSettle == \A c \in Calls : pc[c] = "queued" ~> pc[c] = "done"

\* keychron/adapter.ts: firmwares that do not answer the feature query are
\* treated as having no features "instead of failing the probe".  On a keyboard
\* that answers everything else in time, only that query times out.
OnlyMuteTimesOut ==
    ~pumpStarted =>
        \A c \in Calls : outcome[c].how = "timeout" => c \in Mute
=============================================================================
