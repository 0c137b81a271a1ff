------------------------ MODULE RawHidClient_proofs ------------------------
(***************************************************************************)
(* Proofs about RawHidClient, for any number of sends, whatever their      *)
(* command bytes and whatever the firmware answers or leaves unanswered.   *)
(***************************************************************************)
EXTENDS RawHidClient, LineLemmas, TLAPS

Places == {"idle", "queued", "writing", "reading", "pending", "done"}
Outcomes == [how : {"none", "reply", "timeout", "write", "closed"},
             from : Calls \cup {NoCall}]
Awaiting(c) == pc[c] \in {"writing", "reading", "pending"}

\* Where a send stands agrees with the queue, its read path and its outcome.
Placed(c) ==
    /\ On(queue, c) <=> pc[c] \notin {"idle", "done"}
    /\ Awaiting(c) => Running(c)
    /\ pc[c] \in {"idle", "queued"} => mode[c] = "none"
    /\ pc[c] \in {"writing", "reading"} => mode[c] = "idle"
    /\ pc[c] = "pending" => mode[c] = "pumped"
    /\ pc[c] = "done" <=> outcome[c].how # "none"

CallsOK ==
    /\ queue \in Seq(Calls) /\ NoRepeat(queue)
    /\ pc \in [Calls -> Places] /\ mode \in [Calls -> {"none", "idle", "pumped"}]
    /\ outcome \in [Calls -> Outcomes]
    /\ \A c \in Calls : Placed(c)

IoOK ==
    /\ closed \in BOOLEAN /\ pumpStarted \in BOOLEAN
    /\ reads \in Seq(Calls \cup {Pump})
    /\ inbox \in Seq(Calls) /\ toHost \in Seq(Report)
    /\ pushes \in 0..MaxPushes

ArmedOK == pending \in Calls \cup {NoCall} /\ (pending # NoCall => pc[pending] = "pending")

\* The pump is never stopped, and the client never opened again.
FlagsOK == \A c \in Calls : /\ mode[c] = "pumped" => pumpStarted
                            /\ outcome[c].how = "closed" => closed

Base == CallsOK /\ IoOK /\ ArmedOK /\ FlagsOK

LEMMA BaseTypes == Base => TypeOK /\ OneAwaiting
  <1> SUFFICES ASSUME Base PROVE TypeOK /\ OneAwaiting  OBVIOUS
  <1>1. CallsOK /\ IoOK /\ ArmedOK
    BY DEF Base
  <1>2. \A i \in DOMAIN queue : pc[queue[i]] \notin {"idle", "done"}
    <2> SUFFICES ASSUME NEW i \in DOMAIN queue PROVE pc[queue[i]] \notin {"idle", "done"}
      OBVIOUS
    <2>1. queue[i] \in Calls /\ On(queue, queue[i])
      BY <1>1 DEF CallsOK, On
    <2> QED BY <1>1, <2>1 DEF CallsOK, Placed
  <1>3. TypeOK
    BY <1>1, <1>2 DEF CallsOK, IoOK, ArmedOK, TypeOK, Places, Outcomes
  <1>4. OneAwaiting
    BY <1>1 DEF CallsOK, ArmedOK, Placed, Awaiting, OneAwaiting
  <1> QED BY <1>3, <1>4

LEMMA InitBase == Init => Base
  <1> SUFFICES ASSUME Init PROVE Base  OBVIOUS
  <1>1. queue = <<>> /\ pc = [c \in Calls |-> "idle"] /\ mode = [c \in Calls |-> "none"]
        /\ outcome = [c \in Calls |-> Unsettled]
    BY DEF Init
  <1>2. queue \in Seq(Calls) /\ NoRepeat(queue) /\ \A x : ~On(queue, x)
    BY <1>1 DEF NoRepeat, On
  <1>3. pc \in [Calls -> Places] /\ mode \in [Calls -> {"none", "idle", "pumped"}]
        /\ outcome \in [Calls -> Outcomes]
    BY <1>1 DEF Places, Outcomes, Unsettled
  <1>4. \A c \in Calls : Placed(c)
    BY <1>1, <1>2 DEF Placed, Awaiting, Unsettled
  <1>5. closed = FALSE /\ pumpStarted = FALSE /\ pushes = 0 /\ pending = NoCall
    BY DEF Init
  <1>6. reads = <<>> /\ inbox = <<>> /\ toHost = <<>>
    BY DEF Init
  <1>7. IoOK
    <2>1. reads \in Seq(Calls \cup {Pump}) /\ inbox \in Seq(Calls) /\ toHost \in Seq(Report)
      BY <1>6
    <2>2. pushes \in 0..MaxPushes
      BY <1>5, DeviceAssumption
    <2> QED BY <1>5, <2>1, <2>2 DEF IoOK
  <1>8. ArmedOK /\ FlagsOK
    BY <1>1, <1>5 DEF ArmedOK, FlagsOK, Unsettled
  <1> QED BY <1>2, <1>3, <1>4, <1>7, <1>8 DEF Base, CallsOK

\* The four things that happen to a send.
LEMMA Settled ==
    ASSUME CallsOK, NEW c \in Calls, Running(c), NEW o \in Outcomes, o.how # "none",
           Settle(c, o)
    PROVE  /\ CallsOK' /\ mode' = mode
           /\ pc' = [pc EXCEPT ![c] = "done"] /\ outcome' = [outcome EXCEPT ![c] = o]
           /\ \A d \in Calls : ~Awaiting(d)'
  <1>1. /\ pc' = [pc EXCEPT ![c] = "done"] /\ outcome' = [outcome EXCEPT ![c] = o]
        /\ queue' = Tail(queue) /\ mode' = mode
    BY DEF Settle
  <1>2. queue \in Seq(Calls) /\ queue # <<>> /\ Head(queue) = c /\ NoRepeat(queue)
    BY DEF CallsOK, Running
  <1>3. /\ Tail(queue) \in Seq(Calls) /\ NoRepeat(Tail(queue))
        /\ \A x : On(Tail(queue), x) <=> On(queue, x) /\ x # c
    BY <1>2, TailOfLine
  <1>4. /\ pc' \in [Calls -> Places] /\ outcome' \in [Calls -> Outcomes]
        /\ pc'[c] = "done" /\ outcome'[c] = o
        /\ \A d \in Calls \ {c} : pc'[d] = pc[d] /\ outcome'[d] = outcome[d]
    BY <1>1 DEF CallsOK, Places
  <1>5. ASSUME NEW d \in Calls PROVE ~Awaiting(d)'
    BY <1>2, <1>4 DEF CallsOK, Placed, Awaiting, Running
  <1>6. ASSUME NEW d \in Calls PROVE Placed(d)'
    <2>1. On(queue', d) <=> pc'[d] \notin {"idle", "done"}
      BY <1>1, <1>3, <1>4 DEF CallsOK, Placed
    <2> QED BY <1>1, <1>4, <1>5, <2>1 DEF CallsOK, Placed
  <1>7. mode' \in [Calls -> {"none", "idle", "pumped"}] /\ queue' \in Seq(Calls)
        /\ NoRepeat(queue')
    BY <1>1, <1>3 DEF CallsOK
  <1>8. CallsOK'
    BY <1>4, <1>6, <1>7 DEF CallsOK, NoRepeat
  <1> QED BY <1>1, <1>5, <1>8

LEMMA Moved ==
    ASSUME CallsOK, NEW c \in Calls, Running(c), pc[c] \notin {"idle", "done"},
           NEW to, NEW m, UNCHANGED <<queue, outcome>>,
           pc' = [pc EXCEPT ![c] = to], mode' = [mode EXCEPT ![c] = m],
           (to \in {"writing", "reading"} /\ m = "idle") \/ (to = "pending" /\ m = "pumped")
    PROVE  CallsOK'
  <1>1. /\ pc' \in [Calls -> Places] /\ mode' \in [Calls -> {"none", "idle", "pumped"}]
        /\ pc'[c] = to /\ mode'[c] = m
        /\ \A d \in Calls \ {c} : pc'[d] = pc[d] /\ mode'[d] = mode[d]
    BY DEF CallsOK, Places
  <1>2. ASSUME NEW d \in Calls PROVE Placed(d)'
    BY <1>1 DEF CallsOK, Placed, Awaiting, Running
  <1>3. outcome' \in [Calls -> Outcomes] /\ queue' \in Seq(Calls) /\ NoRepeat(queue')
    BY DEF CallsOK
  <1> QED BY <1>1, <1>2, <1>3 DEF CallsOK, NoRepeat

LEMMA Sent ==
    ASSUME CallsOK, NEW c \in Calls, Send(c)
    PROVE  CallsOK'
  <1>1. pc[c] = "idle" /\ mode' = mode /\ ~On(queue, c) /\ queue \in Seq(Calls)
        /\ NoRepeat(queue)
    BY DEF Send, CallsOK, Placed
  <1>2. CASE closed
    <2>1. /\ pc' = [pc EXCEPT ![c] = "done"] /\ queue' = queue
          /\ outcome' = [outcome EXCEPT ![c] = Failure("closed")]
      BY <1>2 DEF Send
    <2>2. /\ pc' \in [Calls -> Places] /\ outcome' \in [Calls -> Outcomes]
          /\ pc'[c] = "done" /\ outcome'[c].how = "closed"
          /\ \A d \in Calls \ {c} : pc'[d] = pc[d] /\ outcome'[d] = outcome[d]
      BY <2>1 DEF CallsOK, Places, Outcomes, Failure
    <2>3. ASSUME NEW d \in Calls PROVE Placed(d)'
      BY <1>1, <2>1, <2>2 DEF CallsOK, Placed, Awaiting, Running
    <2> QED BY <1>1, <2>1, <2>2, <2>3 DEF CallsOK, NoRepeat
  <1>3. CASE ~closed
    <2>1. /\ pc' = [pc EXCEPT ![c] = "queued"] /\ queue' = Append(queue, c)
          /\ outcome' = outcome
      BY <1>3 DEF Send
    <2>2. /\ queue' \in Seq(Calls) /\ NoRepeat(queue')
          /\ \A x : On(queue', x) <=> On(queue, x) \/ x = c
      BY <1>1, <2>1, AppendedToLine
    <2>3. /\ pc' \in [Calls -> Places] /\ pc'[c] = "queued"
          /\ \A d \in Calls \ {c} : pc'[d] = pc[d]
      BY <2>1 DEF CallsOK, Places
    <2>4. ASSUME NEW d \in Calls, Awaiting(d)' PROVE Running(d)'
      <3>1. d # c /\ Running(d)
        BY <2>3, <2>4 DEF Awaiting, CallsOK, Placed
      <3> QED BY <1>1, <2>1, <3>1 DEF Running
    <2>5. ASSUME NEW d \in Calls PROVE Placed(d)'
      <3>1. On(queue', d) <=> pc'[d] \notin {"idle", "done"}
        BY <2>2, <2>3 DEF CallsOK, Placed
      <3> QED BY <1>1, <2>1, <2>3, <2>4, <3>1 DEF CallsOK, Placed
    <2> QED BY <1>1, <2>1, <2>2, <2>3, <2>5 DEF CallsOK, NoRepeat
  <1> QED BY <1>2, <1>3

\* The armed send is the running one.
LEMMA ArmedRuns ==
    ASSUME Base, NEW c \in Calls, Running(c)
    PROVE  pending # NoCall => pending = c /\ pc[c] = "pending"
  BY DEF Base, CallsOK, ArmedOK, Placed, Awaiting, Running

\* A send that is over, in a step that ends nothing else.
LEMMA Ended ==
    ASSUME Base, IoOK', NEW c \in Calls, Running(c), NEW o \in Outcomes,
           o.how # "none", Settle(c, o), pumpStarted => pumpStarted', closed => closed',
           o.how = "closed" => closed', pending' = NoCall
    PROVE  Base' /\ \A d \in Calls : ~Awaiting(d)'
  <1>1. /\ CallsOK' /\ mode' = mode
        /\ pc' = [pc EXCEPT ![c] = "done"] /\ outcome' = [outcome EXCEPT ![c] = o]
        /\ \A d \in Calls : ~Awaiting(d)'
    BY Settled DEF Base
  <1>2. ArmedOK'
    BY DEF ArmedOK
  <1>3. FlagsOK'
    BY <1>1 DEF Base, FlagsOK, CallsOK
  <1> QED BY <1>1, <1>2, <1>3 DEF Base

LEMMA OutcomeTypes ==
    /\ \A why \in {"timeout", "write", "closed"} :
          Failure(why) \in Outcomes /\ Failure(why).how = why
    /\ \A r \in Report : Reply(r) \in Outcomes /\ Reply(r).how = "reply"
  BY DEF Failure, Reply, Outcomes, Report

LEMMA IoStep == Base /\ [Next]_vars => IoOK'
  <1> SUFFICES ASSUME Base, [Next]_vars PROVE IoOK'  OBVIOUS
  <1>1. IoOK
    BY DEF Base
  <1>2. closed' \in BOOLEAN /\ pumpStarted' \in BOOLEAN
    BY <1>1 DEF IoOK, Next, ClientStep, Send, StartClosed, StartIdle, StartPumped, Written,
       WriteFails, TimeoutPumped, TimeoutIdle, Subscribe, DeliverIdle, DeliverPump, Abort,
       EndStream, ReadFailsClosed, DeviceAnswers, DevicePushes, vars
  <1>3. pushes' \in 0..MaxPushes
    <2>1. pushes' = pushes \/ (pushes < MaxPushes /\ pushes' = pushes + 1)
      BY DEF Next, ClientStep, Send, StartClosed, StartIdle, StartPumped, Written,
         WriteFails, TimeoutPumped, TimeoutIdle, Subscribe, DeliverIdle, DeliverPump, Abort,
         EndStream, ReadFailsClosed, DeviceAnswers, DevicePushes, vars
    <2> QED BY <1>1, <2>1, DeviceAssumption DEF IoOK
  <1>4. reads' \in Seq(Calls \cup {Pump})
    <2>1. \/ reads' = reads
          \/ \E x \in Calls \cup {Pump} : reads' = Append(reads, x)
          \/ reads # <<>> /\ reads' = Tail(reads)
          \/ reads # <<>> /\ reads' = Append(Tail(reads), Pump)
          \/ reads' = <<>>
      BY DEF Next, ClientStep, Send, StartClosed, StartIdle, StartPumped, Written,
         WriteFails, TimeoutPumped, TimeoutIdle, Subscribe, DeliverIdle, DeliverPump, Abort,
         EndStream, ReadFailsClosed, DeviceAnswers, DevicePushes, vars
    <2>2. <<>> \in Seq(Calls \cup {Pump}) /\ reads \in Seq(Calls \cup {Pump})
      BY <1>1 DEF IoOK
    <2>3. \A x \in Calls \cup {Pump} : Append(reads, x) \in Seq(Calls \cup {Pump})
      BY <2>2
    <2>4. reads # <<>> => /\ Tail(reads) \in Seq(Calls \cup {Pump})
                          /\ Append(Tail(reads), Pump) \in Seq(Calls \cup {Pump})
      BY <2>2
    <2> QED BY <2>1, <2>2, <2>3, <2>4
  <1>5. inbox' \in Seq(Calls)
    <2>1. \/ inbox' = inbox
          \/ \E c \in Calls : inbox' = Append(inbox, c)
          \/ inbox # <<>> /\ inbox' = Tail(inbox)
          \/ inbox # <<>> /\ inbox' = SubSeq(inbox, 1, Len(inbox) - 1)
      BY DEF Next, ClientStep, Send, StartClosed, StartIdle, StartPumped, Written,
         WriteFails, TimeoutPumped, TimeoutIdle, Subscribe, DeliverIdle, DeliverPump, Abort,
         EndStream, ReadFailsClosed, DeviceAnswers, DevicePushes, vars
    <2>2. inbox \in Seq(Calls)
      BY <1>1 DEF IoOK
    <2>3. \A c \in Calls : Append(inbox, c) \in Seq(Calls)
      BY <2>2
    <2>4. inbox # <<>> => /\ Tail(inbox) \in Seq(Calls)
                          /\ SubSeq(inbox, 1, Len(inbox) - 1) \in Seq(Calls)
      <3>1. inbox # <<>> => Len(inbox) - 1 \in 0..Len(inbox)
        BY <2>2
      <3>2. \A i \in 1..Len(inbox) : inbox[i] \in Calls
        BY <2>2
      <3>3. inbox # <<>> => SubSeq(inbox, 1, Len(inbox) - 1) \in Seq(Calls)
        BY <2>2, <3>1, <3>2
      <3> QED BY <2>2, <3>3
    <2> QED BY <2>1, <2>2, <2>3, <2>4
  <1>6. toHost' \in Seq(Report)
    <2>1. \/ toHost' = toHost
          \/ toHost # <<>> /\ toHost' = Tail(toHost)
          \/ toHost' = <<>>
          \/ /\ inbox # <<>>
             /\ toHost' = Append(toHost, [call |-> Head(inbox), cmd |-> Cmd[Head(inbox)]])
          \/ \E k \in PushCmds : toHost' = Append(toHost, [call |-> NoCall, cmd |-> k])
      BY DEF Next, ClientStep, Send, StartClosed, StartIdle, StartPumped, Written,
         WriteFails, TimeoutPumped, TimeoutIdle, Subscribe, DeliverIdle, DeliverPump, Abort,
         EndStream, ReadFailsClosed, DeviceAnswers, DevicePushes, vars
    <2>2. ASSUME inbox # <<>>
          PROVE  [call |-> Head(inbox), cmd |-> Cmd[Head(inbox)]] \in Report
      <3>1. Head(inbox) \in Calls
        BY <1>1, <2>2 DEF IoOK
      <3> QED BY <3>1 DEF Report
    <2>3. \A k \in PushCmds : [call |-> NoCall, cmd |-> k] \in Report
      BY DEF Report
    <2>4. toHost \in Seq(Report) /\ <<>> \in Seq(Report)
      BY <1>1 DEF IoOK
    <2>5. toHost # <<>> => Tail(toHost) \in Seq(Report)
      BY <2>4
    <2>6. \A r \in Report : Append(toHost, r) \in Seq(Report)
      BY <2>4
    <2> QED BY <2>1, <2>2, <2>3, <2>4, <2>5, <2>6
  <1> QED BY <1>2, <1>3, <1>4, <1>5, <1>6 DEF IoOK

\* Steps that leave the sends as they are.
LEMMA SendsKept ==
    ASSUME Base, IoOK', UNCHANGED <<callVars, pending>>, closed => closed',
           pumpStarted => pumpStarted'
    PROVE  Base'
  <1>1. CallsOK'
    BY DEF Base, CallsOK, callVars, NoRepeat, Placed, On, Awaiting, Running
  <1>2. ArmedOK' /\ FlagsOK'
    BY DEF Base, ArmedOK, FlagsOK, callVars
  <1> QED BY <1>1, <1>2 DEF Base

LEMMA BaseStep == Base /\ [Next]_vars => Base'
  <1> SUFFICES ASSUME Base, [Next]_vars PROVE Base'  OBVIOUS
  <1>0. CallsOK /\ IoOK /\ ArmedOK /\ FlagsOK /\ IoOK'
    BY IoStep DEF Base
  <1>1. ASSUME NEW c \in Calls, Send(c) PROVE Base'
    <2>1. CallsOK'
      BY <1>0, <1>1, Sent
    <2>2. pending' = pending /\ closed' = closed /\ pumpStarted' = pumpStarted
          /\ mode' = mode /\ pc[c] = "idle"
      BY <1>1 DEF Send
    <2>3. \A d \in Calls : pc'[d] = pc[d] \/ d = c
      BY <1>0, <1>1 DEF Send, CallsOK
    <2>4. \A d \in Calls : outcome'[d] = outcome[d] \/ (d = c /\ closed)
      BY <1>0, <1>1 DEF Send, CallsOK
    <2>5. ArmedOK'
      BY <1>0, <2>2, <2>3 DEF ArmedOK
    <2>6. FlagsOK'
      BY <1>0, <2>2, <2>4 DEF FlagsOK
    <2> QED BY <1>0, <2>1, <2>5, <2>6 DEF Base
  <1>2. ASSUME NEW c \in Calls, StartClosed(c) PROVE Base'
    <2>1. Running(c) /\ Settle(c, Failure("closed")) /\ pending' = pending
          /\ closed /\ closed' = closed /\ pumpStarted' = pumpStarted /\ pc[c] = "queued"
      BY <1>2 DEF StartClosed
    <2>2. pending' = NoCall
      BY <2>1, ArmedRuns
    <2>3. Failure("closed") \in Outcomes /\ Failure("closed").how = "closed"
      BY OutcomeTypes
    <2> QED BY <1>0, <2>1, <2>2, <2>3, Ended
  <1>3. ASSUME NEW c \in Calls, StartIdle(c) PROVE Base'
    <2>1. /\ Running(c) /\ pc[c] = "queued" /\ UNCHANGED <<queue, outcome>>
          /\ pc' = [pc EXCEPT ![c] = "writing"] /\ mode' = [mode EXCEPT ![c] = "idle"]
          /\ pending' = pending /\ closed' = closed /\ pumpStarted' = pumpStarted
      BY <1>3 DEF StartIdle
    <2>2. CallsOK'
      <3>1. "writing" \in {"writing", "reading"} /\ pc[c] \notin {"idle", "done"}
        BY <2>1
      <3> QED BY <1>0, <2>1, <3>1, Moved
    <2>3. pending' = NoCall
      BY <2>1, ArmedRuns
    <2>4. ArmedOK' /\ FlagsOK'
      BY <1>0, <2>1, <2>3 DEF ArmedOK, FlagsOK, CallsOK
    <2> QED BY <1>0, <2>2, <2>4 DEF Base
  <1>4. ASSUME NEW c \in Calls, StartPumped(c) PROVE Base'
    <2>1. /\ Running(c) /\ pc[c] = "queued" /\ UNCHANGED <<queue, outcome>> /\ pumpStarted
          /\ pc' = [pc EXCEPT ![c] = "pending"] /\ mode' = [mode EXCEPT ![c] = "pumped"]
          /\ pending' = c /\ closed' = closed /\ pumpStarted' = pumpStarted
      BY <1>4 DEF StartPumped
    <2>2. CallsOK'
      BY <1>0, <2>1, Moved
    <2>3. ArmedOK' /\ FlagsOK'
      BY <1>0, <2>1 DEF ArmedOK, FlagsOK, CallsOK
    <2> QED BY <1>0, <2>2, <2>3 DEF Base
  <1>5. ASSUME NEW c \in Calls, Written(c) PROVE Base'
    <2>1. Running(c) /\ pc[c] = "writing" /\ mode[c] = "idle"
      BY <1>0, <1>5 DEF Written, CallsOK, Placed, Awaiting
    <2>2. pending' = pending /\ pending' = NoCall /\ closed' = closed
          /\ pumpStarted' = pumpStarted
      BY <1>5, <2>1, ArmedRuns DEF Written
    <2>3. CASE closed
      <3>1. Settle(c, Failure("closed"))
        BY <1>5, <2>3 DEF Written
      <3>2. Failure("closed") \in Outcomes /\ Failure("closed").how = "closed"
        BY OutcomeTypes
      <3> QED BY <1>0, <2>1, <2>2, <2>3, <3>1, <3>2, Ended
    <2>4. CASE ~closed
      <3>1. pc' = [pc EXCEPT ![c] = "reading"] /\ UNCHANGED <<queue, outcome, mode>>
        BY <1>5, <2>4 DEF Written
      <3>2. mode' = [mode EXCEPT ![c] = "idle"]
        BY <1>0, <2>1, <3>1 DEF CallsOK
      <3>3. CallsOK'
        <4>1. "reading" \in {"writing", "reading"} /\ pc[c] \notin {"idle", "done"}
          BY <2>1
        <4> QED BY <1>0, <2>1, <3>1, <3>2, <4>1, Moved
      <3>4. ArmedOK' /\ FlagsOK'
        BY <1>0, <2>2, <3>1 DEF ArmedOK, FlagsOK
      <3> QED BY <1>0, <3>3, <3>4 DEF Base
    <2> QED BY <2>3, <2>4
  <1>6. ASSUME NEW c \in Calls, WriteFails(c) PROVE Base'
    <2>1. Running(c) /\ Settle(c, Failure("write")) /\ pending' = NoCall
          /\ closed' = closed /\ pumpStarted' = pumpStarted
      BY <1>0, <1>6 DEF WriteFails, CallsOK, Placed, Awaiting
    <2>2. Failure("write") \in Outcomes /\ Failure("write").how = "write"
      BY OutcomeTypes
    <2> QED BY <1>0, <2>1, <2>2, Ended
  <1>7. ASSUME NEW c \in Calls, TimeoutPumped(c) PROVE Base'
    <2>1. Running(c) /\ Settle(c, Failure("timeout")) /\ pc[c] = "pending"
          /\ closed' = closed /\ pumpStarted' = pumpStarted
      BY <1>0, <1>7 DEF TimeoutPumped, CallsOK, Placed, Awaiting
    <2>2. pending # NoCall => pending = c
      BY <2>1, ArmedRuns
    <2>3. pending' = NoCall
      BY <1>7, <2>2 DEF TimeoutPumped
    <2>4. Failure("timeout") \in Outcomes /\ Failure("timeout").how = "timeout"
      BY OutcomeTypes
    <2> QED BY <1>0, <2>1, <2>3, <2>4, Ended
  <1>8. ASSUME NEW c \in Calls, TimeoutIdle(c) PROVE Base'
    <2>1. Running(c) /\ Settle(c, Failure("timeout")) /\ pc[c] = "reading"
          /\ closed' = closed /\ pumpStarted' = pumpStarted /\ pending' = pending
      BY <1>0, <1>8 DEF TimeoutIdle, CallsOK, Placed, Awaiting
    <2>2. pending' = NoCall
      BY <2>1, ArmedRuns
    <2>3. Failure("timeout") \in Outcomes /\ Failure("timeout").how = "timeout"
      BY OutcomeTypes
    <2> QED BY <1>0, <2>1, <2>2, <2>3, Ended
  <1>9. CASE Subscribe
    BY <1>0, <1>9, SendsKept DEF Subscribe
  <1>10. CASE DeliverIdle
    <2>1. /\ closed' = closed /\ pumpStarted' = pumpStarted /\ pending' = pending
          /\ reads # <<>> /\ toHost # <<>> /\ Head(reads) # Pump
      BY <1>10 DEF DeliverIdle
    <2>2. Head(reads) \in Calls /\ Head(toHost) \in Report
      BY <1>0, <2>1 DEF IoOK
    <2>3. CASE pc[Head(reads)] = "reading"
      <3>1. PICK c \in Calls : c = Head(reads)
        BY <2>2
      <3>2. PICK r \in Report : r = Head(toHost)
        BY <2>2
      <3>3. Running(c) /\ Settle(c, Reply(r)) /\ pc[c] = "reading"
        BY <1>0, <1>10, <2>3, <3>1, <3>2 DEF DeliverIdle, CallsOK, Placed, Awaiting
      <3>4. pending' = NoCall
        BY <2>1, <3>3, ArmedRuns
      <3>5. Reply(r) \in Outcomes /\ Reply(r).how = "reply"
        BY OutcomeTypes
      <3> QED BY <1>0, <2>1, <3>3, <3>4, <3>5, Ended
    <2>4. CASE pc[Head(reads)] # "reading"
      <3>1. UNCHANGED callVars
        BY <1>10, <2>4 DEF DeliverIdle
      <3> QED BY <1>0, <2>1, <3>1, SendsKept
    <2> QED BY <2>3, <2>4
  <1>11. CASE DeliverPump
    <2>1. closed' = closed /\ pumpStarted' = pumpStarted /\ toHost # <<>>
      BY <1>11 DEF DeliverPump
    <2>2. PICK r \in Report : r = Head(toHost)
      BY <1>0, <2>1 DEF IoOK
    <2>3. CASE PumpMatches(r)
      <3>1. PICK c \in Calls : c = pending
        BY <1>0, <2>3 DEF PumpMatches, ArmedOK
      <3>2. Settle(c, Reply(r)) /\ pending' = NoCall
        BY <1>11, <2>2, <2>3, <3>1 DEF DeliverPump
      <3>3. Running(c)
        BY <1>0, <2>3, <3>1 DEF PumpMatches, ArmedOK, CallsOK, Placed, Awaiting
      <3>4. Reply(r) \in Outcomes /\ Reply(r).how = "reply"
        BY OutcomeTypes
      <3> QED BY <1>0, <2>1, <3>2, <3>3, <3>4, Ended
    <2>4. CASE ~PumpMatches(r)
      <3>1. UNCHANGED <<callVars, pending>>
        BY <1>11, <2>2, <2>4 DEF DeliverPump
      <3> QED BY <1>0, <2>1, <3>1, SendsKept
    <2> QED BY <2>3, <2>4
  <1>12. CASE Abort
    BY <1>0, <1>12, SendsKept DEF Abort
  <1>13. CASE EndStream
    <2>1. closed' = TRUE /\ pumpStarted' = pumpStarted /\ pending' = NoCall
      BY <1>13 DEF EndStream
    <2>2. CASE \E c \in Calls : Running(c) /\ pc[c] \in {"reading", "pending"}
      <3>1. PICK c \in Calls : Running(c)
        BY <2>2
      <3>2. Settle(c, Failure("closed"))
        BY <1>13, <2>2, <3>1 DEF EndStream, Running
      <3>3. Failure("closed") \in Outcomes /\ Failure("closed").how = "closed"
        BY OutcomeTypes
      <3> QED BY <1>0, <2>1, <3>1, <3>2, <3>3, Ended
    <2>3. CASE ~ \E c \in Calls : Running(c) /\ pc[c] \in {"reading", "pending"}
      <3>1. UNCHANGED callVars
        BY <1>13, <2>3 DEF EndStream
      <3>2. pending = NoCall
        BY <1>0, <2>3 DEF ArmedOK, CallsOK, Placed, Awaiting
      <3> QED BY <1>0, <2>1, <3>1, <3>2, SendsKept
    <2> QED BY <2>2, <2>3
  <1>14. CASE ReadFailsClosed
    <2>1. closed /\ closed' = closed /\ pumpStarted' = pumpStarted /\ pending' = pending
      BY <1>14 DEF ReadFailsClosed
    <2>2. CASE \E c \in Calls : Running(c) /\ pc[c] = "reading"
      <3>1. PICK c \in Calls : Running(c) /\ pc[c] = "reading"
        BY <2>2
      <3>2. Settle(c, Failure("closed"))
        BY <1>14, <2>2, <3>1 DEF ReadFailsClosed, Running
      <3>3. Failure("closed") \in Outcomes /\ Failure("closed").how = "closed"
        BY OutcomeTypes
      <3>4. pending' = NoCall
        BY <2>1, <3>1, ArmedRuns
      <3> QED BY <1>0, <2>1, <3>1, <3>2, <3>3, <3>4, Ended
    <2>3. CASE ~ \E c \in Calls : Running(c) /\ pc[c] = "reading"
      <3>1. UNCHANGED callVars
        BY <1>14, <2>3 DEF ReadFailsClosed
      <3> QED BY <1>0, <2>1, <3>1, SendsKept
    <2> QED BY <2>2, <2>3
  <1>15. CASE DeviceAnswers \/ DevicePushes \/ UNCHANGED vars
    <2>1. UNCHANGED <<callVars, pending, closed, pumpStarted>>
      BY <1>15 DEF DeviceAnswers, DevicePushes, vars
    <2> QED BY <1>0, <2>1, SendsKept
  <1> QED BY <1>1, <1>2, <1>3, <1>4, <1>5, <1>6, <1>7, <1>8, <1>9, <1>10, <1>11, <1>12,
             <1>13, <1>14, <1>15 DEF Next, ClientStep

\* Every variable has its type, and no settled send is in the queue, in every
\* reachable state: rawHidClient.ts:102-305 for any number of sends.
THEOREM TypeTheorem == Spec => []TypeOK
  <1>1. Init => Base
    BY InitBase
  <1>2. Base /\ [Next]_vars => Base'
    BY BaseStep
  <1>3. Base => TypeOK
    BY BaseTypes
  <1> QED BY <1>1, <1>2, <1>3, PTL DEF Spec

\* One send at a time stands between its write and its reply, the one at the
\* head of the promise chain, and the pump is armed for that one or for none:
\* rawHidClient.ts, send(), sendPumped() and the pump's loop.
THEOREM OneAwaitingTheorem == Spec => []OneAwaiting
  <1>1. Init => Base
    BY InitBase
  <1>2. Base /\ [Next]_vars => Base'
    BY BaseStep
  <1>3. Base => OneAwaiting
    BY BaseTypes
  <1> QED BY <1>1, <1>2, <1>3, PTL DEF Spec

(***************************************************************************)
(* Replies owed: what is on its way to the host, then what the device has  *)
(* still to answer, in the order in which the host will hear of it.        *)
(***************************************************************************)
Line(h, b) == [i \in 1..Len(h) + Len(b) |->
                 IF i <= Len(h) THEN h[i].call ELSE b[i - Len(h)]]
Owed == Line(toHost, inbox)

\* t is what is left of s: whatever is in it was no nearer its end in s.
Shrunk(s, t) ==
    \E back \in [1..Len(t) -> 1..Len(s)] :
        \A i \in 1..Len(t) :
            /\ i <= back[i] /\ t[i] = s[back[i]]
            /\ \A j \in 1..Len(t) : back[i] = back[j] => i = j

LEMMA LineTypes ==
    ASSUME NEW h \in Seq(Report), NEW b \in Seq(Calls)
    PROVE  /\ Line(h, b) \in Seq(Calls \cup {NoCall})
           /\ Len(h) \in Nat /\ Len(b) \in Nat /\ Len(Line(h, b)) = Len(h) + Len(b)
           /\ \A i \in 1..Len(h) : Line(h, b)[i] = h[i].call
           /\ \A i \in 1..Len(b) : Line(h, b)[Len(h) + i] = b[i]
  <1>1. Len(h) \in Nat /\ Len(b) \in Nat
    OBVIOUS
  <1>2. PICK n \in Nat : n = Len(h) + Len(b)
    BY <1>1
  <1>3. \A i \in 1..n : (IF i <= Len(h) THEN h[i].call ELSE b[i - Len(h)]) \in Calls \cup {NoCall}
    <2> SUFFICES ASSUME NEW i \in 1..n
                 PROVE  (IF i <= Len(h) THEN h[i].call ELSE b[i - Len(h)]) \in Calls \cup {NoCall}
      OBVIOUS
    <2>1. CASE i <= Len(h)
      <3>1. h[i] \in Report
        BY <2>1, <1>1
      <3> QED BY <2>1, <3>1 DEF Report
    <2>2. CASE ~(i <= Len(h))
      <3>1. i - Len(h) \in 1..Len(b)
        BY <2>2, <1>1, <1>2
      <3> QED BY <2>2, <3>1
    <2> QED BY <2>1, <2>2
  <1>4. Line(h, b) = [i \in 1..n |-> IF i <= Len(h) THEN h[i].call ELSE b[i - Len(h)]]
    BY <1>2 DEF Line
  <1>5. Line(h, b) \in Seq(Calls \cup {NoCall}) /\ Len(Line(h, b)) = n
    BY <1>3, <1>4
  <1>6. \A i \in 1..Len(h) : i \in 1..n /\ i <= Len(h)
    BY <1>1, <1>2
  <1>7. \A i \in 1..Len(b) : Len(h) + i \in 1..n /\ ~(Len(h) + i <= Len(h))
                             /\ Len(h) + i - Len(h) = i
    BY <1>1, <1>2
  <1>8. \A i \in 1..Len(h) : Line(h, b)[i] = h[i].call
    BY <1>4, <1>6
  <1>9. \A i \in 1..Len(b) : Line(h, b)[Len(h) + i] = b[i]
    BY <1>4, <1>7
  <1> QED BY <1>1, <1>2, <1>5, <1>8, <1>9

\* The element at a place of the line comes from one of its halves.
LEMMA LineAt ==
    ASSUME NEW h \in Seq(Report), NEW b \in Seq(Calls), NEW i \in 1..Len(Line(h, b))
    PROVE  Line(h, b)[i] = IF i <= Len(h) THEN h[i].call ELSE b[i - Len(h)]
  <1>1. i \in 1..Len(h) + Len(b)
    BY LineTypes
  <1> QED BY <1>1 DEF Line

\* A request is written.
LEMMA LineGrows ==
    ASSUME NEW h \in Seq(Report), NEW b \in Seq(Calls), NEW c \in Calls
    PROVE  /\ Len(Line(h, Append(b, c))) = Len(Line(h, b)) + 1
           /\ \A i \in 1..Len(Line(h, b)) : Line(h, Append(b, c))[i] = Line(h, b)[i]
           /\ Line(h, Append(b, c))[Len(Line(h, b)) + 1] = c
  <1> DEFINE d == Append(b, c)
  <1>1. /\ d \in Seq(Calls) /\ Len(d) = Len(b) + 1 /\ d[Len(b) + 1] = c
        /\ \A i \in 1..Len(b) : d[i] = b[i]
    OBVIOUS
  <1> HIDE DEF d
  <1>2. /\ Len(h) \in Nat /\ Len(b) \in Nat /\ Len(Line(h, b)) = Len(h) + Len(b)
    BY LineTypes
  <1>3. Len(Line(h, d)) = Len(h) + (Len(b) + 1)
    BY <1>1, LineTypes
  <1>4. Line(h, d)[Len(h) + (Len(b) + 1)] = c
    <2>1. Len(b) + 1 \in 1..Len(d)
      BY <1>1, <1>2
    <2>2. Line(h, d)[Len(h) + (Len(b) + 1)] = d[Len(b) + 1]
      BY <1>1, <2>1, LineTypes
    <2> QED BY <1>1, <2>2
  <1>5. ASSUME NEW i \in 1..Len(Line(h, b)) PROVE Line(h, d)[i] = Line(h, b)[i]
    <2>1. i \in 1..Len(Line(h, d))
      BY <1>2, <1>3
    <2>2. Line(h, d)[i] = IF i <= Len(h) THEN h[i].call ELSE d[i - Len(h)]
      BY <1>1, <2>1, LineAt
    <2>3. Line(h, b)[i] = IF i <= Len(h) THEN h[i].call ELSE b[i - Len(h)]
      BY LineAt
    <2>4. ~(i <= Len(h)) => i - Len(h) \in 1..Len(b)
      BY <1>2
    <2> QED BY <1>1, <2>2, <2>3, <2>4
  <1>6. Len(h) + (Len(b) + 1) = Len(Line(h, b)) + 1
    BY <1>2
  <1> QED BY <1>3, <1>4, <1>5, <1>6 DEF d

\* A report is delivered.
LEMMA LineMoves ==
    ASSUME NEW h \in Seq(Report), NEW b \in Seq(Calls), h # <<>>
    PROVE  /\ Len(Line(Tail(h), b)) = Len(Line(h, b)) - 1 /\ Len(Line(h, b)) > 0
           /\ Line(h, b)[1] = Head(h).call
           /\ \A i \in 1..Len(Line(Tail(h), b)) : Line(Tail(h), b)[i] = Line(h, b)[i + 1]
  <1> DEFINE t == Tail(h)
  <1>1. /\ t \in Seq(Report) /\ Len(h) \in Nat /\ Len(h) > 0 /\ Len(t) = Len(h) - 1
        /\ Head(h) = h[1] /\ \A i \in 1..Len(h) - 1 : t[i] = h[i + 1]
    OBVIOUS
  <1> HIDE DEF t
  <1>2. Len(b) \in Nat /\ Len(Line(h, b)) = Len(h) + Len(b)
    BY LineTypes
  <1>3. Len(Line(t, b)) = Len(t) + Len(b)
    BY <1>1, LineTypes
  <1>4. Line(h, b)[1] = Head(h).call
    <2>1. 1 \in 1..Len(h)
      BY <1>1
    <2>2. Line(h, b)[1] = h[1].call
      BY <2>1, LineTypes
    <2> QED BY <1>1, <2>2
  <1>5. ASSUME NEW i \in 1..Len(Line(t, b)) PROVE Line(t, b)[i] = Line(h, b)[i + 1]
    <2>1. i + 1 \in 1..Len(Line(h, b)) /\ i \in Nat
      BY <1>1, <1>2, <1>3
    <2>2. Line(h, b)[i + 1] = IF i + 1 <= Len(h) THEN h[i + 1].call ELSE b[i + 1 - Len(h)]
      BY <2>1, LineAt
    <2>3. Line(t, b)[i] = IF i <= Len(t) THEN t[i].call ELSE b[i - Len(t)]
      BY <1>1, LineAt
    <2>4. i - Len(t) = i + 1 - Len(h) /\ (i <= Len(t) <=> i + 1 <= Len(h))
          /\ (i <= Len(t) => i \in 1..Len(h) - 1)
      BY <1>1, <2>1
    <2> QED BY <1>1, <2>2, <2>3, <2>4
  <1>6. Len(Line(t, b)) = Len(Line(h, b)) - 1 /\ Len(Line(h, b)) > 0
    BY <1>1, <1>2, <1>3
  <1> QED BY <1>4, <1>5, <1>6 DEF t

\* The last request is taken back.
LEMMA LineCut ==
    ASSUME NEW h \in Seq(Report), NEW b \in Seq(Calls), b # <<>>
    PROVE  LET d == SubSeq(b, 1, Len(b) - 1)
           IN  /\ Len(Line(h, d)) = Len(Line(h, b)) - 1
               /\ Line(h, b)[Len(Line(h, b))] = b[Len(b)]
               /\ \A i \in 1..Len(Line(h, d)) : Line(h, d)[i] = Line(h, b)[i]
  <1> DEFINE d == SubSeq(b, 1, Len(b) - 1)
  <1>1. /\ Len(b) \in Nat /\ Len(b) > 0 /\ d \in Seq(Calls) /\ Len(d) = Len(b) - 1
        /\ \A i \in 1..Len(b) - 1 : d[i] = b[i]
    <2>1. Len(b) \in Nat /\ Len(b) > 0 /\ \A i \in 1..Len(b) : b[i] \in Calls
      OBVIOUS
    <2>2. Len(b) - 1 \in 0..Len(b)
      BY <2>1
    <2>3. SubSeq(b, 1, Len(b) - 1) \in Seq(Calls)
      BY <2>1, <2>2
    <2>4. Len(SubSeq(b, 1, Len(b) - 1)) = Len(b) - 1
      <3>1. PICK n \in Nat : n = Len(b) - 1
        BY <2>1
      <3>2. SubSeq(b, 1, n) = [i \in 1..n |-> b[i]]
        BY <3>1
      <3>3. Len(SubSeq(b, 1, n)) = n
        BY <3>1, <3>2
      <3> QED BY <3>1, <3>3
    <2>5. \A i \in 1..Len(b) - 1 : SubSeq(b, 1, Len(b) - 1)[i] = b[i]
      BY <2>1, <2>2
    <2> QED BY <2>1, <2>3, <2>4, <2>5
  <1> HIDE DEF d
  <1>2. Len(h) \in Nat /\ Len(Line(h, b)) = Len(h) + Len(b)
    BY LineTypes
  <1>3. Len(Line(h, d)) = Len(h) + Len(d)
    BY <1>1, LineTypes
  <1>4. Line(h, b)[Len(Line(h, b))] = b[Len(b)]
    <2>1. Len(b) \in 1..Len(b)
      BY <1>1
    <2> QED BY <1>2, <2>1, LineTypes
  <1>5. ASSUME NEW i \in 1..Len(Line(h, d)) PROVE Line(h, d)[i] = Line(h, b)[i]
    <2>1. i \in 1..Len(Line(h, b))
      BY <1>1, <1>2, <1>3
    <2>2. Line(h, d)[i] = IF i <= Len(h) THEN h[i].call ELSE d[i - Len(h)]
      BY <1>1, LineAt
    <2>3. Line(h, b)[i] = IF i <= Len(h) THEN h[i].call ELSE b[i - Len(h)]
      BY <2>1, LineAt
    <2>4. ~(i <= Len(h)) => i - Len(h) \in 1..Len(b) - 1
      BY <1>1, <1>2, <1>3
    <2> QED BY <1>1, <2>2, <2>3, <2>4
  <1>6. Len(Line(h, d)) = Len(Line(h, b)) - 1
    BY <1>1, <1>2, <1>3
  <1> QED BY <1>4, <1>5, <1>6 DEF d

\* Whatever shrinks repeats nothing new.
LEMMA ShrunkKeeps ==
    ASSUME NEW S, NEW s \in Seq(S), NEW t \in Seq(S), Shrunk(s, t)
    PROVE  /\ NoRepeat(s) => NoRepeat(t)
           /\ \A x : On(t, x) => On(s, x)
           /\ \A i \in 1..Len(t) : \E k \in 1..Len(s) : i <= k /\ t[i] = s[k]
  <1>1. PICK back \in [1..Len(t) -> 1..Len(s)] :
               \A i \in 1..Len(t) :
                   /\ i <= back[i] /\ t[i] = s[back[i]]
                   /\ \A j \in 1..Len(t) : back[i] = back[j] => i = j
    BY DEF Shrunk
  <1>2. DOMAIN s = 1..Len(s) /\ DOMAIN t = 1..Len(t) /\ \A i \in 1..Len(t) : back[i] \in 1..Len(s)
    OBVIOUS
  <1> QED BY <1>1, <1>2 DEF NoRepeat, On

\* The first places of a line, shrunk from it by leaving out the last ones.
LEMMA ShrunkFirst ==
    ASSUME NEW S, NEW s \in Seq(S), NEW t \in Seq(S), Len(t) <= Len(s),
           \A i \in 1..Len(t) : t[i] = s[i]
    PROVE  Shrunk(s, t)
  <1> DEFINE back == [i \in 1..Len(t) |-> i]
  <1>1. back \in [1..Len(t) -> 1..Len(s)]
    OBVIOUS
  <1>2. \A i \in 1..Len(t) : /\ i <= back[i] /\ t[i] = s[back[i]]
                             /\ \A j \in 1..Len(t) : back[i] = back[j] => i = j
    OBVIOUS
  <1> HIDE DEF back
  <1> QED BY <1>1, <1>2 DEF Shrunk

\* The device answers a request: the line stays as it is.
LEMMA LineAnswered ==
    ASSUME NEW h \in Seq(Report), NEW b \in Seq(Calls), b # <<>>,
           NEW r \in Report, r.call = Head(b)
    PROVE  Shrunk(Line(h, b), Line(Append(h, r), Tail(b)))
  <1> DEFINE g == Append(h, r)
             d == Tail(b)
  <1>1. /\ g \in Seq(Report) /\ Len(g) = Len(h) + 1 /\ g[Len(h) + 1] = r
        /\ \A i \in 1..Len(h) : g[i] = h[i]
    OBVIOUS
  <1>2. /\ d \in Seq(Calls) /\ Len(b) > 0 /\ Len(d) = Len(b) - 1 /\ Head(b) = b[1]
        /\ \A i \in 1..Len(b) - 1 : d[i] = b[i + 1]
    OBVIOUS
  <1> HIDE DEF g, d
  <1>3. /\ Len(h) \in Nat /\ Len(b) \in Nat /\ Len(Line(h, b)) = Len(h) + Len(b)
        /\ Line(h, b) \in Seq(Calls \cup {NoCall})
    BY LineTypes
  <1>4. Len(Line(g, d)) = Len(g) + Len(d) /\ Line(g, d) \in Seq(Calls \cup {NoCall})
    BY <1>1, <1>2, LineTypes
  <1>5. ASSUME NEW i \in 1..Len(Line(g, d)) PROVE Line(g, d)[i] = Line(h, b)[i]
    <2>1. i \in 1..Len(Line(h, b))
      BY <1>1, <1>2, <1>3, <1>4
    <2>2. Line(g, d)[i] = IF i <= Len(g) THEN g[i].call ELSE d[i - Len(g)]
      BY <1>1, <1>2, LineAt
    <2>3. Line(h, b)[i] = IF i <= Len(h) THEN h[i].call ELSE b[i - Len(h)]
      BY <2>1, LineAt
    <2>4. CASE i <= Len(h)
      BY <1>1, <1>3, <2>1, <2>2, <2>3, <2>4
    <2>5. CASE i = Len(h) + 1
      <3>1. i <= Len(g) /\ ~(i <= Len(h)) /\ i - Len(h) = 1
        BY <1>1, <1>3, <2>5
      <3> QED BY <1>1, <1>2, <2>2, <2>3, <2>5, <3>1
    <2>6. CASE i > Len(h) + 1
      <3>1. /\ ~(i <= Len(g)) /\ ~(i <= Len(h)) /\ i - Len(g) \in 1..Len(b) - 1
            /\ i - Len(h) = i - Len(g) + 1
        BY <1>1, <1>3, <2>1, <2>6
      <3> QED BY <1>2, <2>2, <2>3, <3>1
    <2> QED BY <1>3, <2>1, <2>4, <2>5, <2>6
  <1>6. Len(Line(g, d)) <= Len(Line(h, b))
    BY <1>1, <1>2, <1>3, <1>4
  <1>7. Shrunk(Line(h, b), Line(g, d))
    BY <1>3, <1>4, <1>5, <1>6, ShrunkFirst
  <1> QED BY <1>7 DEF g, d

\* The device leaves a request unanswered: the line loses it.
LEMMA LineSkipped ==
    ASSUME NEW h \in Seq(Report), NEW b \in Seq(Calls), b # <<>>
    PROVE  Shrunk(Line(h, b), Line(h, Tail(b)))
  <1> DEFINE d == Tail(b)
             back == [i \in 1..Len(Line(h, d)) |-> IF i <= Len(h) THEN i ELSE i + 1]
  <1>1. /\ d \in Seq(Calls) /\ Len(b) > 0 /\ Len(d) = Len(b) - 1
        /\ \A i \in 1..Len(b) - 1 : d[i] = b[i + 1]
    OBVIOUS
  <1>2. Len(h) \in Nat /\ Len(b) \in Nat /\ Len(Line(h, b)) = Len(h) + Len(b)
    BY LineTypes
  <1> HIDE DEF d
  <1>3. Len(Line(h, d)) = Len(h) + (Len(b) - 1)
    BY <1>1, LineTypes
  <1>4. back \in [1..Len(Line(h, d)) -> 1..Len(Line(h, b))]
    BY <1>2, <1>3
  <1>5. \A i \in 1..Len(Line(h, d)) :
            /\ back[i] = IF i <= Len(h) THEN i ELSE i + 1
            /\ back[i] \in 1..Len(Line(h, b))
    BY <1>4
  <1> HIDE DEF back
  <1>6. ASSUME NEW i \in 1..Len(Line(h, d)) PROVE Line(h, d)[i] = Line(h, b)[back[i]]
    <2>1. Line(h, d)[i] = IF i <= Len(h) THEN h[i].call ELSE d[i - Len(h)]
      BY <1>1, LineAt
    <2>2. Line(h, b)[back[i]] = IF back[i] <= Len(h) THEN h[back[i]].call
                                                     ELSE b[back[i] - Len(h)]
      BY <1>5, LineAt
    <2>3. CASE i <= Len(h)
      BY <1>5, <2>1, <2>2, <2>3
    <2>4. CASE ~(i <= Len(h))
      <3>1. back[i] = i + 1
        BY <1>5, <2>4
      <3>2. PICK k \in 1..Len(b) - 1 : i = Len(h) + k
        <4>1. i - Len(h) \in 1..Len(b) - 1 /\ i = Len(h) + (i - Len(h))
          BY <1>2, <1>3, <2>4
        <4> QED BY <4>1
      <3>3. Line(h, d)[i] = d[k]
        <4>1. i - Len(h) = k
          BY <1>2, <3>2
        <4> QED BY <2>1, <2>4, <4>1
      <3>4. Line(h, b)[back[i]] = b[k + 1]
        <4>1. ~(back[i] <= Len(h)) /\ back[i] - Len(h) = k + 1
          BY <1>2, <3>1, <3>2
        <4> QED BY <2>2, <4>1
      <3> QED BY <1>1, <3>3, <3>4
    <2> QED BY <2>3, <2>4
  <1>7. \A i, j \in 1..Len(Line(h, d)) : i <= back[i] /\ (back[i] = back[j] => i = j)
    BY <1>2, <1>3, <1>5
  <1>8. Shrunk(Line(h, b), Line(h, d))
    BY <1>4, <1>6, <1>7 DEF Shrunk
  <1> QED BY <1>8 DEF d

\* The reports on their way are lost with the stream.
LEMMA LineLost ==
    ASSUME NEW h \in Seq(Report), NEW b \in Seq(Calls)
    PROVE  Shrunk(Line(h, b), Line(<<>>, b))
  <1> DEFINE e == <<>>
             back == [i \in 1..Len(Line(e, b)) |-> i + Len(h)]
  <1>1. e \in Seq(Report) /\ Len(e) = 0
    OBVIOUS
  <1>2. Len(h) \in Nat /\ Len(b) \in Nat /\ Len(Line(h, b)) = Len(h) + Len(b)
    BY LineTypes
  <1> HIDE DEF e
  <1>3. Len(Line(e, b)) = Len(b)
    <2>1. Len(Line(e, b)) = Len(e) + Len(b)
      BY <1>1, LineTypes
    <2> QED BY <1>1, <1>2, <2>1
  <1>4. back \in [1..Len(Line(e, b)) -> 1..Len(Line(h, b))]
    BY <1>2, <1>3
  <1>5. \A i \in 1..Len(Line(e, b)) : back[i] = i + Len(h) /\ back[i] = Len(h) + i
    BY <1>2, <1>4
  <1> HIDE DEF back
  <1>6. ASSUME NEW i \in 1..Len(Line(e, b)) PROVE Line(e, b)[i] = Line(h, b)[back[i]]
    <2>1. Line(e, b)[i] = IF i <= Len(e) THEN e[i].call ELSE b[i - Len(e)]
      BY <1>1, LineAt
    <2>2. ~(i <= Len(e)) /\ i - Len(e) = i
      BY <1>1, <1>2, <1>3
    <2>3. Line(h, b)[Len(h) + i] = b[i]
      BY <1>3, LineTypes
    <2> QED BY <1>5, <2>1, <2>2, <2>3
  <1>7. \A i, j \in 1..Len(Line(e, b)) : i <= back[i] /\ (back[i] = back[j] => i = j)
    BY <1>2, <1>3, <1>5
  <1>8. Shrunk(Line(h, b), Line(e, b))
    BY <1>4, <1>6, <1>7 DEF Shrunk
  <1> QED BY <1>8 DEF e

(***************************************************************************)
(* The inductive invariant.                                                *)
(***************************************************************************)

\* Before the first pushed report, the device owes one reply to a request that
\* was sent, and no other.
Exact == pushes = 0 => /\ NoRepeat(Owed)
                       /\ \A i \in 1..Len(Owed) : Owed[i] \in Calls /\ mode[Owed[i]] # "none"

\* A reply carries the command byte of its request.
Stamped == \A i \in 1..Len(toHost) :
              IF toHost[i].call = NoCall THEN toHost[i].cmd \in PushCmds
                                         ELSE toHost[i].cmd = Cmd[toHost[i].call]

\* Sends that gave up left reads in the line; behind the read of one that is
\* still waiting there is only the pump's.
ReadsOK ==
    /\ \A i \in 1..Len(reads) : reads[i] # Pump => pc[reads[i]] \in {"reading", "done"}
    /\ \A i, j \in 1..Len(reads) :
          i < j /\ reads[i] # Pump /\ pc[reads[i]] = "reading" => reads[j] = Pump

\* While sends read for themselves, the read that a reply is meant for is no
\* nearer to the front of the reads than the reply to the front of the replies.
Era == /\ pushes = 0 /\ \A c \in Calls : mode[c] # "pumped"
       /\ closed => \E c \in Calls : pc[c] = "reading"
LinedUp ==
    Era => \A i \in 1..Len(Owed) :
              \/ pc[Owed[i]] = "writing" /\ i <= Len(reads) + 1
              \/ \E p \in 1..Len(reads) : i <= p /\ reads[p] = Owed[i]

\* A send that reads for itself started before the pump and all pumped sends.
IdleAlone == \A c, d \in Calls : pc[c] \in {"writing", "reading"} => mode[d] # "pumped"

\* A reply still to come is the running send's, or a timeout of that command, or
\* the end of the connection, has put the replies behind the sends.
Shifted(f) == \E g \in Calls : Cmd[g] = Cmd[f] /\ outcome[g].how = "timeout"
Excused(f) ==
    \/ Awaiting(f)
    \/ outcome[f].how \in {"timeout", "reply"} /\ Shifted(f)
    \/ outcome[f].how = "closed" /\ \A c \in Calls : ~Awaiting(c)
Blamed == pushes = 0 => \A i \in 1..Len(Owed) : Excused(Owed[i])

(***************************************************************************)
(* What a step does to the sends, the reads and the line of replies.       *)
(***************************************************************************)
Begins(c) ==
    /\ pc[c] = "queued" /\ Running(c) /\ ~closed
    /\ UNCHANGED <<reads, outcome, closed, pushes>>
    /\ inbox' = Append(inbox, c) /\ toHost' = toHost
    /\ \/ /\ ~pumpStarted
          /\ pc' = [pc EXCEPT ![c] = "writing"] /\ mode' = [mode EXCEPT ![c] = "idle"]
       \/ pc' = [pc EXCEPT ![c] = "pending"] /\ mode' = [mode EXCEPT ![c] = "pumped"]

Joins(c) ==
    /\ pc[c] = "idle" /\ UNCHANGED <<mode, reads, toHost, inbox, closed, pushes>>
    /\ \/ pc' = [pc EXCEPT ![c] = "queued"] /\ outcome' = outcome
       \/ /\ closed /\ pc' = [pc EXCEPT ![c] = "done"]
          /\ outcome' = [outcome EXCEPT ![c] = Failure("closed")]

ReadsOwn(c) ==
    /\ pc[c] = "writing" /\ ~closed /\ reads' = Append(reads, c)
    /\ pc' = [pc EXCEPT ![c] = "reading"]
    /\ UNCHANGED <<outcome, mode, closed, toHost, inbox, pushes>>

Ends(c, o) ==
    /\ Running(c) /\ pc' = [pc EXCEPT ![c] = "done"] /\ mode' = mode
    /\ outcome' = [outcome EXCEPT ![c] = o] /\ o.how \in {"timeout", "write", "closed"}
    /\ \A d \in Calls : ~Awaiting(d)'
    /\ Shrunk(Owed, Owed') /\ reads' \in {reads, <<>>}
    /\ reads' = <<>> => closed' \/ reads = <<>>
    /\ closed => closed'
    /\ \/ o.how = "timeout" /\ pc[c] \in {"reading", "pending"} /\ closed' = closed
       \/ o.how = "closed" /\ closed'
       \/ o.how = "write" /\ (NoRepeat(Owed) => ~On(Owed', c)) /\ closed' = closed
    /\ pushes' = pushes

Delivers ==
    /\ reads # <<>> /\ toHost # <<>>
    /\ toHost' = Tail(toHost) /\ UNCHANGED <<inbox, closed, pushes>>
    /\ \/ reads' = Tail(reads)
       \/ Head(reads) = Pump /\ reads' = Append(Tail(reads), Pump)
    /\ \/ UNCHANGED <<pc, mode, outcome>>
       \/ \E c \in Calls :
             /\ Running(c) /\ pc' = [pc EXCEPT ![c] = "done"] /\ mode' = mode
             /\ outcome' = [outcome EXCEPT ![c] = Reply(Head(toHost))]
             /\ \A d \in Calls : ~Awaiting(d)'
             /\ \/ Head(reads) = c /\ pc[c] = "reading"
                \/ pending = c /\ Head(toHost).cmd = Cmd[c]

Rests ==
    /\ UNCHANGED <<pc, mode, outcome>>
    /\ closed => closed'
    /\ \/ reads' = reads
       \/ reads' = Append(reads, Pump)
       \/ reads' = <<>> /\ closed' /\ \A c \in Calls : pc[c] # "reading"
    /\ \/ pushes' = pushes /\ Shrunk(Owed, Owed')
       \/ pushes' = pushes + 1

LEMMA OwedTypes ==
    ASSUME IoOK
    PROVE  /\ Owed \in Seq(Calls \cup {NoCall}) /\ Len(Owed) = Len(toHost) + Len(inbox)
           /\ Len(toHost) \in Nat /\ Len(inbox) \in Nat /\ Len(Owed) \in Nat
           /\ DOMAIN Owed = 1..Len(Owed)
           /\ reads \in Seq(Calls \cup {Pump}) /\ Len(reads) \in Nat /\ pushes \in Nat
  <1>1. toHost \in Seq(Report) /\ inbox \in Seq(Calls)
    BY DEF IoOK
  <1>2. /\ Owed \in Seq(Calls \cup {NoCall}) /\ Len(Owed) = Len(toHost) + Len(inbox)
        /\ Len(toHost) \in Nat /\ Len(inbox) \in Nat
    BY <1>1, LineTypes DEF Owed
  <1>3. reads \in Seq(Calls \cup {Pump}) /\ pushes \in Nat
    BY DeviceAssumption DEF IoOK
  <1>4. Len(Owed) \in Nat /\ DOMAIN Owed = 1..Len(Owed) /\ Len(reads) \in Nat
    BY <1>2, <1>3
  <1> QED BY <1>2, <1>3, <1>4

\* The line of replies stays as it is when neither half changes.
LEMMA OwedSame ==
    ASSUME IoOK, IoOK', UNCHANGED <<toHost, inbox>>
    PROVE  Owed' = Owed /\ Shrunk(Owed, Owed')
  <1>1. Owed' = Owed
    BY DEF Owed
  <1>2. Owed \in Seq(Calls \cup {NoCall}) /\ Len(Owed) \in Nat
    BY OwedTypes
  <1>3. Shrunk(Owed, Owed)
    <2>1. PICK s \in Seq(Calls \cup {NoCall}) : s = Owed
      BY <1>2
    <2>2. Len(s) <= Len(s)
      BY <1>2, <2>1
    <2>3. Shrunk(s, s)
      BY <2>1, <2>2, ShrunkFirst
    <2> QED BY <2>1, <2>3
  <1> QED BY <1>1, <1>3

LEMMA EndsByFailure ==
    ASSUME Base, IoOK', NEW c \in Calls, Running(c), NEW why \in {"timeout", "write", "closed"},
           Settle(c, Failure(why)), Shrunk(Owed, Owed'), reads' \in {reads, <<>>},
           reads' = <<>> => closed' \/ reads = <<>>, closed => closed', pushes' = pushes,
           \/ why = "timeout" /\ pc[c] \in {"reading", "pending"} /\ closed' = closed
           \/ why = "closed" /\ closed'
           \/ why = "write" /\ (NoRepeat(Owed) => ~On(Owed', c)) /\ closed' = closed
    PROVE  \E o \in Outcomes : Ends(c, o)
  <1>1. PICK o \in Outcomes : o = Failure(why) /\ o.how = why
    BY OutcomeTypes
  <1>2. /\ mode' = mode /\ \A d \in Calls : ~Awaiting(d)'
        /\ pc' = [pc EXCEPT ![c] = "done"] /\ outcome' = [outcome EXCEPT ![c] = o]
    BY <1>1, Settled DEF Base
  <1> QED BY <1>1, <1>2 DEF Ends

LEMMA StepKinds ==
    ASSUME Base, Base', [Next]_vars
    PROVE  \/ \E c \in Calls : \/ Begins(c) \/ Joins(c) \/ ReadsOwn(c)
                               \/ \E o \in Outcomes : Ends(c, o)
           \/ Delivers \/ Rests
  <1>0. CallsOK /\ IoOK /\ ArmedOK /\ FlagsOK /\ IoOK' /\ CallsOK'
    BY DEF Base
  <1>1. UNCHANGED <<toHost, inbox>> => Owed' = Owed /\ Shrunk(Owed, Owed')
    BY <1>0, OwedSame
  <1>2. toHost \in Seq(Report) /\ inbox \in Seq(Calls)
        /\ Owed \in Seq(Calls \cup {NoCall}) /\ Owed' \in Seq(Calls \cup {NoCall})
    <2>1. (Owed \in Seq(Calls \cup {NoCall}))'
      <3>1. toHost' \in Seq(Report) /\ inbox' \in Seq(Calls)
        BY <1>0 DEF IoOK
      <3> QED BY <3>1, LineTypes DEF Owed
    <2> QED BY <1>0, <2>1, OwedTypes DEF IoOK
  <1>3. ASSUME NEW c \in Calls, Send(c) PROVE Joins(c)
    BY <1>3 DEF Send, Joins
  <1>4. ASSUME NEW c \in Calls, StartIdle(c) \/ StartPumped(c) PROVE Begins(c)
    BY <1>4 DEF StartIdle, StartPumped, Begins
  <1>5. ASSUME NEW c \in Calls, StartClosed(c) PROVE \E o \in Outcomes : Ends(c, o)
    <2>1. /\ Running(c) /\ Settle(c, Failure("closed")) /\ closed'
          /\ UNCHANGED <<reads, toHost, inbox, pushes>>
      BY <1>5 DEF StartClosed
    <2>2. "closed" \in {"timeout", "write", "closed"} /\ reads' \in {reads, <<>>}
          /\ (reads' = <<>> => closed' \/ reads = <<>>)
      BY <2>1
    <2> QED BY <1>0, <1>1, <2>1, <2>2, EndsByFailure
  <1>6. ASSUME NEW c \in Calls, Written(c)
        PROVE  ReadsOwn(c) \/ \E o \in Outcomes : Ends(c, o)
    <2>1. CASE ~closed
      BY <1>6, <2>1 DEF Written, ReadsOwn
    <2>2. CASE closed
      <3>1. /\ Settle(c, Failure("closed")) /\ closed'
            /\ UNCHANGED <<reads, toHost, inbox, pushes>>
        BY <1>6, <2>2 DEF Written
      <3>2. Running(c)
        BY <1>0, <1>6 DEF Written, CallsOK, Placed, Awaiting
      <3>3. "closed" \in {"timeout", "write", "closed"} /\ reads' \in {reads, <<>>}
            /\ (reads' = <<>> => closed' \/ reads = <<>>)
        BY <3>1
      <3> QED BY <1>0, <1>1, <3>1, <3>2, <3>3, EndsByFailure
    <2> QED BY <2>1, <2>2
  <1>7. ASSUME NEW c \in Calls, WriteFails(c) PROVE \E o \in Outcomes : Ends(c, o)
    <2>1. /\ Settle(c, Failure("write")) /\ closed' = closed /\ toHost' = toHost
          /\ UNCHANGED <<reads, pushes>> /\ inbox # <<>> /\ inbox[Len(inbox)] = c
          /\ inbox' = SubSeq(inbox, 1, Len(inbox) - 1)
      BY <1>7 DEF WriteFails
    <2>2. Running(c)
      BY <1>0, <1>7 DEF WriteFails, CallsOK, Placed, Awaiting
    <2>3. /\ Len(Owed') = Len(Owed) - 1 /\ Owed[Len(Owed)] = c
          /\ \A i \in 1..Len(Owed') : Owed'[i] = Owed[i]
      BY <1>2, <2>1, LineCut DEF Owed
    <2>4. Len(Owed) \in Nat /\ Len(Owed') \in Nat /\ DOMAIN Owed = 1..Len(Owed)
          /\ DOMAIN Owed' = 1..Len(Owed')
      BY <1>2
    <2>5. Shrunk(Owed, Owed')
      <3>1. Len(Owed') <= Len(Owed)
        BY <2>3, <2>4
      <3> QED BY <1>2, <2>3, <3>1, ShrunkFirst
    <2>6. NoRepeat(Owed) => ~On(Owed', c)
      <3> SUFFICES ASSUME NoRepeat(Owed), On(Owed', c) PROVE FALSE
        OBVIOUS
      <3>1. PICK i \in 1..Len(Owed') : Owed'[i] = c
        BY <2>4 DEF On
      <3>2. i \in DOMAIN Owed /\ Len(Owed) \in DOMAIN Owed /\ i # Len(Owed)
        BY <2>3, <2>4, <3>1
      <3> QED BY <2>3, <3>1, <3>2 DEF NoRepeat
    <2>7. "write" \in {"timeout", "write", "closed"} /\ reads' \in {reads, <<>>}
          /\ (reads' = <<>> => closed' \/ reads = <<>>)
      BY <2>1
    <2> QED BY <1>0, <2>1, <2>2, <2>5, <2>6, <2>7, EndsByFailure
  <1>8. ASSUME NEW c \in Calls, TimeoutPumped(c) \/ TimeoutIdle(c)
        PROVE  \E o \in Outcomes : Ends(c, o)
    <2>1. /\ Settle(c, Failure("timeout")) /\ closed' = closed
          /\ UNCHANGED <<reads, toHost, inbox, pushes>> /\ pc[c] \in {"reading", "pending"}
      BY <1>8 DEF TimeoutPumped, TimeoutIdle
    <2>2. Running(c)
      BY <1>0, <2>1 DEF CallsOK, Placed, Awaiting
    <2>3. "timeout" \in {"timeout", "write", "closed"} /\ reads' \in {reads, <<>>}
          /\ (reads' = <<>> => closed' \/ reads = <<>>)
      BY <2>1
    <2> QED BY <1>0, <1>1, <2>1, <2>2, <2>3, EndsByFailure
  <1>9. ASSUME Subscribe \/ Abort \/ UNCHANGED vars PROVE Rests
    <2>1. /\ UNCHANGED <<pc, mode, outcome, toHost, inbox, pushes>> /\ (closed => closed')
          /\ (reads' = reads \/ reads' = Append(reads, Pump))
      BY <1>9 DEF Subscribe, Abort, vars, callVars
    <2> QED BY <1>1, <2>1 DEF Rests
  <1>10. CASE DeliverIdle
    <2>1. /\ reads # <<>> /\ toHost # <<>> /\ reads' = Tail(reads) /\ toHost' = Tail(toHost)
          /\ UNCHANGED <<inbox, closed, pushes>> /\ Head(reads) # Pump
      BY <1>10 DEF DeliverIdle
    <2>2. CASE pc[Head(reads)] = "reading"
      <3>1. PICK c \in Calls, r \in Report : c = Head(reads) /\ r = Head(toHost)
        <4>1. Head(reads) \in Calls
          BY <1>0, <2>1 DEF IoOK
        <4>2. Head(toHost) \in Report
          BY <1>2, <2>1
        <4> QED BY <4>1, <4>2
      <3>2. Running(c) /\ Settle(c, Reply(r)) /\ pc[c] = "reading"
        BY <1>0, <1>10, <2>2, <3>1 DEF DeliverIdle, CallsOK, Placed, Awaiting
      <3>3. Reply(r) \in Outcomes /\ Reply(r).how # "none"
        BY OutcomeTypes
      <3>4. /\ mode' = mode /\ \A d \in Calls : ~Awaiting(d)'
            /\ pc' = [pc EXCEPT ![c] = "done"] /\ outcome' = [outcome EXCEPT ![c] = Reply(r)]
        BY <1>0, <3>2, <3>3, Settled
      <3> QED BY <2>1, <3>1, <3>2, <3>4 DEF Delivers
    <2>3. CASE pc[Head(reads)] # "reading"
      <3>1. UNCHANGED <<pc, mode, outcome>>
        BY <1>10, <2>3 DEF DeliverIdle, callVars
      <3> QED BY <2>1, <3>1 DEF Delivers
    <2> QED BY <2>2, <2>3 DEF Delivers
  <1>11. CASE DeliverPump
    <2>1. /\ reads # <<>> /\ toHost # <<>> /\ Head(reads) = Pump /\ toHost' = Tail(toHost)
          /\ UNCHANGED <<inbox, closed, pushes>>
          /\ (reads' = Tail(reads) \/ reads' = Append(Tail(reads), Pump))
      BY <1>11 DEF DeliverPump
    <2>2. PICK r \in Report : r = Head(toHost)
      BY <1>2, <2>1
    <2>3. CASE PumpMatches(r)
      <3>1. PICK c \in Calls : c = pending /\ r.cmd = Cmd[c]
        BY <1>0, <2>3 DEF PumpMatches, ArmedOK
      <3>2. Settle(c, Reply(r))
        BY <1>11, <2>2, <2>3, <3>1 DEF DeliverPump
      <3>3. Running(c)
        BY <1>0, <2>3, <3>1 DEF PumpMatches, ArmedOK, CallsOK, Placed, Awaiting
      <3>4. Reply(r) \in Outcomes /\ Reply(r).how # "none"
        BY OutcomeTypes
      <3>5. /\ mode' = mode /\ \A d \in Calls : ~Awaiting(d)'
            /\ pc' = [pc EXCEPT ![c] = "done"] /\ outcome' = [outcome EXCEPT ![c] = Reply(r)]
        BY <1>0, <3>2, <3>3, <3>4, Settled
      <3> QED BY <2>1, <2>2, <3>1, <3>3, <3>5 DEF Delivers
    <2>4. CASE ~PumpMatches(r)
      <3>1. UNCHANGED <<pc, mode, outcome>>
        BY <1>11, <2>2, <2>4 DEF DeliverPump, callVars
      <3> QED BY <2>1, <3>1 DEF Delivers
    <2> QED BY <2>3, <2>4
  <1>12. CASE EndStream \/ ReadFailsClosed
    <2>1. /\ closed' /\ reads' = <<>> /\ toHost' = <<>> /\ UNCHANGED <<inbox, pushes>>
      BY <1>12 DEF EndStream, ReadFailsClosed
    <2>2. Shrunk(Owed, Owed')
      BY <1>2, <2>1, LineLost DEF Owed
    <2>3. \/ UNCHANGED callVars /\ ~ \E c \in Calls : Running(c) /\ pc[c] = "reading"
          \/ queue # <<>> /\ Settle(Head(queue), Failure("closed"))
      BY <1>12 DEF EndStream, ReadFailsClosed, Running
    <2>4. CASE UNCHANGED callVars /\ ~ \E c \in Calls : Running(c) /\ pc[c] = "reading"
      <3>1. \A c \in Calls : pc[c] # "reading"
        BY <1>0, <2>4 DEF CallsOK, Placed, Awaiting
      <3> QED BY <2>1, <2>2, <2>4, <3>1 DEF Rests, callVars
    <2>5. CASE queue # <<>> /\ Settle(Head(queue), Failure("closed"))
      <3>1. PICK c \in Calls : c = Head(queue)
        BY <1>0, <2>5 DEF CallsOK
      <3>2. Running(c) /\ Settle(c, Failure("closed"))
        BY <2>5, <3>1 DEF Running
      <3>3. "closed" \in {"timeout", "write", "closed"} /\ reads' \in {reads, <<>>}
            /\ (reads' = <<>> => closed' \/ reads = <<>>)
        BY <2>1
      <3> QED BY <1>0, <2>1, <2>2, <3>2, <3>3, EndsByFailure
    <2> QED BY <2>3, <2>4, <2>5
  <1>13. CASE DeviceAnswers
    <2>1. /\ inbox # <<>> /\ inbox' = Tail(inbox)
          /\ UNCHANGED <<pc, mode, outcome, closed, reads, pushes>>
      BY <1>13 DEF DeviceAnswers, callVars
    <2>2. CASE Head(inbox) \in Mute
      <3>1. toHost' = toHost
        BY <1>13, <2>2 DEF DeviceAnswers
      <3>2. Shrunk(Owed, Owed')
        BY <1>2, <2>1, <3>1, LineSkipped DEF Owed
      <3> QED BY <2>1, <3>2 DEF Rests
    <2>3. CASE Head(inbox) \notin Mute
      <3>1. Head(inbox) \in Calls
        BY <1>2, <2>1
      <3>2. PICK r \in Report : r = [call |-> Head(inbox), cmd |-> Cmd[Head(inbox)]]
        BY <3>1 DEF Report
      <3>3. toHost' = Append(toHost, r) /\ r.call = Head(inbox)
        BY <1>13, <2>3, <3>2 DEF DeviceAnswers
      <3>4. Shrunk(Owed, Owed')
        BY <1>2, <2>1, <3>3, LineAnswered DEF Owed
      <3> QED BY <2>1, <3>4 DEF Rests
    <2> QED BY <2>2, <2>3
  <1>14. CASE DevicePushes
    BY <1>14 DEF DevicePushes, Rests, callVars
  <1> QED BY <1>3, <1>4, <1>5, <1>6, <1>7, <1>8, <1>9, <1>10, <1>11, <1>12, <1>13, <1>14
          DEF Next, ClientStep

LEMMA CallTypes ==
    ASSUME Base
    PROVE  /\ IoOK /\ NoCall \notin Calls /\ Pump \notin Calls
           /\ pc \in [Calls -> Places] /\ mode \in [Calls -> {"none", "idle", "pumped"}]
           /\ outcome \in [Calls -> Outcomes]
           /\ \A c, d \in Calls : Running(c) /\ Awaiting(d) => c = d
           /\ \A c \in Calls : pc[c] \in {"idle", "queued"} => mode[c] = "none"
           /\ \A c \in Calls : pc[c] \in {"writing", "reading"} => mode[c] = "idle"
           /\ \A c \in Calls : pc[c] = "pending" => mode[c] = "pumped"
           /\ \A c \in Calls : pc[c] = "done" <=> outcome[c].how # "none"
           /\ \A c \in Calls : outcome[c].how = "closed" => closed
           /\ \A c \in Calls : mode[c] = "pumped" => pumpStarted
  <1>1. CallsOK /\ IoOK /\ FlagsOK
    BY DEF Base
  <1>2. \A c, d \in Calls : Running(c) /\ Awaiting(d) => c = d
    BY <1>1 DEF CallsOK, Placed, Running
  <1> QED BY <1>1, <1>2, CallsAssumption DEF CallsOK, Placed, FlagsOK

LEMMA ReadsStep ==
    ASSUME Base, Base', ReadsOK, [Next]_vars
    PROVE  ReadsOK'
  <1>1. /\ IoOK /\ NoCall \notin Calls /\ Pump \notin Calls /\ pc \in [Calls -> Places]
        /\ \A c, d \in Calls : Running(c) /\ Awaiting(d) => c = d
    BY CallTypes
  <1>2. reads \in Seq(Calls \cup {Pump}) /\ Len(reads) \in Nat
    BY <1>1, OwedTypes
  <1>3. \A i \in 1..Len(reads) : reads[i] # Pump =>
            reads[i] \in Calls /\ pc[reads[i]] \in {"reading", "done"}
    BY <1>2 DEF ReadsOK
  <1>4. ASSUME NEW c \in Calls, Begins(c) \/ Joins(c) PROVE ReadsOK'
    <2>1. /\ pc[c] \in {"queued", "idle"} /\ reads' = reads
          /\ \A d \in Calls : d # c => pc'[d] = pc[d]
      BY <1>1, <1>4 DEF Begins, Joins
    <2>2. \A i \in 1..Len(reads) : reads[i] # Pump => pc'[reads[i]] = pc[reads[i]]
      BY <1>3, <2>1
    <2> QED BY <2>1, <2>2 DEF ReadsOK
  <1>5. ASSUME NEW c \in Calls, ReadsOwn(c) PROVE ReadsOK'
    <2>1. /\ pc[c] = "writing" /\ reads' = Append(reads, c) /\ pc'[c] = "reading"
          /\ \A d \in Calls : d # c => pc'[d] = pc[d]
      BY <1>1, <1>5 DEF ReadsOwn
    <2>2. Running(c)
      BY <2>1 DEF Base, CallsOK, Placed, Awaiting
    <2>3. \A i \in 1..Len(reads) : reads[i] # Pump => pc[reads[i]] = "done" /\ reads[i] # c
      BY <1>1, <1>3, <2>1, <2>2 DEF Awaiting
    <2>4. /\ Len(reads') = Len(reads) + 1 /\ reads'[Len(reads) + 1] = c
          /\ \A i \in 1..Len(reads) : reads'[i] = reads[i]
      BY <1>2, <2>1
    <2>5. ASSUME NEW i \in 1..Len(reads')
          PROVE  /\ reads'[i] # Pump => pc'[reads'[i]] \in {"reading", "done"}
                 /\ i \in 1..Len(reads) => (reads'[i] = Pump \/ pc'[reads'[i]] = "done")
      <3>1. i \in 1..Len(reads) \/ i = Len(reads) + 1
        BY <1>2, <2>4
      <3> QED BY <1>2, <1>3, <2>1, <2>3, <2>4, <3>1
    <2>6. ASSUME NEW i \in 1..Len(reads'), NEW j \in 1..Len(reads'), i < j,
                 reads'[i] # Pump, pc'[reads'[i]] = "reading"
          PROVE  FALSE
      <3>1. i \in 1..Len(reads)
        BY <1>2, <2>4, <2>6
      <3> QED BY <2>5, <2>6, <3>1
    <2> QED BY <2>5, <2>6 DEF ReadsOK
  <1>6. ASSUME NEW c \in Calls, NEW o \in Outcomes, Ends(c, o) PROVE ReadsOK'
    <2>1. /\ (reads' = reads \/ reads' = <<>>) /\ pc'[c] = "done"
          /\ \A d \in Calls : d # c => pc'[d] = pc[d]
      BY <1>1, <1>6 DEF Ends
    <2>2. CASE reads' = <<>>
      BY <2>2 DEF ReadsOK
    <2>3. CASE reads' = reads
      <3>1. \A i \in 1..Len(reads) : reads[i] # Pump =>
                pc'[reads[i]] = "done" \/ pc'[reads[i]] = pc[reads[i]]
        BY <1>3, <2>1
      <3> QED BY <2>3, <3>1 DEF ReadsOK
    <2> QED BY <2>1, <2>2, <2>3
  <1>7. CASE Delivers
    <2>1. /\ reads # <<>>
          /\ (reads' = Tail(reads) \/ reads' = Append(Tail(reads), Pump))
          /\ \A d \in Calls : pc'[d] = pc[d] \/ pc'[d] = "done"
      BY <1>1, <1>7 DEF Delivers
    <2>2. \A i \in 1..Len(reads') : \/ i \in 1..Len(reads) - 1 /\ reads'[i] = reads[i + 1]
                                    \/ reads'[i] = Pump
      BY <1>2, <2>1
    <2>3. \A i \in 1..Len(reads') : reads'[i] # Pump =>
             /\ i + 1 \in 1..Len(reads) /\ reads'[i] = reads[i + 1]
             /\ pc'[reads'[i]] \in {"reading", "done"}
             /\ pc'[reads'[i]] = "reading" => pc[reads'[i]] = "reading"
      BY <1>2, <1>3, <2>1, <2>2
    <2>4. ASSUME NEW i \in 1..Len(reads'), NEW j \in 1..Len(reads'), i < j,
                 reads'[i] # Pump, pc'[reads'[i]] = "reading", reads'[j] # Pump
          PROVE  FALSE
      <3>1. /\ i + 1 \in 1..Len(reads) /\ reads'[i] = reads[i + 1]
            /\ pc[reads[i + 1]] = "reading" /\ reads[i + 1] # Pump
        BY <2>3, <2>4
      <3>2. j + 1 \in 1..Len(reads) /\ reads'[j] = reads[j + 1] /\ reads[j + 1] # Pump
        BY <2>3, <2>4
      <3>3. i + 1 < j + 1
        BY <2>4
      <3> QED BY <3>1, <3>2, <3>3 DEF ReadsOK
    <2> QED BY <2>3, <2>4 DEF ReadsOK
  <1>8. CASE Rests
    <2>1. /\ pc' = pc
          /\ (reads' = reads \/ reads' = Append(reads, Pump) \/ reads' = <<>>)
      BY <1>8 DEF Rests
    <2>2. \A i \in 1..Len(reads') : reads'[i] # Pump =>
             i \in 1..Len(reads) /\ reads'[i] = reads[i]
      BY <1>2, <2>1
    <2> QED BY <2>1, <2>2 DEF ReadsOK
  <1> QED BY <1>4, <1>5, <1>6, <1>7, <1>8, StepKinds

LEMMA AloneStep ==
    ASSUME Base, Base', IdleAlone, [Next]_vars
    PROVE  IdleAlone'
  <1>1. /\ pc \in [Calls -> Places] /\ mode \in [Calls -> {"none", "idle", "pumped"}]
        /\ \A c, d \in Calls : Running(c) /\ Awaiting(d) => c = d
        /\ \A c \in Calls : mode[c] = "pumped" => pumpStarted
    BY CallTypes
  <1>2. ASSUME NEW c \in Calls, Begins(c) PROVE IdleAlone'
    <2>1. \A d \in Calls : d # c => pc'[d] = pc[d] /\ mode'[d] = mode[d]
      BY <1>1, <1>2 DEF Begins
    <2>2. \A d \in Calls : d # c => pc[d] \notin {"writing", "reading"}
      BY <1>1, <1>2 DEF Begins, Awaiting
    <2>3. CASE ~pumpStarted /\ mode' = [mode EXCEPT ![c] = "idle"]
      BY <1>1, <2>1, <2>3 DEF IdleAlone
    <2>4. CASE pc' = [pc EXCEPT ![c] = "pending"]
      BY <1>1, <2>1, <2>2, <2>4 DEF IdleAlone
    <2> QED BY <1>2, <2>3, <2>4 DEF Begins
  <1>3. ASSUME NEW c \in Calls, Joins(c) PROVE IdleAlone'
    BY <1>1, <1>3 DEF Joins, IdleAlone
  <1>4. ASSUME NEW c \in Calls, ReadsOwn(c) PROVE IdleAlone'
    BY <1>1, <1>4 DEF ReadsOwn, IdleAlone
  <1>5. ASSUME NEW c \in Calls, NEW o \in Outcomes, Ends(c, o) PROVE IdleAlone'
    BY <1>1, <1>5 DEF Ends, IdleAlone
  <1>6. CASE Delivers
    BY <1>1, <1>6 DEF Delivers, IdleAlone
  <1>7. CASE Rests
    BY <1>7 DEF Rests, IdleAlone
  <1> QED BY <1>2, <1>3, <1>4, <1>5, <1>6, <1>7, StepKinds

\* How the line of replies changes, without a push.
LEMMA OwedStep ==
    ASSUME Base, Base', [Next]_vars, pushes' = 0
    PROVE  /\ pushes = 0
           /\ Len(Owed) \in Nat /\ Len(Owed') \in Nat
           /\ DOMAIN Owed = 1..Len(Owed) /\ DOMAIN Owed' = 1..Len(Owed')
           /\ \A c \in Calls : Begins(c) =>
                 /\ Len(Owed') = Len(Owed) + 1 /\ Owed'[Len(Owed) + 1] = c
                 /\ \A i \in 1..Len(Owed) : Owed'[i] = Owed[i]
           /\ Delivers => /\ Len(Owed) > 0 /\ Len(Owed') = Len(Owed) - 1
                          /\ Owed[1] = Head(toHost).call
                          /\ \A i \in 1..Len(Owed') : Owed'[i] = Owed[i + 1]
           /\ \/ \E c \in Calls : Begins(c)
              \/ Delivers
              \/ \A i \in 1..Len(Owed') : \E k \in 1..Len(Owed) : i <= k /\ Owed'[i] = Owed[k]
           /\ ~Delivers /\ (\A c \in Calls : ~Begins(c)) /\ NoRepeat(Owed) => NoRepeat(Owed')
  <1>1. /\ Owed \in Seq(Calls \cup {NoCall}) /\ Len(Owed) \in Nat
        /\ DOMAIN Owed = 1..Len(Owed) /\ pushes \in Nat
        /\ toHost \in Seq(Report) /\ inbox \in Seq(Calls)
    <2>1. IoOK
      BY DEF Base
    <2> QED BY <2>1, OwedTypes DEF IoOK
  <1>2. /\ Owed' \in Seq(Calls \cup {NoCall}) /\ Len(Owed') \in Nat
        /\ DOMAIN Owed' = 1..Len(Owed')
    <2>1. toHost' \in Seq(Report) /\ inbox' \in Seq(Calls)
      BY DEF Base, IoOK
    <2>2. Owed' \in Seq(Calls \cup {NoCall})
      BY <2>1, LineTypes DEF Owed
    <2> QED BY <2>2
  <1>3. ASSUME NEW c \in Calls, Begins(c)
        PROVE  /\ Len(Owed') = Len(Owed) + 1 /\ Owed'[Len(Owed) + 1] = c
               /\ \A i \in 1..Len(Owed) : Owed'[i] = Owed[i]
    BY <1>1, <1>3, LineGrows DEF Begins, Owed
  <1>4. ASSUME Delivers
        PROVE  /\ Len(Owed) > 0 /\ Len(Owed') = Len(Owed) - 1 /\ Owed[1] = Head(toHost).call
               /\ \A i \in 1..Len(Owed') : Owed'[i] = Owed[i + 1]
    BY <1>1, <1>4, LineMoves DEF Delivers, Owed
  <1>5. ASSUME Shrunk(Owed, Owed')
        PROVE  /\ \A i \in 1..Len(Owed') : \E k \in 1..Len(Owed) : i <= k /\ Owed'[i] = Owed[k]
               /\ NoRepeat(Owed) => NoRepeat(Owed')
    BY <1>1, <1>2, <1>5, ShrunkKeeps
  <1>6. ASSUME NEW c \in Calls, Joins(c) \/ ReadsOwn(c) PROVE Shrunk(Owed, Owed')
    BY <1>6, OwedSame DEF Joins, ReadsOwn, Base
  <1>7. ASSUME NEW c \in Calls, NEW o \in Outcomes, Ends(c, o) PROVE Shrunk(Owed, Owed')
    BY <1>7 DEF Ends
  <1>8. Rests => Shrunk(Owed, Owed')
    BY <1>1 DEF Rests
  <1>9. pushes = 0
    <2>1. \/ \E c \in Calls : \/ Begins(c) \/ Joins(c) \/ ReadsOwn(c)
                              \/ \E o \in Outcomes : Ends(c, o)
          \/ Delivers \/ Rests
      BY StepKinds
    <2>2. pushes' = pushes \/ pushes' = pushes + 1
      BY <2>1 DEF Begins, Joins, ReadsOwn, Ends, Delivers, Rests
    <2> QED BY <1>1, <2>2
  <1>10. (\E c \in Calls : Begins(c)) \/ Delivers \/ Shrunk(Owed, Owed')
    BY <1>6, <1>7, <1>8, StepKinds
  <1> QED BY <1>1, <1>2, <1>3, <1>4, <1>5, <1>9, <1>10

\* A read path is never taken back.
LEMMA ModesKept ==
    ASSUME Base, Base', [Next]_vars
    PROVE  \A c \in Calls : mode[c] # "none" => mode'[c] = mode[c]
  <1>1. /\ mode \in [Calls -> {"none", "idle", "pumped"}]
        /\ \A c \in Calls : pc[c] \in {"idle", "queued"} => mode[c] = "none"
    BY CallTypes
  <1>2. \/ mode' = mode
        \/ \E c \in Calls : mode[c] = "none" /\ \E m \in {"idle", "pumped"} :
              mode' = [mode EXCEPT ![c] = m]
    BY <1>1, StepKinds DEF Begins, Joins, ReadsOwn, Ends, Delivers, Rests
  <1> QED BY <1>1, <1>2

LEMMA ExactStep ==
    ASSUME Base, Base', Exact, [Next]_vars
    PROVE  Exact'
  <1> SUFFICES ASSUME pushes' = 0
               PROVE  /\ NoRepeat(Owed')
                      /\ \A i \in 1..Len(Owed') : Owed'[i] \in Calls /\ mode'[Owed'[i]] # "none"
    BY DEF Exact
  <1>1. /\ pushes = 0 /\ Len(Owed) \in Nat /\ Len(Owed') \in Nat
        /\ DOMAIN Owed = 1..Len(Owed) /\ DOMAIN Owed' = 1..Len(Owed')
    BY OwedStep
  <1>2. NoRepeat(Owed) /\ \A i \in 1..Len(Owed) : Owed[i] \in Calls /\ mode[Owed[i]] # "none"
    BY <1>1 DEF Exact
  <1>3. \A c \in Calls : mode[c] # "none" => mode'[c] # "none"
    BY ModesKept
  <1>4. ASSUME NEW c \in Calls, Begins(c)
        PROVE  /\ NoRepeat(Owed')
               /\ \A i \in 1..Len(Owed') : Owed'[i] \in Calls /\ mode'[Owed'[i]] # "none"
    <2>1. /\ Len(Owed') = Len(Owed) + 1 /\ Owed'[Len(Owed) + 1] = c
          /\ \A i \in 1..Len(Owed) : Owed'[i] = Owed[i]
      BY <1>4, OwedStep
    <2>2. pc[c] = "queued" /\ mode'[c] # "none"
      BY <1>4, CallTypes DEF Begins
    <2>3. mode[c] = "none"
      BY <2>2, CallTypes
    <2>4. \A i \in 1..Len(Owed') : i \in 1..Len(Owed) \/ i = Len(Owed) + 1
      BY <1>1, <2>1
    <2>5. \A i \in 1..Len(Owed) : Owed[i] # c
      BY <1>2, <2>3
    <2>6. NoRepeat(Owed')
      BY <1>1, <1>2, <2>1, <2>4, <2>5 DEF NoRepeat
    <2> QED BY <1>2, <1>3, <2>1, <2>2, <2>4, <2>6
  <1>5. CASE Delivers
    <2>1. /\ Len(Owed') = Len(Owed) - 1 /\ \A i \in 1..Len(Owed') : Owed'[i] = Owed[i + 1]
      BY <1>5, OwedStep
    <2>2. \A i \in 1..Len(Owed') : i + 1 \in 1..Len(Owed)
      BY <1>1, <2>1
    <2>3. NoRepeat(Owed')
      <3> SUFFICES ASSUME NEW i \in 1..Len(Owed'), NEW j \in 1..Len(Owed'),
                          Owed'[i] = Owed'[j]
                   PROVE  i = j
        BY <1>1 DEF NoRepeat
      <3>1. i + 1 = j + 1
        BY <1>1, <1>2, <2>1, <2>2 DEF NoRepeat
      <3> QED BY <3>1
    <2> QED BY <1>2, <1>3, <2>1, <2>2, <2>3
  <1>6. CASE ~Delivers /\ \A c \in Calls : ~Begins(c)
    <2>1. NoRepeat(Owed')
      BY <1>2, <1>6, OwedStep
    <2>2. \A i \in 1..Len(Owed') : \E k \in 1..Len(Owed) : Owed'[i] = Owed[k]
      BY <1>6, OwedStep
    <2> QED BY <1>2, <1>3, <2>1, <2>2
  <1> QED BY <1>4, <1>5, <1>6

LEMMA StampedStep ==
    ASSUME Base, Base', Stamped, [Next]_vars
    PROVE  Stamped'
  <1>1. toHost \in Seq(Report) /\ inbox \in Seq(Calls) /\ Len(toHost) \in Nat
    BY DEF Base, IoOK
  <1>2. \/ toHost' = toHost \/ toHost' = <<>>
        \/ toHost # <<>> /\ toHost' = Tail(toHost)
        \/ /\ inbox # <<>>
           /\ toHost' = Append(toHost, [call |-> Head(inbox), cmd |-> Cmd[Head(inbox)]])
        \/ \E k \in PushCmds : toHost' = Append(toHost, [call |-> NoCall, cmd |-> k])
    BY DEF Next, ClientStep, Send, StartClosed, StartIdle, StartPumped, Written,
       WriteFails, TimeoutPumped, TimeoutIdle, Subscribe, DeliverIdle, DeliverPump, Abort,
       EndStream, ReadFailsClosed, DeviceAnswers, DevicePushes, vars
  <1>3. CASE toHost' = toHost \/ toHost' = <<>>
    BY <1>3 DEF Stamped
  <1>4. CASE toHost # <<>> /\ toHost' = Tail(toHost)
    <2>1. \A i \in 1..Len(toHost') : i + 1 \in 1..Len(toHost) /\ toHost'[i] = toHost[i + 1]
      BY <1>1, <1>4
    <2> QED BY <2>1 DEF Stamped
  <1>5. ASSUME NEW r \in Report, toHost' = Append(toHost, r),
               IF r.call = NoCall THEN r.cmd \in PushCmds ELSE r.cmd = Cmd[r.call]
        PROVE  Stamped'
    <2>1. \A i \in 1..Len(toHost') : \/ i \in 1..Len(toHost) /\ toHost'[i] = toHost[i]
                                     \/ toHost'[i] = r
      BY <1>1, <1>5
    <2> QED BY <1>5, <2>1 DEF Stamped
  <1>6. CASE /\ inbox # <<>>
             /\ toHost' = Append(toHost, [call |-> Head(inbox), cmd |-> Cmd[Head(inbox)]])
    <2>1. PICK c \in Calls : c = Head(inbox)
      BY <1>1, <1>6
    <2>2. PICK r \in Report : r = [call |-> c, cmd |-> Cmd[c]]
      BY DEF Report
    <2>3. toHost' = Append(toHost, r)
      BY <1>6, <2>1, <2>2
    <2>4. IF r.call = NoCall THEN r.cmd \in PushCmds ELSE r.cmd = Cmd[r.call]
      BY <2>2, CallsAssumption
    <2> QED BY <1>5, <2>3, <2>4
  <1>7. ASSUME NEW k \in PushCmds, toHost' = Append(toHost, [call |-> NoCall, cmd |-> k])
        PROVE  Stamped'
    <2>1. PICK r \in Report : r = [call |-> NoCall, cmd |-> k]
      BY DEF Report
    <2>2. IF r.call = NoCall THEN r.cmd \in PushCmds ELSE r.cmd = Cmd[r.call]
      BY <2>1
    <2> QED BY <1>5, <1>7, <2>1, <2>2
  <1> QED BY <1>2, <1>3, <1>4, <1>6, <1>7

\* A settled promise stays as it settled.
LEMMA OutcomesKept ==
    ASSUME Base, Base', [Next]_vars
    PROVE  \A c \in Calls : outcome[c].how # "none" => outcome'[c] = outcome[c]
  <1>1. /\ outcome \in [Calls -> Outcomes] /\ pc \in [Calls -> Places]
        /\ \A c \in Calls : pc[c] = "done" <=> outcome[c].how # "none"
        /\ \A c \in Calls : Running(c) => pc[c] # "done"
    <2>1. CallsOK
      BY DEF Base
    <2>2. \A c \in Calls : Running(c) => On(queue, c)
      BY <2>1 DEF CallsOK, Running, On
    <2> QED BY <2>1, <2>2 DEF CallsOK, Placed
  <1>2. \/ outcome' = outcome
        \/ \E c \in Calls, o \in Outcomes :
              pc[c] # "done" /\ outcome' = [outcome EXCEPT ![c] = o]
    <2>1. ASSUME NEW c \in Calls, Joins(c)
          PROVE  \/ outcome' = outcome
                 \/ \E o \in Outcomes : pc[c] # "done" /\ outcome' = [outcome EXCEPT ![c] = o]
      BY <2>1, OutcomeTypes DEF Joins
    <2>2. ASSUME NEW c \in Calls, Begins(c) \/ ReadsOwn(c) PROVE outcome' = outcome
      BY <2>2 DEF Begins, ReadsOwn
    <2>3. ASSUME NEW c \in Calls, NEW o \in Outcomes, Ends(c, o)
          PROVE  pc[c] # "done" /\ outcome' = [outcome EXCEPT ![c] = o]
      BY <1>1, <2>3 DEF Ends
    <2>4. ASSUME Delivers
          PROVE  \/ outcome' = outcome
                 \/ \E c \in Calls, o \in Outcomes :
                       pc[c] # "done" /\ outcome' = [outcome EXCEPT ![c] = o]
      <3>1. PICK r \in Report : r = Head(toHost)
        BY <2>4 DEF Delivers, Base, IoOK
      <3>2. Reply(r) \in Outcomes
        BY OutcomeTypes
      <3> QED BY <1>1, <2>4, <3>1, <3>2 DEF Delivers
    <2>5. Rests => outcome' = outcome
      BY DEF Rests
    <2> QED BY <2>1, <2>2, <2>3, <2>4, <2>5, StepKinds
  <1> QED BY <1>1, <1>2

LEMMA EraBefore ==
    ASSUME Base, Base', [Next]_vars, Era'
    PROVE  Era
  <1>1. pushes' = 0 /\ pushes = 0
    BY OwedStep DEF Era
  <1>2. \A c \in Calls : mode[c] # "pumped"
    BY ModesKept DEF Era
  <1>3. ASSUME closed PROVE \E c \in Calls : pc[c] = "reading"
    <2>1. closed'
      BY <1>3, StepKinds DEF Begins, Joins, ReadsOwn, Ends, Delivers, Rests
    <2>2. PICK c \in Calls : pc'[c] = "reading"
      BY <2>1 DEF Era
    <2>3. pc \in [Calls -> Places]
      BY CallTypes
    <2>4. pc[c] = "reading"
      BY <1>3, <2>2, <2>3, StepKinds DEF Begins, Joins, ReadsOwn, Ends, Delivers, Rests
    <2> QED BY <2>4
  <1> QED BY <1>1, <1>2, <1>3 DEF Era

LEMMA LinedUpStep ==
    ASSUME Base, Base', Exact, LinedUp, [Next]_vars
    PROVE  LinedUp'
  <1> SUFFICES ASSUME Era', NEW i \in 1..Len(Owed')
               PROVE  \/ pc'[Owed'[i]] = "writing" /\ i <= Len(reads') + 1
                      \/ \E p \in 1..Len(reads') : i <= p /\ reads'[p] = Owed'[i]
    BY DEF LinedUp
  <1>1. /\ pushes' = 0 /\ pushes = 0 /\ Len(Owed) \in Nat /\ Len(Owed') \in Nat
    BY OwedStep DEF Era
  <1>2. /\ \A k \in 1..Len(Owed) : \/ pc[Owed[k]] = "writing" /\ k <= Len(reads) + 1
                                   \/ \E p \in 1..Len(reads) : k <= p /\ reads[p] = Owed[k]
        /\ NoRepeat(Owed) /\ \A k \in 1..Len(Owed) : Owed[k] \in Calls
    BY <1>1, EraBefore DEF LinedUp, Exact
  <1>3. /\ pc \in [Calls -> Places]
        /\ \A c, d \in Calls : Running(c) /\ Awaiting(d) => c = d
    BY CallTypes
  <1>4. /\ reads \in Seq(Calls \cup {Pump}) /\ Len(reads) \in Nat
    <2>1. IoOK
      BY DEF Base
    <2> QED BY <2>1, OwedTypes
  <1>5. ASSUME NEW c \in Calls, Begins(c)
        PROVE  \/ pc'[Owed'[i]] = "writing" /\ i <= Len(reads') + 1
               \/ \E p \in 1..Len(reads') : i <= p /\ reads'[p] = Owed'[i]
    <2>1. /\ Len(Owed') = Len(Owed) + 1 /\ Owed'[Len(Owed) + 1] = c
          /\ \A k \in 1..Len(Owed) : Owed'[k] = Owed[k]
      BY <1>1, <1>5, OwedStep
    <2>2. reads' = reads /\ pc'[c] = "writing"
      <3>1. mode'[c] # "pumped"
        BY DEF Era
      <3>2. mode \in [Calls -> {"none", "idle", "pumped"}]
        BY CallTypes
      <3> QED BY <1>3, <1>5, <3>1, <3>2 DEF Begins
    <2>3. \A k \in 1..Len(Owed) : \E p \in 1..Len(reads) : k <= p /\ reads[p] = Owed[k]
      <3>1. \A d \in Calls : pc[d] # "writing"
        BY <1>3, <1>5 DEF Begins, Awaiting
      <3> QED BY <1>2, <3>1
    <2>4. CASE i \in 1..Len(Owed)
      BY <2>1, <2>2, <2>3, <2>4
    <2>5. CASE i = Len(Owed) + 1
      <3>1. i <= Len(reads) + 1
        <4>1. CASE Len(Owed) = 0
          BY <1>4, <2>5, <4>1
        <4>2. CASE Len(Owed) > 0
          <5>1. PICK p \in 1..Len(reads) : Len(Owed) <= p
            BY <1>1, <2>3, <4>2
          <5> QED BY <1>1, <1>4, <2>5, <5>1
        <4> QED BY <1>1, <4>1, <4>2
      <3> QED BY <2>1, <2>2, <2>5, <3>1
    <2> QED BY <1>1, <2>1, <2>4, <2>5
  <1>6. CASE Delivers
    <2>1. /\ Len(Owed') = Len(Owed) - 1 /\ Owed'[i] = Owed[i + 1]
      BY <1>1, <1>6, OwedStep
    <2>2. i + 1 \in 1..Len(Owed)
      BY <1>1, <2>1
    <2>3. /\ reads # <<>> /\ (reads' = Tail(reads) \/ reads' = Append(Tail(reads), Pump))
          /\ \A c \in Calls : pc'[c] = pc[c] \/ ~Awaiting(c)'
      BY <1>6 DEF Delivers
    <2>4. /\ \A p \in 1..Len(reads) - 1 : reads'[p] = reads[p + 1] /\ p \in 1..Len(reads')
          /\ Len(reads') \in Nat /\ Len(reads') >= Len(reads) - 1
      BY <1>4, <2>3
    <2>5. CASE pc[Owed[i + 1]] = "writing" /\ i + 1 <= Len(reads) + 1
      <3>1. PICK d \in Calls : d = Owed[i + 1]
        BY <1>2, <2>2
      <3>2. UNCHANGED pc \/ \E c \in Calls : Running(c) /\ pc[c] \in {"reading", "pending"}
        BY <1>6, CallsAssumption DEF Delivers, Base, ArmedOK
      <3>3. pc'[d] = "writing"
        BY <1>3, <2>5, <3>1, <3>2 DEF Awaiting
      <3>4. i <= Len(reads') + 1
        BY <1>4, <2>4, <2>5
      <3> QED BY <2>1, <3>1, <3>3, <3>4
    <2>6. ASSUME NEW p \in 1..Len(reads), i + 1 <= p, reads[p] = Owed[i + 1]
          PROVE  \E q \in 1..Len(reads') : i <= q /\ reads'[q] = Owed'[i]
      <3>1. p - 1 \in 1..Len(reads) - 1 /\ i <= p - 1 /\ p - 1 + 1 = p
        BY <1>4, <2>6
      <3> QED BY <2>1, <2>4, <2>6, <3>1
    <2> QED BY <1>2, <2>2, <2>5, <2>6
  <1>7. CASE ~Delivers /\ \A c \in Calls : ~Begins(c)
    <2>1. PICK k \in 1..Len(Owed) : i <= k /\ Owed'[i] = Owed[k]
      BY <1>1, <1>7, OwedStep
    <2>2. Owed[k] \in Calls
      BY <1>2
    <2>3. \/ reads' = reads
          \/ \E x \in Calls \cup {Pump} : reads' = Append(reads, x)
          \/ closed' /\ \A c \in Calls : pc'[c] # "reading"
      BY <1>7, StepKinds DEF Joins, ReadsOwn, Ends, Rests, Awaiting
    <2>4. /\ \A p \in 1..Len(reads) : p \in 1..Len(reads') /\ reads'[p] = reads[p]
          /\ Len(reads') \in Nat /\ Len(reads') >= Len(reads)
      <3>1. ~(closed' /\ \A c \in Calls : pc'[c] # "reading")
        BY DEF Era
      <3> QED BY <1>4, <2>3, <3>1
    <2>5. CASE \E p \in 1..Len(reads) : k <= p /\ reads[p] = Owed[k]
      BY <2>1, <2>4, <2>5
    <2>6. CASE pc[Owed[k]] = "writing" /\ k <= Len(reads) + 1
      <3>1. CASE pc'[Owed[k]] = "writing"
        BY <1>4, <2>1, <2>4, <2>6, <3>1
      <3>2. CASE ReadsOwn(Owed[k])
        <4>1. reads' = Append(reads, Owed[k])
          BY <3>2 DEF ReadsOwn
        <4>2. Len(reads) + 1 \in 1..Len(reads') /\ reads'[Len(reads) + 1] = Owed[k]
          BY <1>4, <2>2, <4>1
        <4>3. i <= Len(reads) + 1
          BY <1>4, <2>1, <2>6
        <4> QED BY <2>1, <4>2, <4>3
      <3>3. CASE \E o \in Outcomes : Ends(Owed[k], o)
        <4>1. PICK o \in Outcomes : Ends(Owed[k], o)
          BY <3>3
        <4>2. ~(closed' /\ \A c \in Calls : ~Awaiting(c)')
          BY DEF Era, Awaiting
        <4>3. ~On(Owed', Owed[k])
          BY <1>2, <2>6, <4>1, <4>2 DEF Ends
        <4>4. DOMAIN Owed' = 1..Len(Owed')
          BY <1>1, OwedStep
        <4> QED BY <2>1, <4>3, <4>4 DEF On
      <3>4. \/ pc'[Owed[k]] = "writing" \/ ReadsOwn(Owed[k])
            \/ \E o \in Outcomes : Ends(Owed[k], o)
        <4>1. PICK d \in Calls : d = Owed[k]
          BY <2>2
        <4>2. ASSUME NEW c \in Calls, Joins(c) PROVE pc'[d] = "writing"
          BY <1>3, <2>6, <4>1, <4>2 DEF Joins
        <4>3. ASSUME NEW c \in Calls, ReadsOwn(c) PROVE pc'[d] = "writing" \/ c = d
          BY <1>3, <2>6, <4>1, <4>3 DEF ReadsOwn
        <4>4. ASSUME NEW c \in Calls, NEW o \in Outcomes, Ends(c, o)
              PROVE  pc'[d] = "writing" \/ c = d
          BY <1>3, <2>6, <4>1, <4>4 DEF Ends
        <4>5. Rests => pc'[d] = "writing"
          BY <2>6, <4>1 DEF Rests
        <4> QED BY <1>7, <4>1, <4>2, <4>3, <4>4, <4>5, StepKinds
      <3> QED BY <3>1, <3>2, <3>3, <3>4
    <2> QED BY <1>2, <2>5, <2>6
  <1> QED BY <1>5, <1>6, <1>7

\* The first reply of the line is that of the send whose read is first.
LEMMA OwnFirst ==
    ASSUME Base, Exact, ReadsOK, LinedUp, IdleAlone, pushes = 0, NEW c \in Calls,
           reads # <<>>, Head(reads) = c, pc[c] = "reading", Len(Owed) > 0
    PROVE  Owed[1] = c
  <1>1. /\ reads \in Seq(Calls \cup {Pump}) /\ Len(reads) \in Nat /\ Len(Owed) \in Nat
    BY OwedTypes DEF Base
  <1>2. 1 \in 1..Len(reads) /\ reads[1] = c /\ 1 \in 1..Len(Owed)
    BY <1>1
  <1>3. Era
    BY DEF Era, IdleAlone
  <1>4. Owed[1] \in Calls
    BY <1>2 DEF Exact
  <1>5. \/ pc[Owed[1]] = "writing"
        \/ \E p \in 1..Len(reads) : reads[p] = Owed[1]
    BY <1>2, <1>3 DEF LinedUp
  <1>6. pc[Owed[1]] # "writing"
    <2>1. Running(c)
      BY DEF Base, CallsOK, Placed, Awaiting
    <2> QED BY <1>4, <2>1, CallTypes DEF Awaiting
  <1>7. PICK p \in 1..Len(reads) : reads[p] = Owed[1]
    BY <1>5, <1>6
  <1>8. CASE p = 1
    BY <1>2, <1>7, <1>8
  <1>9. CASE p # 1
    <2>1. 1 < p
      BY <1>1, <1>9
    <2>2. reads[p] = Pump
      BY <1>2, <2>1, CallsAssumption DEF ReadsOK
    <2> QED BY <1>4, <1>7, <2>2, CallsAssumption
  <1> QED BY <1>8, <1>9

LEMMA BlamedStep ==
    ASSUME Base, Base', Exact, Stamped, ReadsOK, LinedUp, IdleAlone, Blamed, [Next]_vars
    PROVE  Blamed'
  <1> SUFFICES ASSUME pushes' = 0, NEW i \in 1..Len(Owed')
               PROVE  Excused(Owed[i])'
    BY DEF Blamed
  <1>1. /\ pushes = 0 /\ Len(Owed) \in Nat /\ Len(Owed') \in Nat
        /\ DOMAIN Owed = 1..Len(Owed) /\ DOMAIN Owed' = 1..Len(Owed')
    BY OwedStep
  <1>2. /\ NoRepeat(Owed)
        /\ \A k \in 1..Len(Owed) : Excused(Owed[k]) /\ Owed[k] \in Calls
    BY <1>1 DEF Blamed, Exact
  <1>3. /\ pc \in [Calls -> Places] /\ outcome \in [Calls -> Outcomes]
        /\ \A c, d \in Calls : Running(c) /\ Awaiting(d) => c = d
        /\ \A c \in Calls : pc[c] = "done" <=> outcome[c].how # "none"
        /\ \A c \in Calls : outcome[c].how = "closed" => closed
    BY CallTypes
  <1>4. \A f \in Calls : Shifted(f) => Shifted(f)'
    BY OutcomesKept DEF Shifted
  <1>5. \A f \in Calls : outcome[f].how # "none" => outcome'[f] = outcome[f]
    BY OutcomesKept
  \* An excuse lasts, unless the send itself ends in this step.
  <1>6. ASSUME NEW f \in Calls, Excused(f), Awaiting(f) => Awaiting(f)',
               closed => \A c \in Calls : Awaiting(c)' => Awaiting(c)
        PROVE  Excused(f)'
    <2>1. CASE Awaiting(f)
      BY <1>6, <2>1 DEF Excused
    <2>2. CASE outcome[f].how \in {"timeout", "reply"} /\ Shifted(f)
      BY <1>4, <1>5, <2>2 DEF Excused
    <2>3. CASE outcome[f].how = "closed" /\ \A c \in Calls : ~Awaiting(c)
      BY <1>3, <1>5, <1>6, <2>3 DEF Excused
    <2> QED BY <1>6, <2>1, <2>2, <2>3 DEF Excused
  <1>7. ASSUME NEW c \in Calls, Begins(c) PROVE Excused(Owed[i])'
    <2>1. /\ Len(Owed') = Len(Owed) + 1 /\ Owed'[Len(Owed) + 1] = c
          /\ \A k \in 1..Len(Owed) : Owed'[k] = Owed[k]
      BY <1>1, <1>7, OwedStep
    <2>2. /\ ~closed /\ pc'[c] \in {"writing", "pending"} /\ pc[c] = "queued"
          /\ \A d \in Calls : d # c => pc'[d] = pc[d]
      BY <1>3, <1>7 DEF Begins
    <2>3. CASE i \in 1..Len(Owed)
      BY <1>2, <1>6, <2>1, <2>2, <2>3 DEF Awaiting
    <2>4. CASE i = Len(Owed) + 1
      BY <2>1, <2>2, <2>4 DEF Excused, Awaiting
    <2> QED BY <1>1, <2>1, <2>3, <2>4
  <1>8. CASE Delivers
    <2>1. /\ Len(Owed) > 0 /\ Len(Owed') = Len(Owed) - 1 /\ Owed[1] = Head(toHost).call
          /\ Owed'[i] = Owed[i + 1]
      BY <1>1, <1>8, OwedStep
    <2>2. /\ i + 1 \in 1..Len(Owed) /\ 1 \in 1..Len(Owed) /\ i + 1 # 1
      BY <1>1, <2>1
    <2>3. PICK f \in Calls : f = Owed[i + 1] /\ Excused(f)
      BY <1>2, <2>2
    <2>4. PICK g \in Calls : g = Owed[1] /\ Excused(g) /\ g # f
      BY <1>1, <1>2, <2>2, <2>3 DEF NoRepeat
    <2>5. CASE UNCHANGED <<pc, mode, outcome>>
      <3>1. Excused(f)'
        BY <1>6, <2>3, <2>5 DEF Awaiting
      <3> QED BY <2>1, <2>3, <3>1
    <2>6. ASSUME NEW c \in Calls, Running(c), pc' = [pc EXCEPT ![c] = "done"],
                 outcome' = [outcome EXCEPT ![c] = Reply(Head(toHost))],
                 \A d \in Calls : ~Awaiting(d)', Awaiting(c),
                 \/ Head(reads) = c /\ pc[c] = "reading"
                 \/ pending = c /\ Head(toHost).cmd = Cmd[c]
          PROVE  Excused(Owed[i])'
      <3>1. CASE c # f
        <4>1. ~Awaiting(f)
          BY <1>3, <2>6, <3>1
        <4>2. Excused(f)'
          BY <1>6, <2>3, <2>6, <4>1
        <4> QED BY <2>1, <2>3, <4>2
      <3>2. CASE c = f
        \* The reply of an earlier request settled f.
        <4>1. outcome'[f].how = "reply"
          BY <1>3, <2>6, <3>2 DEF Reply
        <4>2. ~Awaiting(g)
          BY <1>3, <2>4, <2>6, <3>2
        <4>3. Shifted(g)
          BY <2>4, <2>6, <4>2 DEF Excused
        <4>4. Cmd[g] = Cmd[f]
          <5>1. toHost \in Seq(Report) /\ toHost # <<>>
            BY <1>8 DEF Delivers, Base, IoOK
          <5>2. 1 \in 1..Len(toHost) /\ Head(toHost) = toHost[1]
            BY <5>1
          <5>3. Head(toHost).call = g /\ g # NoCall
            BY <2>1, <2>4, CallsAssumption
          <5>4. Head(toHost).cmd = Cmd[g]
            BY <5>2, <5>3 DEF Stamped
          <5>5. CASE pending = c /\ Head(toHost).cmd = Cmd[c]
            BY <3>2, <5>4, <5>5
          <5>6. CASE Head(reads) = c /\ pc[c] = "reading"
            BY <1>1, <1>8, <2>1, <2>4, <3>2, <5>6, OwnFirst DEF Delivers
          <5> QED BY <2>6, <5>5, <5>6
        <4>5. Shifted(f)'
          BY <1>4, <4>3, <4>4 DEF Shifted
        <4>6. Excused(f)'
          BY <4>1, <4>5 DEF Excused
        <4> QED BY <2>1, <2>3, <4>6
      <3> QED BY <3>1, <3>2
    <2> QED BY <1>8, <2>5, <2>6, CallsAssumption DEF Delivers, Awaiting, Base, ArmedOK
  <1>9. CASE ~Delivers /\ \A c \in Calls : ~Begins(c)
    <2>1. PICK k \in 1..Len(Owed) : Owed'[i] = Owed[k]
      BY <1>1, <1>9, OwedStep
    <2>2. PICK f \in Calls : f = Owed[k] /\ Excused(f) /\ f = Owed'[i]
      BY <1>2, <2>1
    <2>3. ASSUME NEW c \in Calls, Joins(c) PROVE Excused(f)'
      BY <1>3, <1>6, <2>2, <2>3 DEF Joins, Awaiting
    <2>4. ASSUME NEW c \in Calls, ReadsOwn(c) PROVE Excused(f)'
      BY <1>3, <1>6, <2>2, <2>4 DEF ReadsOwn, Awaiting
    <2>5. ASSUME NEW c \in Calls, NEW o \in Outcomes, Ends(c, o) PROVE Excused(f)'
      <3>1. Running(c) /\ \A d \in Calls : ~Awaiting(d)'
        BY <2>5 DEF Ends
      <3>2. CASE Awaiting(f)
        <4>1. c = f
          BY <1>3, <3>1, <3>2
        <4>2. On(Owed', f)
          BY <1>1, <2>2 DEF On
        <4>3. outcome'[f] = o
          BY <1>3, <2>5, <4>1 DEF Ends
        <4>4. o.how \in {"timeout", "closed"}
          BY <1>2, <2>5, <4>1, <4>2 DEF Ends
        <4> QED BY <3>1, <4>3, <4>4 DEF Excused, Shifted
      <3>3. CASE ~Awaiting(f)
        BY <1>6, <2>2, <3>1, <3>3
      <3> QED BY <3>2, <3>3
    <2>6. Rests => Excused(f)'
      BY <1>6, <2>2 DEF Rests, Awaiting
    <2>7. Excused(f)'
      BY <1>9, <2>3, <2>4, <2>5, <2>6, StepKinds
    <2> QED BY <2>2, <2>7
  <1> QED BY <1>7, <1>8, <1>9

\* Only a report that is delivered settles a send with a reply.
LEMMA RepliedByDelivery ==
    ASSUME Base, Base', [Next]_vars, NEW c \in Calls,
           outcome'[c].how = "reply", outcome[c].how # "reply"
    PROVE  /\ Delivers /\ Running(c) /\ mode'[c] = mode[c]
           /\ outcome'[c] = Reply(Head(toHost))
           /\ \/ Head(reads) = c /\ pc[c] = "reading"
              \/ pending = c /\ Head(toHost).cmd = Cmd[c]
  <1>1. outcome \in [Calls -> Outcomes] /\ outcome'[c] # outcome[c]
    BY CallTypes
  <1>2. \A d \in Calls : ~Begins(d) /\ ~ReadsOwn(d)
    BY <1>1 DEF Begins, ReadsOwn
  <1>3. \A d \in Calls : ~Joins(d)
    BY <1>1, OutcomeTypes DEF Joins
  <1>4. \A d \in Calls, o \in Outcomes : ~Ends(d, o)
    BY <1>1 DEF Ends
  <1>5. ~Rests
    BY <1>1 DEF Rests
  <1>6. Delivers
    BY <1>2, <1>3, <1>4, <1>5, StepKinds
  <1>7. ~UNCHANGED <<pc, mode, outcome>>
    BY <1>1
  <1>8. PICK d \in Calls :
               /\ Running(d) /\ mode' = mode
               /\ outcome' = [outcome EXCEPT ![d] = Reply(Head(toHost))]
               /\ \/ Head(reads) = d /\ pc[d] = "reading"
                  \/ pending = d /\ Head(toHost).cmd = Cmd[d]
    BY <1>6, <1>7 DEF Delivers
  <1>9. d = c
    BY <1>1, <1>8
  <1> QED BY <1>1, <1>6, <1>8, <1>9

\* The read path of a send that got a reply does not change any more.
LEMMA RepliedKept ==
    ASSUME Base, Base', [Next]_vars, NEW c \in Calls, outcome[c].how = "reply"
    PROVE  outcome'[c] = outcome[c] /\ mode'[c] = mode[c]
  <1>1. pc[c] = "done" /\ mode \in [Calls -> {"none", "idle", "pumped"}]
    BY CallTypes
  <1>2. mode' = mode \/ \E d \in Calls : pc[d] = "queued" /\ \E m \in {"idle", "pumped"} :
                                            mode' = [mode EXCEPT ![d] = m]
    BY StepKinds DEF Begins, Joins, ReadsOwn, Ends, Delivers, Rests
  <1>3. outcome'[c] = outcome[c]
    BY OutcomesKept
  <1> QED BY <1>1, <1>2, <1>3

IdleInv == Base /\ Exact /\ ReadsOK /\ LinedUp /\ IdleAlone /\ IdleOwnReply

LEMMA InitReplies == Init => Exact /\ Stamped /\ ReadsOK /\ LinedUp /\ IdleAlone /\ Blamed
                             /\ IdleOwnReply /\ PumpedOwnReply
  <1> SUFFICES ASSUME Init
               PROVE  Exact /\ Stamped /\ ReadsOK /\ LinedUp /\ IdleAlone /\ Blamed
                      /\ IdleOwnReply /\ PumpedOwnReply
    OBVIOUS
  <1>1. toHost = <<>> /\ inbox = <<>> /\ reads = <<>>
    BY DEF Init
  <1>2. Len(Owed) = 0 /\ DOMAIN Owed = 1..0 /\ Len(toHost) = 0 /\ Len(reads) = 0
    <2>1. IoOK
      BY InitBase DEF Base
    <2>2. Len(Owed) = Len(toHost) + Len(inbox) /\ DOMAIN Owed = 1..Len(Owed)
      BY <2>1, OwedTypes
    <2> QED BY <1>1, <2>2
  <1>3. Exact /\ LinedUp /\ Blamed
    BY <1>2 DEF Exact, LinedUp, Blamed, NoRepeat
  <1>4. Stamped /\ ReadsOK
    BY <1>2 DEF Stamped, ReadsOK
  <1>5. IdleAlone /\ IdleOwnReply /\ PumpedOwnReply
    BY DEF Init, IdleAlone, IdleOwnReply, PumpedOwnReply
  <1> QED BY <1>3, <1>4, <1>5

LEMMA IdleInvStep == IdleInv /\ [Next]_vars => IdleInv'
  <1> SUFFICES ASSUME IdleInv, [Next]_vars PROVE IdleInv'
    OBVIOUS
  <1>1. Base /\ Base' /\ Exact /\ ReadsOK /\ LinedUp /\ IdleAlone /\ IdleOwnReply
    BY BaseStep DEF IdleInv
  <1>2. Exact' /\ ReadsOK' /\ LinedUp' /\ IdleAlone'
    BY <1>1, ExactStep, ReadsStep, LinedUpStep, AloneStep
  <1>3. ASSUME NEW c \in Calls, mode'[c] = "idle", outcome'[c].how = "reply", pushes' = 0
        PROVE  outcome'[c].from = c
    <2>0. pushes = 0 /\ Len(Owed) \in Nat
      BY <1>1, <1>3, OwedStep
    <2>1. CASE outcome[c].how = "reply"
      <3>1. outcome'[c] = outcome[c] /\ mode'[c] = mode[c]
        BY <1>1, <2>1, RepliedKept
      <3> QED BY <1>1, <1>3, <2>0, <2>1, <3>1 DEF IdleOwnReply
    <2>2. CASE outcome[c].how # "reply"
      <3>1. /\ Delivers /\ mode[c] = "idle" /\ outcome'[c] = Reply(Head(toHost))
            /\ \/ Head(reads) = c /\ pc[c] = "reading"
               \/ pending = c
        BY <1>1, <1>3, <2>2, RepliedByDelivery
      <3>2. pending # c
        BY <1>1, <3>1, CallTypes, CallsAssumption DEF Base, ArmedOK
      <3>3. Len(Owed) > 0 /\ Owed[1] = Head(toHost).call
        BY <1>1, <1>3, <3>1, OwedStep
      <3>4. Owed[1] = c
        BY <1>1, <2>0, <3>1, <3>2, <3>3, OwnFirst DEF Delivers
      <3> QED BY <3>1, <3>3, <3>4 DEF Reply
    <2> QED BY <2>1, <2>2
  <1>4. IdleOwnReply'
    BY <1>3 DEF IdleOwnReply
  <1> QED BY <1>1, <1>2, <1>4 DEF IdleInv

\* On the idle path no send ever gets another's reply, however many sends run,
\* time out and fail, while the device pushes nothing of its own: the reads that
\* lost their race, readFrameIdle(), absorb the late replies one for one.
THEOREM IdleOwnReplyTheorem == Spec => []IdleOwnReply
  <1>1. Init => IdleInv
    BY InitBase, InitReplies DEF IdleInv
  <1>2. IdleInv /\ [Next]_vars => IdleInv'
    BY IdleInvStep
  <1>3. IdleInv => IdleOwnReply
    BY DEF IdleInv
  <1> QED BY <1>1, <1>2, <1>3, PTL DEF Spec

PumpInv == Base /\ Exact /\ Stamped /\ ReadsOK /\ LinedUp /\ IdleAlone /\ Blamed
           /\ PumpedOwnReply

LEMMA PumpInvStep == PumpInv /\ [Next]_vars => PumpInv'
  <1> SUFFICES ASSUME PumpInv, [Next]_vars PROVE PumpInv'
    OBVIOUS
  <1>1. /\ Base /\ Base' /\ Exact /\ Stamped /\ ReadsOK /\ LinedUp /\ IdleAlone /\ Blamed
        /\ PumpedOwnReply
    BY BaseStep DEF PumpInv
  <1>2. Exact' /\ ReadsOK' /\ LinedUp' /\ IdleAlone'
    BY <1>1, ExactStep, ReadsStep, LinedUpStep, AloneStep
  <1>3. Stamped' /\ Blamed'
    BY <1>1, StampedStep, BlamedStep
  <1>4. pushes \in Nat /\ pushes' \in Nat /\ pushes' >= pushes
    <2>1. pushes \in Nat /\ pushes' \in Nat
      BY <1>1, DeviceAssumption DEF Base, IoOK
    <2>2. pushes' = pushes \/ pushes' = pushes + 1
      BY <1>1, StepKinds DEF Begins, Joins, ReadsOwn, Ends, Delivers, Rests
    <2> QED BY <2>1, <2>2
  <1>5. \A g \in Calls : outcome[g].how = "timeout" => outcome'[g].how = "timeout"
    BY <1>1, OutcomesKept
  <1>6. ASSUME NEW c \in Calls, mode'[c] = "pumped", outcome'[c].how = "reply"
        PROVE  LET f == outcome'[c].from IN
               \/ f = c
               \/ f = NoCall /\ Cmd[c] \in PushCmds
               \/ /\ f # NoCall /\ Cmd[f] = Cmd[c]
                  /\ \/ pushes' > 0
                     \/ \E g \in Calls : Cmd[g] = Cmd[c] /\ outcome'[g].how = "timeout"
    <2>1. CASE outcome[c].how = "reply"
      <3>1. outcome'[c] = outcome[c] /\ mode[c] = "pumped"
        BY <1>1, <1>6, <2>1, RepliedKept
      <3>2. PICK f : f = outcome[c].from
        OBVIOUS
      <3>3. \/ f = c
            \/ f = NoCall /\ Cmd[c] \in PushCmds
            \/ /\ f # NoCall /\ Cmd[f] = Cmd[c]
               /\ \/ pushes > 0
                  \/ \E g \in Calls : Cmd[g] = Cmd[c] /\ outcome[g].how = "timeout"
        BY <1>1, <2>1, <3>1, <3>2 DEF PumpedOwnReply
      <3>4. pushes > 0 => pushes' > 0
        BY <1>4
      <3> QED BY <1>5, <3>1, <3>2, <3>3, <3>4
    <2>2. CASE outcome[c].how # "reply"
      <3>1. /\ Delivers /\ mode[c] = "pumped" /\ outcome'[c] = Reply(Head(toHost))
            /\ Running(c)
            /\ \/ Head(reads) = c /\ pc[c] = "reading"
               \/ pending = c /\ Head(toHost).cmd = Cmd[c]
        BY <1>1, <1>6, <2>2, RepliedByDelivery
      <3>2. pc[c] # "reading"
        BY <1>1, <3>1, CallTypes
      <3>3. pending = c /\ Head(toHost).cmd = Cmd[c] /\ pc[c] = "pending"
        BY <1>1, <3>1, <3>2, CallsAssumption DEF Base, ArmedOK
      <3>4. toHost \in Seq(Report) /\ toHost # <<>>
        BY <1>1, <3>1 DEF Delivers, Base, IoOK
      <3>5. PICK r \in Report : r = Head(toHost) /\ r = toHost[1] /\ 1 \in 1..Len(toHost)
        BY <3>4
      <3>6. IF r.call = NoCall THEN r.cmd \in PushCmds ELSE r.cmd = Cmd[r.call]
        BY <1>1, <3>5 DEF Stamped
      <3>7. IF r.call = NoCall THEN Cmd[c] \in PushCmds
                               ELSE Cmd[r.call] = Cmd[c] /\ r.call \in Calls
        BY <3>3, <3>5, <3>6 DEF Report
      <3>8. outcome'[c].from = r.call
        BY <3>1, <3>5 DEF Reply
      <3>9. ASSUME r.call # c, r.call # NoCall, pushes' = 0
            PROVE  \E g \in Calls : Cmd[g] = Cmd[c] /\ outcome'[g].how = "timeout"
        <4>1. /\ pushes = 0 /\ Len(Owed) > 0 /\ Owed[1] = r.call /\ 1 \in 1..Len(Owed)
          <5>1. pushes = 0 /\ Len(Owed) \in Nat
            BY <1>1, <3>9, OwedStep
          <5>2. Len(Owed) > 0 /\ Owed[1] = Head(toHost).call
            BY <1>1, <3>1, <3>9, OwedStep
          <5> QED BY <3>5, <5>1, <5>2
        <4>2. Excused(r.call)
          BY <1>1, <4>1 DEF Blamed
        <4>3. ~Awaiting(r.call) /\ Awaiting(c)
          <5>1. Awaiting(c)
            BY <3>3 DEF Awaiting
          <5> QED BY <1>1, <3>1, <3>7, <3>9, <5>1, CallTypes
        <4>4. Shifted(r.call)
          BY <4>2, <4>3 DEF Excused
        <4>5. PICK g \in Calls : Cmd[g] = Cmd[r.call] /\ outcome[g].how = "timeout"
          BY <4>4 DEF Shifted
        <4>6. Cmd[r.call] = Cmd[c] /\ outcome'[g].how = "timeout"
          BY <1>5, <3>7, <3>9, <4>5
        <4> QED BY <4>5, <4>6
      <3>10. pushes' = 0 \/ pushes' > 0
        BY <1>4
      <3> QED BY <3>7, <3>8, <3>9, <3>10
    <2> QED BY <2>1, <2>2
  <1>7. PumpedOwnReply'
    BY <1>6 DEF PumpedOwnReply
  <1> QED BY <1>1, <1>2, <1>3, <1>7 DEF PumpInv

\* On the pumped path what settles a send has its command byte, and another send's
\* reply does only after a timeout of that command or a report pushed unasked:
\* sendPumped() and the pump's match by first byte.
THEOREM PumpedOwnReplyTheorem == Spec => []PumpedOwnReply
  <1>1. Init => PumpInv
    BY InitBase, InitReplies DEF PumpInv
  <1>2. PumpInv /\ [Next]_vars => PumpInv'
    BY PumpInvStep
  <1>3. PumpInv => PumpedOwnReply
    BY DEF PumpInv
  <1> QED BY <1>1, <1>2, <1>3, PTL DEF Spec
=============================================================================
