-------------------------- MODULE RemapprRpc_proofs --------------------------
(***************************************************************************)
(* Proofs about RemapprRpc for any set of calls, any retry budget, any     *)
(* number of fragments and any bound below RidMod on the request ids.      *)
(***************************************************************************)
EXTENDS RemapprRpc, TLAPS

\* The single-waiter discipline is what makes the types inductive: a call that
\* settles is the head of a chain that is not empty.
Channel == TypeOK /\ WaiterServed /\ OneExchange

LEMMA Values ==
    /\ NoFrame \in Frame /\ EmptyAsm \in Assembly
    /\ Unsettled \in Outcome /\ Error \in Outcome
  <1>1. NoFrame \in Frame
    BY RidAssumption DEF NoFrame, Frame
  <1>2. EmptyAsm \in Assembly
    BY DEF EmptyAsm, Assembly
  <1>3. Unsettled \in Outcome
    BY DEF Unsettled, Outcome
  <1>4. Error \in Outcome
    BY <1>3 DEF Error, Unsettled, Outcome
  <1> QED BY <1>1, <1>2, <1>3, <1>4

LEMMA ReplyType ==
    ASSUME NEW f \in Frame
    PROVE  Reply(f.cls, f.ok, <<Piece(f)>>) \in Outcome
  BY DEF Frame, Piece, Reply, Outcome, Fragment

LEMMA SettleTypes ==
    ASSUME NEW c \in Calls, NEW r \in Outcome, CallTypes, queue # <<>>,
           Settle(c, r)
    PROVE  CallTypes'
  BY Values DEF CallTypes, Settle, EndRoundTrip, PCs

LEMMA RetryTypes ==
    ASSUME NEW c \in Calls, CallTypes, queue # <<>>, Retry(c)
    PROVE  CallTypes'
  <1>1. /\ queue' \in Seq(Calls) /\ pc' \in [Calls -> PCs]
        /\ got' \in [Calls -> Frame] /\ asm' \in [Calls -> Assembly]
        /\ outcome' \in [Calls -> Outcome]
    BY Values DEF CallTypes, Retry, EndRoundTrip, PCs
  <1>2. attempt' \in [Calls -> Nat]
    BY DEF CallTypes, Retry
  <1>3. ASSUME NEW d \in Calls PROVE attempt'[d] \in 1..Retries[d] + 1
    <2>1. Retries[d] \in Nat
      BY OffersAssumption
    <2> QED BY <2>1 DEF CallTypes, Retry, MayRetry
  <1> QED BY <1>1, <1>2, <1>3 DEF CallTypes

LEMMA NextFrameTypes ==
    ASSUME NEW c \in Calls, NEW a \in Assembly, CallTypes, queue # <<>>,
           respBuffer \in Seq(Frame), respWaiter \in Calls \cup {NoCall},
           NextFrame(c, a)
    PROVE  /\ CallTypes'
           /\ respBuffer' \in Seq(Frame) /\ respWaiter' \in Calls \cup {NoCall}
  <1>1. CASE respBuffer = <<>> /\ closed
    <2>1. Settle(c, Error) /\ UNCHANGED <<respWaiter, respBuffer>>
      BY <1>1 DEF NextFrame
    <2> QED BY <2>1, SettleTypes, Values
  <1>2. CASE respBuffer # <<>>
    <2>1. /\ got' = [got EXCEPT ![c] = Head(respBuffer)]
          /\ asm' = [asm EXCEPT ![c] = a]
          /\ respBuffer' = Tail(respBuffer)
          /\ pc' = [pc EXCEPT ![c] = "got"]
          /\ UNCHANGED <<queue, attempt, outcome, respWaiter>>
      BY <1>2 DEF NextFrame
    <2>2. Head(respBuffer) \in Frame /\ Tail(respBuffer) \in Seq(Frame)
      BY <1>2
    <2>3. CallTypes'
      BY <2>1, <2>2 DEF CallTypes, PCs
    <2> QED BY <2>1, <2>2, <2>3
  <1>3. CASE respBuffer = <<>> /\ ~closed
    BY <1>3, Values DEF NextFrame, CallTypes, PCs
  <1> QED BY <1>1, <1>2, <1>3

LEMMA ExtendType ==
    ASSUME NEW c \in Calls, NEW f \in Frame, asm[c] \in Assembly
    PROVE  Base(c, f) \in Assembly /\ Extend(Base(c, f), f) \in Assembly
  <1>1. Base(c, f) \in Assembly
    BY DEF Base, Assembly, Frame
  <1>2. Piece(f) \in Fragment
    BY DEF Piece, Fragment, Frame
  <1>3. ASSUME NEW b \in Assembly PROVE Extend(b, f) \in Assembly
    <2>1. Append(b.body, Piece(f)) \in Seq(Fragment)
      BY <1>2 DEF Assembly
    <2>2. b.expIdx \in Nat /\ b.expIdx + 1 \in Nat
      BY DEF Assembly
    <2> QED BY <2>1, <2>2 DEF Extend, Assembly
  <1> QED BY <1>1, <1>3

LEMMA AnswerFrameType ==
    ASSUME NEW p \in Request, NEW ok \in BOOLEAN
    PROVE  AnswerFrame(p, ok) \in Frame
  <1>1. p.req % RidMod \in 0..RidMod - 1 /\ 0 \in 0..RidMod - 1
    BY RidAssumption DEF Request
  <1>2. Frags[p.call] \in Nat /\ p.req \in Nat /\ p.next \in Nat
    BY OffersAssumption DEF Request
  <1> QED BY <1>1, <1>2 DEF AnswerFrame, Frame

LEMMA AnsweredType ==
    ASSUME NEW p \in Request, pending \subseteq Request, Answered(p)
    PROVE  pending' \subseteq Request
  BY DEF Answered, Request

\* Only the running exchange can settle or pause, and then nobody is busy.
LEMMA SettleChannel ==
    ASSUME NEW c \in Calls, TypeOK, OneExchange, WaiterServed,
           Running(c), pc' \in [Calls -> PCs],
           \E p \in {"done", "backoff"} : pc' = [pc EXCEPT ![c] = p],
           queue' = Tail(queue),
           respWaiter' = NoCall \/ (pc[c] # "waiting" /\ respWaiter' = respWaiter)
    PROVE  OneExchange' /\ WaiterServed'
  <1>1. \A d \in Calls : d # c => ~Busy(d)
    BY DEF OneExchange, Running
  <1>2. OneExchange'
    BY <1>1 DEF OneExchange, Busy, TypeOK, CallTypes
  <1>3. respWaiter' = NoCall
    BY DEF WaiterServed, Running
  <1> QED BY <1>2, <1>3 DEF WaiterServed

LEMMA EnqueueChannel ==
    ASSUME NEW c \in Calls, TypeOK, OneExchange, WaiterServed,
           pc[c] \in {"idle", "backoff"}, pc' = [pc EXCEPT ![c] = "queued"],
           queue' = Append(queue, c), UNCHANGED <<respWaiter, respBuffer, closed>>
    PROVE  OneExchange' /\ WaiterServed'
  <1>1. queue \in Seq(Calls) /\ pc \in [Calls -> PCs]
    BY DEF TypeOK, CallTypes
  <1>2. \A d \in Calls : Running(d) => Running(d)'
    BY <1>1 DEF Running
  <1>3. OneExchange'
    BY <1>1, <1>2 DEF OneExchange, Busy
  <1>4. WaiterServed'
    BY <1>1, <1>2 DEF WaiterServed, TypeOK
  <1> QED BY <1>3, <1>4

LEMMA NextFrameChannel ==
    ASSUME NEW c \in Calls, NEW a \in Assembly, TypeOK, OneExchange, WaiterServed,
           Running(c), pc[c] \notin {"waiting", "queued"}, NextFrame(c, a), closed' = closed
    PROVE  OneExchange' /\ WaiterServed'
  <1>1. respWaiter = NoCall
    BY DEF WaiterServed, Running
  <1>2. CASE respBuffer = <<>> /\ closed
    <2>1. Settle(c, Error) /\ UNCHANGED <<respWaiter, respBuffer>>
      BY <1>2 DEF NextFrame
    <2> QED BY <2>1, <1>1, SettleChannel, SettleTypes, Values
            DEF Settle, TypeOK, CallTypes, Running
  <1>3. CASE respBuffer # <<>>
    <2>1. UNCHANGED <<queue, respWaiter>> /\ pc' = [pc EXCEPT ![c] = "got"]
      BY <1>3 DEF NextFrame
    <2> QED BY <2>1, <1>1 DEF OneExchange, WaiterServed, Busy, Running, TypeOK, CallTypes
  <1>4. CASE respBuffer = <<>> /\ ~closed
    <2>1. /\ UNCHANGED <<queue, respBuffer>> /\ pc' = [pc EXCEPT ![c] = "waiting"]
          /\ respWaiter' = c
      BY <1>4 DEF NextFrame
    <2> QED BY <2>1, <1>4 DEF OneExchange, WaiterServed, Busy, Running, TypeOK, CallTypes
  <1> QED BY <1>2, <1>3, <1>4

LEMMA InitChannel == Init => Channel
  <1> SUFFICES ASSUME Init PROVE Channel  OBVIOUS
  <1>1. CallTypes
    <2>1. \A c \in Calls : Retries[c] \in Nat
      BY OffersAssumption
    <2> QED BY <2>1, Values DEF Init, CallTypes, PCs
  <1>2. TypeOK
    <2>1. closed \in BOOLEAN /\ pumping \in BOOLEAN
      BY DEF Init
    <2>2. seq \in Nat /\ rids \in 0..MaxRids
      BY RidAssumption DEF Init
    <2>3. kind \in [Calls -> Kinds] /\ req \in [Calls -> Nat]
      BY DEF Init, Kinds
    <2>4. respBuffer \in Seq(Frame) /\ toHost \in Seq(Frame)
      BY DEF Init
    <2>5. respWaiter \in Calls \cup {NoCall} /\ pending \subseteq Request
      BY DEF Init
    <2> QED BY <1>1, <2>1, <2>2, <2>3, <2>4, <2>5 DEF TypeOK
  <1>3. WaiterServed /\ OneExchange
    BY NoCallAssumption DEF Init, WaiterServed, OneExchange, Busy
  <1> QED BY <1>2, <1>3 DEF Channel

\* One step per action: an action that ends an exchange goes through SettleTypes,
\* RetryTypes and SettleChannel, one that reads on through the NextFrame lemmas.
LEMMA ChannelStep == Channel /\ [Next]_vars => Channel'
  <1> SUFFICES ASSUME Channel, [Next]_vars PROVE Channel'  OBVIOUS
  <1> USE DEF Channel
  <1>1. ASSUME NEW c \in Calls, Issue(c) PROVE Channel'
    <2>1. CallTypes'
      BY <1>1 DEF TypeOK, CallTypes, Issue, PCs
    <2>2. kind' \in [Calls -> Kinds]
      BY <1>1, OffersAssumption DEF TypeOK, Issue
    <2>3. TypeOK'
      BY <1>1, <2>1, <2>2 DEF TypeOK, Issue
    <2>4. WaiterServed' /\ OneExchange'
      BY <1>1, EnqueueChannel DEF Issue
    <2> QED BY <2>3, <2>4
  <1>2. ASSUME NEW c \in Calls, Backoff(c) PROVE Channel'
    <2>1. CallTypes'
      BY <1>2 DEF TypeOK, CallTypes, Backoff, PCs
    <2>2. TypeOK'
      BY <1>2, <2>1 DEF TypeOK, Backoff
    <2>3. WaiterServed' /\ OneExchange'
      BY <1>2, EnqueueChannel DEF Backoff
    <2> QED BY <2>2, <2>3
  <1>3. ASSUME NEW c \in Calls, Start(c) PROVE Channel'
    <2>1. CallTypes'
      BY <1>3 DEF TypeOK, CallTypes, Start, PCs
    <2>2. /\ seq' \in Nat /\ rids' \in 0..MaxRids
          /\ req' \in [Calls -> Nat]
      BY <1>3, RidAssumption DEF TypeOK, Start
    <2>3. pending' \subseteq Request
      BY <1>3, <2>2 DEF TypeOK, Start, Request
    <2>4. TypeOK'
      BY <1>3, <2>1, <2>2, <2>3 DEF TypeOK, Start
    <2>5. respWaiter = NoCall
      BY <1>3 DEF Start, WaiterServed, Running
    <2>6. WaiterServed' /\ OneExchange'
      BY <1>3, <2>5 DEF TypeOK, CallTypes, Start, WaiterServed, OneExchange, Busy, Running
    <2> QED BY <2>4, <2>6
  <1>4. ASSUME NEW c \in Calls, NEW r \in Outcome, Settle(c, r),
               Running(c), pc[c] # "waiting" \/ respWaiter' = NoCall,
               respWaiter' \in {NoCall, respWaiter},
               UNCHANGED <<kind, req, seq, rids, pumping, respBuffer, pending>>,
               closed' \in BOOLEAN, toHost' \in Seq(Frame)
        PROVE  Channel'
    <2>1. CallTypes'
      BY <1>4, SettleTypes DEF TypeOK, Running
    <2>2. TypeOK'
      BY <1>4, <2>1 DEF TypeOK
    <2>3. OneExchange' /\ WaiterServed'
      BY <1>4, <2>1, SettleChannel DEF Settle, CallTypes
    <2> QED BY <2>2, <2>3
  <1>5. ASSUME NEW c \in Calls, Retry(c), Running(c),
               pc[c] # "waiting" \/ respWaiter' = NoCall,
               respWaiter' \in {NoCall, respWaiter},
               UNCHANGED <<kind, req, seq, rids, closed, pumping, respBuffer, pending,
                           toHost>>
        PROVE  Channel'
    <2>1. CallTypes'
      BY <1>5, RetryTypes DEF TypeOK, Running
    <2>2. TypeOK'
      BY <1>5, <2>1 DEF TypeOK
    <2>3. OneExchange' /\ WaiterServed'
      BY <1>5, <2>1, SettleChannel DEF Retry, CallTypes
    <2> QED BY <2>2, <2>3
  <1>6. ASSUME NEW c \in Calls, NEW a \in Assembly, NextFrame(c, a),
               Busy(c), pc[c] # "waiting",
               UNCHANGED <<kind, req, seq, rids, closed, pumping, pending, toHost>>
        PROVE  Channel'
    <2>1. Running(c) /\ queue # <<>>
      BY <1>6 DEF OneExchange, Running
    <2>2. CallTypes' /\ respBuffer' \in Seq(Frame) /\ respWaiter' \in Calls \cup {NoCall}
      BY <1>6, <2>1, NextFrameTypes DEF TypeOK
    <2>3. TypeOK'
      BY <1>6, <2>2 DEF TypeOK
    <2>4. OneExchange' /\ WaiterServed'
      BY <1>6, <2>1, NextFrameChannel DEF Busy
    <2> QED BY <2>3, <2>4
  <1>7. ASSUME NEW c \in Calls, StartClosed(c) PROVE Channel'
    BY <1>7, <1>4, Values DEF StartClosed, TypeOK
  <1>8. ASSUME NEW c \in Calls, Written(c) PROVE Channel'
    <2>1. asm[c] \in Assembly
      BY DEF TypeOK, CallTypes
    <2> QED BY <1>8, <2>1, <1>6 DEF Written, Busy
  <1>9. ASSUME NEW c \in Calls, WriteFails(c) PROVE Channel'
    <2>1. Running(c)
      BY <1>9 DEF WriteFails, OneExchange, Busy
    <2> QED BY <1>9, <2>1, <1>4, Values DEF WriteFails, TypeOK
  <1>10. ASSUME NEW c \in Calls, Timeout(c) PROVE Channel'
    <2>1. Running(c)
      BY <1>10 DEF Timeout, OneExchange, Busy
    <2>2. CASE Settle(c, Error)
      BY <1>10, <2>1, <2>2, <1>4, Values DEF Timeout, TypeOK
    <2>3. CASE Retry(c)
      BY <1>10, <2>1, <2>3, <1>5 DEF Timeout
    <2> QED BY <1>10, <2>2, <2>3 DEF Timeout, FailTransient
  <1>11. ASSUME NEW c \in Calls,
                TakePlain(c) \/ TakeSealed(c) \/ TakeRelay(c)
         PROVE  Channel'
    <2>1. Running(c) /\ pc[c] # "waiting" /\ got[c] \in Frame
      BY <1>11 DEF TakePlain, TakeSealed, TakeRelay, OneExchange, Busy, TypeOK, CallTypes
    <2>2. \E r \in Outcome : Settle(c, r)
      <3>1. Reply(got[c].cls, got[c].ok, <<Piece(got[c])>>) \in Outcome
        BY <2>1, ReplyType
      <3> QED BY <1>11, <3>1, Values DEF TakePlain, TakeSealed, TakeRelay
    <2> QED BY <1>11, <2>1, <2>2, <1>4
            DEF TakePlain, TakeSealed, TakeRelay, TypeOK
  <1>12. ASSUME NEW c \in Calls, SkipFrame(c) PROVE Channel'
    <2>1. asm[c] \in Assembly
      BY DEF TypeOK, CallTypes
    <2> QED BY <1>12, <2>1, <1>6 DEF SkipFrame, Busy
  <1>13. ASSUME NEW c \in Calls, GapFound(c) PROVE Channel'
    <2>1. Running(c) /\ pc[c] # "waiting"
      BY <1>13 DEF GapFound, OneExchange, Busy
    <2>2. CASE Settle(c, Error)
      BY <1>13, <2>1, <2>2, <1>4, Values DEF GapFound, TypeOK
    <2>3. CASE Retry(c)
      BY <1>13, <2>1, <2>3, <1>5 DEF GapFound
    <2> QED BY <1>13, <2>2, <2>3 DEF GapFound, FailTransient
  <1>14. ASSUME NEW c \in Calls, MoreToCome(c) PROVE Channel'
    <2>1. asm[c] \in Assembly /\ got[c] \in Frame
      BY DEF TypeOK, CallTypes
    <2>2. Extend(Base(c, got[c]), got[c]) \in Assembly
      BY <2>1, ExtendType
    <2> QED BY <1>14, <2>2, <1>6 DEF MoreToCome, Busy
  <1>15. ASSUME NEW c \in Calls, Complete(c) PROVE Channel'
    <2>1. Running(c) /\ pc[c] # "waiting" /\ asm[c] \in Assembly /\ got[c] \in Frame
      BY <1>15 DEF Complete, OneExchange, Busy, TypeOK, CallTypes
    <2>2. CASE Retry(c)
      BY <1>15, <2>1, <2>2, <1>5 DEF Complete
    <2>3. CASE \E r \in Outcome : Settle(c, r)
      BY <1>15, <2>1, <2>3, <1>4 DEF Complete, TypeOK
    <2> DEFINE body == IF asm[c].inChain \/ got[c].first
                         THEN Extend(Base(c, got[c]), got[c]).body
                         ELSE <<Piece(got[c])>>
    <2>4. Reply("universal", got[c].ok, body) \in Outcome
      <3>1. Extend(Base(c, got[c]), got[c]).body \in Seq(Fragment)
        BY <2>1, ExtendType DEF Assembly
      <3>2. <<Piece(got[c])>> \in Seq(Fragment)
        BY <2>1 DEF Piece, Fragment, Frame
      <3>3. body \in Seq(Fragment) /\ got[c].ok \in BOOLEAN
        BY <2>1, <3>1, <3>2 DEF Frame
      <3> QED BY <3>3 DEF Reply, Outcome
    <2> QED BY <1>15, <2>2, <2>3, <2>4 DEF Complete
  <1>16. CASE RouteFrame
    <2>1. Head(toHost) \in Frame /\ Tail(toHost) \in Seq(Frame)
      BY <1>16 DEF RouteFrame, TypeOK
    <2>2. CallTypes'
      BY <1>16, <2>1 DEF RouteFrame, TypeOK, CallTypes, PCs
    <2>3. respBuffer' \in Seq(Frame) /\ toHost' \in Seq(Frame)
      <3>1. respBuffer' = respBuffer \/ respBuffer' = Append(respBuffer, Head(toHost))
        BY <1>16 DEF RouteFrame
      <3>2. toHost' = <<>> \/ toHost' = Tail(toHost)
        BY <1>16 DEF RouteFrame
      <3>3. respBuffer \in Seq(Frame) /\ Append(respBuffer, Head(toHost)) \in Seq(Frame)
        BY <2>1 DEF TypeOK
      <3>4. <<>> \in Seq(Frame)
        OBVIOUS
      <3>5. respBuffer' \in Seq(Frame)
        BY <3>1, <3>3, Zenon
      <3>6. toHost' \in Seq(Frame)
        BY <2>1, <3>2, <3>4, Zenon
      <3> QED BY <3>5, <3>6
    <2>4. TypeOK'
      BY <1>16, <2>2, <2>3 DEF RouteFrame, TypeOK
    <2>5. OneExchange' /\ WaiterServed'
      BY <1>16 DEF RouteFrame, OneExchange, WaiterServed, Busy, Running, TypeOK, CallTypes
    <2> QED BY <2>4, <2>5
  <1>17. CASE FireClosed
    <2>1. closed' \in BOOLEAN /\ pumping' \in BOOLEAN /\ toHost' \in Seq(Frame)
      BY <1>17 DEF FireClosed, TypeOK
    <2>2. CASE respWaiter = NoCall
      <3>1. CallTypes'
        BY <1>17, <2>2 DEF FireClosed, TypeOK, CallTypes
      <3>2. TypeOK'
        BY <1>17, <2>1, <3>1 DEF FireClosed, TypeOK
      <3>3. OneExchange' /\ WaiterServed'
        BY <1>17, <2>2 DEF FireClosed, OneExchange, WaiterServed, Busy, Running
      <3> QED BY <3>2, <3>3
    <2>3. CASE respWaiter # NoCall
      <3>1. respWaiter \in Calls /\ Running(respWaiter) /\ queue # <<>>
        BY <2>3 DEF WaiterServed, TypeOK, Running
      <3>2. Settle(respWaiter, Error) /\ respWaiter' = NoCall
        BY <1>17, <2>3 DEF FireClosed
      <3>3. CallTypes'
        BY <3>1, <3>2, SettleTypes, Values DEF TypeOK
      <3>4. TypeOK'
        BY <1>17, <2>1, <3>2, <3>3 DEF FireClosed, TypeOK
      <3>5. OneExchange' /\ WaiterServed'
        BY <3>1, <3>2, <3>3, SettleChannel DEF Settle, CallTypes
      <3> QED BY <3>4, <3>5
    <2> QED BY <2>2, <2>3
  <1>18. CASE Device
    <2>1. CASE DeviceEvent
      <3>1. toHost' \in Seq(Frame)
        BY <2>1, Values, BoundAssumption DEF DeviceEvent, TypeOK
      <3> QED BY <2>1, <3>1 DEF DeviceEvent, clientVars, TypeOK, CallTypes, WaiterServed,
                               OneExchange, Busy, Running
    <2>2. ASSUME NEW p \in pending,
                 DeviceSend(p) \/ DeviceRefuse(p) \/ DeviceLose(p)
          PROVE  Channel'
      <3>1. p \in Request
        BY DEF TypeOK
      <3>2. toHost' \in Seq(Frame)
        <4>1. \/ toHost' = toHost
              \/ \E ok \in BOOLEAN : toHost' = Append(toHost, AnswerFrame(p, ok))
          BY <2>2 DEF DeviceSend, DeviceRefuse, DeviceLose
        <4>2. \A ok \in BOOLEAN : AnswerFrame(p, ok) \in Frame
          BY <3>1, AnswerFrameType
        <4> QED BY <4>1, <4>2 DEF TypeOK
      <3>3. pending' \subseteq Request
        BY <2>2, <3>1, AnsweredType DEF DeviceSend, DeviceRefuse, DeviceLose, TypeOK
      <3>4. UNCHANGED <<clientVars, closed, pumping, respWaiter, respBuffer>>
        BY <2>2 DEF DeviceSend, DeviceRefuse, DeviceLose
      <3> QED BY <3>2, <3>3, <3>4 DEF clientVars, TypeOK, CallTypes, WaiterServed,
                               OneExchange, Busy, Running
    <2> QED BY <1>18, <2>1, <2>2 DEF Device
  <1>19. CASE UNCHANGED vars
    BY <1>19 DEF vars, clientVars, TypeOK, CallTypes, WaiterServed, OneExchange, Busy,
                 Running
  <1> QED
    BY <1>1, <1>2, <1>3, <1>7, <1>8, <1>9, <1>10, <1>11, <1>12, <1>13, <1>14, <1>15,
       <1>16, <1>17, <1>18, <1>19
    DEF Next, ClientStep

\* The types hold, one exchange runs at a time, and an armed waiter belongs to it
\* and has been given every frame there was.
THEOREM ChannelInvariant == Spec => [](TypeOK /\ WaiterServed /\ OneExchange)
  <1>1. Channel => TypeOK /\ WaiterServed /\ OneExchange
    BY DEF Channel
  <1> QED BY InitChannel, ChannelStep, <1>1, PTL DEF Spec

\* The client's variables, the device's queue and the frames keep their types.
THEOREM TypeTheorem == Spec => []TypeOK
  BY ChannelInvariant, PTL

\* The client is strictly synchronous: only the call at the head of the chain has left
\* the queue and neither settled nor paused, through retries, timeouts and closing.
THEOREM OneExchangeTheorem == Spec => []OneExchange
  BY ChannelInvariant, PTL
-----------------------------------------------------------------------------
(* UniversalOwnReply.  The request id on the wire is the exchange's number *)
(* modulo RidMod; below MaxRids the two determine each other, so a frame   *)
(* that passes the filter answers the exchange that looks for it.          *)

SoundFrame ==
    {f \in Frame : f.cls = "universal" => f.req <= MaxRids /\ f.rid = f.req % RidMod}

OwnPieces(c) == [req : {req[c]}, idx : Nat]

CallOwn(c) ==
    /\ got[c] \in SoundFrame
    /\ kind[c] \in Framed \/ pc[c] = "idle" => req[c] <= MaxRids
    /\ kind[c] = "universal" => asm[c].body \in Seq(OwnPieces(c))
    /\ ~Busy(c) => asm[c] = EmptyAsm
    /\ pc[c] # "done" => outcome[c] = Unsettled
    /\ kind[c] = "universal" /\ outcome[c].how = "reply" =>
         outcome[c].cls = "universal" /\ outcome[c].body \in Seq(OwnPieces(c))

RequestSound(p) ==
    pc[p.call] # "idle" /\ (kind[p.call] \in Framed => p.req <= MaxRids)

AirSound ==
    /\ respBuffer \in Seq(SoundFrame) /\ toHost \in Seq(SoundFrame)
    /\ \A p \in pending : RequestSound(p)

Ownership == AirSound /\ \A c \in Calls : CallOwn(c)

LEMMA RidDetermines ==
    ASSUME NEW x \in Nat, NEW y \in Nat, x <= MaxRids, y <= MaxRids,
           x % RidMod = y % RidMod
    PROVE  x = y
  <1>1. x % RidMod = x
    BY RidAssumption
  <1>2. y % RidMod = y
    BY RidAssumption
  <1> QED BY <1>1, <1>2

LEMMA MineIsOwn ==
    ASSUME NEW c \in Calls, NEW f \in SoundFrame, req[c] \in Nat, req[c] <= MaxRids,
           Mine(c, f)
    PROVE  Piece(f) \in OwnPieces(c)
  <1>1. f.req \in Nat /\ f.idx \in Nat /\ f.req <= MaxRids
    BY DEF SoundFrame, Frame, Mine
  <1>2. f.req % RidMod = req[c] % RidMod
    BY DEF SoundFrame, Mine
  <1>3. f.req = req[c]
    BY <1>1, <1>2, RidDetermines
  <1> QED BY <1>1, <1>3 DEF Piece, OwnPieces

\* A call nothing happens to stays sound.
LEMMA Bystander ==
    ASSUME NEW d \in Calls, CallOwn(d), got'[d] = got[d], kind'[d] = kind[d],
           pc'[d] = pc[d], req'[d] = req[d], asm'[d] = asm[d], outcome'[d] = outcome[d]
    PROVE  CallOwn(d)'
  BY DEF CallOwn, Busy, OwnPieces

LEMMA EmptyOwn ==
    ASSUME NEW c \in Calls
    PROVE  EmptyAsm.body \in Seq(OwnPieces(c)) /\ NoFrame \in SoundFrame
  BY Values DEF EmptyAsm, SoundFrame, NoFrame

\* The three ways an exchange goes on: it settles, it is tried again, or it asks
\* for the next frame.
LEMMA SettleOwn ==
    ASSUME NEW c \in Calls, NEW r \in Outcome, Channel, Ownership, Settle(c, r),
           UNCHANGED <<kind, req>>, pc[c] # "idle",
           kind[c] = "universal" /\ r.how = "reply" =>
             r.cls = "universal" /\ r.body \in Seq(OwnPieces(c))
    PROVE  \A d \in Calls : CallOwn(d)' /\ (pc[d] # "idle" => pc'[d] # "idle")
  <1> SUFFICES ASSUME NEW d \in Calls
               PROVE  CallOwn(d)' /\ (pc[d] # "idle" => pc'[d] # "idle")
    OBVIOUS
  <1>1. CASE d = c
    <2>1. /\ got'[c] = NoFrame /\ asm'[c] = EmptyAsm /\ pc'[c] = "done"
          /\ outcome'[c] = r
      BY DEF Settle, EndRoundTrip, Channel, TypeOK, CallTypes
    <2>2. OwnPieces(c)' = OwnPieces(c)
      BY DEF OwnPieces
    <2> QED BY <1>1, <2>1, <2>2, EmptyOwn DEF Ownership, CallOwn
  <1>2. CASE d # c
    <2>1. /\ got'[d] = got[d] /\ asm'[d] = asm[d] /\ pc'[d] = pc[d]
          /\ outcome'[d] = outcome[d]
      BY <1>2 DEF Settle, EndRoundTrip, Channel, TypeOK, CallTypes
    <2> QED BY <2>1, Bystander DEF Ownership
  <1> QED BY <1>1, <1>2

LEMMA RetryOwn ==
    ASSUME NEW c \in Calls, Channel, Ownership, Retry(c), UNCHANGED <<kind, req>>,
           Busy(c)
    PROVE  \A d \in Calls : CallOwn(d)' /\ (pc[d] # "idle" => pc'[d] # "idle")
  <1> SUFFICES ASSUME NEW d \in Calls
               PROVE  CallOwn(d)' /\ (pc[d] # "idle" => pc'[d] # "idle")
    OBVIOUS
  <1>1. CASE d = c
    <2>1. /\ got'[c] = NoFrame /\ asm'[c] = EmptyAsm /\ pc'[c] = "backoff"
          /\ outcome'[c] = outcome[c]
      BY DEF Retry, EndRoundTrip, Channel, TypeOK, CallTypes
    <2>2. OwnPieces(c)' = OwnPieces(c)
      BY DEF OwnPieces
    <2>3. outcome[c] = Unsettled /\ pc[c] # "idle"
      BY DEF Ownership, CallOwn, Busy
    <2> QED BY <1>1, <2>1, <2>2, <2>3, EmptyOwn DEF Ownership, CallOwn, Unsettled
  <1>2. CASE d # c
    <2>1. /\ got'[d] = got[d] /\ asm'[d] = asm[d] /\ pc'[d] = pc[d]
          /\ outcome'[d] = outcome[d]
      BY <1>2 DEF Retry, EndRoundTrip, Channel, TypeOK, CallTypes
    <2> QED BY <2>1, Bystander DEF Ownership
  <1> QED BY <1>1, <1>2

LEMMA NextFrameOwn ==
    ASSUME NEW c \in Calls, NEW a \in Assembly, Channel, Ownership, NextFrame(c, a),
           UNCHANGED <<kind, req>>, Busy(c),
           kind[c] = "universal" => a.body \in Seq(OwnPieces(c))
    PROVE  /\ \A d \in Calls : CallOwn(d)' /\ (pc[d] # "idle" => pc'[d] # "idle")
           /\ respBuffer' \in Seq(SoundFrame)
  <1>0. pc[c] # "idle" /\ outcome[c] = Unsettled
    BY DEF Busy, Ownership, CallOwn
  <1>1. CASE respBuffer = <<>> /\ closed
    <2>1. Settle(c, Error) /\ respBuffer' = respBuffer
      BY <1>1 DEF NextFrame
    <2>2. Error.how # "reply"
      BY DEF Error, Unsettled
    <2> QED BY <2>1, <2>2, <1>0, SettleOwn, Values DEF Ownership, AirSound
  <1>2. CASE ~(respBuffer = <<>> /\ closed)
    <2>1. /\ asm' = [asm EXCEPT ![c] = a] /\ outcome' = outcome
          /\ \/ /\ respBuffer # <<>> /\ respBuffer' = Tail(respBuffer)
                /\ pc' = [pc EXCEPT ![c] = "got"]
                /\ got' = [got EXCEPT ![c] = Head(respBuffer)]
             \/ /\ respBuffer' = respBuffer
                /\ pc' = [pc EXCEPT ![c] = "waiting"]
                /\ got' = [got EXCEPT ![c] = NoFrame]
      BY <1>2 DEF NextFrame
    <2>2. respBuffer \in Seq(SoundFrame)
      BY DEF Ownership, AirSound
    <2>3. respBuffer # <<>> =>
            Head(respBuffer) \in SoundFrame /\ Tail(respBuffer) \in Seq(SoundFrame)
      BY <2>2
    <2>4. respBuffer' \in Seq(SoundFrame)
      <3>1. CASE respBuffer' = respBuffer
        BY <3>1, <2>2, Zenon
      <3>2. CASE respBuffer # <<>> /\ respBuffer' = Tail(respBuffer)
        BY <3>2, <2>3, Zenon
      <3> QED BY <2>1, <3>1, <3>2
    <2>5. got'[c] \in SoundFrame
      BY <2>1, <2>3, EmptyOwn DEF Channel, TypeOK, CallTypes
    <2>6. pc'[c] \in {"got", "waiting"} /\ asm'[c] = a /\ outcome'[c] = outcome[c]
      BY <2>1 DEF Channel, TypeOK, CallTypes
    <2>7. OwnPieces(c)' = OwnPieces(c)
      BY DEF OwnPieces
    <2>8. CallOwn(c)'
      <3>1. kind[c] \in Framed => req[c] <= MaxRids
        BY DEF Ownership, CallOwn
      <3> QED BY <1>0, <2>5, <2>6, <2>7, <3>1 DEF CallOwn, Busy, Unsettled
    <2>9. ASSUME NEW d \in Calls, d # c PROVE CallOwn(d)' /\ pc'[d] = pc[d]
      <3>1. /\ got'[d] = got[d] /\ asm'[d] = asm[d] /\ pc'[d] = pc[d]
            /\ outcome'[d] = outcome[d]
        BY <2>1, <2>9 DEF Channel, TypeOK, CallTypes
      <3> QED BY <3>1, Bystander DEF Ownership
    <2> QED BY <2>4, <2>6, <2>8, <2>9
  <1> QED BY <1>1, <1>2

LEMMA AnswerSound ==
    ASSUME NEW p \in Request, NEW ok \in BOOLEAN, RequestSound(p)
    PROVE  AnswerFrame(p, ok) \in SoundFrame
  <1>1. AnswerFrame(p, ok) \in Frame
    BY AnswerFrameType
  <1>2. AnswerFrame(p, ok).cls = "universal" => kind[p.call] \in Framed
    BY DEF AnswerFrame
  <1>3. AnswerFrame(p, ok).req = p.req
    BY DEF AnswerFrame
  <1>4. kind[p.call] \in Framed => AnswerFrame(p, ok).rid = p.req % RidMod
    BY DEF AnswerFrame
  <1> QED BY <1>1, <1>2, <1>3, <1>4 DEF SoundFrame, RequestSound

\* Taking a fragment of one's own keeps the assembly one's own.
LEMMA ExtendOwn ==
    ASSUME NEW c \in Calls, NEW f \in Frame, asm[c] \in Assembly,
           asm[c].body \in Seq(OwnPieces(c)), Piece(f) \in OwnPieces(c)
    PROVE  Extend(Base(c, f), f).body \in Seq(OwnPieces(c))
  <1>1. Base(c, f).body \in Seq(OwnPieces(c)) /\ Base(c, f) \in Assembly
    BY ExtendType DEF Base
  <1>2. Extend(Base(c, f), f).body = Append(Base(c, f).body, Piece(f))
    BY <1>1 DEF Extend, Assembly
  <1> QED BY <1>1, <1>2

LEMMA InitOwn == Init => Ownership
  <1> SUFFICES ASSUME Init PROVE Ownership  OBVIOUS
  <1>1. AirSound
    BY DEF Init, AirSound
  <1>2. ASSUME NEW c \in Calls PROVE CallOwn(c)
    BY EmptyOwn, RidAssumption DEF Init, CallOwn, Unsettled, Busy
  <1> QED BY <1>1, <1>2 DEF Ownership

LEMMA OwnStep == Channel /\ Ownership /\ [Next]_vars => Ownership'
  <1> SUFFICES ASSUME Channel, Ownership, [Next]_vars PROVE Ownership'  OBVIOUS
  <1>a. /\ kind \in [Calls -> Kinds] /\ req \in [Calls -> Nat] /\ pc \in [Calls -> PCs]
        /\ rids \in 0..MaxRids /\ pending \subseteq Request
        /\ got \in [Calls -> Frame] /\ asm \in [Calls -> Assembly]
        /\ outcome \in [Calls -> Outcome] /\ respWaiter \in Calls \cup {NoCall}
    BY DEF Channel, TypeOK, CallTypes
  <1>b. /\ respBuffer \in Seq(SoundFrame) /\ toHost \in Seq(SoundFrame)
        /\ \A p \in pending : RequestSound(p)
    BY DEF Ownership, AirSound
  <1>c. \A c \in Calls : CallOwn(c)
    BY DEF Ownership
  <1>d. ASSUME NEW c \in Calls, kind[c] = "universal", Busy(c), Mine(c, got[c])
        PROVE  Piece(got[c]) \in OwnPieces(c)
    BY <1>a, <1>c, <1>d, MineIsOwn DEF CallOwn, Framed
  \* Calls move, the air does not.
  <1>e. ASSUME \A d \in Calls : CallOwn(d)' /\ (pc[d] # "idle" => pc'[d] # "idle"),
               kind' = kind, pending' = pending, toHost' = toHost,
               respBuffer' \in Seq(SoundFrame)
        PROVE  Ownership'
    <2>1. \A p \in pending : p.call \in Calls
      BY <1>a DEF Request
    <2> QED BY <1>b, <1>e, <2>1 DEF Ownership, AirSound, RequestSound
  <1>1. ASSUME NEW c \in Calls, Issue(c) PROVE Ownership'
    <2>1. ASSUME NEW d \in Calls, d # c PROVE CallOwn(d)' /\ pc'[d] = pc[d] /\ kind'[d] = kind[d]
      <3>1. /\ got'[d] = got[d] /\ asm'[d] = asm[d] /\ pc'[d] = pc[d]
            /\ outcome'[d] = outcome[d] /\ kind'[d] = kind[d] /\ req'[d] = req[d]
        BY <1>1, <1>a, <2>1 DEF Issue
      <3> QED BY <3>1, <1>c, Bystander
    <2>2. CallOwn(c)'
      <3>1. /\ pc[c] = "idle" /\ pc'[c] = "queued" /\ got'[c] = got[c]
            /\ asm'[c] = asm[c] /\ outcome'[c] = outcome[c] /\ req'[c] = req[c]
        BY <1>1, <1>a DEF Issue
      <3>2. asm[c] = EmptyAsm /\ outcome[c] = Unsettled /\ req[c] <= MaxRids
            /\ got[c] \in SoundFrame
        BY <3>1, <1>c DEF CallOwn, Busy
      <3>3. OwnPieces(c)' = OwnPieces(c)
        BY <3>1 DEF OwnPieces
      <3> QED BY <3>1, <3>2, <3>3, EmptyOwn DEF CallOwn, Unsettled
    <2>3. pending' = pending /\ toHost' = toHost /\ respBuffer' = respBuffer /\ pc[c] = "idle"
      BY <1>1 DEF Issue
    <2>4. ASSUME NEW p \in pending PROVE RequestSound(p)'
      BY <1>a, <1>b, <2>1, <2>3 DEF RequestSound, Request
    <2> QED BY <1>b, <2>1, <2>2, <2>3, <2>4 DEF Ownership, AirSound
  <1>2. ASSUME NEW c \in Calls, Backoff(c) PROVE Ownership'
    <2>1. ASSUME NEW d \in Calls, d # c PROVE CallOwn(d)' /\ pc'[d] = pc[d]
      <3>1. /\ got'[d] = got[d] /\ asm'[d] = asm[d] /\ pc'[d] = pc[d]
            /\ outcome'[d] = outcome[d] /\ kind'[d] = kind[d] /\ req'[d] = req[d]
        BY <1>2, <1>a, <2>1 DEF Backoff
      <3> QED BY <3>1, <1>c, Bystander
    <2>2. CallOwn(c)' /\ pc'[c] = "queued"
      <3>1. /\ pc[c] = "backoff" /\ pc'[c] = "queued" /\ got'[c] = got[c]
            /\ asm'[c] = asm[c] /\ outcome'[c] = outcome[c] /\ req'[c] = req[c]
            /\ kind'[c] = kind[c]
        BY <1>2, <1>a DEF Backoff
      <3>2. OwnPieces(c)' = OwnPieces(c)
        BY <3>1 DEF OwnPieces
      <3> QED BY <3>1, <3>2, <1>c DEF CallOwn, Busy
    <2>3. UNCHANGED <<kind, pending, toHost, respBuffer>>
      BY <1>2 DEF Backoff
    <2> QED BY <1>b, <1>e, <2>1, <2>2, <2>3
  <1>3. ASSUME NEW c \in Calls, Start(c) PROVE Ownership'
    <2>1. ASSUME NEW d \in Calls, d # c PROVE CallOwn(d)' /\ pc'[d] = pc[d]
      <3>1. /\ got'[d] = got[d] /\ asm'[d] = asm[d] /\ pc'[d] = pc[d]
            /\ outcome'[d] = outcome[d] /\ kind'[d] = kind[d] /\ req'[d] = req[d]
        BY <1>3, <1>a, <2>1 DEF Start
      <3> QED BY <3>1, <1>c, Bystander
    <2>2. /\ pc[c] = "queued" /\ pc'[c] = "writing" /\ got'[c] = got[c]
          /\ asm'[c] = asm[c] /\ outcome'[c] = outcome[c]
          /\ UNCHANGED <<kind, toHost, respBuffer>>
          /\ pending' = pending \cup {[call |-> c, req |-> req'[c], next |-> 0]}
      BY <1>3, <1>a DEF Start
    <2>3. kind[c] \in Framed => req'[c] <= MaxRids
      BY <1>3, <1>a, RidAssumption DEF Start
    <2>4. CallOwn(c)'
      <3>1. asm[c] = EmptyAsm /\ outcome[c] = Unsettled /\ got[c] \in SoundFrame
        BY <2>2, <1>c DEF CallOwn, Busy
      <3>2. EmptyAsm.body \in Seq(OwnPieces(c)')
        BY DEF EmptyAsm
      <3> QED BY <2>2, <2>3, <3>1, <3>2 DEF CallOwn, Unsettled
    <2>5. ASSUME NEW p \in pending' PROVE RequestSound(p)'
      <3>1. CASE p \in pending
        BY <3>1, <1>a, <1>b, <2>1, <2>2 DEF RequestSound, Request
      <3>2. CASE p = [call |-> c, req |-> req'[c], next |-> 0]
        BY <3>2, <2>2, <2>3 DEF RequestSound
      <3> QED BY <2>2, <3>1, <3>2
    <2> QED BY <1>b, <2>1, <2>2, <2>4, <2>5 DEF Ownership, AirSound
  \* An exchange that ends, with an error or with frames of its own.
  <1>4. ASSUME NEW c \in Calls, NEW r \in Outcome, Settle(c, r), pc[c] # "idle",
               kind[c] = "universal" /\ r.how = "reply" =>
                 r.cls = "universal" /\ r.body \in Seq(OwnPieces(c)),
               UNCHANGED <<kind, req, pending, toHost, respBuffer>>
        PROVE  Ownership'
    BY <1>4, <1>b, <1>e, SettleOwn
  <1>5. ASSUME NEW c \in Calls, Settle(c, Error), pc[c] # "idle",
               UNCHANGED <<kind, req, pending, toHost, respBuffer>>
        PROVE  Ownership'
    <2>1. Error \in Outcome /\ Error.how # "reply"
      BY Values DEF Error, Unsettled
    <2> QED BY <1>5, <2>1, <1>4
  <1>6. ASSUME NEW c \in Calls, Retry(c), Busy(c),
               UNCHANGED <<kind, req, pending, toHost, respBuffer>>
        PROVE  Ownership'
    BY <1>6, <1>b, <1>e, RetryOwn
  <1>7. ASSUME NEW c \in Calls, NEW a \in Assembly, NextFrame(c, a), Busy(c),
               kind[c] = "universal" => a.body \in Seq(OwnPieces(c)),
               UNCHANGED <<kind, req, pending, toHost>>
        PROVE  Ownership'
    BY <1>7, <1>e, NextFrameOwn
  <1>8. ASSUME NEW c \in Calls, StartClosed(c) \/ WriteFails(c) PROVE Ownership'
    BY <1>8, <1>5 DEF StartClosed, WriteFails
  <1>9. ASSUME NEW c \in Calls, Timeout(c) \/ GapFound(c) PROVE Ownership'
    <2>1. /\ Busy(c) /\ pc[c] # "idle" /\ FailTransient(c)
          /\ UNCHANGED <<kind, req, pending, toHost, respBuffer>>
      BY <1>9 DEF Timeout, GapFound, Busy
    <2> QED BY <2>1, <1>5, <1>6 DEF FailTransient
  <1>10. ASSUME NEW c \in Calls, Written(c) \/ SkipFrame(c) PROVE Ownership'
    <2>1. /\ Busy(c) /\ NextFrame(c, asm[c]) /\ UNCHANGED <<kind, req, pending, toHost>>
      BY <1>10 DEF Written, SkipFrame, Busy
    <2>2. asm[c] \in Assembly /\ (kind[c] = "universal" => asm[c].body \in Seq(OwnPieces(c)))
      BY <1>a, <1>c DEF CallOwn
    <2> QED BY <2>1, <2>2, <1>7
  <1>11. ASSUME NEW c \in Calls, MoreToCome(c) PROVE Ownership'
    <2> DEFINE a == Extend(Base(c, got[c]), got[c])
    <2>1. /\ Busy(c) /\ kind[c] = "universal" /\ Mine(c, got[c])
          /\ NextFrame(c, a) /\ UNCHANGED <<kind, req, pending, toHost>>
      BY <1>11 DEF MoreToCome, Busy
    <2>2. a \in Assembly
      BY <1>a, ExtendType
    <2>3. a.body \in Seq(OwnPieces(c))
      BY <2>1, <1>a, <1>c, <1>d, ExtendOwn DEF CallOwn
    <2> QED BY <2>1, <2>2, <2>3, <1>7
  <1>12. ASSUME NEW c \in Calls, TakePlain(c) \/ TakeSealed(c) \/ TakeRelay(c)
         PROVE  Ownership'
    <2>1. /\ pc[c] # "idle" /\ kind[c] # "universal"
          /\ UNCHANGED <<kind, req, pending, toHost, respBuffer>>
      BY <1>12 DEF TakePlain, TakeSealed, TakeRelay
    <2>2. \E r \in Outcome : Settle(c, r)
      <3>1. Reply(got[c].cls, got[c].ok, <<Piece(got[c])>>) \in Outcome
        BY <1>a, ReplyType
      <3> QED BY <1>12, <3>1, Values DEF TakePlain, TakeSealed, TakeRelay
    <2> QED BY <2>1, <2>2, <1>4
  <1>13. ASSUME NEW c \in Calls, Complete(c) PROVE Ownership'
    <2> DEFINE ext == Extend(Base(c, got[c]), got[c])
               body == IF asm[c].inChain \/ got[c].first THEN ext.body
                                                         ELSE <<Piece(got[c])>>
               reply == Reply("universal", got[c].ok, body)
    <2>1. /\ Busy(c) /\ pc[c] # "idle" /\ kind[c] = "universal" /\ Mine(c, got[c])
          /\ UNCHANGED <<kind, req, pending, toHost, respBuffer>>
      BY <1>13 DEF Complete, Busy
    <2>2. Retry(c) \/ Settle(c, reply)
      BY <1>13 DEF Complete
    <2>3. ext \in Assembly /\ ext.body \in Seq(OwnPieces(c))
      BY <2>1, <1>a, <1>c, <1>d, ExtendType, ExtendOwn DEF CallOwn
    <2>4. /\ <<Piece(got[c])>> \in Seq(OwnPieces(c))
          /\ <<Piece(got[c])>> \in Seq(Fragment)
      <3>1. Piece(got[c]) \in Fragment
        BY <1>a DEF Piece, Fragment, Frame
      <3> QED BY <3>1, <2>1, <1>d
    <2>5. body \in Seq(OwnPieces(c)) /\ body \in Seq(Fragment)
      BY <2>3, <2>4 DEF Assembly
    <2>6. reply \in Outcome /\ reply.cls = "universal" /\ reply.body = body
      BY <2>5, <1>a DEF Reply, Outcome, Frame
    <2> HIDE DEF reply, body
    <2> QED BY <2>1, <2>2, <2>5, <2>6, <1>4, <1>6
  <1>14. CASE RouteFrame
    <2> DEFINE f == Head(toHost)
    <2>1. f \in SoundFrame /\ Tail(toHost) \in Seq(SoundFrame)
      BY <1>14, <1>b DEF RouteFrame
    <2>2. toHost' \in Seq(SoundFrame)
      <3>1. toHost' = <<>> \/ toHost' = Tail(toHost)
        BY <1>14 DEF RouteFrame
      <3>2. <<>> \in Seq(SoundFrame)
        OBVIOUS
      <3> QED BY <2>1, <3>1, <3>2, Zenon
    <2>3. respBuffer' \in Seq(SoundFrame)
      <3>1. respBuffer' = respBuffer \/ respBuffer' = Append(respBuffer, f)
        BY <1>14 DEF RouteFrame
      <3>2. Append(respBuffer, f) \in Seq(SoundFrame)
        BY <2>1, <1>b
      <3> QED BY <1>b, <3>1, <3>2, Zenon
    <2>4. UNCHANGED <<kind, req, asm, outcome, pending>>
      BY <1>14 DEF RouteFrame
    <2>5. \/ got' = got /\ pc' = pc
          \/ /\ respWaiter \in Calls /\ pc[respWaiter] = "waiting"
             /\ got' = [got EXCEPT ![respWaiter] = f]
             /\ pc' = [pc EXCEPT ![respWaiter] = "got"]
      BY <1>14, <1>a DEF RouteFrame, Channel, WaiterServed
    <2> HIDE DEF f
    <2>6. ASSUME NEW d \in Calls PROVE CallOwn(d)' /\ (pc[d] # "idle" => pc'[d] # "idle")
      <3>1. CASE got'[d] = got[d] /\ pc'[d] = pc[d]
        BY <3>1, <2>4, <1>c, Bystander
      <3>2. CASE pc[d] = "waiting" /\ got'[d] = f /\ pc'[d] = "got"
        <4>1. OwnPieces(d)' = OwnPieces(d)
          BY <2>4 DEF OwnPieces
        <4> QED BY <3>2, <4>1, <2>1, <2>4, <1>c DEF CallOwn, Busy
      <3> QED BY <2>5, <3>1, <3>2, <1>a
    <2>7. \A p \in pending : p.call \in Calls
      BY <1>a DEF Request
    <2> QED BY <1>b, <2>2, <2>3, <2>4, <2>6, <2>7 DEF Ownership, AirSound, RequestSound
  <1>15. CASE FireClosed
    <2>1. /\ UNCHANGED <<kind, req, pending, respBuffer>>
          /\ toHost' = toHost \/ toHost' = <<>>
      BY <1>15 DEF FireClosed
    <2>2. toHost' \in Seq(SoundFrame)
      <3>1. <<>> \in Seq(SoundFrame)
        OBVIOUS
      <3> QED BY <1>b, <2>1, <3>1, Zenon
    <2>3. \A d \in Calls : CallOwn(d)' /\ (pc[d] # "idle" => pc'[d] # "idle")
      <3>1. CASE respWaiter = NoCall
        BY <3>1, <1>15, <1>c, <2>1, Bystander DEF FireClosed
      <3>2. CASE respWaiter # NoCall
        <4>1. respWaiter \in Calls /\ pc[respWaiter] # "idle" /\ Settle(respWaiter, Error)
          BY <3>2, <1>15, <1>a DEF FireClosed, Channel, WaiterServed
        <4>2. Error \in Outcome /\ Error.how # "reply"
          BY Values DEF Error, Unsettled
        <4> QED BY <4>1, <4>2, <2>1, SettleOwn
      <3> QED BY <3>1, <3>2
    <2>4. \A p \in pending : p.call \in Calls
      BY <1>a DEF Request
    <2> QED BY <1>b, <2>1, <2>2, <2>3, <2>4 DEF Ownership, AirSound, RequestSound
  <1>16. CASE Device
    <2>1. UNCHANGED <<clientVars, respBuffer>>
      BY <1>16 DEF Device, DeviceEvent, DeviceSend, DeviceRefuse, DeviceLose
    <2>2. toHost' \in Seq(SoundFrame)
      <3>1. \/ toHost' = toHost
            \/ \E g \in SoundFrame : toHost' = Append(toHost, g)
        <4>1. NoFrame \in SoundFrame
          BY Values DEF SoundFrame, NoFrame
        <4>2. \A p \in pending : \A ok \in BOOLEAN : AnswerFrame(p, ok) \in SoundFrame
          BY <1>a, <1>b, AnswerSound
        <4> QED BY <1>16, <4>1, <4>2 DEF Device, DeviceEvent, DeviceSend, DeviceRefuse,
                                         DeviceLose
      <3> QED BY <1>b, <3>1
    <2>3. ASSUME NEW q \in pending' PROVE RequestSound(q)'
      <3>1. \E p \in pending : q.call = p.call /\ q.req = p.req
        BY <1>16, <1>a DEF Device, DeviceEvent, DeviceSend, DeviceRefuse, DeviceLose,
                          Answered, Request
      <3> QED BY <1>b, <2>1, <3>1 DEF RequestSound, clientVars
    <2>4. \A d \in Calls : CallOwn(d)'
      BY <2>1, <1>c, Bystander DEF clientVars
    <2> QED BY <1>b, <2>1, <2>2, <2>3, <2>4 DEF Ownership, AirSound
  <1>17. CASE UNCHANGED vars
    <2>1. \A d \in Calls : CallOwn(d)'
      BY <1>17, <1>c, Bystander DEF vars, clientVars
    <2>2. UNCHANGED <<pc, kind, pending, respBuffer, toHost>>
      BY <1>17 DEF vars, clientVars
    <2> QED BY <1>b, <2>1, <2>2 DEF Ownership, AirSound, RequestSound
  <1> QED
    BY <1>1, <1>2, <1>3, <1>8, <1>9, <1>10, <1>11, <1>12, <1>13, <1>14, <1>15, <1>16,
       <1>17
    DEF Next, ClientStep

\* UniversalOwnReply for any number of calls, retries and fragments, as long as
\* the request ids do not wrap: a late answer, another call's answer or a legacy
\* frame is never returned to a universal call.
THEOREM OwnReplyTheorem == Spec => []UniversalOwnReply
  <1>1. Channel /\ Ownership => UniversalOwnReply
    <2> SUFFICES ASSUME Channel, Ownership, NEW c \in Calls,
                        kind[c] = "universal" /\ outcome[c].how = "reply"
                 PROVE  /\ outcome[c].cls = "universal"
                        /\ \A i \in DOMAIN outcome[c].body :
                              outcome[c].body[i].req = req[c]
      BY DEF UniversalOwnReply
    <2>1. outcome[c].cls = "universal" /\ outcome[c].body \in Seq(OwnPieces(c))
      BY DEF Ownership, CallOwn
    <2>2. ASSUME NEW i \in DOMAIN outcome[c].body PROVE outcome[c].body[i] \in OwnPieces(c)
      BY <2>1
    <2> QED BY <2>1, <2>2 DEF OwnPieces
  <1> QED BY InitChannel, InitOwn, ChannelStep, OwnStep, <1>1, PTL DEF Spec

----------------------------------------------------------------------------
(***************************************************************************)
(* Fragmented answers are returned whole, universal calls keep the safety  *)
(* part of CallContract, and a closed client writes nothing.               *)
(***************************************************************************)
\* The first n fragments of the answer to c's last request.
Prefix(c, n) == [i \in 1..n |-> [req |-> req[c], idx |-> i - 1]]

\* How a frame that answers c is numbered: a refusal is one frame.
Numbered(c, f) ==
    LET n == Frags[c] IN
    IF f.ok /\ n > 1
      THEN /\ f.idx < n /\ (f.first <=> f.idx = 0) /\ (f.more <=> f.idx + 1 < n)
           /\ f.cnt = IF Sequenced[c] THEN n ELSE 0
      ELSE f.idx = 0 /\ f.cnt = 0 /\ ~f.first /\ ~f.more

\* A universal frame carries a request id that was allotted, to one call, and is
\* numbered as that call's answer.
FrameKnown(f) ==
    f.cls = "universal" =>
        /\ f.req \in 1..rids
        /\ \A c \in Calls : kind[c] \in Framed /\ req[c] = f.req => Numbered(c, f)

KnownFrame == {f \in Frame : FrameKnown(f)}

RequestKnown(p) ==
    /\ p.next < Frags[p.call]
    /\ kind[p.call] \in Framed =>
         /\ p.req \in 1..rids
         /\ \A c \in Calls : kind[c] \in Framed /\ req[c] = p.req => c = p.call

\* What a numbered call has assembled is a prefix of the answer.
ChainKnown(c, a) ==
    IF a.inChain
      THEN /\ Frags[c] > 1 /\ a.chainCnt = Frags[c] /\ a.expIdx < Frags[c]
           /\ a.body = Prefix(c, a.expIdx)
      ELSE a = EmptyAsm

ReplyKnown(c, r) ==
    kind[c] = "universal" /\ r.how = "reply" =>
        r.body # <<>> /\ (Sequenced[c] /\ r.ok => r.body = Prefix(c, Frags[c]))

CallKnown(c) ==
    /\ kind[c] \in Framed => req[c] <= rids
    /\ pc[c] = "idle" => req[c] = 0
    /\ pc[c] # "idle" => kind[c] \in Offers[c]
    /\ pc[c] = "done" => outcome[c].how # "none"
    /\ got[c] \in KnownFrame
    /\ kind[c] = "universal" /\ Sequenced[c] => ChainKnown(c, asm[c])
    /\ ReplyKnown(c, outcome[c])

Numbering ==
    /\ respBuffer \in Seq(KnownFrame) /\ toHost \in Seq(KnownFrame)
    /\ \A p \in pending : RequestKnown(p)
    /\ \A c \in Calls : CallKnown(c)

LEMMA NoFrameKnown == NoFrame \in KnownFrame
  BY Values DEF KnownFrame, FrameKnown, NoFrame

LEMMA ErrorKnown ==
    ASSUME NEW c \in Calls
    PROVE  Error \in Outcome /\ Error.how = "error" /\ ReplyKnown(c, Error)
  BY Values DEF Error, Unsettled, ReplyKnown

\* While no id is allotted, what is known of a frame or a request stays known.
LEMMA KnownStable ==
    ASSUME UNCHANGED <<kind, req, rids>>
    PROVE  /\ KnownFrame' = KnownFrame
           /\ \A p : RequestKnown(p)' <=> RequestKnown(p)
           /\ \A c \in Calls : \A a : ChainKnown(c, a)' <=> ChainKnown(c, a)
           /\ \A c \in Calls : \A r : ReplyKnown(c, r)' <=> ReplyKnown(c, r)
  <1>1. KnownFrame' = KnownFrame
    BY DEF KnownFrame, FrameKnown, Numbered
  <1>2. \A p : RequestKnown(p)' <=> RequestKnown(p)
    BY DEF RequestKnown
  <1>3. \A c \in Calls : \A n : Prefix(c, n)' = Prefix(c, n)
    BY DEF Prefix
  <1>4. \A c \in Calls : \A a : ChainKnown(c, a)' <=> ChainKnown(c, a)
    BY <1>3 DEF ChainKnown
  <1>5. \A c \in Calls : \A r : ReplyKnown(c, r)' <=> ReplyKnown(c, r)
    BY <1>3 DEF ReplyKnown
  <1> QED BY <1>1, <1>2, <1>4, <1>5

\* A step in which one call moves, and the air keeps to known frames.
LEMMA OneMoves ==
    ASSUME NEW c \in Calls, Channel, Numbering,
           UNCHANGED <<kind, req, rids, pending>>,
           \A d \in Calls \ {c} : /\ got'[d] = got[d] /\ asm'[d] = asm[d]
                                  /\ pc'[d] = pc[d] /\ outcome'[d] = outcome[d],
           pc[c] # "idle", pc'[c] # "idle",
           pc'[c] = "done" => outcome'[c].how # "none",
           got'[c] \in KnownFrame,
           kind[c] = "universal" /\ Sequenced[c] => ChainKnown(c, asm'[c]),
           ReplyKnown(c, outcome'[c]),
           respBuffer' \in Seq(KnownFrame), toHost' \in Seq(KnownFrame)
    PROVE  Numbering'
  <1>1. CallKnown(c)'
    <2>1. CallKnown(c)
      BY DEF Numbering
    <2>2. kind[c] = "universal" /\ Sequenced[c] => ChainKnown(c, asm[c])'
      BY KnownStable DEF ChainKnown, Prefix
    <2>3. ReplyKnown(c, outcome[c])'
      BY KnownStable DEF ReplyKnown, Prefix
    <2>4. KnownFrame' = KnownFrame
      BY KnownStable
    <2> QED BY <2>1, <2>2, <2>3, <2>4 DEF CallKnown
  <1>2. ASSUME NEW d \in Calls, d # c PROVE CallKnown(d)'
    <2>1. CallKnown(d)
      BY DEF Numbering
    <2>2. kind[d] = "universal" /\ Sequenced[d] => ChainKnown(d, asm[d])'
      BY <1>2, <2>1 DEF ChainKnown, Prefix, CallKnown
    <2>3. ReplyKnown(d, outcome[d])'
      BY <1>2, <2>1 DEF ReplyKnown, Prefix, CallKnown
    <2>4. KnownFrame' = KnownFrame
      BY KnownStable
    <2> QED BY <1>2, <2>1, <2>2, <2>3, <2>4 DEF CallKnown
  <1>3. \A p \in pending' : RequestKnown(p)'
    BY KnownStable DEF Numbering
  <1>4. KnownFrame' = KnownFrame
    BY KnownStable
  <1> QED BY <1>1, <1>2, <1>3, <1>4 DEF Numbering

LEMMA SettleKnown ==
    ASSUME NEW c \in Calls, NEW r \in Outcome, Channel, Numbering, Settle(c, r),
           pc[c] # "idle", r.how # "none", ReplyKnown(c, r),
           UNCHANGED <<kind, req, rids, pending, respBuffer>>,
           toHost' = toHost \/ toHost' = <<>>
    PROVE  Numbering'
  <1>1. /\ pc' = [pc EXCEPT ![c] = "done"] /\ outcome' = [outcome EXCEPT ![c] = r]
        /\ got' = [got EXCEPT ![c] = NoFrame] /\ asm' = [asm EXCEPT ![c] = EmptyAsm]
    BY DEF Settle, EndRoundTrip
  <1>2. ChainKnown(c, EmptyAsm)
    BY DEF ChainKnown, EmptyAsm
  <1>3. toHost' \in Seq(KnownFrame) /\ respBuffer' \in Seq(KnownFrame)
    <2>1. <<>> \in Seq(KnownFrame)
      OBVIOUS
    <2>2. toHost \in Seq(KnownFrame) /\ respBuffer \in Seq(KnownFrame)
      BY DEF Numbering
    <2> QED BY <2>1, <2>2, Zenon
  <1>4. /\ pc'[c] = "done" /\ outcome'[c] = r /\ got'[c] = NoFrame /\ asm'[c] = EmptyAsm
        /\ \A d \in Calls \ {c} : /\ got'[d] = got[d] /\ asm'[d] = asm[d]
                                  /\ pc'[d] = pc[d] /\ outcome'[d] = outcome[d]
    BY <1>1 DEF Channel, TypeOK, CallTypes
  <1> QED BY <1>2, <1>3, <1>4, NoFrameKnown, OneMoves

LEMMA RetryKnown ==
    ASSUME NEW c \in Calls, Channel, Numbering, Retry(c), pc[c] # "idle",
           UNCHANGED <<kind, req, rids, pending, respBuffer, toHost>>
    PROVE  Numbering'
  <1>1. /\ pc' = [pc EXCEPT ![c] = "backoff"] /\ outcome' = outcome
        /\ got' = [got EXCEPT ![c] = NoFrame] /\ asm' = [asm EXCEPT ![c] = EmptyAsm]
    BY DEF Retry, EndRoundTrip
  <1>2. ChainKnown(c, EmptyAsm)
    BY DEF ChainKnown, EmptyAsm
  <1>3. /\ toHost' \in Seq(KnownFrame) /\ respBuffer' \in Seq(KnownFrame)
        /\ ReplyKnown(c, outcome[c])
    BY DEF Numbering, CallKnown
  <1>4. /\ pc'[c] = "backoff" /\ outcome'[c] = outcome[c] /\ got'[c] = NoFrame
        /\ asm'[c] = EmptyAsm
        /\ \A d \in Calls \ {c} : /\ got'[d] = got[d] /\ asm'[d] = asm[d]
                                  /\ pc'[d] = pc[d] /\ outcome'[d] = outcome[d]
    BY <1>1 DEF Channel, TypeOK, CallTypes
  <1> QED BY <1>2, <1>3, <1>4, NoFrameKnown, OneMoves

LEMMA NextFrameKnown ==
    ASSUME NEW c \in Calls, NEW a \in Assembly, Channel, Numbering, NextFrame(c, a),
           pc[c] # "idle", outcome[c] = Unsettled,
           kind[c] = "universal" /\ Sequenced[c] => ChainKnown(c, a),
           UNCHANGED <<kind, req, rids, pending, toHost>>
    PROVE  Numbering'
  <1>1. CASE respBuffer = <<>> /\ closed
    <2>1. Settle(c, Error) /\ respBuffer' = respBuffer
      BY <1>1 DEF NextFrame
    <2> QED BY <2>1, ErrorKnown, SettleKnown
  <1>2. CASE ~(respBuffer = <<>> /\ closed)
    <2>1. /\ asm' = [asm EXCEPT ![c] = a] /\ outcome' = outcome
          /\ \/ /\ respBuffer # <<>> /\ respBuffer' = Tail(respBuffer)
                /\ pc' = [pc EXCEPT ![c] = "got"]
                /\ got' = [got EXCEPT ![c] = Head(respBuffer)]
             \/ /\ respBuffer' = respBuffer
                /\ pc' = [pc EXCEPT ![c] = "waiting"]
                /\ got' = [got EXCEPT ![c] = NoFrame]
      BY <1>2 DEF NextFrame
    <2>2. respBuffer \in Seq(KnownFrame) /\ toHost \in Seq(KnownFrame)
      BY DEF Numbering
    <2>3. respBuffer # <<>> =>
            Head(respBuffer) \in KnownFrame /\ Tail(respBuffer) \in Seq(KnownFrame)
      BY <2>2
    <2>4. respBuffer' \in Seq(KnownFrame)
      <3>1. CASE respBuffer' = respBuffer
        BY <3>1, <2>2, Zenon
      <3>2. CASE respBuffer # <<>> /\ respBuffer' = Tail(respBuffer)
        BY <3>2, <2>3, Zenon
      <3> QED BY <2>1, <3>1, <3>2
    <2>5. got'[c] \in KnownFrame /\ pc'[c] \in {"got", "waiting"}
      BY <2>1, <2>3, NoFrameKnown DEF Channel, TypeOK, CallTypes
    <2>6. /\ asm'[c] = a /\ outcome'[c] = outcome[c]
          /\ \A d \in Calls \ {c} : /\ got'[d] = got[d] /\ asm'[d] = asm[d]
                                    /\ pc'[d] = pc[d] /\ outcome'[d] = outcome[d]
      BY <2>1 DEF Channel, TypeOK, CallTypes
    <2>7. ReplyKnown(c, outcome[c])
      BY DEF Numbering, CallKnown
    <2> QED BY <2>2, <2>4, <2>5, <2>6, <2>7, OneMoves
  <1> QED BY <1>1, <1>2

\* A frame that passes the filter of a universal call is numbered as its answer.
LEMMA MineIsNumbered ==
    ASSUME NEW c \in Calls, Channel, Ownership, Numbering,
           kind[c] = "universal", Busy(c), Mine(c, got[c])
    PROVE  got[c] \in Frame /\ got[c].req = req[c] /\ Numbered(c, got[c])
  <1>1. /\ got[c] \in KnownFrame /\ got[c] \in SoundFrame /\ got[c].cls = "universal"
        /\ req[c] \in Nat /\ req[c] <= MaxRids
    BY DEF Numbering, CallKnown, Ownership, CallOwn, Channel, TypeOK, Framed, Mine
  <1>2. Piece(got[c]) \in OwnPieces(c)
    BY <1>1, MineIsOwn
  <1>3. got[c].req = req[c]
    BY <1>2 DEF Piece, OwnPieces
  <1> QED BY <1>1, <1>3 DEF KnownFrame, FrameKnown, Framed

LEMMA PrefixGrows ==
    ASSUME NEW c \in Calls, NEW n \in Nat
    PROVE  /\ Append(Prefix(c, n), [req |-> req[c], idx |-> n]) = Prefix(c, n + 1)
           /\ Prefix(c, 0) = <<>> /\ Len(Prefix(c, n)) = n
           /\ <<[req |-> req[c], idx |-> 0]>> = Prefix(c, 1)
  BY DEF Prefix

\* A fragment in turn extends the prefix assembled so far by one.
LEMMA ExtendKnown ==
    ASSUME NEW c \in Calls, NEW f \in Frame, asm[c] \in Assembly, Sequenced[c],
           ChainKnown(c, asm[c]), Numbered(c, f), f.req = req[c], f.ok, Frags[c] > 1,
           asm[c].inChain \/ f.first, ~Gap(c, f)
    PROVE  LET e == Extend(Base(c, f), f) IN
           /\ e.inChain /\ e.chainCnt = Frags[c] /\ e.expIdx = f.idx + 1
           /\ e.body = Prefix(c, f.idx + 1)
  <1> DEFINE b == Base(c, f)
  <1>0. Frags[c] \in Nat /\ f.idx \in Nat
    BY OffersAssumption DEF Frame
  <1>1. /\ b \in Assembly /\ b.inChain /\ b.chainCnt = Frags[c]
        /\ b.body = Prefix(c, b.expIdx)
    <2>1. CASE f.first
      BY <2>1, <1>0, PrefixGrows, ExtendType DEF Base, Numbered
    <2>2. CASE ~f.first
      BY <2>2 DEF Base, ChainKnown
    <2> QED BY <2>1, <2>2
  <1>2. b.expIdx = f.idx
    BY <1>0, <1>1 DEF Gap, Numbered
  <1>3. Piece(f) = [req |-> req[c], idx |-> f.idx]
    BY DEF Piece
  <1>4. /\ Extend(b, f).inChain = b.inChain /\ Extend(b, f).chainCnt = b.chainCnt
        /\ Extend(b, f).expIdx = b.expIdx + 1
        /\ Extend(b, f).body = Append(b.body, Piece(f))
    <2> HIDE DEF b
    <2>1. b \in Assembly /\ b.chainCnt > 0
      BY <1>0, <1>1
    <2> QED BY <2>1 DEF Extend, Assembly
  <1> HIDE DEF b
  <1>5. Extend(b, f).body = Prefix(c, f.idx + 1)
    BY <1>0, <1>1, <1>2, <1>3, <1>4, PrefixGrows
  <1> QED BY <1>1, <1>2, <1>4, <1>5 DEF b

LEMMA InitNumbering == Init => Numbering
  <1> SUFFICES ASSUME Init PROVE Numbering  OBVIOUS
  <1>1. ASSUME NEW c \in Calls PROVE CallKnown(c)
    <2>1. /\ kind[c] = "plain" /\ pc[c] = "idle" /\ req[c] = 0 /\ rids = 0
          /\ got[c] = NoFrame /\ outcome[c] = Unsettled
      BY DEF Init
    <2> QED BY <2>1, NoFrameKnown DEF CallKnown, ReplyKnown, Unsettled, Framed
  <1>2. respBuffer \in Seq(KnownFrame) /\ toHost \in Seq(KnownFrame) /\ pending = {}
    BY DEF Init
  <1> QED BY <1>1, <1>2 DEF Numbering

\* A request id is fresh when it is allotted: what is known stays known.
LEMMA StartKnown ==
    ASSUME NEW c \in Calls, Channel, Ownership, Numbering, Start(c)
    PROVE  Numbering'
  <1>a. /\ kind \in [Calls -> Kinds] /\ req \in [Calls -> Nat] /\ pc \in [Calls -> PCs]
        /\ rids \in Nat /\ pending \subseteq Request
    BY DEF Channel, TypeOK, CallTypes
  <1>b. /\ UNCHANGED <<kind, got, asm, outcome, toHost, respBuffer>>
        /\ pc' = [pc EXCEPT ![c] = "writing"] /\ pc[c] = "queued"
        /\ pending' = pending \cup {[call |-> c, req |-> req'[c], next |-> 0]}
        /\ rids' \in Nat /\ rids <= rids'
        /\ \A d \in Calls \ {c} : req'[d] = req[d]
    BY <1>a DEF Start
  <1>c. kind[c] \in Framed => rids' = rids + 1 /\ req'[c] = rids + 1
    BY <1>a DEF Start
  <1>1. ASSUME NEW f \in KnownFrame PROVE f \in KnownFrame'
    <2>1. f \in Frame /\ FrameKnown(f)
      BY DEF KnownFrame
    <2>2. ASSUME f.cls = "universal" PROVE f.req \in 1..rids'
      BY <1>a, <1>b, <2>1, <2>2 DEF FrameKnown
    <2>3. ASSUME f.cls = "universal", NEW d \in Calls, kind[d] \in Framed, req'[d] = f.req
          PROVE  Numbered(d, f)
      <3>1. d # c
        BY <1>a, <1>c, <2>1, <2>3 DEF FrameKnown
      <3> QED BY <1>b, <2>1, <2>3, <3>1 DEF FrameKnown
    <2>4. FrameKnown(f)'
      BY <1>b, <2>2, <2>3 DEF FrameKnown, Numbered
    <2> QED BY <2>1, <2>4 DEF KnownFrame
  <1>2. respBuffer' \in Seq(KnownFrame') /\ toHost' \in Seq(KnownFrame')
    BY <1>1, <1>b DEF Numbering
  <1>3. ASSUME NEW p \in pending PROVE RequestKnown(p)'
    <2>1. RequestKnown(p) /\ p.call \in Calls
      BY <1>a DEF Numbering, Request
    <2>2. ASSUME kind[p.call] \in Framed
          PROVE  /\ p.req \in 1..rids'
                 /\ \A d \in Calls : kind[d] \in Framed /\ req'[d] = p.req => d = p.call
      <3>1. p.req \in 1..rids
        BY <2>1, <2>2 DEF RequestKnown
      <3>2. kind[c] \in Framed => req'[c] # p.req
        BY <3>1, <1>a, <1>c
      <3> QED BY <3>1, <3>2, <2>1, <2>2, <1>a, <1>b DEF RequestKnown
    <2> QED BY <1>b, <2>1, <2>2 DEF RequestKnown
  <1>4. ASSUME NEW p, p = [call |-> c, req |-> req'[c], next |-> 0]
        PROVE  RequestKnown(p)'
    <2>0. p.call = c /\ p.req = req'[c] /\ p.next = 0
      BY <1>4
    <2>1. Frags[c] > 0
      BY OffersAssumption
    <2>2. ASSUME NEW d \in Calls, kind[d] \in Framed, kind[c] \in Framed, req'[d] = req'[c]
          PROVE  d = c
      <3>1. req[d] <= rids
        BY <2>2 DEF Numbering, CallKnown
      <3> QED BY <2>2, <3>1, <1>a, <1>b, <1>c
    <2>3. kind[c] \in Framed => req'[c] \in 1..rids'
      BY <1>a, <1>c
    <2> QED BY <2>0, <2>1, <2>2, <2>3, <1>b DEF RequestKnown
  <1>5. ASSUME NEW d \in Calls PROVE CallKnown(d)'
    <2>1. CallKnown(d) /\ got'[d] \in KnownFrame'
      BY <1>1, <1>b DEF Numbering, CallKnown
    <2>2. CASE d # c
      <3>1. pc'[d] = pc[d] /\ req'[d] = req[d]
        BY <2>2, <1>a, <1>b
      <3>2. Prefix(d, Frags[d])' = Prefix(d, Frags[d])
            /\ Prefix(d, asm[d].expIdx)' = Prefix(d, asm[d].expIdx)
        BY <3>1, <1>b DEF Prefix
      <3>3. kind[d] \in Framed => req'[d] <= rids'
        BY <2>1, <3>1, <1>a, <1>b DEF CallKnown
      <3> QED BY <2>1, <3>1, <3>2, <3>3, <1>b DEF CallKnown, ChainKnown, ReplyKnown
    <2>3. CASE d = c
      <3>1. pc'[c] = "writing" /\ (kind[c] \in Framed => req'[c] <= rids')
        BY <1>a, <1>b, <1>c
      <3>2. asm[c] = EmptyAsm /\ outcome[c] = Unsettled
        BY <1>b DEF Ownership, CallOwn, Busy
      <3> QED BY <2>1, <2>3, <3>1, <3>2, <1>b
              DEF CallKnown, ChainKnown, ReplyKnown, EmptyAsm, Unsettled
    <2> QED BY <2>2, <2>3
  <1> QED BY <1>2, <1>3, <1>4, <1>5, <1>b DEF Numbering

\* What the device sends, and what it still has to answer, is known.
LEMMA AnswerKnown ==
    ASSUME NEW p \in Request, NEW ok \in BOOLEAN, Channel, RequestKnown(p),
           ok \/ p.next = 0
    PROVE  AnswerFrame(p, ok) \in KnownFrame
  <1> DEFINE f == AnswerFrame(p, ok)
             n == Frags[p.call]
  <1>1. f \in Frame
    BY AnswerFrameType
  <1>2. n \in Nat /\ n > 0 /\ p.next \in Nat /\ p.next < n /\ p.call \in Calls
    BY OffersAssumption DEF RequestKnown, Request
  <1>3. /\ f.cls = "universal" => kind[p.call] \in Framed
        /\ f.req = p.req /\ f.idx = p.next /\ f.ok = ok
        /\ f.cnt = (IF n > 1 /\ ok /\ Sequenced[p.call] THEN n ELSE 0)
        /\ f.first <=> n > 1 /\ ok /\ p.next = 0
        /\ f.more <=> ok /\ p.next + 1 < n
    BY DEF AnswerFrame
  <1> HIDE DEF f
  <1>4. Numbered(p.call, f)
    <2>1. CASE ok /\ n > 1
      BY <2>1, <1>2, <1>3 DEF Numbered
    <2>2. CASE ok /\ ~(n > 1)
      BY <2>2, <1>2, <1>3 DEF Numbered
    <2>3. CASE ~ok
      BY <2>3, <1>2, <1>3 DEF Numbered
    <2> QED BY <2>1, <2>2, <2>3
  <1>5. FrameKnown(f)
    BY <1>3, <1>4 DEF FrameKnown, RequestKnown
  <1> QED BY <1>1, <1>5 DEF KnownFrame, f

\* Everything outside the device only moves one call at a time: an action that
\* ends an exchange goes through SettleKnown or RetryKnown, one that reads on
\* through NextFrameKnown.
LEMMA NumberingStep == Channel /\ Ownership /\ Numbering /\ [Next]_vars => Numbering'
  <1> SUFFICES ASSUME Channel, Ownership, Numbering, [Next]_vars PROVE Numbering'
    OBVIOUS
  <1>a. /\ kind \in [Calls -> Kinds] /\ req \in [Calls -> Nat] /\ pc \in [Calls -> PCs]
        /\ rids \in Nat /\ pending \subseteq Request
        /\ got \in [Calls -> Frame] /\ asm \in [Calls -> Assembly]
        /\ outcome \in [Calls -> Outcome] /\ respWaiter \in Calls \cup {NoCall}
    BY DEF Channel, TypeOK, CallTypes
  <1>b. /\ respBuffer \in Seq(KnownFrame) /\ toHost \in Seq(KnownFrame)
        /\ \A p \in pending : RequestKnown(p)
        /\ \A c \in Calls : CallKnown(c)
    BY DEF Numbering
  <1>c. ASSUME NEW c \in Calls, Busy(c) PROVE pc[c] # "idle" /\ outcome[c] = Unsettled
    BY <1>c DEF Ownership, CallOwn, Busy
  <1>1. ASSUME NEW c \in Calls, Issue(c) PROVE Numbering'
    <2>1. /\ UNCHANGED <<req, rids, got, asm, outcome, respBuffer, toHost, pending>>
          /\ pc[c] = "idle" /\ pc' = [pc EXCEPT ![c] = "queued"]
          /\ kind'[c] \in Offers[c] /\ \A d \in Calls \ {c} : kind'[d] = kind[d]
      BY <1>1, <1>a, OffersAssumption DEF Issue
    <2>2. req[c] = 0
      BY <1>b, <2>1 DEF CallKnown
    <2>3. ASSUME NEW f \in KnownFrame PROVE f \in KnownFrame'
      BY <1>a, <2>1, <2>2 DEF KnownFrame, FrameKnown, Numbered
    <2>4. respBuffer' \in Seq(KnownFrame') /\ toHost' \in Seq(KnownFrame')
      BY <1>b, <2>1, <2>3
    <2>5. ASSUME NEW p \in pending PROVE RequestKnown(p)'
      <3>1. p.call # c /\ p.call \in Calls /\ RequestKnown(p)
        BY <1>a, <1>b, <2>1 DEF Ownership, AirSound, RequestSound, Request
      <3>2. kind'[p.call] = kind[p.call]
        BY <3>1, <2>1
      <3> QED BY <3>1, <3>2, <2>1, <2>2 DEF RequestKnown
    <2>6. ASSUME NEW d \in Calls PROVE CallKnown(d)'
      <3>1. CallKnown(d) /\ got'[d] \in KnownFrame'
        BY <1>b, <2>1, <2>3 DEF CallKnown
      <3>2. CASE d # c
        <4>1. kind'[d] = kind[d] /\ pc'[d] = pc[d]
          BY <3>2, <2>1, <1>a
        <4>2. Prefix(d, Frags[d])' = Prefix(d, Frags[d])
              /\ Prefix(d, asm[d].expIdx)' = Prefix(d, asm[d].expIdx)
          BY <2>1 DEF Prefix
        <4> QED BY <3>1, <4>1, <4>2, <2>1 DEF CallKnown, ChainKnown, ReplyKnown
      <3>3. CASE d = c
        <4>1. asm[c] = EmptyAsm /\ outcome[c] = Unsettled
          BY <2>1 DEF Ownership, CallOwn, Busy
        <4>2. pc'[c] = "queued"
          BY <2>1, <1>a
        <4> QED BY <3>1, <3>3, <4>1, <4>2, <2>1, <2>2, <1>a
                DEF CallKnown, ChainKnown, ReplyKnown, EmptyAsm, Unsettled
      <3> QED BY <3>2, <3>3
    <2> QED BY <2>1, <2>4, <2>5, <2>6 DEF Numbering
  <1>2. ASSUME NEW c \in Calls, Backoff(c) PROVE Numbering'
    <2>1. /\ UNCHANGED <<kind, req, rids, got, asm, outcome, respBuffer, toHost, pending>>
          /\ pc[c] = "backoff" /\ pc' = [pc EXCEPT ![c] = "queued"]
      BY <1>2 DEF Backoff
    <2>2. CallKnown(c) /\ pc'[c] = "queued" /\ \A d \in Calls \ {c} : pc'[d] = pc[d]
      BY <2>1, <1>a, <1>b
    <2> QED BY <2>1, <2>2, <1>b, OneMoves DEF CallKnown
  <1>3. ASSUME NEW c \in Calls, Start(c) PROVE Numbering'
    BY <1>3, StartKnown
  <1>4. ASSUME NEW c \in Calls, StartClosed(c) \/ WriteFails(c) PROVE Numbering'
    <2>1. /\ Settle(c, Error) /\ pc[c] # "idle"
          /\ UNCHANGED <<kind, req, rids, pending, respBuffer, toHost>>
      BY <1>4 DEF StartClosed, WriteFails
    <2> QED BY <2>1, ErrorKnown, SettleKnown
  <1>5. ASSUME NEW c \in Calls, Timeout(c) \/ GapFound(c) PROVE Numbering'
    <2>1. /\ FailTransient(c) /\ pc[c] # "idle"
          /\ UNCHANGED <<kind, req, rids, pending, respBuffer, toHost>>
      BY <1>5 DEF Timeout, GapFound
    <2>2. CASE Retry(c)
      BY <2>1, <2>2, RetryKnown
    <2>3. CASE Settle(c, Error)
      BY <2>1, <2>3, ErrorKnown, SettleKnown
    <2> QED BY <2>1, <2>2, <2>3 DEF FailTransient
  <1>6. ASSUME NEW c \in Calls, Written(c) \/ SkipFrame(c) PROVE Numbering'
    <2>1. /\ Busy(c) /\ NextFrame(c, asm[c])
          /\ UNCHANGED <<kind, req, rids, pending, toHost>>
      BY <1>6 DEF Written, SkipFrame, Busy
    <2>2. /\ asm[c] \in Assembly
          /\ kind[c] = "universal" /\ Sequenced[c] => ChainKnown(c, asm[c])
      BY <1>a, <1>b DEF CallKnown
    <2> QED BY <2>1, <2>2, <1>c, NextFrameKnown
  <1>7. ASSUME NEW c \in Calls, TakePlain(c) \/ TakeSealed(c) \/ TakeRelay(c)
        PROVE  Numbering'
    <2>1. /\ pc[c] # "idle" /\ kind[c] # "universal"
          /\ UNCHANGED <<kind, req, rids, pending, respBuffer, toHost>>
      BY <1>7 DEF TakePlain, TakeSealed, TakeRelay
    <2>2. \E r \in Outcome : r.how # "none" /\ Settle(c, r)
      <3>1. /\ Reply(got[c].cls, got[c].ok, <<Piece(got[c])>>) \in Outcome
            /\ Reply(got[c].cls, got[c].ok, <<Piece(got[c])>>).how = "reply"
        BY <1>a, ReplyType DEF Reply
      <3>2. Reply("sealed", got[c].ok, <<Piece(got[c])>>) \in Outcome
            /\ Reply("sealed", got[c].ok, <<Piece(got[c])>>).how = "reply"
        BY <1>a DEF Frame, Piece, Reply, Outcome, Fragment
      <3>3. Reply("universal", got[c].ok, <<Piece(got[c])>>) \in Outcome
            /\ Reply("universal", got[c].ok, <<Piece(got[c])>>).how = "reply"
        BY <1>a DEF Frame, Piece, Reply, Outcome, Fragment
      <3> QED BY <1>7, <3>1, <3>2, <3>3, ErrorKnown DEF TakePlain, TakeSealed, TakeRelay
    <2> QED BY <2>1, <2>2, SettleKnown DEF ReplyKnown
  <1>8. ASSUME NEW c \in Calls, MoreToCome(c) PROVE Numbering'
    <2> DEFINE f == got[c]
               e == Extend(Base(c, f), f)
    <2>1. /\ Busy(c) /\ kind[c] = "universal" /\ Mine(c, f) /\ ~Stray(c, f) /\ ~Gap(c, f)
          /\ f.more /\ NextFrame(c, e) /\ UNCHANGED <<kind, req, rids, pending, toHost>>
      BY <1>8 DEF MoreToCome, Busy
    <2>2. f \in Frame /\ f.req = req[c] /\ Numbered(c, f)
      BY <2>1, MineIsNumbered
    <2>3. f.ok /\ Frags[c] > 1 /\ f.idx + 1 < Frags[c]
      BY <2>1, <2>2 DEF Numbered
    <2>4. asm[c] \in Assembly /\ e \in Assembly
      BY <1>a, ExtendType
    <2>5. Sequenced[c] => ChainKnown(c, e)
      <3>1. Sequenced[c] => ChainKnown(c, asm[c])
        BY <1>b, <2>1 DEF CallKnown
      <3>2. asm[c].inChain \/ f.first
        BY <2>1 DEF Stray
      <3>3. Sequenced[c] => /\ e.inChain /\ e.chainCnt = Frags[c] /\ e.expIdx = f.idx + 1
                            /\ e.body = Prefix(c, f.idx + 1)
        BY <2>1, <2>2, <2>3, <2>4, <3>1, <3>2, ExtendKnown
      <3> HIDE DEF e, f
      <3> QED BY <3>3, <2>3 DEF ChainKnown
    <2> QED BY <2>1, <2>4, <2>5, <1>c, NextFrameKnown
  <1>9. ASSUME NEW c \in Calls, Complete(c) PROVE Numbering'
    <2> DEFINE f == got[c]
               e == Extend(Base(c, f), f)
               body == IF asm[c].inChain \/ f.first THEN e.body ELSE <<Piece(f)>>
               reply == Reply("universal", f.ok, body)
    <2>1. /\ Busy(c) /\ kind[c] = "universal" /\ Mine(c, f) /\ ~Gap(c, f) /\ ~f.more
          /\ Retry(c) \/ Settle(c, reply)
          /\ UNCHANGED <<kind, req, rids, pending, respBuffer, toHost>>
      BY <1>9 DEF Complete, Busy
    <2>2. f \in Frame /\ f.req = req[c] /\ Numbered(c, f)
      BY <2>1, MineIsNumbered
    <2>3. asm[c] \in Assembly /\ e \in Assembly
      BY <1>a, <2>2, ExtendType
    <2>4. body \in Seq(Fragment) /\ body # <<>>
      <3>1. Piece(f) \in Fragment
        BY <2>2 DEF Piece, Fragment, Frame
      <3>2. e.body = Append(Base(c, f).body, Piece(f)) /\ Base(c, f).body \in Seq(Fragment)
        <4>1. Base(c, f) \in Assembly
          BY <1>a, <2>2, ExtendType
        <4> QED BY <4>1 DEF Extend, Assembly
      <3>3. e.body # <<>> /\ e.body \in Seq(Fragment)
        BY <3>1, <3>2
      <3> HIDE DEF e
      <3> QED BY <3>1, <3>3
    <2>5. Sequenced[c] /\ f.ok => body = Prefix(c, Frags[c])
      <3> SUFFICES ASSUME Sequenced[c], f.ok PROVE body = Prefix(c, Frags[c])
        OBVIOUS
      <3>0. ChainKnown(c, asm[c]) /\ Frags[c] \in Nat /\ Frags[c] > 0 /\ f.idx \in Nat
        BY <1>b, <2>1, <2>2, OffersAssumption DEF CallKnown, Frame
      <3>1. CASE Frags[c] > 1
        <4>1. f.idx + 1 = Frags[c] /\ ~f.first /\ f.cnt = Frags[c]
          BY <3>0, <3>1, <2>1, <2>2 DEF Numbered
        <4>2. asm[c].inChain
          BY <4>1, <3>0, <3>1, <2>1 DEF Gap
        <4>3. e.body = Prefix(c, f.idx + 1)
          BY <3>0, <3>1, <4>2, <2>1, <2>2, <2>3, ExtendKnown
        <4> HIDE DEF e
        <4> QED BY <4>1, <4>2, <4>3
      <3>2. CASE Frags[c] = 1
        <4>1. ~asm[c].inChain /\ ~f.first /\ f.idx = 0
          BY <3>0, <3>2, <2>2 DEF ChainKnown, Numbered
        <4>2. body = <<[req |-> req[c], idx |-> 0]>>
          BY <4>1, <2>2 DEF Piece
        <4> QED BY <4>2, <3>2, PrefixGrows
      <3> QED BY <3>0, <3>1, <3>2
    <2> HIDE DEF body
    <2>6. /\ reply \in Outcome /\ reply.how = "reply" /\ reply.body = body
          /\ reply.ok = f.ok
      BY <2>2, <2>4 DEF Reply, Outcome, Frame
    <2> HIDE DEF reply
    <2>7. CASE Settle(c, reply)
      BY <2>1, <2>4, <2>5, <2>6, <2>7, <1>c, SettleKnown DEF ReplyKnown
    <2>8. CASE Retry(c)
      BY <2>1, <2>8, <1>c, RetryKnown
    <2> QED BY <2>1, <2>7, <2>8
  <1>10. CASE RouteFrame
    <2> DEFINE f == Head(toHost)
    <2>1. f \in KnownFrame /\ Tail(toHost) \in Seq(KnownFrame)
      BY <1>10, <1>b DEF RouteFrame
    <2>2. toHost' \in Seq(KnownFrame)
      <3>1. toHost' = <<>> \/ toHost' = Tail(toHost)
        BY <1>10 DEF RouteFrame
      <3>2. <<>> \in Seq(KnownFrame)
        OBVIOUS
      <3> QED BY <2>1, <3>1, <3>2, Zenon
    <2>3. respBuffer' \in Seq(KnownFrame)
      <3>1. respBuffer' = respBuffer \/ respBuffer' = Append(respBuffer, f)
        BY <1>10 DEF RouteFrame
      <3>2. Append(respBuffer, f) \in Seq(KnownFrame)
        BY <2>1, <1>b
      <3> QED BY <1>b, <3>1, <3>2, Zenon
    <2>4. UNCHANGED <<kind, req, rids, asm, outcome, pending>>
      BY <1>10 DEF RouteFrame
    <2>5. \/ got' = got /\ pc' = pc
          \/ /\ respWaiter \in Calls /\ pc[respWaiter] = "waiting"
             /\ got' = [got EXCEPT ![respWaiter] = f]
             /\ pc' = [pc EXCEPT ![respWaiter] = "got"]
      BY <1>10, <1>a DEF RouteFrame, Channel, WaiterServed
    <2> HIDE DEF f
    <2>6. KnownFrame' = KnownFrame /\ \A p \in pending' : RequestKnown(p)'
      BY <2>4, <1>b, KnownStable
    <2>7. ASSUME NEW d \in Calls PROVE CallKnown(d)'
      <3>1. CallKnown(d)
        BY <1>b
      <3>2. Prefix(d, Frags[d])' = Prefix(d, Frags[d])
            /\ Prefix(d, asm[d].expIdx)' = Prefix(d, asm[d].expIdx)
        BY <2>4 DEF Prefix
      <3>3. CASE got'[d] = got[d] /\ pc'[d] = pc[d]
        BY <3>1, <3>2, <3>3, <2>4, <2>6 DEF CallKnown, ChainKnown, ReplyKnown
      <3>4. CASE got'[d] = f /\ pc'[d] = "got" /\ pc[d] = "waiting"
        BY <3>1, <3>2, <3>4, <2>1, <2>4, <2>6 DEF CallKnown, ChainKnown, ReplyKnown
      <3> QED BY <2>5, <3>3, <3>4, <1>a
    <2> QED BY <2>2, <2>3, <2>6, <2>7 DEF Numbering
  <1>11. CASE FireClosed
    <2>1. /\ UNCHANGED <<kind, req, rids, pending, respBuffer>>
          /\ toHost' = toHost \/ toHost' = <<>>
      BY <1>11 DEF FireClosed
    <2>2. CASE respWaiter # NoCall
      <3>1. respWaiter \in Calls /\ pc[respWaiter] # "idle" /\ Settle(respWaiter, Error)
        BY <2>2, <1>11, <1>a DEF FireClosed, Channel, WaiterServed
      <3> QED BY <3>1, <2>1, ErrorKnown, SettleKnown
    <2>3. CASE respWaiter = NoCall
      <3>1. UNCHANGED <<pc, outcome, got, asm>>
        BY <2>3, <1>11 DEF FireClosed
      <3>2. toHost' \in Seq(KnownFrame)
        <4>1. <<>> \in Seq(KnownFrame)
          OBVIOUS
        <4> QED BY <4>1, <1>b, <2>1, Zenon
      <3>3. KnownFrame' = KnownFrame /\ \A p \in pending' : RequestKnown(p)'
        BY <2>1, <1>b, KnownStable
      <3>4. ASSUME NEW d \in Calls PROVE CallKnown(d)'
        BY <1>b, <2>1, <3>1, <3>3 DEF CallKnown, ChainKnown, ReplyKnown, Prefix
      <3> QED BY <2>1, <3>2, <3>3, <3>4, <1>b DEF Numbering
    <2> QED BY <2>2, <2>3
  <1>12. CASE Device
    <2>1. UNCHANGED <<clientVars, respBuffer>>
      BY <1>12 DEF Device, DeviceEvent, DeviceSend, DeviceRefuse, DeviceLose
    <2>2. toHost' \in Seq(KnownFrame)
      <3>1. \A p \in pending : AnswerFrame(p, TRUE) \in KnownFrame
        BY <1>a, <1>b, AnswerKnown
      <3>2. \A p \in pending : p.next = 0 => AnswerFrame(p, FALSE) \in KnownFrame
        BY <1>a, <1>b, AnswerKnown
      <3>3. \/ toHost' = toHost
            \/ \E g \in KnownFrame : toHost' = Append(toHost, g)
        BY <1>12, <3>1, <3>2, NoFrameKnown
           DEF Device, DeviceEvent, DeviceSend, DeviceRefuse, DeviceLose
      <3> QED BY <1>b, <3>3
    <2>3. KnownFrame' = KnownFrame /\ \A p : RequestKnown(p)' <=> RequestKnown(p)
      BY <2>1, KnownStable DEF clientVars
    <2>4. ASSUME NEW q \in pending' PROVE RequestKnown(q)
      <3>1. CASE q \in pending
        BY <3>1, <1>b
      <3>2. CASE q \notin pending
        <4>1. PICK p \in pending : /\ p.next + 1 < Frags[p.call]
                                   /\ q = [p EXCEPT !.next = @ + 1]
          BY <3>2, <1>12 DEF Device, DeviceEvent, DeviceSend, DeviceRefuse, DeviceLose,
                             Answered
        <4>2. p \in Request /\ RequestKnown(p)
          BY <1>a, <1>b
        <4>3. q.call = p.call /\ q.req = p.req /\ q.next = p.next + 1
          BY <4>1, <4>2 DEF Request
        <4> QED BY <4>1, <4>2, <4>3 DEF RequestKnown
      <3> QED BY <3>1, <3>2
    <2>5. \A d \in Calls : CallKnown(d)'
      BY <2>1, <2>3, <1>b DEF clientVars, CallKnown, ChainKnown, ReplyKnown, Prefix
    <2> QED BY <2>1, <2>2, <2>3, <2>4, <2>5, <1>b DEF Numbering
  <1>13. CASE UNCHANGED vars
    <2>1. UNCHANGED <<clientVars, respBuffer, toHost, pending>>
      BY <1>13 DEF vars
    <2>2. KnownFrame' = KnownFrame /\ \A p : RequestKnown(p)' <=> RequestKnown(p)
      BY <2>1, KnownStable DEF clientVars
    <2>3. \A d \in Calls : CallKnown(d)'
      BY <2>1, <2>2, <1>b DEF clientVars, CallKnown, ChainKnown, ReplyKnown, Prefix
    <2> QED BY <2>1, <2>2, <2>3, <1>b DEF Numbering
  <1> QED
    BY <1>1, <1>2, <1>3, <1>4, <1>5, <1>6, <1>7, <1>8, <1>9, <1>10, <1>11, <1>12, <1>13
    DEF Next, ClientStep

\* What the theorems below need to know of every reachable state.
Known == Channel /\ Ownership /\ Numbering

LEMMA KnownInvariant == Spec => []Known
  <1>1. Init => Known
    BY InitChannel, InitOwn, InitNumbering DEF Known
  <1>2. Known /\ [Next]_vars => Known'
    BY ChannelStep, OwnStep, NumberingStep DEF Known
  <1> QED BY <1>1, <1>2, PTL DEF Spec

\* SequencedComplete for any number of calls, retries and fragments: a universal
\* call whose answer the firmware numbers gets all the fragments of that answer,
\* each once and in order, or no body at all, whatever was lost on the air and
\* whatever answers to earlier attempts were still on their way.
THEOREM SequencedCompleteTheorem == Spec => []SequencedComplete
  <1>1. Known => SequencedComplete
    <2> SUFFICES ASSUME Known, NEW c \in Calls, kind[c] = "universal", Sequenced[c],
                        outcome[c].how = "reply", outcome[c].ok
                 PROVE  Whole(c)
      BY DEF SequencedComplete
    <2>1. outcome[c].body = Prefix(c, Frags[c])
      BY DEF Known, Numbering, CallKnown, ReplyKnown
    <2> QED BY <2>1 DEF Whole, Prefix
  <1> QED BY <1>1, KnownInvariant, PTL
-----------------------------------------------------------------------------
(* The contract of CallContract.                                           *)

\* A universal call that has settled with a reply has its answer.
LEMMA ReplyAnswers ==
    ASSUME NEW c \in Calls, Known, kind[c] = "universal", outcome[c].how = "reply"
    PROVE  StatusOf(c) = "answered"
  <1>1. pc[c] # "idle" /\ outcome[c] \in Outcome
    <2>1. pc[c] # "done" => outcome[c] = Unsettled
      BY DEF Known, Ownership, CallOwn
    <2>2. outcome[c] \in Outcome
      BY DEF Known, Channel, TypeOK, CallTypes
    <2> QED BY <2>1, <2>2 DEF Unsettled
  <1>2. outcome[c].body[1].req = req[c]
    <2>1. outcome[c].body \in Seq(OwnPieces(c)) /\ outcome[c].body # <<>>
      BY DEF Known, Ownership, CallOwn, Numbering, CallKnown, ReplyKnown
    <2>2. outcome[c].body[1] \in OwnPieces(c)
      BY <2>1
    <2> QED BY <2>2 DEF OwnPieces
  <1>3. Sequenced[c] /\ outcome[c].ok => Whole(c)
    BY DEF Known, Numbering, CallKnown, ReplyKnown, Whole, Prefix
  <1>4. Sequenced[c] \in BOOLEAN /\ outcome[c].ok \in BOOLEAN
    BY <1>1, OffersAssumption DEF Outcome
  <1> QED BY <1>1, <1>2, <1>3, <1>4 DEF StatusOf

\* Where a universal call stands: its status is one of four.
Standing ==
    \A c \in Universals :
        StatusOf(c) = IF pc[c] = "idle" THEN "idle"
                      ELSE IF pc[c] # "done" THEN "open"
                      ELSE IF outcome[c].how = "error" THEN "failed" ELSE "answered"

LEMMA StatusCases == Known => Standing
  <1> SUFFICES ASSUME NEW c \in Universals, Known
               PROVE  StatusOf(c) = IF pc[c] = "idle" THEN "idle"
                                    ELSE IF pc[c] # "done" THEN "open"
                                    ELSE IF outcome[c].how = "error" THEN "failed"
                                                                     ELSE "answered"
    BY DEF Standing
  <1>1. c \in Calls /\ Offers[c] = {"universal"}
    BY DEF Universals
  <1>2. CASE pc[c] # "done"
    <2>1. outcome[c] = Unsettled
      BY <1>1, <1>2 DEF Known, Ownership, CallOwn
    <2> QED BY <1>2, <2>1 DEF StatusOf, Unsettled
  <1>3. CASE pc[c] = "done"
    <2>1. outcome[c].how \in {"error", "reply"} /\ kind[c] = "universal"
      BY <1>1, <1>3 DEF Known, Channel, TypeOK, CallTypes, Outcome, Numbering, CallKnown
    <2>2. CASE outcome[c].how = "reply"
      BY <1>1, <1>3, <2>1, <2>2, ReplyAnswers
    <2>3. CASE outcome[c].how = "error"
      BY <1>3, <2>3 DEF StatusOf
    <2> QED BY <1>3, <2>1, <2>2, <2>3
  <1> QED BY <1>2, <1>3

\* What a step may do to the calls: nothing to a settled one, and of the others it
\* moves at most one, which never goes back to "idle".
Moved(c) ==
    /\ pc[c] # "done" /\ pc'[c] # "idle" /\ (pc[c] = "idle" => pc'[c] # "done")
    /\ \A d \in Calls \ {c} : pc'[d] = pc[d] /\ outcome'[d] = outcome[d]

LEMMA StepMoves ==
    ASSUME Known, [Next]_vars
    PROVE  UNCHANGED <<pc, outcome>> \/ \E c \in Calls : Moved(c)
  <1>a. /\ pc \in [Calls -> PCs] /\ outcome \in [Calls -> Outcome]
        /\ respWaiter \in Calls \cup {NoCall}
    BY DEF Known, Channel, TypeOK, CallTypes
  <1>1. ASSUME NEW c \in Calls, NEW r, Settle(c, r), pc[c] \notin {"idle", "done"}
        PROVE  Moved(c)
    BY <1>1, <1>a DEF Settle, Moved
  <1>2. ASSUME NEW c \in Calls, Retry(c), pc[c] \notin {"idle", "done"} PROVE Moved(c)
    BY <1>2, <1>a DEF Retry, Moved
  <1>3. ASSUME NEW c \in Calls, NEW a, NextFrame(c, a), pc[c] \notin {"idle", "done"}
        PROVE  Moved(c)
    <2>1. CASE Settle(c, Error)
      BY <1>3, <2>1, <1>1
    <2>2. CASE outcome' = outcome /\ \E p \in {"got", "waiting"} : pc' = [pc EXCEPT ![c] = p]
      BY <1>3, <2>2, <1>a DEF Moved
    <2> QED BY <1>3, <2>1, <2>2 DEF NextFrame
  <1>4. ASSUME NEW c \in Calls, Issue(c) \/ Backoff(c) \/ Start(c) PROVE Moved(c)
    BY <1>4, <1>a DEF Issue, Backoff, Start, Moved
  <1>5. ASSUME NEW c \in Calls, StartClosed(c) \/ WriteFails(c) PROVE Moved(c)
    BY <1>5, <1>1 DEF StartClosed, WriteFails
  <1>6. ASSUME NEW c \in Calls, Timeout(c) \/ GapFound(c) PROVE Moved(c)
    BY <1>6, <1>1, <1>2 DEF Timeout, GapFound, FailTransient
  <1>7. ASSUME NEW c \in Calls, Written(c) \/ SkipFrame(c) \/ MoreToCome(c) PROVE Moved(c)
    BY <1>7, <1>3 DEF Written, SkipFrame, MoreToCome
  <1>8. ASSUME NEW c \in Calls, TakePlain(c) \/ TakeSealed(c) \/ TakeRelay(c)
        PROVE  Moved(c)
    BY <1>8, <1>1 DEF TakePlain, TakeSealed, TakeRelay
  <1>9. ASSUME NEW c \in Calls, Complete(c) PROVE Moved(c)
    BY <1>9, <1>1, <1>2 DEF Complete
  <1>10. CASE RouteFrame
    <2>1. CASE UNCHANGED <<pc, outcome>>
      BY <2>1
    <2>2. CASE respWaiter # NoCall /\ pc' = [pc EXCEPT ![respWaiter] = "got"]
      <3>1. respWaiter \in Calls /\ pc[respWaiter] = "waiting"
        BY <2>2, <1>a DEF Known, Channel, WaiterServed
      <3>2. outcome' = outcome
        BY <1>10 DEF RouteFrame
      <3> QED BY <2>2, <3>1, <3>2, <1>a DEF Moved
    <2> QED BY <1>10, <2>1, <2>2 DEF RouteFrame
  <1>11. CASE FireClosed
    <2>1. CASE respWaiter = NoCall
      BY <1>11, <2>1 DEF FireClosed
    <2>2. CASE respWaiter # NoCall
      <3>1. respWaiter \in Calls /\ pc[respWaiter] = "waiting" /\ Settle(respWaiter, Error)
        BY <2>2, <1>11, <1>a DEF FireClosed, Known, Channel, WaiterServed
      <3> QED BY <3>1, <1>1
    <2> QED BY <2>1, <2>2
  <1>12. CASE Device
    BY <1>12 DEF Device, DeviceEvent, DeviceSend, DeviceRefuse, DeviceLose, clientVars
  <1>13. CASE UNCHANGED vars
    BY <1>13 DEF vars, clientVars
  <1> QED
    BY <1>4, <1>5, <1>6, <1>7, <1>8, <1>9, <1>10, <1>11, <1>12, <1>13
    DEF Next, ClientStep

LEMMA ContractStep ==
    ASSUME Known, Standing, Standing', [Next]_vars
    PROVE  [Contract!Next]_([c \in Universals |-> StatusOf(c)])
  <1> DEFINE status == [c \in Universals |-> StatusOf(c)]
  <1>a. ASSUME NEW d \in Universals, pc'[d] = pc[d], outcome'[d] = outcome[d]
        PROVE  status'[d] = status[d]
    BY <1>a DEF Standing
  <1>1. CASE UNCHANGED <<pc, outcome>>
    <2>1. \A d \in Universals : status'[d] = status[d]
      BY <1>1, <1>a
    <2> QED BY <2>1
  <1>2. ASSUME NEW c \in Calls, Moved(c)
        PROVE  [Contract!Next]_([d \in Universals |-> StatusOf(d)])
    <2>1. \A d \in Universals \ {c} : status'[d] = status[d]
      BY <1>2, <1>a DEF Moved, Universals
    <2>2. CASE c \notin Universals
      BY <2>1, <2>2
    <2>3. CASE c \in Universals
      <3>1. CASE pc[c] = "idle"
        <4>1. status[c] = "idle" /\ status'[c] = "open"
          BY <1>2, <2>3, <3>1 DEF Moved, Standing
        <4>2. status' = [status EXCEPT ![c] = "open"]
          BY <2>1, <2>3, <4>1
        <4> QED BY <2>3, <4>1, <4>2 DEF Contract!Next, Contract!Issue
      <3>2. CASE pc[c] # "idle"
        <4>1. status[c] = "open" /\ status'[c] \in {"open", "failed", "answered"}
          BY <1>2, <2>3, <3>2 DEF Moved, Standing
        <4>2. status' = [status EXCEPT ![c] = status'[c]]
          BY <2>1, <2>3
        <4>3. CASE status'[c] = "open"
          BY <2>1, <4>1, <4>3
        <4>4. CASE status'[c] = "failed"
          BY <2>3, <4>1, <4>2, <4>4 DEF Contract!Next, Contract!Fail
        <4>5. CASE status'[c] = "answered"
          BY <2>3, <4>1, <4>2, <4>5 DEF Contract!Next, Contract!Answer
        <4> QED BY <4>1, <4>3, <4>4, <4>5
      <3> QED BY <3>1, <3>2
    <2> QED BY <2>2, <2>3
  <1> QED BY <1>1, <1>2, StepMoves

\* The safety half of ContractKept, step by step: every step of the client, the
\* device and the transport is for each universal call a step of CallContract --
\* issued, answered wholly and by its own reply, or failed, each at most once --
\* or none.  (That it does settle is a matter of fairness, and stays with TLC.)
THEOREM ContractSafety == Spec => Contract!Spec
  <1>1. Init => Contract!Init
    <2> SUFFICES ASSUME Init PROVE Contract!Init
      OBVIOUS
    <2>1. ASSUME NEW c \in Universals PROVE StatusOf(c) = "idle"
      <3>1. pc[c] = "idle" /\ outcome[c] = Unsettled
        BY DEF Init, Universals
      <3> QED BY <3>1 DEF StatusOf, Unsettled
    <2> QED BY <2>1 DEF Contract!Init
  <1>2. Known /\ Standing /\ Standing' /\ [Next]_vars
          => [Contract!Next]_([c \in Universals |-> StatusOf(c)])
    BY ContractStep
  <1> QED BY <1>1, <1>2, StatusCases, KnownInvariant, PTL DEF Spec, Contract!Spec

\* Nothing is written on a closed client, for any number of calls and retries: the
\* closed check comes after the wait in the chain, not before it.
THEOREM ClosedTheorem == Spec => ClosedSendsNothing
  <1>1. [Next]_vars => [closed => seq' = seq]_vars
    <2> SUFFICES ASSUME [Next]_vars, closed PROVE seq' = seq
      OBVIOUS
    <2>1. \A c \in Calls : ~Start(c)
      BY DEF Start
    <2> QED
      BY <2>1 DEF Next, ClientStep, Issue, StartClosed, Backoff, Written, WriteFails,
         Timeout, TakePlain, TakeSealed, TakeRelay, SkipFrame, GapFound, MoreToCome,
         Complete, RouteFrame, FireClosed, Device, DeviceSend, DeviceRefuse, DeviceLose,
         DeviceEvent, vars, clientVars
  <1> QED BY <1>1, PTL DEF Spec, ClosedSendsNothing
=============================================================================
