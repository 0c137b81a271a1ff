---------------------------- MODULE CallContract ----------------------------
(***************************************************************************)
(* What an asynchronous request promises its caller, whatever lies between *)
(* the two: a call that was issued settles once, either with an error or   *)
(* with the complete answer to the request it made, and then stays as it   *)
(* is.  RemapprRpc is shown to implement it for universal calls.           *)
(***************************************************************************)
EXTENDS Naturals

CONSTANT Callers

VARIABLE status    \* status[c]: where the call of caller c stands

Init == status = [c \in Callers |-> "idle"]

Issue(c) == /\ status[c] = "idle"
            /\ status' = [status EXCEPT ![c] = "open"]

Answer(c) == /\ status[c] = "open"
             /\ status' = [status EXCEPT ![c] = "answered"]

Fail(c) == /\ status[c] = "open"
           /\ status' = [status EXCEPT ![c] = "failed"]

Next == \E c \in Callers : Issue(c) \/ Answer(c) \/ Fail(c)

Spec == Init /\ [][Next]_status

\* The contract with its promise of progress: an open call does settle.
FairSpec == Spec /\ \A c \in Callers : WF_status(Answer(c) \/ Fail(c))
=============================================================================
