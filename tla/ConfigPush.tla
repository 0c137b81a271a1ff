----------------------------- MODULE ConfigPush -----------------------------
(***************************************************************************)
(* What a configuration push promises: the device's active configuration   *)
(* is replaced as a whole, at one moment between the start of the push and *)
(* its end.  A push that reports success has taken effect; one that failed *)
(* may or may not have, because the answer to its last step can be lost.   *)
(* RemapprService is shown to implement it with a staged, chunked write.   *)
(***************************************************************************)
CONSTANTS Pushes, Configs

VARIABLES active,    \* the configuration the device runs
          wanted,    \* wanted[p]: the configuration p pushes
          stage      \* stage[p]: "idle", "open", "applied", "ok" or "failed"

pushVars == <<active, wanted, stage>>

Init == /\ active \in Configs
        /\ wanted \in [Pushes -> Configs]
        /\ stage = [p \in Pushes |-> "idle"]

Start(p) == /\ stage[p] = "idle"
            /\ stage' = [stage EXCEPT ![p] = "open"]
            /\ \E cfg \in Configs : wanted' = [wanted EXCEPT ![p] = cfg]
            /\ UNCHANGED active

Apply(p) == /\ stage[p] = "open"
            /\ stage' = [stage EXCEPT ![p] = "applied"]
            /\ active' = wanted[p]
            /\ UNCHANGED wanted

Succeed(p) == /\ stage[p] = "applied"
              /\ stage' = [stage EXCEPT ![p] = "ok"]
              /\ UNCHANGED <<active, wanted>>

Fail(p) == /\ stage[p] \in {"open", "applied"}
           /\ stage' = [stage EXCEPT ![p] = "failed"]
           /\ UNCHANGED <<active, wanted>>

Next == \E p \in Pushes : Start(p) \/ Apply(p) \/ Succeed(p) \/ Fail(p)

Spec == Init /\ [][Next]_pushVars
=============================================================================
