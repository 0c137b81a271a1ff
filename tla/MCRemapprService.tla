-------------------------- MODULE MCRemapprService --------------------------
(* Instances of RemapprService for TLC: two layers of two values and one   *)
(* knob, which is enough for an edit to differ from what was committed.    *)
EXTENDS RemapprService, TLC

CONSTANTS plain, changed, knob, save, save2, revert

MCLayers == <<plain, plain>>
MCKnobs == [k \in Knobs |-> plain]

\* The commits are alike, in the model and in every property.
MCCommits == Permutations(Commits)
=============================================================================
