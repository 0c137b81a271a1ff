--------------------------- MODULE MCRawHidClient ---------------------------
(* Instances of RawHidClient for TLC: two sends with one command byte,     *)
(* which this keyboard also pushes, as it does another; a third with a     *)
(* byte of its own, which this firmware does not implement.                *)
EXTENDS RawHidClient

CONSTANTS layer, again, features

MCCmd == [c \in Calls |-> IF c = features THEN "A2" ELSE "A3"]
=============================================================================
