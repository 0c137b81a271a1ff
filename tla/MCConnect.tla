----------------------------- MODULE MCConnect -----------------------------
(* Instances of Connect for TLC.                                           *)
EXTENDS Connect, SequencesExt

CONSTANTS c1, c2

Setup(boards, kinds, vids) == [board : boards, kind : kinds, vid : vids]

\* Each board as it may be plugged in.  1209 is the Remappr vendor id, which
\* other keyboards share; 3434 is Keychron's.
MCSetups ==
    Setup({"node", "openNode", "dongle", "oldDongle"}, {"hid"}, {"1209"})
    \cup Setup({"openNode", "dongle", "keychron"}, {"hid"}, {None})
    \cup Setup({"dongle", "zmk"}, {"ble"}, {None})
    \cup Setup({"zmk"}, {"serial"}, {None})
    \cup Setup({"vial", "via"}, {"hid"}, {"1209", "3434", "4b50", None})
    \cup Setup({"mutedVial"}, {"hid"}, {"4b50"})
    \cup Setup({"keychron"}, {"hid"}, {"3434"})

\* builtins.ts, and its reverse: chunks load in any order.
Builtins == <<"zmk", "via", "vial", "keychron", "remappr">>
MCOrders == {Builtins, Reverse(Builtins)}
=============================================================================
