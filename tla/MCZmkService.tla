---------------------------- MODULE MCZmkService ----------------------------
(* Instances of ZmkService for TLC: a caller that edits, one that edits or *)
(* undoes, and one that reads, saves or drops the changes, on a keyboard   *)
(* with two layers and room for a third.                                   *)
EXTENDS ZmkService

CONSTANTS edit, shape, other

MCLayers == <<[id |-> 0, val |-> "plain"], [id |-> 1, val |-> "plain"]>>

MCOffers == [o \in Ops |->
    CASE o = edit -> {"setKey", "removeLayer", "addLayer", "setLayout", "getKeymap",
                      "physicalLayouts", "actionTypes"}
      [] o = shape -> {"removeLayer", "moveLayer", "restoreLayer", "setKey"}
      [] o = other -> {"getKeymap", "source", "commit", "discard", "reset", "refresh"}]
=============================================================================
