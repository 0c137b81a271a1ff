---------------------------- MODULE MCQmkService ----------------------------
(* Instances of QmkService for TLC: one caller that writes, one that       *)
(* changes the layout, resets or writes too, one that works the lock.      *)
EXTENDS QmkService

CONSTANTS writer, loader, locker, boot, blank, k1

\* A full definition with an encoder, which draws the first cell twice, and one that
\* leaves that cell out.
MCLayouts == [full |-> [keys |-> <<"a", "b", "a">>, encoder |-> TRUE],
              part |-> [keys |-> <<"b">>, encoder |-> FALSE]]
MCCells == <<"a", "b">>
MCMacros == <<"m1", "m2">>

SetKey == {[kind |-> "setKey", pos |-> 1, val |-> k1],
           [kind |-> "setKey", pos |-> 2, val |-> boot]}
SetEncoder == [kind : {"setEncoder"}, dir : {"ccw"}, val : {k1}]
SetMacro(i) == [kind : {"setMacro"}, idx : {MCMacros[i]}, val : {k1}]
Unlock == [kind : {"unlock"}, abortable : BOOLEAN]

MCOffers == [o \in Ops |->
    CASE o = writer -> SetKey \cup SetEncoder \cup SetMacro(1)
      [] o = loader -> [kind : {"applyLayout"}, def : {"full", "part"}]
                       \cup [kind : {"reset"}] \cup SetMacro(2)
      [] o = locker -> Unlock \cup [kind : {"lock", "getLockState", "setCombo"}]
                       \cup [kind : {"setKey"}, pos : {3}, val : {boot}]]
=============================================================================
