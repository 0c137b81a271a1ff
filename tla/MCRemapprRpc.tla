---------------------------- MODULE MCRemapprRpc ----------------------------
(* Instances of RemapprRpc for TLC: a retried read of a fragmented body    *)
(* (COMMON / KMAP reads of configRead.ts), beside a call made through any  *)
(* of the other entry points, such as discovery's short legacy probe.      *)
EXTENDS RemapprRpc

CONSTANTS read, other

MCOffers == [c \in Calls |->
    IF c = read THEN {"universal"} ELSE {"plain", "sealed", "relay"}]
MCRetries == [c \in Calls |-> IF c = read THEN 1 ELSE 0]
MCFrags == [c \in Calls |-> IF c = read THEN 3 ELSE 1]

\* Discovery's GET_DEVICE_INFO probe, then the adapter's GET_CAPABILITIES.
LegacyOffers == [c \in Calls |-> {"plain"}]
Once == [c \in Calls |-> 0]
Single == [c \in Calls |-> 1]

MCSequenced == [c \in Calls |-> TRUE]
=============================================================================
