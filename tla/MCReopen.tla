------------------------------ MODULE MCReopen ------------------------------
(* Two keys that share a chain and fill a bucket each.                      *)
EXTENDS Reopen, TLC

CONSTANTS k1, k2, v1

MCHash == k1 :> <<0, 0>> @@ k2 :> <<0, 1>>

MCKeySize == k1 :> 3000 @@ k2 :> 3000

MCValueSize == v1 :> 20

MCOffered == [k \in Keys |-> Values]
=============================================================================
