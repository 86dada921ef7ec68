----------------------------- MODULE MCIterator -----------------------------
(****************************************************************************)
(* Iterator with four keys: one alone on its chain, three that share one    *)
(* which overflows and is split; the smallest key does not fill the room    *)
(* the others leave.                                                        *)
(****************************************************************************)
EXTENDS Iterator, TLC

CONSTANTS k1, k2, k3, k4, v1

MCHash == k1 :> <<0, 0>> @@ k2 :> <<0, 0>> @@ k3 :> <<0, 1>> @@ k4 :> <<1, 0>>

MCKeySize == k1 :> 1000 @@ k2 :> 3000 @@ k3 :> 3500 @@ k4 :> 2000

MCValueSize == v1 :> 20

MCOffered == [k \in Keys |-> Values]
=============================================================================
