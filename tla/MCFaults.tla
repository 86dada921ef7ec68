------------------------------ MODULE MCFaults ------------------------------
(****************************************************************************)
(* Faults with four keys that fill a bucket each on one chain: they bring   *)
(* the catalogue to three bits while the other chain has depth 1, so its    *)
(* split assigns two entries; the two large keys of that chain then move,   *)
(* to two buckets.  The small one shares a bucket with one of them, and is  *)
(* removed.                                                                 *)
(****************************************************************************)
EXTENDS Faults, TLC

CONSTANTS k1, k2, k3, k4, k5, k6, k7, v1

MCHash == [k \in {k1, k2, k3, k4} |-> <<0, 0, 0, 0, 0>>]
            @@ [k \in {k5, k6} |-> <<1, 1, 0, 0, 0>>] @@ k7 :> <<1, 0, 0, 0, 0>>

MCKeySize == [k \in {k1, k2, k3, k4} |-> 4045]
               @@ [k \in {k5, k6} |-> 3040] @@ k7 :> 970

MCSymmetry == Permutations({k1, k2, k3, k4}) \cup Permutations({k5, k6})

MCValueSize == v1 :> 20

MCOffered == [k \in Keys |-> Values]
=============================================================================
