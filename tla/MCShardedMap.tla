---------------------------- MODULE MCShardedMap ----------------------------
(* Three keys in two shards, two of them in the same one.                   *)
EXTENDS ShardedMap, TLC

CONSTANTS t1, t2, k1, k2, k3, v1, v2

MCShardOf == k1 :> 0 @@ k2 :> 0 @@ k3 :> 1

Symmetry == Permutations(Threads)

Codecs == INSTANCE Codec

(* The handlers are modelled with the keys that were meant: the codecs give *)
(* them back, the keys of MCClient and keys with every byte in every place  *)
(* of a group of three.                                                     *)
ASSUME MCCodecsInvert ==
    /\ \A k \in UNION {[1 .. n -> {0, 251}] : n \in 0 .. 5} : Codecs!RoundTrip(k, {0, 251})
    /\ \A b \in 0 .. 255 :
         \A k \in {<<b>>, <<251, b>>, <<b, 0, b>>, <<0, 251, 255, 251, b>>} :
           Codecs!RoundTrip(k, {0, b, 255 - b})
=============================================================================
