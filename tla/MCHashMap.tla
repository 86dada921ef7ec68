------------------------------ MODULE MCHashMap ------------------------------
(****************************************************************************)
(* HashMap with the build's BUCKET_SIZE.  Four keys lie below one entry of  *)
(* the new catalogue, two of them with the same hash: their chain is split  *)
(* again and again, and one chain remains that no split can shorten.  Three *)
(* lie below the other, whose chain is split when the catalogue may already *)
(* be deep enough for it; two keys, in two buckets, then move.              *)
(****************************************************************************)
EXTENDS HashMap, TLC

CONSTANTS k1, k2, k3, k4, k5, k6, k7, v1, v2

MCHash == k1 :> <<0, 0, 0>> @@ k2 :> <<0, 1, 0>> @@ k3 :> <<0, 1, 1>>
            @@ k4 :> <<0, 1, 1>>
            @@ k5 :> <<1, 0, 0>> @@ k6 :> <<1, 1, 0>> @@ k7 :> <<1, 1, 1>>

(* 4045 fills a bucket, two of 2009 fill one exactly.                       *)
MCKeySize == k1 :> 4045 @@ k2 :> 4045 @@ k3 :> 2009 @@ k4 :> 2009
               @@ k5 :> 4045 @@ k6 :> 3000 @@ k7 :> 4045

MCValueSize == v1 :> 0 @@ v2 :> 20

(* A key that is there can be asked for with another value.                 *)
MCOffered == [k \in Keys |-> IF k = k3 THEN Values ELSE {v2}]
=============================================================================
