----------------------------- MODULE MCContainer -----------------------------
(****************************************************************************)
(* The container alone, called in any order: chains are split when they are *)
(* short, empty or full of gaps, which hash_map would not ask for.          *)
(****************************************************************************)
EXTENDS Container, Sequences, TLC

CONSTANTS k1, k2, k3, v1

(* The first split of a chain moves all keys, to two buckets; the second    *)
(* moves k2, and k1 and k3 stay, in two buckets.                            *)
MCHash == k1 :> <<0, 1, 0>> @@ k2 :> <<0, 1, 1>> @@ k3 :> <<0, 1, 0>>

(* k1 fills a bucket, the others together fill one exactly.                 *)
MCKeySize == k1 :> 4045 @@ k2 :> 2009 @@ k3 :> 2009

MCValueSize == v1 :> 20

V == INSTANCE Vbe

(****************************************************************************)
(* Why a record's bytes are counted by vbe_length: length says how many     *)
(* bytes write stores, and read takes just these, and their value, whatever *)
(* follows them, for the sizes around every power of 2.                     *)
(****************************************************************************)
Sizes == (0 .. 260) \cup UNION {2 ^ b - 2 .. 2 ^ b + 2 : b \in 9 .. 27}

ASSUME VbeAssumption ==
    \A n \in Sizes, next \in {0, 127, 128, 255} :
      /\ V!length(n) = vbe_length(n) /\ Len(V!write[n]) = vbe_length(n)
      /\ V!read(Append(V!write[n], next)) = [val |-> n, rest |-> <<next>>]
=============================================================================
