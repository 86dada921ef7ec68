-------------------------------- MODULE Vbe --------------------------------
(****************************************************************************)
(* diskhash::vbe (vbe.h): the encoding of the two sizes in a record, seven  *)
(* bits in a byte, the least significant first, marked if more follow.  The *)
(* sizes are those of a record in a bucket; for a size_t of 2^31 and more   *)
(* read loses bits, because it shifts an int.                               *)
(****************************************************************************)
EXTENDS Integers, Sequences, SequencesExt

MARK == 128      \* MARK_MASK; the data below it is val % MARK

(* The bytes that write stores.                                             *)
write[val \in Nat] ==
    IF val >= MARK THEN <<MARK + (val % MARK)>> \o write[val \div MARK]
                   ELSE <<val>>

(* The bytes up to the first without a mark.                                *)
consumed(bytes) == 1 + CHOOSE n \in 0 .. Len(bytes) - 1 :
    bytes[n + 1] < MARK /\ \A i \in 1 .. n : bytes[i] >= MARK

read(bytes) ==
    LET n == consumed(bytes)
    IN [val |-> FoldLeft(LAMBDA acc, i : acc + (bytes[i] % MARK) * MARK ^ (i - 1),
                         0, [i \in 1 .. n |-> i]),
        rest |-> SubSeq(bytes, n + 1, Len(bytes))]

bit_width(val) == CHOOSE w \in 0 .. 30 : val < 2 ^ w /\ (w > 0 => val >= 2 ^ (w - 1))

length(val) == IF val = 0 THEN 1 ELSE ((bit_width(val) - 1) \div 7) + 1
=============================================================================
