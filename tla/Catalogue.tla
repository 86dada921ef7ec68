------------------------------ MODULE Catalogue ------------------------------
(****************************************************************************)
(* diskhash::catalogue (catalogue.h, catalogue.cpp) with its arithmetic:    *)
(* hashes are HASH_BITS-bit numbers, the entry of a hash is found with a    *)
(* mask and a shift, and set and split write the table in place, one action *)
(* per iteration of their loops.  It implements module Directory.           *)
(****************************************************************************)
EXTENDS Integers, Bitwise

CONSTANTS
    HASH_BITS,          \* 32 in the build
    BlockIds            \* the values callers store

ASSUME CatalogueAssumption == HASH_BITS \in Nat \ {0} /\ BlockIds \subseteq Nat

INVALID_BLOCK_ID == -1  \* size_t(-1)

sizeof_value == 8
sizeof_catalogue_layout == 40   \* signature, sizes, mask and one entry

VARIABLES
    prefix_bits, prefix_shift, prefix_mask, buffer_size,
    buffer,             \* the file's table; zero where never written
    length,             \* file_map_.length()
    pc,                 \* "idle", "set" or "split"
    loop                \* the locals of the loop in progress

vars == <<prefix_bits, prefix_shift, prefix_mask, buffer_size, buffer, length,
          pc, loop>>

header_vars == <<prefix_bits, prefix_shift, prefix_mask, buffer_size, length>>

HashNumbers == 0 .. 2 ^ HASH_BITS - 1

NoLoop == [put |-> 0, get |-> 0, count |-> 0, value |-> INVALID_BLOCK_ID]

(* The constructor on a new file, with prefix_bits = 1 as hash_map has it.  *)
Init ==
    /\ prefix_bits = 1
    /\ prefix_shift = HASH_BITS - 1
    /\ prefix_mask = ((2 ^ 1) - 1) * 2 ^ (HASH_BITS - 1)
    /\ buffer_size = 2 ^ 1
    /\ buffer = [i \in HashNumbers |-> IF i < 2 THEN INVALID_BLOCK_ID ELSE 0]
    /\ length = sizeof_catalogue_layout + (2 ^ 1 - 1) * sizeof_value
    /\ pc = "idle" /\ loop = NoLoop

index(h) == (h & prefix_mask) \div 2 ^ prefix_shift

find(h) == buffer[index(h)]

(* find(hash) = value: the entry the reference names is assigned.           *)
Assign(h, value) ==
    /\ pc = "idle"
    /\ buffer' = [buffer EXCEPT ![index(h)] = value]
    /\ UNCHANGED <<header_vars, pc, loop>>

(* ~x in HASH_BITS bits.                                                    *)
complement(x) == 2 ^ HASH_BITS - 1 - x

(* Mutant: the bits behind the offset are not cleared.                      *)
hash_copy_uncleared(h, offset) == h

(* The smallest hash with the first `offset' bits of h.                     *)
hash_copy(h, offset) == h & complement(2 ^ (HASH_BITS - offset) - 1)

(* Mutant: twice as many.                                                   *)
entries_below_twice(offset) == 2 ^ (prefix_bits - offset + 1)

(* How many entries have the same first `offset' bits.                      *)
entries_below(offset) == 2 ^ (prefix_bits - offset)

SetCall(h, offset, value) ==
    /\ pc = "idle"
    /\ loop' = [NoLoop EXCEPT !.put = index(hash_copy(h, offset)),
                              !.count = entries_below(offset),
                              !.value = value]
    /\ pc' = "set"
    /\ UNCHANGED <<header_vars, buffer>>

(* Mutant: one entry more is written.                                       *)
SetStep_one_more ==
    /\ pc = "set" /\ loop.count >= 0
    /\ buffer' = [buffer EXCEPT ![loop.put] = loop.value]
    /\ loop' = [loop EXCEPT !.put = @ + 1, !.count = @ - 1]
    /\ UNCHANGED <<header_vars, pc>>

SetStep ==
    /\ pc = "set" /\ loop.count > 0
    /\ buffer' = [buffer EXCEPT ![loop.put] = loop.value]
    /\ loop' = [loop EXCEPT !.put = @ + 1, !.count = @ - 1]
    /\ UNCHANGED <<header_vars, pc>>

SetReturn ==
    /\ pc = "set" /\ loop.count = 0
    /\ pc' = "idle" /\ loop' = NoLoop
    /\ UNCHANGED <<header_vars, buffer>>

(* Mutant: the mask keeps its old bits only.                                *)
grown_mask_as_is == prefix_mask

grown_mask == prefix_mask | 2 ^ (prefix_shift - 1)

(* split: the table doubles and is spread out from its end downwards.       *)
SplitCall ==
    /\ pc = "idle"
    /\ prefix_bits' = prefix_bits + 1
    /\ prefix_shift' = prefix_shift - 1
    /\ prefix_mask' = grown_mask
    /\ buffer_size' = 2 * buffer_size
    /\ length' = sizeof_catalogue_layout + (2 * buffer_size - 1) * sizeof_value
    /\ loop' = [NoLoop EXCEPT !.get = buffer_size - 1,
                              !.put = 2 * buffer_size - 1,
                              !.count = buffer_size]
    /\ pc' = "split"
    /\ UNCHANGED buffer

SplitStep ==
    /\ pc = "split" /\ loop.count # 0
    /\ LET first == [buffer EXCEPT ![loop.put] = buffer[loop.get]]
       IN buffer' = [first EXCEPT ![loop.put - 1] = first[loop.get]]
    /\ loop' = [loop EXCEPT !.put = @ - 2, !.get = @ - 1, !.count = @ - 1]
    /\ UNCHANGED <<header_vars, pc>>

SplitReturn ==
    /\ pc = "split" /\ loop.count = 0
    /\ pc' = "idle" /\ loop' = NoLoop
    /\ UNCHANGED <<header_vars, buffer>>

(****************************************************************************)
(* hash_map calls set with an offset of at most prefix_bits, and splits     *)
(* only while there are more buckets than entries, far below 2^HASH_BITS.   *)
(****************************************************************************)
Next ==
    \/ \E h \in HashNumbers, value \in BlockIds :
         \/ Assign(h, value)
         \/ \E offset \in 1 .. prefix_bits : SetCall(h, offset, value)
    \/ prefix_bits < HASH_BITS /\ SplitCall
    \/ SetStep \/ SetReturn \/ SplitStep \/ SplitReturn

Spec == Init /\ [][Next]_vars

-----------------------------------------------------------------------------
TypeOK ==
    /\ prefix_bits \in 1 .. HASH_BITS
    /\ prefix_shift \in 0 .. HASH_BITS - 1
    /\ prefix_mask \in HashNumbers
    /\ buffer_size \in 2 .. 2 ^ HASH_BITS
    /\ buffer \in [HashNumbers -> BlockIds \cup {INVALID_BLOCK_ID, 0}]
    /\ length \in Nat
    /\ pc \in {"idle", "set", "split"}
    /\ loop \in [put : -1 .. 2 ^ HASH_BITS, get : -1 .. 2 ^ HASH_BITS - 1,
                 count : 0 .. 2 ^ HASH_BITS,
                 value : BlockIds \cup {INVALID_BLOCK_ID}]

(****************************************************************************)
(* The loops of set and split touch only the table, and the table lies in   *)
(* the mapping.                                                             *)
(****************************************************************************)
LoopsInBounds ==
    /\ pc = "set" => loop.put + loop.count <= buffer_size
    /\ pc = "split" => loop.count = 0 \/ (loop.put \in 1 .. buffer_size - 1
                                             /\ loop.get \in 0 .. loop.put - 1)
    /\ sizeof_catalogue_layout + (buffer_size - 1) * sizeof_value <= length

(****************************************************************************)
(* The abstract table.  A call takes effect when it starts: what its loop   *)
(* has still to write is read from where it will be taken.                  *)
(****************************************************************************)
entry(i) ==
    CASE pc = "set" /\ i \in loop.put .. loop.put + loop.count - 1 -> loop.value
      [] pc = "split" /\ i <= loop.put -> buffer[i \div 2]
      [] OTHER -> buffer[i]

bits(i, n) == [j \in 1 .. n |-> (i \div 2 ^ (n - j)) % 2]

number(p, n) ==
    LET value[j \in 0 .. n] == IF j = 0 THEN 0 ELSE 2 * value[j - 1] + p[j]
    IN value[n]

table == [p \in [1 .. prefix_bits -> {0, 1}] |-> entry(number(p, prefix_bits))]

Dir == INSTANCE Directory WITH buffer <- table

(****************************************************************************)
(* set and split, with their in-place loops, do to the table of prefixes    *)
(* what Directory says: no entry is lost or written twice on the way.       *)
(****************************************************************************)
ImplementsDirectory == Dir!DirectorySpec

(* Between calls the mask and the shift lead every hash to its prefix.      *)
FindsItsPrefix ==
    pc = "idle" => \A h \in HashNumbers : find(h) = Dir!catalogue_find(bits(h, HASH_BITS))
=============================================================================
