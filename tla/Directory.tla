------------------------------ MODULE Directory ------------------------------
(****************************************************************************)
(* diskhash::catalogue (catalogue.h, catalogue.cpp) as its users see it:    *)
(* a table of bucket ids with one entry for every prefix of prefix_bits     *)
(* bits a hash can have.  Hashes are bit vectors, most significant first.   *)
(* Module Catalogue has the masks, shifts and in-place loops of the code    *)
(* and is shown to implement this module.                                   *)
(****************************************************************************)
LOCAL INSTANCE Integers

CONSTANTS
    HASH_BITS,      \* bits of a hash
    BlockIds,       \* what a table entry may hold
    INVALID_BLOCK_ID

VARIABLES
    prefix_bits,    \* layout_->prefix_bits
    buffer          \* layout_->buffer, indexed by the prefix itself

directory_vars == <<prefix_bits, buffer>>

HashBits == [1 .. HASH_BITS -> {0, 1}]

Prefixes(n) == [1 .. n -> {0, 1}]

(* The first n bits of h: (hash & prefix_mask) >> prefix_shift.             *)
prefix(h, n) == [i \in 1 .. n |-> h[i]]

(* The prefix whose entry is number i of a table of 2^n entries.            *)
prefix_at(i, n) == [j \in 1 .. n |-> (i \div 2 ^ (n - j)) % 2]

agree(p, h, n) == \A i \in 1 .. n : p[i] = h[i]

catalogue_find(h) == buffer[prefix(h, prefix_bits)]

(* The constructor on a new file, called with prefix_bits = 1.              *)
DirectoryInit ==
    /\ prefix_bits = 1
    /\ buffer = [p \in Prefixes(1) |-> INVALID_BLOCK_ID]

(* Mutant: one bit too few is compared, both halves are overwritten.        *)
catalogue_set_both_halves(h, offset, value) ==
    /\ buffer' = [p \in Prefixes(prefix_bits) |->
                    IF agree(p, h, offset - 1) THEN value ELSE buffer[p]]
    /\ UNCHANGED prefix_bits

(* set: all entries whose first `offset' bits are those of the hash.        *)
catalogue_set(h, offset, value) ==
    /\ buffer' = [p \in Prefixes(prefix_bits) |->
                    IF agree(p, h, offset) THEN value ELSE buffer[p]]
    /\ UNCHANGED prefix_bits

(* The entry find returns a reference to is assigned.                       *)
catalogue_assign(h, value) ==
    /\ buffer' = [buffer EXCEPT ![prefix(h, prefix_bits)] = value]
    /\ UNCHANGED prefix_bits

(* split: one more bit; an entry becomes the two that extend its prefix.    *)
catalogue_split ==
    /\ prefix_bits' = prefix_bits + 1
    /\ buffer' = [p \in Prefixes(prefix_bits + 1) |->
                    buffer[prefix(p, prefix_bits)]]

-----------------------------------------------------------------------------
(* What a user of the catalogue may do with it.                             *)
DirectoryNext ==
    \/ \E h \in HashBits, v \in BlockIds :
         \/ catalogue_assign(h, v)
         \/ \E offset \in 1 .. prefix_bits : catalogue_set(h, offset, v)
    \/ prefix_bits < HASH_BITS /\ catalogue_split

DirectorySpec == DirectoryInit /\ [][DirectoryNext]_directory_vars

DirectoryTypeOK ==
    /\ prefix_bits \in 1 .. HASH_BITS
    /\ buffer \in [Prefixes(prefix_bits) -> BlockIds \cup {INVALID_BLOCK_ID}]
=============================================================================
