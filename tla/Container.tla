------------------------------ MODULE Container ------------------------------
(****************************************************************************)
(* diskhash::container<BucketSize> (container.h, container.cpp): the data   *)
(* file of a hash map.  It is an array of fixed-size buckets; a bucket has  *)
(* a header and packed records, overflows into the bucket its               *)
(* next_bucket_id names, and returns to a free list when a split empties    *)
(* it.                                                                      *)
(*                                                                          *)
(* The container is sequential: one call at a time.  A call is one action   *)
(* that starts it and one action per iteration of its loop, so the state    *)
(* between two iterations, where the chains are half rewritten, is visible  *)
(* to the invariants.  Records carry the byte offset they are stored at:    *)
(* packing, overwriting and running past the end of a bucket are all        *)
(* expressible, the bytes of keys and values are not.                       *)
(****************************************************************************)
EXTENDS Integers, FiniteSets

CONSTANTS
    Keys,          \* the keys used by callers
    Values,        \* the values used by callers
    NoValue,       \* std::nullopt
    HASH_BITS,     \* CHAR_BIT * sizeof(hash_t), 32 in the build
    Hash,          \* Hash[k]: the bits of k's hash, most significant first
    KeySize,       \* KeySize[k] = key.size()
    ValueSize,     \* ValueSize[v] = value.size()
    BUCKET_SIZE,   \* bytes of records in a bucket, 4072 in the build
    MaxBuckets,    \* bound: buckets the file may grow to
    MaxHeads,      \* bound: chains the callers may ask for
    RemovedKeys    \* bound: keys the callers remove

INVALID_BUCKET_ID == -1          \* size_t(-1)

sizeof_bucket == 24 + BUCKET_SIZE      \* three size_t and the data, packed
sizeof_layout == 20 + sizeof_bucket    \* signature, two size_t, one bucket

Ids == 0 .. MaxBuckets - 1

HashValues == [1 .. HASH_BITS -> {0, 1}]

(****************************************************************************)
(* Variable-byte-encoded length of a size: seven bits in a byte.            *)
(****************************************************************************)
vbe_length(n) ==
    CHOOSE i \in 1 .. 9 : n < 128 ^ i /\ \A j \in 1 .. i - 1 : n >= 128 ^ j

(* Bytes of a record: hash, both sizes, key, value.                         *)
bytes_required ==
    [k \in Keys |-> [v \in Values |->
       4 + vbe_length(KeySize[k]) + KeySize[k]
         + vbe_length(ValueSize[v]) + ValueSize[v]]]

ASSUME SizesAssumption ==
    /\ HASH_BITS \in Nat \ {0}
    /\ MaxBuckets \in Nat \ {0}
    /\ BUCKET_SIZE \in Nat \ {0}
    /\ Hash \in [Keys -> HashValues]
    /\ NoValue \notin Values
    /\ RemovedKeys \subseteq Keys

(****************************************************************************)
(* Nothing in the code rejects a record larger than a bucket; every caller  *)
(* has to keep within this bound (create_record would not return).          *)
(****************************************************************************)
ASSUME RecordsFit ==
    \A k \in Keys, v \in Values : bytes_required[k][v] \in 1 .. BUCKET_SIZE

VARIABLES
    buckets_count,         \* layout_->buckets_count
    first_free_bucket_id,  \* layout_->first_free_bucket_id
    buckets,               \* layout_->buckets, zero beyond buckets_count
    length,                \* file_map_.length()
    heads,                 \* history: the bucket ids returned to callers
    pc,                    \* the call in progress, "idle" if none
    arg,                   \* its arguments
    cursor,                \* bucket_id (free_bucket_id) of its loop
    sp,                    \* the locals of split
    result                 \* what the last call returned

layout_vars == <<buckets_count, first_free_bucket_id, buckets, length>>
local_vars == <<pc, arg, cursor, sp, result>>
cvars == <<layout_vars, heads, local_vars>>

Record == [offset : 0 .. BUCKET_SIZE, key : Keys, value : Values]

Bucket == [prefix_bits : 0 .. HASH_BITS, bytes_used : 0 .. BUCKET_SIZE,
           next_bucket_id : Ids \cup {INVALID_BUCKET_ID}, data : SUBSET Record]

len(r) == bytes_required[r.key][r.value]

NoArg == [bucket_id |-> INVALID_BUCKET_ID, key |-> NoValue, value |-> NoValue]
NoResult == [found |-> FALSE, value |-> NoValue, bucket_id |-> INVALID_BUCKET_ID]
NoSplit == [prefix_bits |-> 0, bit0 |-> 0, bit0_put |-> 0, bit1 |-> 0,
            bit1_put |-> 0, result |-> INVALID_BUCKET_ID, get |-> 0,
            get_ptr |-> 0, get_last |-> 0]

-----------------------------------------------------------------------------
(* The constructor on a new file: everything not set here is zero.          *)
ContainerInit ==
    /\ buckets_count = 0
    /\ first_free_bucket_id = INVALID_BUCKET_ID
    /\ buckets = [b \in Ids |-> [prefix_bits |-> 0, bytes_used |-> 0,
                                 next_bucket_id |-> 0, data |-> {}]]
    /\ length = sizeof_layout
    /\ heads = {}
    /\ pc = "idle" /\ arg = NoArg /\ cursor = INVALID_BUCKET_ID
    /\ sp = NoSplit /\ result = NoResult

-----------------------------------------------------------------------------
(****************************************************************************)
(* create_bucket pops the free list, or extends the array and, when the     *)
(* mapping is too short for it, the file.  create_bucket is its effect on   *)
(* the header; fresh_bucket the bucket it initialises.                      *)
(****************************************************************************)
new_bucket_id ==
    IF first_free_bucket_id = INVALID_BUCKET_ID THEN buckets_count
                                                ELSE first_free_bucket_id

(* Mutant: the bucket in layout_t is counted as a spare one.                *)
bytes_needed_one_less == (buckets_count - 1) * sizeof_bucket + sizeof_layout

bytes_needed == buckets_count * sizeof_bucket + sizeof_layout

(* Mutant: the bucket taken stays at the head of the free list.             *)
create_bucket_keeps_head ==
    /\ new_bucket_id \in Ids
    /\ IF first_free_bucket_id = INVALID_BUCKET_ID
         THEN /\ buckets_count' = buckets_count + 1
              /\ length' = IF bytes_needed > length
                             THEN (bytes_needed * 11) \div 10 ELSE length
         ELSE UNCHANGED <<buckets_count, length>>
    /\ UNCHANGED first_free_bucket_id

create_bucket ==
    /\ new_bucket_id \in Ids
    /\ IF first_free_bucket_id = INVALID_BUCKET_ID
         THEN /\ buckets_count' = buckets_count + 1
              /\ length' = IF bytes_needed > length
                             THEN (bytes_needed * 11) \div 10 ELSE length
              /\ UNCHANGED first_free_bucket_id
         ELSE /\ first_free_bucket_id' =
                    buckets[first_free_bucket_id].next_bucket_id
              /\ UNCHANGED <<buckets_count, length>>

fresh_bucket(depth) ==
    [prefix_bits |-> depth, bytes_used |-> 0,
     next_bucket_id |-> INVALID_BUCKET_ID, data |-> {}]

(* The new bucket behind the last bucket of a chain.                        *)
append_bucket(b, depth) ==
    [buckets EXCEPT ![new_bucket_id] = fresh_bucket(depth),
                    ![b].next_bucket_id = new_bucket_id]

(* The bytes of r are copied to offset put: what they cover is overwritten. *)
overwrite(data, put, r) ==
    {e \in data : e.offset + len(e) <= put \/ e.offset >= put + len(r)}
        \cup {[r EXCEPT !.offset = put]}

(* std::copy of r to position put of a bucket, and the counter behind it.   *)
with_record(bucket, put, r) ==
    [bucket EXCEPT !.data = overwrite(@, put, r), !.bytes_used = @ + len(r)]

(* Mutant: the scan stops before the last record.                           *)
matches_all_but_last(b, k) ==
    {r \in buckets[b].data : r.key = k /\ r.offset + len(r) < buckets[b].bytes_used}

(* The records a scan of the bucket meets that have the key.                *)
matches(b, k) ==
    {r \in buckets[b].data : r.key = k /\ r.offset < buckets[b].bytes_used}

(* The first of them in the order of the scan, if there is one.             *)
first_match(b, k) ==
    {r \in matches(b, k) : \A o \in matches(b, k) : r.offset <= o.offset}

Call(name, b, k, v) ==
    /\ pc = "idle"
    /\ pc' = name /\ cursor' = b /\ result' = NoResult
    /\ arg' = [bucket_id |-> b, key |-> k, value |-> v]

Return(r) ==
    /\ pc' = "idle" /\ result' = r
    /\ arg' = NoArg /\ cursor' = INVALID_BUCKET_ID

(* Mutant: the walk looks at the same bucket again.                         *)
WalkOn_in_place ==
    /\ buckets[cursor].next_bucket_id # INVALID_BUCKET_ID
    /\ UNCHANGED cvars

(* `bucket_id = bucket_ptr->next_bucket_id' of the three chain walks.       *)
WalkOn ==
    /\ buckets[cursor].next_bucket_id # INVALID_BUCKET_ID
    /\ cursor' = buckets[cursor].next_bucket_id
    /\ UNCHANGED <<layout_vars, heads, pc, arg, sp, result>>

-----------------------------------------------------------------------------
(* create_bucket called from outside.                                       *)
CreateBucket(depth) ==
    /\ pc = "idle"
    /\ create_bucket
    /\ buckets' = [buckets EXCEPT ![new_bucket_id] = fresh_bucket(depth)]
    /\ heads' = heads \cup {new_bucket_id}
    /\ result' = [NoResult EXCEPT !.bucket_id = new_bucket_id]
    /\ UNCHANGED <<pc, arg, cursor, sp>>

-----------------------------------------------------------------------------
(* find_record / find_value *)
FindCall(b, k) ==
    /\ Call("find", b, k, NoValue)
    /\ UNCHANGED <<layout_vars, heads, sp>>

FindNext == pc = "find" /\ matches(cursor, arg.key) = {} /\ WalkOn

FindHit ==
    /\ pc = "find"
    /\ \E r \in first_match(cursor, arg.key) :
         Return([NoResult EXCEPT !.found = TRUE, !.value = r.value])
    /\ UNCHANGED <<layout_vars, heads, sp>>

FindMiss ==
    /\ pc = "find" /\ matches(cursor, arg.key) = {}
    /\ buckets[cursor].next_bucket_id = INVALID_BUCKET_ID
    /\ Return(NoResult)
    /\ UNCHANGED <<layout_vars, heads, sp>>

-----------------------------------------------------------------------------
(* remove_record: the records behind the removed one move down.             *)
RemoveCall(b, k) ==
    /\ Call("remove", b, k, NoValue)
    /\ UNCHANGED <<layout_vars, heads, sp>>

RemoveNext == pc = "remove" /\ matches(cursor, arg.key) = {} /\ WalkOn

(* Mutant: the records behind the removed one stay where they are.          *)
remove_bytes_leaving_gap(data, r) == data \ {r}

remove_bytes(data, r) ==
    {e \in data : e.offset < r.offset}
        \cup {[e EXCEPT !.offset = @ - len(r)] :
                e \in {d \in data : d.offset > r.offset}}

without_record(bucket, r) ==
    [bucket EXCEPT !.data = remove_bytes(@, r), !.bytes_used = @ - len(r)]

RemoveHit ==
    /\ pc = "remove"
    /\ \E r \in first_match(cursor, arg.key) :
         buckets' = [buckets EXCEPT ![cursor] = without_record(@, r)]
    /\ Return([NoResult EXCEPT !.found = TRUE])
    /\ UNCHANGED <<buckets_count, first_free_bucket_id, length, heads, sp>>

RemoveMiss ==
    /\ pc = "remove" /\ matches(cursor, arg.key) = {}
    /\ buckets[cursor].next_bucket_id = INVALID_BUCKET_ID
    /\ Return(NoResult)
    /\ UNCHANGED <<layout_vars, heads, sp>>

-----------------------------------------------------------------------------
(* create_record: to the first bucket of the chain with room for it.        *)
CreateCall(b, k, v) ==
    /\ Call("create", b, k, v)
    /\ UNCHANGED <<layout_vars, heads, sp>>

arg_length == bytes_required[arg.key][arg.value]

CreateNext ==
    /\ pc = "create"
    /\ buckets[cursor].bytes_used + arg_length > BUCKET_SIZE
    /\ WalkOn

CreateGrow ==
    /\ pc = "create"
    /\ buckets[cursor].bytes_used + arg_length > BUCKET_SIZE
    /\ buckets[cursor].next_bucket_id = INVALID_BUCKET_ID
    /\ create_bucket
    /\ buckets' = append_bucket(cursor, buckets[cursor].prefix_bits)
    /\ cursor' = new_bucket_id
    /\ UNCHANGED <<heads, pc, arg, sp, result>>

CreateWrite ==
    /\ pc = "create"
    /\ buckets[cursor].bytes_used + arg_length <= BUCKET_SIZE
    /\ LET put == buckets[cursor].bytes_used
           r == [offset |-> put, key |-> arg.key, value |-> arg.value]
       IN buckets' = [buckets EXCEPT ![cursor] = with_record(@, put, r)]
    /\ Return([NoResult EXCEPT !.value = arg.value])
    /\ UNCHANGED <<buckets_count, first_free_bucket_id, length, heads, sp>>

-----------------------------------------------------------------------------
(* Mutant: a bucket's bytes_used is not reset when its records are read.    *)
begin_reading_no_reset(bs, b) == bs

(* split, before it reads a bucket: everything in it is to be written anew. *)
begin_reading(bs, b) == [bs EXCEPT ![b].bytes_used = 0]

(****************************************************************************)
(* split: records whose next hash bit is 1 move to a new chain, the others  *)
(* are packed in place: the bit0 chain is written while it is being read.   *)
(* bit0/bit1 are the buckets written, *_put the write positions, get,       *)
(* get_ptr and get_last the bucket read, the position and the end in it.    *)
(*                                                                          *)
(* A record that has been copied is dropped from where it was read: nothing *)
(* reads those bytes again.                                                 *)
(****************************************************************************)
SplitCall(b) ==
    LET depth == buckets[b].prefix_bits + 1
    IN /\ Call("split", b, NoValue, NoValue)
       /\ create_bucket
       /\ buckets' = begin_reading([buckets EXCEPT
                                      ![b].prefix_bits = depth,
                                      ![new_bucket_id] = fresh_bucket(depth)], b)
       /\ sp' = [prefix_bits |-> depth, bit0 |-> b, bit0_put |-> 0,
                 bit1 |-> new_bucket_id, bit1_put |-> 0,
                 result |-> new_bucket_id, get |-> b, get_ptr |-> 0,
                 get_last |-> buckets[b].bytes_used]
       /\ UNCHANGED heads

(* The record parsed at get_ptr, if the bytes there are a record.           *)
at_get_ptr == {r \in buckets[sp.get].data : r.offset = sp.get_ptr}

(* Mutant: the bit of the old depth decides.                                *)
new_bit_of_old_depth(r) == Hash[r.key][sp.prefix_bits - 1]

new_bit_of(r) == Hash[r.key][sp.prefix_bits]

(* Mutant: the record's own length is forgotten.                            *)
bytes_left_in_any(b, r) == buckets[b].bytes_used < BUCKET_SIZE

bytes_left_in(b, r) == buckets[b].bytes_used + len(r) <= BUCKET_SIZE

(* Mutant: the record is not counted where it was copied to.                *)
move_record_uncounted(bs, r, b, put) ==
    LET read == [bs EXCEPT ![sp.get].data = @ \ {r}]
    IN [read EXCEPT ![b].data = overwrite(@, put, r)]

(* The record read is copied to position put of bucket b.                   *)
move_record(bs, r, b, put) ==
    LET read == [bs EXCEPT ![sp.get].data = @ \ {r}]
    IN [read EXCEPT ![b] = with_record(@, put, r)]

SplitBit1Append ==
    /\ pc = "split" /\ sp.get_ptr # sp.get_last
    /\ \E r \in at_get_ptr :
         /\ new_bit_of(r) = 1 /\ bytes_left_in(sp.bit1, r)
         /\ buckets' = move_record(buckets, r, sp.bit1, sp.bit1_put)
         /\ sp' = [sp EXCEPT !.bit1_put = @ + len(r), !.get_ptr = @ + len(r)]
    /\ UNCHANGED <<buckets_count, first_free_bucket_id, length, heads,
                   pc, arg, cursor, result>>

SplitBit1Grow ==
    /\ pc = "split" /\ sp.get_ptr # sp.get_last
    /\ create_bucket
    /\ \E r \in at_get_ptr :
         /\ new_bit_of(r) = 1 /\ ~bytes_left_in(sp.bit1, r)
         /\ buckets' = move_record(append_bucket(sp.bit1, sp.prefix_bits), r, new_bucket_id, 0)
         /\ sp' = [sp EXCEPT !.bit1 = new_bucket_id, !.bit1_put = len(r),
                             !.bit0_put = buckets[sp.bit0].bytes_used,
                             !.get_ptr = @ + len(r)]
    /\ UNCHANGED <<heads, pc, arg, cursor, result>>

SplitBit0Append ==
    /\ pc = "split" /\ sp.get_ptr # sp.get_last
    /\ \E r \in at_get_ptr :
         /\ new_bit_of(r) = 0 /\ bytes_left_in(sp.bit0, r)
         /\ buckets' = move_record(buckets, r, sp.bit0, sp.bit0_put)
         /\ sp' = [sp EXCEPT !.bit0_put = @ + len(r), !.get_ptr = @ + len(r)]
    /\ UNCHANGED <<buckets_count, first_free_bucket_id, length, heads,
                   pc, arg, cursor, result>>

(****************************************************************************)
(* The bit0 chain goes on in its own next bucket, which is reused.  The     *)
(* code also has a branch for a bit0 bucket without a next one, which       *)
(* creates one; Bit0HasRoom says it is never taken.                         *)
(****************************************************************************)
bit0_next ==
    IF buckets[sp.bit0].next_bucket_id # INVALID_BUCKET_ID
      THEN buckets[sp.bit0].next_bucket_id ELSE new_bucket_id

SplitBit0Advance ==
    /\ pc = "split" /\ sp.get_ptr # sp.get_last
    /\ IF buckets[sp.bit0].next_bucket_id # INVALID_BUCKET_ID
         THEN UNCHANGED <<buckets_count, first_free_bucket_id, length>>
         ELSE create_bucket
    /\ \E r \in at_get_ptr :
         /\ new_bit_of(r) = 0 /\ ~bytes_left_in(sp.bit0, r)
         /\ buckets' =
              LET linked ==
                    IF buckets[sp.bit0].next_bucket_id # INVALID_BUCKET_ID
                      THEN [buckets EXCEPT ![bit0_next].prefix_bits =
                                                            sp.prefix_bits]
                      ELSE append_bucket(sp.bit0, sp.prefix_bits)
              IN move_record(linked, r, bit0_next, 0)
         /\ sp' = [sp EXCEPT
                     !.bit0 = bit0_next, !.bit0_put = len(r),
                     !.bit1_put =
                        IF buckets[sp.bit0].next_bucket_id # INVALID_BUCKET_ID
                          THEN @ ELSE buckets[sp.bit1].bytes_used,
                     !.get_ptr = @ + len(r)]
    /\ UNCHANGED <<heads, pc, arg, cursor, result>>

(* The for loop's step to the next bucket of the chain being split.         *)
SplitNextBucket ==
    /\ pc = "split" /\ sp.get_ptr = sp.get_last
    /\ LET next == buckets[sp.get].next_bucket_id
       IN /\ next # INVALID_BUCKET_ID
          /\ sp' = [sp EXCEPT !.get = next, !.get_ptr = 0,
                              !.get_last = buckets[next].bytes_used]
          /\ buckets' = begin_reading(buckets, next)
    /\ UNCHANGED <<buckets_count, first_free_bucket_id, length, heads,
                   pc, arg, cursor, result>>

(* The bit0 chain ends at the last bucket written; the rest is freed.       *)
SplitUnlink ==
    /\ pc = "split" /\ sp.get_ptr = sp.get_last
    /\ buckets[sp.get].next_bucket_id = INVALID_BUCKET_ID
    /\ pc' = "free"
    /\ cursor' = buckets[sp.bit0].next_bucket_id
    /\ buckets' = [buckets EXCEPT ![sp.bit0].next_bucket_id = INVALID_BUCKET_ID]
    /\ UNCHANGED <<buckets_count, first_free_bucket_id, length, heads, arg,
                   sp, result>>

(* Mutant: the old free list is not linked behind the freed bucket.         *)
SplitFree_drops_list ==
    /\ pc = "free" /\ cursor # INVALID_BUCKET_ID
    /\ buckets' = [buckets EXCEPT ![cursor].next_bucket_id = INVALID_BUCKET_ID]
    /\ first_free_bucket_id' = cursor
    /\ cursor' = buckets[cursor].next_bucket_id
    /\ UNCHANGED <<buckets_count, length, heads, pc, arg, sp, result>>

SplitFree ==
    /\ pc = "free" /\ cursor # INVALID_BUCKET_ID
    /\ buckets' = [buckets EXCEPT ![cursor].next_bucket_id = first_free_bucket_id]
    /\ first_free_bucket_id' = cursor
    /\ cursor' = buckets[cursor].next_bucket_id
    /\ UNCHANGED <<buckets_count, length, heads, pc, arg, sp, result>>

SplitReturn ==
    /\ pc = "free" /\ cursor = INVALID_BUCKET_ID
    /\ heads' = heads \cup {sp.result}
    /\ Return([NoResult EXCEPT !.bucket_id = sp.result])
    /\ sp' = NoSplit
    /\ UNCHANGED layout_vars

SplitStep ==
    \/ SplitBit1Append \/ SplitBit1Grow
    \/ SplitBit0Append \/ SplitBit0Advance
    \/ SplitNextBucket \/ SplitUnlink \/ SplitFree

-----------------------------------------------------------------------------
(* bucket_to_split: three buckets, or two that are three quarters full.     *)
bucket_to_split(b) ==
    LET second == buckets[b].next_bucket_id
    IN /\ second # INVALID_BUCKET_ID
       /\ \/ buckets[second].next_bucket_id # INVALID_BUCKET_ID
          \/ buckets[b].bytes_used + buckets[second].bytes_used
                > (3 * BUCKET_SIZE) \div 2

(* Steps inside a call.                                                     *)
ContainerStep ==
    \/ FindNext \/ RemoveNext \/ CreateNext \/ CreateGrow \/ SplitStep

(* Steps that end a call.                                                   *)
ContainerReturn ==
    \/ FindHit \/ FindMiss \/ RemoveHit \/ RemoveMiss \/ CreateWrite
    \/ SplitReturn

-----------------------------------------------------------------------------
(* The buckets on the chain that starts at b.                               *)
Chain(b) ==
    LET walk[n \in 0 .. MaxBuckets] ==
          [x \in Ids \cup {INVALID_BUCKET_ID} |->
             IF n = 0 \/ x = INVALID_BUCKET_ID THEN {}
             ELSE {x} \cup walk[n - 1][buckets[x].next_bucket_id]]
    IN walk[MaxBuckets][b]

chain_records(b) == UNION {buckets[x].data : x \in Chain(b)}

splitting == pc \in {"split", "free"}

(****************************************************************************)
(* The container on its own, its callers held to what they rely on: ids     *)
(* come from the container, a key is stored once, and a chain is split      *)
(* while hash bits are left.                                                *)
(****************************************************************************)
ContainerCall ==
    \/ Cardinality(heads) < MaxHeads /\ CreateBucket(1)
    \/ \E b \in heads, k \in Keys :
         \/ FindCall(b, k)
         \/ k \in RemovedKeys /\ RemoveCall(b, k)
         \/ /\ \A c \in heads : \A r \in chain_records(c) : r.key # k
            /\ \E v \in Values : CreateCall(b, k, v)
    \/ \E b \in heads :
         /\ Cardinality(heads) < MaxHeads
         /\ buckets[b].prefix_bits < HASH_BITS
         /\ SplitCall(b)

ContainerNext == ContainerCall \/ ContainerStep \/ ContainerReturn

ContainerSpec == ContainerInit /\ [][ContainerNext]_cvars

ContainerFairSpec ==
    ContainerSpec /\ WF_cvars(ContainerStep \/ ContainerReturn)

-----------------------------------------------------------------------------
ContainerTypeOK ==
    /\ buckets_count \in 0 .. MaxBuckets
    /\ first_free_bucket_id \in Ids \cup {INVALID_BUCKET_ID}
    /\ buckets \in [Ids -> Bucket]
    /\ length \in Nat
    /\ heads \subseteq Ids
    /\ pc \in {"idle", "find", "remove", "create", "split", "free"}
    /\ arg \in [bucket_id : Ids \cup {INVALID_BUCKET_ID},
                key : Keys \cup {NoValue}, value : Values \cup {NoValue}]
    /\ cursor \in Ids \cup {INVALID_BUCKET_ID}
    /\ sp \in [prefix_bits : 0 .. HASH_BITS, bit0 : Ids, bit1 : Ids, get : Ids,
               bit0_put : 0 .. BUCKET_SIZE, bit1_put : 0 .. BUCKET_SIZE,
               get_ptr : 0 .. BUCKET_SIZE, get_last : 0 .. BUCKET_SIZE,
               result : Ids \cup {INVALID_BUCKET_ID}]
    /\ result \in [found : BOOLEAN, value : Values \cup {NoValue},
                   bucket_id : Ids \cup {INVALID_BUCKET_ID}]

(****************************************************************************)
(* What refers to a bucket from outside the buckets: the ids callers hold,  *)
(* the head of the free list, and the two chains a split is working on.     *)
(****************************************************************************)
Roots ==
    (heads \cup {first_free_bucket_id}
           \cup (IF splitting THEN {sp.result} ELSE {})
           \cup (IF pc = "free" THEN {cursor} ELSE {})) \ {INVALID_BUCKET_ID}

Allocated == 0 .. buckets_count - 1

(****************************************************************************)
(* No bucket is referred to twice: no two chains share a bucket, no bucket  *)
(* in use is also on the free list (create_bucket, create_record, split).   *)
(****************************************************************************)
NoSharing ==
    /\ Roots \subseteq Allocated
    /\ \A b \in Allocated :
         LET next == buckets[b].next_bucket_id
         IN next # INVALID_BUCKET_ID =>
              /\ next \in Allocated \ Roots
              /\ \A c \in Allocated \ {b} : buckets[c].next_bucket_id # next
    /\ splitting => sp.result \notin heads \cup {first_free_bucket_id}
    /\ first_free_bucket_id \notin heads
    /\ pc = "free" => cursor \notin heads \cup {first_free_bucket_id, sp.result}
                       \/ cursor = INVALID_BUCKET_ID

(* No bucket is lost: each is on a chain, on the free list, or in the hands *)
(* of the split in progress.                                                *)
NoLeak == Allocated = UNION {Chain(b) : b \in Roots}

(* S fills the bytes from first to last without a gap or an overlap.        *)
Tiles(S, first, last) ==
    /\ \A r \in S :
         /\ first <= r.offset /\ r.offset + len(r) <= last
         /\ r.offset + len(r) = last \/ \E q \in S : q.offset = r.offset + len(r)
         /\ \A q \in S \ {r} : \/ r.offset + len(r) <= q.offset
                              \/ q.offset + len(q) <= r.offset
    /\ IF first = last THEN S = {} ELSE \E r \in S : r.offset = first

reading(b) == pc = "split" /\ b = sp.get

(****************************************************************************)
(* The records of a bucket are packed from its first byte to bytes_used, at *)
(* every moment of every call; the bucket a split is reading holds besides  *)
(* exactly the records not yet read, up to get_last.  This is what the      *)
(* scans and their assert(cursor <= data + bytes_used) rely on.             *)
(****************************************************************************)
Packed ==
    \A b \in Allocated :
      LET data == buckets[b].data
          unread == IF reading(b) THEN {r \in data : r.offset >= sp.get_ptr} ELSE {}
      IN /\ Tiles(data \ unread, 0, buckets[b].bytes_used)
         /\ reading(b) => /\ Tiles(unread, sp.get_ptr, sp.get_last)
                          /\ buckets[b].bytes_used <= sp.get_ptr

(****************************************************************************)
(* The asserts inside split: the write positions are the fill levels, so no *)
(* record is written over another; a bucket that is freed is empty.         *)
(****************************************************************************)
SplitAsserts ==
    /\ pc = "split" => /\ sp.bit0_put = buckets[sp.bit0].bytes_used
                       /\ sp.bit1_put = buckets[sp.bit1].bytes_used
    /\ pc = "free" /\ cursor # INVALID_BUCKET_ID =>
         buckets[cursor].bytes_used = 0 /\ buckets[cursor].data = {}

(****************************************************************************)
(* A record that stays always has room at or before the place it is read    *)
(* from: the branch of split that would extend the bit0 chain is never      *)
(* taken, and the bit0 chain never runs ahead of the bucket being read.     *)
(****************************************************************************)
Bit0HasRoom ==
    pc = "split" /\ sp.get_ptr # sp.get_last =>
      \A r \in at_get_ptr :
        new_bit_of(r) = 0 /\ ~bytes_left_in(sp.bit0, r) =>
          /\ sp.bit0 # sp.get
          /\ buckets[sp.bit0].next_bucket_id # INVALID_BUCKET_ID
          /\ sp.get \in Chain(buckets[sp.bit0].next_bucket_id)

(* Every bucket lies in the mapping (create_bucket's resize).               *)
InMapping == 20 + buckets_count * sizeof_bucket <= length

(****************************************************************************)
(* The chains as callers see them; a split takes effect when it returns.    *)
(****************************************************************************)
chains ==
    [b \in heads |->
       LET open == splitting /\ b = arg.bucket_id
           stored == chain_records(b)
                       \cup (IF open THEN chain_records(sp.result) ELSE {})
       IN [depth |-> buckets[b].prefix_bits - (IF open THEN 1 ELSE 0),
           items |-> {<<r.key, r.value>> : r \in stored}]]

call ==
    [op |-> IF splitting THEN "split" ELSE pc,
     bucket_id |-> arg.bucket_id, key |-> arg.key, value |-> arg.value]

Store == INSTANCE BucketStore WITH NoId <- INVALID_BUCKET_ID

(****************************************************************************)
(* The container implements the abstract store: a split loses no record,    *)
(* copies none and moves exactly those with the new bit; create_record,     *)
(* remove_record and find_record act on the one record they are asked for.  *)
(****************************************************************************)
ImplementsBucketStore == Store!Spec

(* Every call returns.                                                      *)
CallsReturn == (pc # "idle") ~> (pc = "idle")
=============================================================================
