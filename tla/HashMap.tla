------------------------------- MODULE HashMap -------------------------------
(****************************************************************************)
(* diskhash::hash_map<BucketSize> (hash_map.h): extendible hashing over a   *)
(* catalogue (module Directory) and a container (module Container).  An     *)
(* entry of the catalogue names the first bucket of the chain that holds    *)
(* the records of its prefix; a chain of depth d (prefix_bits of its first  *)
(* bucket) is named by every entry that extends one prefix of d bits.       *)
(*                                                                          *)
(* A method is a sequence of calls of the two components.  hpc is the       *)
(* method's position, req its arguments and, once it returned, its result.  *)
(****************************************************************************)
EXTENDS Container

CONSTANT Offered   \* bound: the values that callers pass with each key

ASSUME OfferedAssumption == Offered \in [Keys -> SUBSET Values]

VARIABLES
    prefix_bits, buffer,   \* the catalogue
    bucket_id,             \* get's local of that name
    hpc,                   \* position of the method in progress
    req                    \* its name, key and value, then its result

INSTANCE Directory WITH BlockIds <- Ids, INVALID_BLOCK_ID <- INVALID_BUCKET_ID

catalogue_vars == <<prefix_bits, buffer>>

hvars == <<cvars, prefix_bits, buffer, bucket_id, hpc, req>>

NoReq == [op |-> "none", key |-> NoValue, value |-> NoValue,
          found |-> FALSE, result |-> NoValue]

hash == Hash[req.key]

zero_hash == [i \in 1 .. HASH_BITS |-> 0]
ones_hash == [i \in 1 .. HASH_BITS |-> 1]

-----------------------------------------------------------------------------
Init ==
    /\ ContainerInit /\ DirectoryInit
    /\ bucket_id = INVALID_BUCKET_ID
    /\ hpc = "constructor" /\ req = NoReq

(****************************************************************************)
(* The constructor on new files makes the two buckets of depth 1.           *)
(****************************************************************************)
Construct ==
    /\ hpc = "constructor"
    /\ CreateBucket(1)
    /\ catalogue_assign(zero_hash, new_bucket_id)
    /\ hpc' = "constructor1"
    /\ UNCHANGED <<bucket_id, req>>

Construct1 ==
    /\ hpc = "constructor1"
    /\ CreateBucket(1)
    /\ catalogue_assign(ones_hash, new_bucket_id)
    /\ hpc' = "idle"
    /\ UNCHANGED <<bucket_id, req>>

-----------------------------------------------------------------------------
(* A caller enters get, find or remove.                                     *)
Enter(op, k, v) ==
    /\ hpc = "idle"
    /\ hpc' = op
    /\ bucket_id' = catalogue_find(Hash[k])
    /\ req' = [op |-> op, key |-> k, value |-> v,
               found |-> FALSE, result |-> NoValue]
    /\ UNCHANGED catalogue_vars

Leave(found, value) ==
    /\ hpc' = "idle"
    /\ bucket_id' = INVALID_BUCKET_ID
    /\ req' = [NoReq EXCEPT !.found = found, !.result = value]
    /\ UNCHANGED catalogue_vars

Find(k) == Enter("find", k, NoValue) /\ FindCall(bucket_id', k)

Remove(k) == Enter("remove", k, NoValue) /\ RemoveCall(bucket_id', k)

Get(k, v) == Enter("get", k, v) /\ FindCall(bucket_id', k)

(* find and remove return what the container returned, get what it found.   *)
FindReturn ==
    \/ hpc \in {"find", "get"} /\ FindHit /\ Leave(TRUE, result'.value)
    \/ hpc = "find" /\ FindMiss /\ Leave(FALSE, NoValue)

RemoveReturn ==
    hpc = "remove" /\ (RemoveHit \/ RemoveMiss) /\ Leave(result'.found, NoValue)

-----------------------------------------------------------------------------
(* The rest of get, after find_record missed.                               *)
GetMiss ==
    /\ hpc = "get" /\ FindMiss
    /\ hpc' = "miss"
    /\ UNCHANGED <<bucket_id, req, catalogue_vars>>

depth_of(b) == buckets[b].prefix_bits

(* The conditions of the branch that grows the catalogue.                   *)
catalogue_too_small ==
    /\ bucket_to_split(bucket_id)
    /\ depth_of(bucket_id) = prefix_bits
    /\ buckets_count > 2 ^ prefix_bits

GetCatalogueSplit ==
    /\ hpc = "miss"
    /\ catalogue_too_small
    /\ catalogue_split
    /\ hpc' = "grown"
    /\ UNCHANGED <<cvars, bucket_id, req>>

(* Past that branch: the chain is split if the catalogue is deeper than it. *)
past_catalogue_split == hpc = "grown" \/ (hpc = "miss" /\ ~catalogue_too_small)

split_wanted == bucket_to_split(bucket_id) /\ depth_of(bucket_id) < prefix_bits

GetSplit ==
    /\ past_catalogue_split /\ split_wanted
    /\ SplitCall(bucket_id)
    /\ hpc' = "split"
    /\ UNCHANGED <<bucket_id, req, catalogue_vars>>

(* Mutant: the new bit is not set in the hash given to catalogue_.set.      *)
new_chain_hash_as_is(depth) == hash

(* hash | new_bit.                                                          *)
new_chain_hash(depth) == [hash EXCEPT ![depth] = 1]

(* Mutant: get goes on with the old chain.                                  *)
chain_after_split_old(depth, new_id) == bucket_id

(* Which of the two chains the key belongs to.                              *)
chain_after_split(depth, new_id) == IF hash[depth] = 1 THEN new_id ELSE bucket_id

(* The new chain takes over the entries whose next bit is 1.                *)
GetSplitReturn ==
    LET depth == depth_of(bucket_id)
        new_id == sp.result
    IN /\ hpc = "split" /\ SplitReturn
       /\ catalogue_set(new_chain_hash(depth), depth, new_id)
       /\ bucket_id' = chain_after_split(depth, new_id)
       /\ hpc' = "placed"
       /\ UNCHANGED req

GetCreate ==
    /\ hpc = "placed" \/ (past_catalogue_split /\ ~split_wanted)
    /\ CreateCall(bucket_id, req.key, req.value)
    /\ hpc' = "create"
    /\ UNCHANGED <<bucket_id, req, catalogue_vars>>

GetCreated ==
    /\ hpc = "create" /\ CreateWrite
    /\ Leave(FALSE, req.value)

-----------------------------------------------------------------------------
(* An iteration of a loop inside the container.                             *)
Inside == ContainerStep /\ UNCHANGED <<prefix_bits, buffer, bucket_id, hpc, req>>

Next ==
    \/ Construct \/ Construct1
    \/ \E k \in Keys : Find(k) \/ \E v \in Offered[k] : Get(k, v)
    \/ \E k \in RemovedKeys : Remove(k)
    \/ FindReturn \/ RemoveReturn \/ GetMiss
    \/ GetCatalogueSplit \/ GetSplit \/ GetSplitReturn
    \/ GetCreate \/ GetCreated
    \/ Inside

Spec == Init /\ [][Next]_hvars

(* The steps of a method that has been entered, and of the constructor.     *)
Advance ==
    \/ Construct \/ Construct1
    \/ FindReturn \/ RemoveReturn \/ GetMiss
    \/ GetCatalogueSplit \/ GetSplit \/ GetSplitReturn
    \/ GetCreate \/ GetCreated
    \/ Inside

(* The caller's thread runs a method it entered until the method returns.   *)
FairSpec == Spec /\ WF_hvars(Advance)

-----------------------------------------------------------------------------
TypeOK ==
    /\ ContainerTypeOK /\ DirectoryTypeOK
    /\ bucket_id \in Ids \cup {INVALID_BUCKET_ID}
    /\ hpc \in {"constructor", "constructor1", "idle", "get", "find", "remove",
                "miss", "grown", "split", "placed", "create"}
    /\ req \in [op : {"none", "get", "find", "remove"},
                key : Keys \cup {NoValue}, value : Values \cup {NoValue},
                found : BOOLEAN, result : Values \cup {NoValue}]

constructed == hpc \notin {"constructor", "constructor1"}

(* The depth the catalogue knows: split raises prefix_bits before set.      *)
known_depth(b) ==
    IF splitting /\ b = arg.bucket_id THEN depth_of(b) - 1 ELSE depth_of(b)

(****************************************************************************)
(* The entries that name a chain of depth d are exactly the extensions of   *)
(* one prefix of d bits, d <= prefix_bits: what catalogue_.set, called with *)
(* the depth after a split, relies on.  Every chain is named.               *)
(****************************************************************************)
DirectoryAligned ==
    constructed =>
      /\ \A p, q \in Prefixes(prefix_bits) :
           LET d == known_depth(buffer[p])
           IN /\ d <= prefix_bits
              /\ buffer[q] = buffer[p] <=> agree(p, q, d)
      /\ heads = {buffer[p] : p \in Prefixes(prefix_bits)}

(****************************************************************************)
(* Every record is on the chain its hash leads to; while a chain is being   *)
(* split, the records already on the new chain are those with the new bit.  *)
(****************************************************************************)
RecordsPlaced ==
    /\ \A b \in heads : \A r \in chain_records(b) : catalogue_find(Hash[r.key]) = b
    /\ splitting =>
         \A r \in chain_records(sp.result) :
           new_bit_of(r) = 1 /\ catalogue_find(Hash[r.key]) = arg.bucket_id

(* The two asserts of get after container_.split.                           *)
GetAsserts ==
    hpc = "placed" =>
      /\ catalogue_find(hash) = bucket_id
      /\ depth_of(bucket_id) = depth_of(result.bucket_id)

-----------------------------------------------------------------------------
(****************************************************************************)
(* The map as its caller sees it: what each key is bound to.  Buckets on    *)
(* the free list hold no records.                                           *)
(****************************************************************************)
records == UNION {buckets[b].data : b \in Allocated}

dict ==
    [k \in Keys |->
       LET found == {r \in records : r.key = k}
       IN IF found = {} THEN NoValue ELSE (CHOOSE r \in found : TRUE).value]

status == IF ~constructed THEN "closed" ELSE IF hpc = "idle" THEN "idle" ELSE "busy"

KV == INSTANCE KVMap WITH dict <- dict, status <- status, req <- req

(****************************************************************************)
(* hash_map implements a dictionary: get returns the value a key is bound   *)
(* to or binds it to the default, find and remove report exactly what is    *)
(* bound, and no other key is touched, whatever splits happen in between.   *)
(****************************************************************************)
ImplementsKVMap == KV!Spec

(* Every method returns (records fit a bucket, so create_record ends).      *)
MethodsReturn == (hpc # "idle") ~> (hpc = "idle")
=============================================================================
