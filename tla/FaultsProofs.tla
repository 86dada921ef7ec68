---------------------------- MODULE FaultsProofs ----------------------------
(****************************************************************************)
(* Proofs about Faults for any keys, values, hashes and sizes, any number   *)
(* of buckets, faults and later calls: whatever is killed or thrown, and    *)
(* whatever is done to the map afterwards, buckets may be lost, but none is *)
(* ever used twice.                                                         *)
(*                                                                          *)
(* The buckets that faults left behind are the L of ContainerProofs.  Each  *)
(* fault leaves the links sound for some L; the steps that follow keep it.  *)
(****************************************************************************)
EXTENDS Faults, ContainerProofs

(* The catalogue names chains; the constructor makes the one for zeros      *)
(* first, in bucket 0.                                                      *)
Table ==
    /\ prefix_bits \in 1 .. HASH_BITS
    /\ constructed => buffer \in [Prefixes(prefix_bits) -> heads] /\ 0 \in heads
    /\ hpc = "constructor" =>
         /\ buckets_count = 0 /\ heads = {} /\ first_free_bucket_id = INVALID_BUCKET_ID
         /\ prefix_bits = 1 /\ buffer = [p \in Prefixes(1) |-> INVALID_BUCKET_ID]
    /\ hpc = "constructor1" =>
         /\ heads = {0} /\ prefix_bits = 1
         /\ buffer \in [Prefixes(1) -> {0, INVALID_BUCKET_ID}]
         /\ buffer[prefix(zero_hash, 1)] = 0

(* The call of the container that a method of the map is waiting for.       *)
Waits ==
    /\ hpc \in {"constructor", "constructor1", "idle", "miss", "grown", "placed"}
         => pc = "idle"
    /\ hpc \in {"get", "find"} => pc = "find"
    /\ hpc = "remove" => pc = "remove"
    /\ hpc = "create" => pc = "create"
    /\ hpc = "split" => splitting
    /\ hpc \in {"constructor", "constructor1", "idle", "get", "find", "remove",
                "miss", "grown", "split", "placed", "create"}

(* The chain that a method works on, and the key and value it was given.    *)
Given ==
    hpc \notin {"constructor", "constructor1", "idle"} =>
      /\ req.key \in Keys /\ bucket_id \in heads
      /\ hpc \notin {"find", "remove"} => req.value \in Values

MapSound == Sound /\ Table /\ Waits /\ Given

(* A map that is called after a constructor, a removal or the catalogue's   *)
(* header was killed half-done is not described by this; Faults has no      *)
(* calls of it.                                                             *)
FaultsInv == half_made \/ MapSound

-----------------------------------------------------------------------------
(* The first bits of a hash are a prefix.                                   *)
LEMMA HashPrefix ==
  ASSUME NEW n \in 1 .. HASH_BITS, NEW h \in HashValues
  PROVE  prefix(h, n) \in Prefixes(n)
  BY SizesAssumption DEF prefix, Prefixes, HashValues

(* A lookup in the catalogue of a constructed map finds a chain.            *)
LEMMA FindsChain ==
  ASSUME Table, constructed, NEW k \in Keys
  PROVE  catalogue_find(Hash[k]) \in heads
<1>1. Hash[k] \in HashValues
  BY SizesAssumption
<1> QED
  BY <1>1, HashPrefix DEF Table, catalogue_find

(* A constructed map has a bucket.                                          *)
LEMMA NotEmpty ==
  ASSUME Sound, Table, constructed
  PROVE  buckets_count # 0
  BY SizesAssumption DEF Sound, Inv, Typed, Live, Allocated, Table

(* A step of the container that is not the constructor's or the end of a    *)
(* split has the chains it had.                                             *)
LEMMA StepSound ==
  ASSUME Sound, [AnyStep]_cvars
  PROVE  Sound'
  BY InvAnyStep DEF Sound


(* The catalogue and the chains stay as they are.                           *)
LEMMA SameTable ==
  ASSUME Table, constructed, constructed', UNCHANGED <<prefix_bits, buffer, heads>>
  PROVE  Table'
  BY DEF Table, constructed

-----------------------------------------------------------------------------
(* What the steps of the map ask of the container.                          *)
LEMMA MapAsks ==
  ASSUME MapSound, Next
  PROVE  [AnyStep]_cvars
<1>1. CASE Construct \/ Construct1
  BY <1>1 DEF Construct, Construct1, AnyStep, AnyCall
<1>2. ASSUME NEW k \in Keys, NEW op, NEW v, Enter(op, k, v)
      PROVE  bucket_id' \in heads
  BY <1>2, FindsChain DEF Enter, MapSound, constructed
<1>3. ASSUME NEW k \in Keys, Find(k) \/ (\E v \in Offered[k] : Get(k, v)) \/ Remove(k)
      PROVE  AnyStep
  BY <1>2, <1>3 DEF Find, Get, Remove, AnyStep, AnyCall
<1>4. CASE FindReturn \/ RemoveReturn \/ GetMiss \/ GetSplitReturn \/ GetCreated \/ Inside
  BY <1>4 DEF FindReturn, RemoveReturn, GetMiss, GetSplitReturn, GetCreated, Inside,
     AnyStep, ContainerReturn
<1>5. CASE GetCatalogueSplit
  BY <1>5 DEF GetCatalogueSplit
<1>6. CASE GetSplit
  BY <1>6 DEF GetSplit, past_catalogue_split, MapSound, Given, AnyStep, AnyCall
<1>7. CASE GetCreate
  <2>1. bucket_id \in heads /\ req.key \in Keys /\ req.value \in Values
    BY <1>7 DEF GetCreate, past_catalogue_split, MapSound, Given
  <2> QED
    BY <1>7, <2>1 DEF GetCreate, AnyStep, AnyCall
<1>8. RemovedKeys \subseteq Keys
  BY SizesAssumption
<1> QED
  BY <1>1, <1>3, <1>4, <1>5, <1>6, <1>7, <1>8 DEF Next

(* The constructor makes the chain for zeros in bucket 0, then the other.   *)
LEMMA ConstructTable ==
  ASSUME MapSound, Construct \/ Construct1
  PROVE  Table' /\ Waits' /\ Given'
<1>0. PICK n : n = new_bucket_id
  OBVIOUS
<1>1. /\ zero_hash \in HashValues /\ ones_hash \in HashValues /\ 1 \in 1 .. HASH_BITS
      /\ \A i \in 1 .. HASH_BITS : zero_hash[i] = 0 /\ ones_hash[i] = 1
  BY SizesAssumption DEF zero_hash, ones_hash, HashValues
<1>2. /\ prefix(zero_hash, 1) \in Prefixes(1) /\ prefix(ones_hash, 1) \in Prefixes(1)
      /\ prefix(zero_hash, 1) # prefix(ones_hash, 1)
      /\ \A p \in Prefixes(1) : p = prefix(zero_hash, 1) \/ p = prefix(ones_hash, 1)
  <2>1. prefix(zero_hash, 1)[1] = 0 /\ prefix(ones_hash, 1)[1] = 1
    BY <1>1 DEF prefix
  <2>2. prefix(zero_hash, 1) \in Prefixes(1) /\ prefix(ones_hash, 1) \in Prefixes(1)
    BY <1>1, HashPrefix
  <2>3. \A p, q \in Prefixes(1) : p[1] \in {0, 1} /\ (p[1] = q[1] => p = q)
    BY DEF Prefixes
  <2> QED
    BY <2>1, <2>2, <2>3
<1>3. CASE Construct
  <2>1. /\ hpc = "constructor" /\ hpc' = "constructor1" /\ pc' = "idle"
        /\ heads' = heads \cup {n} /\ n = 0
        /\ buffer' = [buffer EXCEPT ![prefix(zero_hash, 1)] = n]
        /\ prefix_bits' = prefix_bits /\ prefix_bits = 1
        /\ buffer = [p \in Prefixes(1) |-> INVALID_BUCKET_ID] /\ heads = {}
    BY <1>0, <1>3 DEF Construct, CreateBucket, catalogue_assign, MapSound, Table,
       new_bucket_id
  <2>2. Table'
    BY <1>1, <1>2, <2>1 DEF Table, constructed
  <2> QED
    BY <2>1, <2>2 DEF Waits, Given
<1>4. CASE Construct1
  <2>1. /\ hpc = "constructor1" /\ hpc' = "idle" /\ pc' = "idle"
        /\ heads' = heads \cup {n} /\ heads = {0}
        /\ buffer' = [buffer EXCEPT ![prefix(ones_hash, 1)] = n]
        /\ prefix_bits' = prefix_bits /\ prefix_bits = 1
        /\ buffer \in [Prefixes(1) -> {0, INVALID_BUCKET_ID}]
        /\ buffer[prefix(zero_hash, 1)] = 0
    BY <1>0, <1>4 DEF Construct1, CreateBucket, catalogue_assign, MapSound, Table
  <2>2. buffer' \in [Prefixes(1) -> heads']
    BY <1>2, <2>1
  <2>3. Table'
    BY <1>1, <2>1, <2>2 DEF Table, constructed
  <2> QED
    BY <2>1, <2>3 DEF Waits, Given
<1> QED
  BY <1>3, <1>4

(* Doubling the catalogue, while a hash has more bits than its prefixes.    *)
LEMMA GrownBits ==
  ASSUME MapSound, hpc = "miss", catalogue_too_small, MaxBuckets <= 2 ^ HASH_BITS
  PROVE  prefix_bits \in 1 .. HASH_BITS - 1
<1>1. buckets_count <= MaxBuckets /\ buckets_count \in Int
  BY SizesAssumption DEF MapSound, Sound, Inv, Typed
<1>2. prefix_bits # HASH_BITS
  BY <1>1, SizesAssumption DEF catalogue_too_small
<1> QED
  BY <1>2, SizesAssumption DEF MapSound, Table

LEMMA GrownTable ==
  ASSUME MapSound, GetCatalogueSplit, MaxBuckets <= 2 ^ HASH_BITS
  PROVE  Table'
<1>1. /\ hpc = "miss" /\ hpc' = "grown" /\ heads' = heads
      /\ prefix_bits' = prefix_bits + 1
      /\ buffer' = [p \in Prefixes(prefix_bits + 1) |-> buffer[prefix(p, prefix_bits)]]
  BY DEF GetCatalogueSplit, catalogue_split, cvars
<1>2. prefix_bits \in 1 .. HASH_BITS - 1
  BY <1>1, GrownBits DEF GetCatalogueSplit
<1>3. /\ buffer \in [Prefixes(prefix_bits) -> heads] /\ 0 \in heads
  BY <1>1 DEF MapSound, Table, constructed
<1>4. \A p \in Prefixes(prefix_bits + 1) : prefix(p, prefix_bits) \in Prefixes(prefix_bits)
  BY <1>2 DEF prefix, Prefixes
<1> QED
  BY <1>1, <1>2, <1>3, <1>4, SizesAssumption DEF Table, constructed

(* The entries that a split assigns name the new chain.                     *)
LEMMA SplitTable ==
  ASSUME MapSound, GetSplitReturn
  PROVE  Table' /\ bucket_id' \in heads'
<1>1. PICK depth, h : depth = depth_of(bucket_id) /\ h = new_chain_hash(depth)
  OBVIOUS
<1>2. /\ hpc = "split" /\ hpc' = "placed" /\ heads' = heads \cup {sp.result}
      /\ prefix_bits' = prefix_bits
      /\ buffer' = [p \in Prefixes(prefix_bits) |->
                      IF agree(p, h, depth) THEN sp.result ELSE buffer[p]]
      /\ bucket_id' \in {sp.result, bucket_id}
  BY <1>1 DEF GetSplitReturn, SplitReturn, catalogue_set, chain_after_split
<1>3. /\ buffer \in [Prefixes(prefix_bits) -> heads] /\ 0 \in heads /\ bucket_id \in heads
      /\ prefix_bits \in 1 .. HASH_BITS
  BY <1>2 DEF MapSound, Table, Given, constructed
<1> QED
  BY <1>2, <1>3 DEF Table, constructed

(* A call of find, remove or get leads to the chain of its key.             *)
LEMMA Entered ==
  ASSUME MapSound, NEW op \in {"get", "find", "remove"}, NEW k \in Keys, NEW v,
         op = "get" => v \in Values, Enter(op, k, v), heads' = heads,
         pc' = (IF op = "remove" THEN "remove" ELSE "find")
  PROVE  Table' /\ Waits' /\ Given'
<1>1. /\ hpc = "idle" /\ hpc' = op /\ bucket_id' = catalogue_find(Hash[k])
      /\ req' = [op |-> op, key |-> k, value |-> v, found |-> FALSE, result |-> NoValue]
      /\ UNCHANGED <<prefix_bits, buffer>>
  BY DEF Enter, catalogue_vars
<1>2. constructed /\ constructed'
  BY <1>1 DEF constructed
<1>3. bucket_id' \in heads'
  BY <1>1, <1>2, FindsChain DEF MapSound
<1>4. req'.key = k /\ req'.value = v
  BY <1>1
<1>5. Table'
  BY <1>1, <1>2, SameTable DEF MapSound
<1>6. Waits'
  BY <1>1 DEF Waits
<1>7. Given'
  BY <1>1, <1>3, <1>4 DEF Given
<1> QED
  BY <1>5, <1>6, <1>7

(* A method that returns.                                                   *)
LEMMA Left ==
  ASSUME MapSound, NEW f, NEW v, Leave(f, v), constructed, heads' = heads, pc' = "idle"
  PROVE  Table' /\ Waits' /\ Given'
<1>1. hpc' = "idle" /\ UNCHANGED <<prefix_bits, buffer>> /\ constructed'
  BY DEF Leave, catalogue_vars, constructed
<1>2. Table'
  BY <1>1, SameTable DEF MapSound
<1> QED
  BY <1>1, <1>2 DEF Waits, Given

(* A step of get that goes on with the same chain.                          *)
LEMMA GoneOn ==
  ASSUME MapSound, constructed, hpc \notin {"idle", "find", "remove"},
         UNCHANGED <<prefix_bits, buffer, heads, bucket_id, req>>,
         hpc' \in {"miss", "split", "create"},
         hpc' = "miss" => pc' = "idle", hpc' = "split" => pc' = "split",
         hpc' = "create" => pc' = "create"
  PROVE  Table' /\ Waits' /\ Given'
<1>1. constructed'
  BY DEF constructed
<1>2. Table'
  BY <1>1, SameTable DEF MapSound
<1>3. Waits'
  BY DEF Waits, splitting
<1>4. Given'
  BY DEF MapSound, Given, constructed
<1> QED
  BY <1>2, <1>3, <1>4

(* An iteration of a loop in the container.                                 *)
LEMMA InsideKeeps ==
  ASSUME MapSound, Inside
  PROVE  Table' /\ Waits' /\ Given'
<1>1. UNCHANGED <<prefix_bits, buffer, bucket_id, hpc, req>> /\ ContainerStep
  BY DEF Inside
<1>2. /\ heads' = heads /\ pc # "idle"
      /\ pc' = pc \/ (splitting /\ pc' = "free")
  BY <1>1 DEF ContainerStep, SplitStep, FindNext, RemoveNext, CreateNext, WalkOn, CreateGrow,
     SplitBit1Append, SplitBit1Grow, SplitBit0Append, SplitBit0Advance, SplitNextBucket,
     SplitUnlink, SplitFree, splitting
<1>3. constructed /\ constructed'
  BY <1>1, <1>2 DEF MapSound, Waits, constructed
<1>4. Table'
  BY <1>1, <1>2, <1>3, SameTable DEF MapSound
<1>5. Waits'
  BY <1>1, <1>2 DEF MapSound, Waits, splitting
<1>6. Given'
  BY <1>1, <1>2 DEF MapSound, Given
<1> QED
  BY <1>4, <1>5, <1>6

(****************************************************************************)
(* Every step of every method keeps the map sound, also on the files that a *)
(* fault left.                                                              *)
(****************************************************************************)
LEMMA NextSound ==
  ASSUME MapSound, Next, MaxBuckets <= 2 ^ HASH_BITS
  PROVE  MapSound'
<1>0. Sound'
  BY MapAsks, StepSound DEF MapSound
<1> SUFFICES Table' /\ Waits' /\ Given'
  BY <1>0 DEF MapSound
<1>1. CASE Construct \/ Construct1
  BY <1>1, ConstructTable
<1>2. ASSUME NEW k \in Keys, Find(k) PROVE Table' /\ Waits' /\ Given'
  BY <1>2, Entered DEF Find, FindCall, Call
<1>3. ASSUME NEW k \in Keys, NEW v \in Offered[k], Get(k, v)
      PROVE  Table' /\ Waits' /\ Given'
  <2>1. v \in Values
    BY OfferedAssumption
  <2> QED
    BY <1>3, <2>1, Entered DEF Get, FindCall, Call
<1>4. ASSUME NEW k \in RemovedKeys, Remove(k) PROVE Table' /\ Waits' /\ Given'
  <2>1. k \in Keys
    BY SizesAssumption
  <2> QED
    BY <1>4, <2>1, Entered DEF Remove, RemoveCall, Call
<1>5. CASE FindReturn \/ RemoveReturn \/ GetCreated
  <2>1. /\ \E f, v : Leave(f, v)
        /\ constructed /\ heads' = heads /\ pc' = "idle"
    BY <1>5 DEF FindReturn, RemoveReturn, GetCreated, FindHit, FindMiss, RemoveHit,
       RemoveMiss, CreateWrite, Return, constructed
  <2> QED
    BY <2>1, Left
<1>6. CASE GetMiss \/ GetSplit \/ GetCreate
  <2>1. /\ constructed /\ hpc \notin {"idle", "find", "remove"}
        /\ UNCHANGED <<prefix_bits, buffer, heads, bucket_id, req>>
        /\ hpc' \in {"miss", "split", "create"}
        /\ hpc' = "miss" => pc' = "idle"
        /\ hpc' = "split" => pc' = "split"
        /\ hpc' = "create" => pc' = "create"
    BY <1>6 DEF GetMiss, GetSplit, GetCreate, FindMiss, SplitCall, CreateCall, Call, Return,
       past_catalogue_split, catalogue_vars, constructed
  <2> QED
    BY <2>1, GoneOn
<1>7. CASE GetCatalogueSplit
  <2>1. /\ hpc = "miss" /\ hpc' = "grown" /\ pc' = pc
        /\ UNCHANGED <<heads, bucket_id, req>>
    BY <1>7 DEF GetCatalogueSplit, cvars, local_vars
  <2> QED
    BY <1>7, <2>1, GrownTable DEF MapSound, Waits, Given
<1>8. CASE GetSplitReturn
  <2>1. /\ hpc = "split" /\ hpc' = "placed" /\ pc' = "idle" /\ req' = req
    BY <1>8 DEF GetSplitReturn, SplitReturn, Return
  <2> QED
    BY <1>8, <2>1, SplitTable DEF MapSound, Waits, Given
<1>9. CASE Inside
  BY <1>9, InsideKeeps
<1> QED
  BY <1>1, <1>2, <1>3, <1>4, <1>5, <1>6, <1>7, <1>8, <1>9 DEF Next

-----------------------------------------------------------------------------
(* A fault that leaves sound links and entries that name chains.            *)
LEMMA Survives ==
  ASSUME MapSound, Abandon, constructed, Orphaned' \/ Sound', heads \subseteq heads',
         prefix_bits' \in 1 .. HASH_BITS, buffer' \in [Prefixes(prefix_bits') -> heads']
  PROVE  MapSound'
<1>1. Sound'
  BY OrphansLeft, PTL
<1>2. hpc' = "idle" /\ pc' = "idle"
  BY NotEmpty DEF Abandon, MapSound
<1>3. 0 \in heads'
  BY DEF MapSound, Table
<1>4. Table' /\ Waits' /\ Given'
  BY <1>2, <1>3 DEF Table, Waits, Given, constructed
<1> QED
  BY <1>1, <1>4 DEF MapSound

(* A fault that leaves the links, the chains and the catalogue as they are. *)
LEMMA Untouched ==
  ASSUME MapSound, Abandon, constructed,
         UNCHANGED <<buckets_count, first_free_bucket_id, heads, catalogue_vars>>,
         buckets' \in [Ids -> AnyBucket],
         \A x \in Ids : buckets'[x].next_bucket_id = buckets[x].next_bucket_id
  PROVE  MapSound'
<1>1. pc' = "idle" /\ sp' = NoSplit
  BY DEF Abandon
<1>2. Orphaned'
  BY <1>1, GivenUp DEF MapSound
<1>3. /\ prefix_bits' = prefix_bits /\ buffer' = buffer /\ heads' = heads
      /\ prefix_bits \in 1 .. HASH_BITS /\ buffer \in [Prefixes(prefix_bits) -> heads]
  BY DEF MapSound, Table, catalogue_vars
<1> QED
  BY <1>2, <1>3, Survives

(* The buckets of a sound map.                                              *)
LEMMA SoundTypes ==
  ASSUME Sound
  PROVE  /\ buckets \in [Ids -> AnyBucket] /\ heads \subseteq Ids
         /\ heads \subseteq Allocated /\ first_free_bucket_id \notin heads
  BY IdsValid DEF Sound, Inv, Typed, RootsDiffer, Live, Allocated

(* Not counting the records behind bytes_used leaves the links alone.       *)
LEMMA Counted ==
  ASSUME buckets \in [Ids -> AnyBucket]
  PROVE  /\ counted \in [Ids -> AnyBucket]
         /\ \A x \in Ids : counted[x].next_bucket_id = buckets[x].next_bucket_id
<1>1. ASSUME NEW b \in Ids, NEW d, d = {r \in buckets[b].data : r.offset < buckets[b].bytes_used}
      PROVE  /\ [buckets[b] EXCEPT !.data = d] \in AnyBucket
             /\ [buckets[b] EXCEPT !.data = d].next_bucket_id = buckets[b].next_bucket_id
  <2>1. d \in SUBSET AnyRecord
    BY <1>1 DEF AnyBucket
  <2> QED
    BY <2>1 DEF AnyBucket
<1> QED
  BY <1>1 DEF counted

(* A kill between two steps; the constructor starts again from its start.   *)
LEMMA KillSound ==
  ASSUME MapSound, Kill
  PROVE  MapSound'
<1>1. /\ Abandon /\ buckets' = counted
      /\ UNCHANGED <<buckets_count, first_free_bucket_id, heads, catalogue_vars>>
      /\ hpc # "constructor1"
  BY DEF Kill, Killed
<1>2. /\ buckets' \in [Ids -> AnyBucket]
      /\ \A x \in Ids : buckets'[x].next_bucket_id = buckets[x].next_bucket_id
  BY <1>1, SoundTypes, Counted DEF MapSound
<1>3. CASE constructed
  BY <1>1, <1>2, <1>3, Untouched
<1>4. CASE hpc = "constructor"
  <2>1. /\ pc' = "idle" /\ sp' = NoSplit /\ hpc' = "constructor"
        /\ prefix_bits' = prefix_bits /\ buffer' = buffer
    BY <1>1, <1>4 DEF Abandon, MapSound, Table, catalogue_vars
  <2>2. Orphaned'
    BY <1>1, <1>2, <2>1, GivenUp DEF MapSound
  <2>3. Sound'
    BY <2>2, OrphansLeft, PTL
  <2>4. Table' /\ Waits' /\ Given'
    BY <1>1, <1>4, <2>1 DEF MapSound, Table, Waits, Given, constructed
  <2> QED
    BY <2>3, <2>4 DEF MapSound
<1> QED
  BY <1>1, <1>3, <1>4 DEF constructed

(* create_bucket loses the bucket it has taken.                             *)
LEMMA LosesBucket ==
  ASSUME MapSound, Abandon, constructed, bucket_taken,
         UNCHANGED <<heads, catalogue_vars>>,
         buckets' \in [Ids -> AnyBucket],
         \A x \in Ids : buckets'[x].next_bucket_id = buckets[x].next_bucket_id
  PROVE  MapSound'
<1>1. pc' = "idle" /\ sp' = NoSplit
  BY DEF Abandon
<1>2. header_taken
  BY DEF bucket_taken, header_taken
<1>3. Orphaned'
  BY <1>1, <1>2, TakenLeft DEF MapSound
<1>4. /\ prefix_bits' = prefix_bits /\ buffer' = buffer /\ heads' = heads
      /\ prefix_bits \in 1 .. HASH_BITS /\ buffer \in [Prefixes(prefix_bits) -> heads]
  BY DEF MapSound, Table, catalogue_vars
<1> QED
  BY <1>3, <1>4, Survives

(* create_record and remove_record change the records of a bucket.          *)
LEMMA KillBeforeReturnSound ==
  ASSUME MapSound, KillBeforeReturn
  PROVE  MapSound'
<1>0. PICK c : c = cursor
  OBVIOUS
<1>1. /\ Abandon /\ UNCHANGED <<buckets_count, first_free_bucket_id, heads, catalogue_vars>>
      /\ hpc \in {"create", "remove"}
  BY DEF KillBeforeReturn, Killed
<1>2. constructed /\ pc = hpc
  BY <1>1 DEF MapSound, Waits, constructed
<1>3. c \in Ids /\ buckets[c] \in AnyBucket
  BY <1>0, <1>1, <1>2, SoundTypes, IdsValid DEF MapSound, Sound, Inv, Typed, Live, Allocated
<1>4. PICK m : /\ buckets' = [buckets EXCEPT ![c] = m]
               /\ m \in AnyBucket /\ m.next_bucket_id = buckets[c].next_bucket_id
  <2>1. CASE hpc = "create"
    <3>1. PICK put, r : /\ put = buckets[c].bytes_used
                        /\ r = [offset |-> put, key |-> arg.key, value |-> arg.value]
                        /\ buckets' = [buckets EXCEPT ![c] = with_record(buckets[c], put, r)]
      BY <1>0, <2>1 DEF KillBeforeReturn
    <3>2. r \in AnyRecord /\ put \in Int
      BY <1>1, <1>2, <1>3, <2>1, <3>1
         DEF MapSound, Sound, Inv, Typed, AnyBucket, AnyRecord
    <3>3. /\ with_record(buckets[c], put, r) \in AnyBucket
          /\ with_record(buckets[c], put, r).next_bucket_id = buckets[c].next_bucket_id
      BY <1>3, <3>2, WithRecord
    <3> QED
      BY <3>1, <3>3
  <2>2. CASE hpc = "remove"
    <3>1. PICK r \in first_match(c, arg.key) :
            buckets' = [buckets EXCEPT ![c] = without_record(buckets[c], r)]
      BY <1>0, <2>2 DEF KillBeforeReturn
    <3>2. r \in AnyRecord
      BY <1>3, <3>1 DEF first_match, matches, AnyBucket
    <3>3. /\ without_record(buckets[c], r) \in AnyBucket
          /\ without_record(buckets[c], r).next_bucket_id = buckets[c].next_bucket_id
      BY <1>3, <3>2, WithoutRecord
    <3> QED
      BY <3>1, <3>3
  <2> QED
    BY <1>1, <2>1, <2>2
<1>5. /\ buckets' \in [Ids -> AnyBucket]
      /\ \A x \in Ids : buckets'[x].next_bucket_id = buckets[x].next_bucket_id
  BY <1>3, <1>4, SoundTypes DEF MapSound
<1> QED
  BY <1>1, <1>2, <1>5, Untouched

(* Whatever create_bucket is stopped in, the links are as they were.        *)
LEMMA BucketFaultSound ==
  ASSUME MapSound, FaultInCreate \/ FaultInSplitCall \/ FaultInSplit
  PROVE  MapSound'
<1>1. /\ Abandon /\ UNCHANGED <<heads, catalogue_vars>>
      /\ bucket_taken \/ UNCHANGED <<buckets_count, first_free_bucket_id>>
  BY DEF FaultInCreate, FaultInSplitCall, FaultInSplit, bucket_fault, Killed, Thrown
<1>2. constructed
  BY DEF FaultInCreate, FaultInSplitCall, FaultInSplit, create_needs_bucket,
     past_catalogue_split, MapSound, Waits, constructed
<1>3. /\ buckets' \in [Ids -> AnyBucket]
      /\ \A x \in Ids : buckets'[x].next_bucket_id = buckets[x].next_bucket_id
  <2>1. CASE FaultInCreate
    BY <2>1, SoundTypes DEF FaultInCreate, unlinked_bucket, MapSound
  <2>2. CASE FaultInSplitCall
    <3>1. bucket_id \in Ids
      BY <2>2, SoundTypes DEF FaultInSplitCall, past_catalogue_split, MapSound, Given
    <3>2. PICK m : m = [buckets[bucket_id] EXCEPT !.prefix_bits = @ + 1]
      OBVIOUS
    <3>3. m \in AnyBucket /\ m.next_bucket_id = buckets[bucket_id].next_bucket_id
      BY <3>1, <3>2, SoundTypes DEF MapSound, AnyBucket
    <3>4. buckets' = [buckets EXCEPT ![bucket_id] = m]
      BY <2>2, <3>2 DEF FaultInSplitCall
    <3> QED
      BY <3>1, <3>3, <3>4, SoundTypes DEF MapSound
  <2>3. CASE FaultInSplit
    BY <2>3, SoundTypes, Counted DEF FaultInSplit, MapSound
  <2> QED
    BY <2>1, <2>2, <2>3
<1> QED
  BY <1>1, <1>2, <1>3, LosesBucket, Untouched

(* set was killed: the new chain is named by some of its entries.           *)
LEMMA KillInSetSound ==
  ASSUME MapSound, KillInSet
  PROVE  MapSound'
<1>1. /\ hpc = "split" /\ pc = "free" /\ cursor = INVALID_BUCKET_ID /\ Abandon
      /\ heads' = heads \cup {sp.result} /\ prefix_bits' = prefix_bits
      /\ UNCHANGED <<buckets_count, first_free_bucket_id, buckets>>
  BY DEF KillInSet, Killed
<1>2. constructed /\ pc' = "idle" /\ sp' = NoSplit
  BY <1>1 DEF constructed, Abandon
<1>3. Sound'
  BY <1>1, <1>2, HandOver DEF MapSound, Sound
<1>4. buffer \in [Prefixes(prefix_bits) -> heads] /\ prefix_bits \in 1 .. HASH_BITS
  BY <1>2 DEF MapSound, Table
<1>5. buffer' \in [Prefixes(prefix_bits') -> heads']
  <2>1. PICK h, depth, n : buffer' = set_so_far(h, depth, sp.result, n)
    BY DEF KillInSet
  <2> QED
    BY <1>1, <1>4, <2>1 DEF set_so_far
<1> QED
  BY <1>1, <1>2, <1>3, <1>4, <1>5, Survives

(* split of the catalogue: the entries not written yet name a chain, of the *)
(* old table or bucket 0.                                                   *)
LEMMA SpreadSound ==
  ASSUME MapSound, FaultInCatalogueSplit, MaxBuckets <= 2 ^ HASH_BITS
  PROVE  MapSound'
<1>1. /\ hpc = "miss" /\ catalogue_too_small /\ Abandon /\ prefix_bits' = prefix_bits + 1
      /\ UNCHANGED <<buckets_count, first_free_bucket_id, buckets, heads>>
  BY DEF FaultInCatalogueSplit, Killed, Thrown
<1>2. constructed /\ pc' = "idle" /\ sp' = NoSplit
  BY <1>1 DEF constructed, Abandon
<1>3. prefix_bits \in 1 .. HASH_BITS - 1
  BY <1>1, GrownBits
<1>4. buffer \in [Prefixes(prefix_bits) -> heads] /\ 0 \in heads
  BY <1>2 DEF MapSound, Table
<1>5. PICK n : buffer' = spread_so_far(n)
  BY DEF FaultInCatalogueSplit
<1>6. ASSUME NEW p \in Prefixes(prefix_bits + 1)
      PROVE  /\ prefix(p, prefix_bits) \in Prefixes(prefix_bits)
             /\ [j \in 1 .. prefix_bits |-> p[j + 1]] \in Prefixes(prefix_bits)
  BY <1>3 DEF prefix, Prefixes
<1>7. buffer' \in [Prefixes(prefix_bits') -> heads']
  BY <1>1, <1>4, <1>5, <1>6 DEF spread_so_far
<1>8. Orphaned'
  BY <1>1, <1>2, SoundTypes, GivenUp DEF MapSound
<1>9. prefix_bits' \in 1 .. HASH_BITS
  BY <1>1, <1>3, SizesAssumption
<1> QED
  BY <1>1, <1>2, <1>7, <1>8, <1>9, Survives

-----------------------------------------------------------------------------
(* The new files are sound.                                                 *)
LEMMA FaultsBegin == FaultsInit => FaultsInv
<1> SUFFICES ASSUME FaultsInit PROVE MapSound
  BY DEF FaultsInv
<1>1. Inv({}) /\ {} \in SUBSET Ids
  BY InvInit DEF FaultsInit, Init
<1>2. Table /\ Waits /\ Given
  BY SizesAssumption
     DEF FaultsInit, Init, ContainerInit, DirectoryInit, Table, Waits, Given, constructed
<1> QED
  BY <1>1, <1>2 DEF MapSound, Sound

(* Every step of the map and every fault keeps it so.                       *)
LEMMA FaultsStep ==
  ASSUME MaxBuckets <= 2 ^ HASH_BITS, FaultsInv, [FaultsNext]_fvars
  PROVE  FaultsInv'
<1>1. CASE UNCHANGED fvars
  <2>1. /\ UNCHANGED <<half_made, prefix_bits, buffer, bucket_id, hpc, req>>
        /\ UNCHANGED cvars
    BY <1>1 DEF fvars, hvars
  <2>2. MapSound => Sound'
    BY <2>1, StepSound DEF MapSound
  <2>3. UNCHANGED <<buckets_count, first_free_bucket_id, heads, pc>>
    BY <2>1 DEF cvars, layout_vars, local_vars
  <2>4. MapSound => Table' /\ Waits' /\ Given'
    BY <2>1, <2>3 DEF MapSound, Table, Waits, Given, constructed, splitting
  <2> QED
    BY <2>1, <2>2, <2>4 DEF FaultsInv, MapSound
<1>2. CASE Run
  BY <1>2, NextSound DEF Run, FaultsInv
<1>3. CASE Rest
  BY <1>1, <1>3 DEF Rest
<1>4. CASE KillInConstructor \/ KillInRemove \/ KillInHeader
  BY <1>4 DEF KillInConstructor, KillInRemove, KillInHeader, FaultsInv
<1>5. CASE half_made /\ Fault
  BY <1>5 DEF FaultsInv, Fault, Kill, KillInConstructor, KillBeforeReturn, KillInSet,
     KillInRemove, KillInHeader, FaultInCreate, FaultInSplitCall, FaultInSplit,
     FaultInCatalogueSplit, Harmless, Endangers
<1>6. CASE ~half_made /\ Fault /\ ~(KillInConstructor \/ KillInRemove \/ KillInHeader)
  <2>1. MapSound
    BY <1>6 DEF FaultsInv
  <2>2. MapSound'
    BY <1>6, <2>1, KillSound, KillBeforeReturnSound, KillInSetSound, BucketFaultSound,
       SpreadSound DEF Fault
  <2> QED
    BY <2>2 DEF FaultsInv
<1> QED
  BY <1>1, <1>2, <1>3, <1>4, <1>5, <1>6 DEF FaultsNext

(* What the invariant says of the entries and the free list of a map that   *)
(* no call is in progress of.                                               *)
LEMMA InvDisjoint == FaultsInv => ChainsDisjoint
<1> SUFFICES ASSUME FaultsInv, hpc = "idle", ~half_made,
                    NEW entries, entries = {buffer[p] : p \in Prefixes(prefix_bits)},
                    NEW roots, roots = (entries \cup {first_free_bucket_id})
                                         \ {INVALID_BUCKET_ID}
             PROVE  /\ entries \subseteq Allocated /\ first_free_bucket_id \notin entries
                    /\ \A b \in roots : Chain(b) \subseteq Allocated
                    /\ \A b, c \in roots : b # c => Chain(b) \cap Chain(c) = {}
  BY DEF ChainsDisjoint
<1>1. MapSound
  BY DEF FaultsInv
<1>2. entries \subseteq heads
  BY <1>1 DEF MapSound, Table, constructed
<1>3. PICK L \in SUBSET Ids : Inv(L)
  BY <1>1 DEF MapSound, Sound
<1>4. roots \subseteq Roots
  BY <1>2 DEF Roots
<1>5. \A b \in roots : Chain(b) \subseteq Allocated
  BY <1>3, <1>4, ChainWithin
<1>6. \A b, c \in roots : b # c => Chain(b) \cap Chain(c) = {}
  BY <1>3, <1>4, ChainsApart
<1> QED
  BY <1>1, <1>2, <1>5, <1>6, SoundTypes DEF MapSound

-----------------------------------------------------------------------------
(****************************************************************************)
(* Whenever a process that uses the map is killed or catches an exception   *)
(* of file_map::resize, any number of times, and whatever is done to the    *)
(* map before and after: every entry of the catalogue names a bucket of the *)
(* file, and the chains and the free list share no bucket.  The exceptions  *)
(* are a kill within the constructor, one while remove_record moves         *)
(* records, and one between the stores of the catalogue's header.           *)
(****************************************************************************)
THEOREM FaultsLoseOnly ==
  ASSUME MaxBuckets <= 2 ^ HASH_BITS
  PROVE  FaultsSpec => []ChainsDisjoint
<1>1. FaultsInv /\ [FaultsNext]_fvars => FaultsInv'
  BY FaultsStep
<1>2. FaultsSpec => []FaultsInv
  BY <1>1, FaultsBegin, PTL DEF FaultsSpec
<1> QED
  BY <1>2, InvDisjoint, PTL

=============================================================================
