--------------------------- MODULE ContainerProofs ---------------------------
(****************************************************************************)
(* Proofs about Container for any keys, values, hashes, sizes and any       *)
(* number of buckets: no bucket is ever referred to twice, and none is ever *)
(* lost; the records of a bucket are packed at every moment, and the        *)
(* asserts inside split hold.                                               *)
(*                                                                          *)
(* The buckets form a graph: bucket b has an edge to its next_bucket_id.    *)
(* The first part is about that graph only; what the records are matters    *)
(* there as far as the fill levels that are added up stay integers.  The    *)
(* second part is about the bytes.                                          *)
(****************************************************************************)
EXTENDS Container, FiniteSetTheorems, WellFoundedInduction, TLAPS

Links == Ids \cup {INVALID_BUCKET_ID}

AnyRecord == [offset : Int, key : Keys, value : Values]

AnyBucket == [prefix_bits : Int, bytes_used : Int, next_bucket_id : Links,
              data : SUBSET AnyRecord]

AnySplit == [prefix_bits : Int, bit0 : Ids, bit0_put : Int, bit1 : Ids,
             bit1_put : Int, result : Links, get : Ids, get_ptr : Int,
             get_last : Int]

(* The edges of the graph.                                                  *)
nxt == [b \in Ids |-> buckets[b].next_bucket_id]

(****************************************************************************)
(* The buckets in use.  L are the buckets that a process left behind when   *)
(* it was killed or threw in the middle of a call (module Faults); a call   *)
(* that runs to its end loses none, and L stays empty.                      *)
(****************************************************************************)
Live(L) == Allocated \ L

(* The type invariant, without the bounds on offsets and fill levels.  What *)
(* was left behind is not referred to any more.                             *)
Typed(L) ==
    /\ buckets_count \in 0 .. MaxBuckets
    /\ L \subseteq Allocated
    /\ first_free_bucket_id \in Live(L) \cup {INVALID_BUCKET_ID}
    /\ buckets \in [Ids -> AnyBucket]
    /\ heads \subseteq Live(L)
    /\ sp \in AnySplit
    /\ pc \in {"idle", "find", "remove", "create", "split", "free"}
    /\ pc \in {"find", "remove", "create"} => cursor \in Live(L)
    /\ pc = "create" => arg.key \in Keys /\ arg.value \in Values
    /\ splitting => sp.result \in Live(L)
    /\ pc = "split" => sp.bit0 \in Live(L) /\ sp.bit1 \in Live(L)
    /\ pc = "free" => cursor \in Live(L) \cup {INVALID_BUCKET_ID}

(* A bucket has at most one predecessor, and none if a root refers to it.   *)
OneReference(L) ==
    /\ \A b \in Live(L) :
         nxt[b] # INVALID_BUCKET_ID =>
           /\ nxt[b] \in Live(L)
           /\ nxt[b] \notin heads
           /\ nxt[b] # first_free_bucket_id
           /\ splitting => nxt[b] # sp.result
           /\ pc = "free" => nxt[b] # cursor
    /\ \A b, c \in Live(L) :
         b # c /\ nxt[b] # INVALID_BUCKET_ID => nxt[b] # nxt[c]

(* The roots are different buckets.                                         *)
RootsDiffer ==
    /\ splitting => sp.result \notin heads /\ sp.result # first_free_bucket_id
    /\ first_free_bucket_id \notin heads
    /\ pc = "free" /\ cursor # INVALID_BUCKET_ID =>
         cursor \notin heads /\ cursor # first_free_bucket_id /\ cursor # sp.result

(* F has the free list in it; no edge leads from F to the other buckets or  *)
(* from them to F.                                                          *)
HoldsFreeList(F, L) ==
    /\ F \subseteq Live(L)
    /\ first_free_bucket_id \in F \cup {INVALID_BUCKET_ID}
    /\ \A b \in F : nxt[b] \in F \cup {INVALID_BUCKET_ID}
    /\ \A b \in Live(L) \ F : nxt[b] \notin F
    /\ heads \cap F = {}

(* The call in progress is not working on a bucket of F.                    *)
CallAvoids(F) ==
    /\ pc \in {"find", "remove", "create", "free"} => cursor \notin F
    /\ splitting => sp.result \notin F
    /\ pc = "split" => sp.bit0 \notin F /\ sp.bit1 \notin F

Separates(F, L) == HoldsFreeList(F, L) /\ CallAvoids(F)

(* While split moves records, G is the new chain: bit1 is its last bucket,  *)
(* no edge leads from it to the other buckets or from them to it.           *)
SplitsTo(G, L) ==
    /\ G \subseteq Live(L)
    /\ \A b \in G : nxt[b] \in G \cup {INVALID_BUCKET_ID}
    /\ \A b \in Live(L) \ G : nxt[b] \notin G
    /\ heads \cap G = {} /\ first_free_bucket_id \notin G
    /\ sp.bit0 \notin G /\ sp.bit1 \in G
    /\ nxt[sp.bit1] = INVALID_BUCKET_ID

NewChain(L) == pc = "split" => \E G \in SUBSET Ids : SplitsTo(G, L)

(* Only all buckets in use have every root among them and no edge that      *)
(* leaves them.                                                             *)
Reached(L) ==
    \A T \in SUBSET Live(L) :
      Roots \subseteq T /\ (\A x \in T : nxt[x] \in T \cup {INVALID_BUCKET_ID})
        => T = Live(L)

Inv(L) ==
    /\ Typed(L)
    /\ OneReference(L)
    /\ RootsDiffer
    /\ \E F \in SUBSET Ids : Separates(F, L)
    /\ NewChain(L)
    /\ Reached(L)

-----------------------------------------------------------------------------
(* A bucket id is never the invalid one.                                    *)
LEMMA IdsValid == /\ INVALID_BUCKET_ID \notin Ids /\ 0 \in Ids
                  /\ \A n \in 0 .. MaxBuckets : 0 .. n - 1 \subseteq Ids
  BY SizesAssumption DEF Ids, INVALID_BUCKET_ID

(* A record has a length.                                                   *)
LEMMA LengthInt == \A r \in AnyRecord : len(r) \in Int
<1>1. \A k \in Keys, v \in Values : bytes_required[k][v] \in Int
  BY RecordsFit, SizesAssumption
<1> QED
  BY <1>1 DEF len, AnyRecord

(* The invariant holds initially.                                           *)
LEMMA InvInit == ContainerInit => Inv({})
<1> SUFFICES ASSUME ContainerInit PROVE Inv({})
  OBVIOUS
<1> USE IdsValid
<1>1. Live({}) = {}
  BY DEF ContainerInit, Live, Allocated
<1>2. buckets \in [Ids -> AnyBucket]
  <2>1. [prefix_bits |-> 0, bytes_used |-> 0, next_bucket_id |-> 0, data |-> {}]
          \in AnyBucket
    BY DEF AnyBucket, Links
  <2> QED
    BY <2>1 DEF ContainerInit
<1>3. sp \in AnySplit
  <2>1. NoSplit \in AnySplit
    BY DEF NoSplit, AnySplit, Links
  <2> QED
    BY <2>1 DEF ContainerInit
<1>4. Typed({})
  BY <1>1, <1>2, <1>3, SizesAssumption DEF ContainerInit, Typed, splitting
<1>5. OneReference({}) /\ RootsDiffer
  BY <1>1 DEF ContainerInit, OneReference, RootsDiffer, splitting
<1>6. Separates({}, {})
  BY <1>1 DEF ContainerInit, Separates, HoldsFreeList, CallAvoids, splitting
<1>7. NewChain({})
  BY DEF ContainerInit, NewChain
<1>8. Reached({})
  BY <1>1 DEF Reached
<1> QED
  BY <1>4, <1>5, <1>6, <1>7, <1>8 DEF Inv

-----------------------------------------------------------------------------
(* What the operators that write buckets do to the types and the edges.     *)
LEMMA FreshBucket ==
  ASSUME NEW depth \in Int
  PROVE  /\ fresh_bucket(depth) \in AnyBucket
         /\ fresh_bucket(depth).next_bucket_id = INVALID_BUCKET_ID
  BY DEF fresh_bucket, AnyBucket, Links

(* Resetting bytes_used leaves the links alone.                             *)
LEMMA BeginReading ==
  ASSUME NEW bs \in [Ids -> AnyBucket], NEW b \in Ids
  PROVE  /\ begin_reading(bs, b) \in [Ids -> AnyBucket]
         /\ \A x \in Ids : begin_reading(bs, b)[x].next_bucket_id = bs[x].next_bucket_id
<1>1. [bs[b] EXCEPT !.bytes_used = 0] \in AnyBucket
  BY DEF AnyBucket
<1>2. [bs[b] EXCEPT !.bytes_used = 0].next_bucket_id = bs[b].next_bucket_id
  BY DEF AnyBucket
<1>3. begin_reading(bs, b) = [bs EXCEPT ![b] = [bs[b] EXCEPT !.bytes_used = 0]]
  BY DEF begin_reading
<1> QED
  BY <1>1, <1>2, <1>3

(* Copying a record gives a set of records.                                 *)
LEMMA Overwrite ==
  ASSUME NEW data \in SUBSET AnyRecord, NEW put \in Int, NEW r \in AnyRecord
  PROVE  overwrite(data, put, r) \in SUBSET AnyRecord
<1>1. [r EXCEPT !.offset = put] \in AnyRecord
  BY DEF AnyRecord
<1> QED
  BY <1>1 DEF overwrite

(* A written bucket is a bucket with the same link.                         *)
LEMMA WithRecord ==
  ASSUME NEW bucket \in AnyBucket, NEW put \in Int, NEW r \in AnyRecord
  PROVE  /\ with_record(bucket, put, r) \in AnyBucket
         /\ with_record(bucket, put, r).next_bucket_id = bucket.next_bucket_id
<1> DEFINE d == overwrite(bucket.data, put, r)
           n == bucket.bytes_used + len(r)
<1>1. bucket.data \in SUBSET AnyRecord /\ bucket.bytes_used \in Int
  BY DEF AnyBucket
<1>2. d \in SUBSET AnyRecord /\ n \in Int
  BY <1>1, Overwrite, LengthInt
<1>3. with_record(bucket, put, r) = [bucket EXCEPT !.data = d, !.bytes_used = n]
  BY DEF with_record
<1> HIDE DEF d, n
<1> QED
  BY <1>2, <1>3 DEF AnyBucket

(* So is one that a record was removed from.                                *)
LEMMA WithoutRecord ==
  ASSUME NEW bucket \in AnyBucket, NEW r \in AnyRecord
  PROVE  /\ without_record(bucket, r) \in AnyBucket
         /\ without_record(bucket, r).next_bucket_id = bucket.next_bucket_id
<1> DEFINE d == remove_bytes(bucket.data, r)
           n == bucket.bytes_used - len(r)
<1>1. bucket.data \in SUBSET AnyRecord /\ bucket.bytes_used \in Int
  BY DEF AnyBucket
<1>2. len(r) \in Int
  BY LengthInt
<1>3. \A e \in AnyRecord : [e EXCEPT !.offset = e.offset - len(r)] \in AnyRecord
  BY <1>2 DEF AnyRecord
<1>4. d \in SUBSET AnyRecord /\ n \in Int
  BY <1>1, <1>2, <1>3 DEF remove_bytes
<1>5. without_record(bucket, r) = [bucket EXCEPT !.data = d, !.bytes_used = n]
  BY DEF without_record
<1> HIDE DEF d, n
<1> QED
  BY <1>4, <1>5 DEF AnyBucket

(* split's copying of a record leaves the links alone.                      *)
LEMMA MoveRecord ==
  ASSUME sp.get \in Ids, NEW bs \in [Ids -> AnyBucket], NEW b \in Ids, NEW put \in Int,
         NEW r \in AnyRecord
  PROVE  /\ move_record(bs, r, b, put) \in [Ids -> AnyBucket]
         /\ \A x \in Ids :
              move_record(bs, r, b, put)[x].next_bucket_id = bs[x].next_bucket_id
<1> DEFINE read == [bs EXCEPT ![sp.get].data = @ \ {r}]
<1>1. /\ read \in [Ids -> AnyBucket]
      /\ \A x \in Ids : read[x].next_bucket_id = bs[x].next_bucket_id
  <2>1. [bs[sp.get] EXCEPT !.data = @ \ {r}] \in AnyBucket
    BY DEF AnyBucket
  <2>2. [bs[sp.get] EXCEPT !.data = @ \ {r}].next_bucket_id = bs[sp.get].next_bucket_id
    BY DEF AnyBucket
  <2>3. read = [bs EXCEPT ![sp.get] = [bs[sp.get] EXCEPT !.data = @ \ {r}]]
    OBVIOUS
  <2> HIDE DEF read
  <2> QED
    BY <2>1, <2>2, <2>3
<1>2. move_record(bs, r, b, put) = [read EXCEPT ![b] = with_record(read[b], put, r)]
  BY DEF move_record
<1> HIDE DEF read
<1> QED
  BY <1>1, <1>2, WithRecord

-----------------------------------------------------------------------------
(****************************************************************************)
(* Every bucket stays reachable when the target of a link that is dropped   *)
(* becomes a root, and a root that is dropped the target of a root's link.  *)
(****************************************************************************)
LEMMA LinksMoved ==
  ASSUME NEW L, Inv(L), Live(L)' = Live(L),
         \A x \in Live(L) : \/ nxt'[x] = nxt[x]
                              \/ nxt[x] \in Roots' \cup {INVALID_BUCKET_ID},
         \A x \in Roots : x \in Roots' \/ \E y \in Roots' : nxt'[y] = x
  PROVE  Reached(L)'
<1>1. Roots \subseteq Live(L) /\ INVALID_BUCKET_ID \notin Roots
  BY DEF Inv, Typed, Roots
<1> SUFFICES ASSUME NEW T \in SUBSET Live(L), Roots' \subseteq T,
                    \A x \in T : nxt'[x] \in T \cup {INVALID_BUCKET_ID}
             PROVE  T = Live(L)
  BY DEF Reached
<1>2. Roots \subseteq T
  BY <1>1
<1>3. \A x \in T : nxt[x] \in T \cup {INVALID_BUCKET_ID}
  OBVIOUS
<1> QED
  BY <1>2, <1>3 DEF Inv, Reached

(* And when a bucket is taken that becomes a root or is linked to.          *)
LEMMA LinkedAnew ==
  ASSUME NEW L, Inv(L), NEW n, n # INVALID_BUCKET_ID, Live(L)' = Live(L) \cup {n},
         n \in Live(L) => nxt[n] \in Roots' \cup {INVALID_BUCKET_ID},
         Roots \ {n} \subseteq Roots',
         \A x \in Live(L) \ {n} : nxt'[x] = nxt[x] \/ nxt[x] = INVALID_BUCKET_ID,
         n \in Roots' \/ \E c \in Live(L) \ {n} : nxt'[c] = n
  PROVE  Reached(L)'
<1>1. /\ Roots \subseteq Live(L)
      /\ \A x \in Live(L) : nxt[x] \in Live(L) \cup {INVALID_BUCKET_ID}
  BY DEF Inv, Typed, Roots, OneReference
<1> SUFFICES ASSUME NEW S \in SUBSET Live(L)', Roots' \subseteq S,
                    \A x \in S : nxt'[x] \in S \cup {INVALID_BUCKET_ID}
             PROVE  S = Live(L)'
  BY DEF Reached
<1>2. PICK T : T = (S \cup {n}) \cap Live(L)
  OBVIOUS
<1>3. T \in SUBSET Live(L) /\ Roots \subseteq T
  BY <1>1, <1>2
<1>4. \A x \in T : nxt[x] \in T \cup {INVALID_BUCKET_ID}
  BY <1>1, <1>2
<1>5. T = Live(L)
  BY <1>3, <1>4 DEF Inv, Reached
<1>6. n \in S
  BY <1>2, <1>5
<1> QED
  BY <1>2, <1>5, <1>6

(****************************************************************************)
(* Steps that leave the graph and its roots as they are: the call in        *)
(* progress may move on to buckets that are not on the free list.           *)
(****************************************************************************)
LEMMA SameGraph ==
  ASSUME NEW L, Inv(L), Typed(L)', NewChain(L)',
         UNCHANGED <<buckets_count, first_free_bucket_id, heads>>,
         \A x \in Ids : nxt'[x] = nxt[x],
         splitting' => splitting /\ sp'.result = sp.result,
         pc' = "free" => pc = "free" /\ cursor' = cursor,
         Roots \subseteq Roots',
         \A F \in SUBSET Ids : Separates(F, L) => CallAvoids(F)'
  PROVE  Inv(L)'
<1> USE IdsValid
<1>1. Live(L)' = Live(L) /\ Live(L) \subseteq Ids
  BY DEF Live, Allocated, Inv, Typed
<1>2. OneReference(L)'
  BY <1>1 DEF Inv, OneReference
<1>3. RootsDiffer'
  BY DEF Inv, RootsDiffer, splitting
<1>4. ASSUME NEW F \in SUBSET Ids, Separates(F, L) PROVE Separates(F, L)'
  <2>1. CallAvoids(F)'
    BY <1>4
  <2>2. HoldsFreeList(F, L)'
    BY <1>1, <1>4 DEF Separates, HoldsFreeList
  <2> QED
    BY <2>1, <2>2 DEF Separates
<1>5. Reached(L)'
  BY <1>1, LinksMoved
<1> QED
  BY <1>2, <1>3, <1>4, <1>5 DEF Inv

(* What create_bucket does to the header.                                   *)
header_taken ==
    /\ new_bucket_id \in Ids
    /\ IF first_free_bucket_id = INVALID_BUCKET_ID
         THEN buckets_count' = buckets_count + 1 /\ UNCHANGED first_free_bucket_id
         ELSE /\ first_free_bucket_id' = buckets[first_free_bucket_id].next_bucket_id
              /\ UNCHANGED buckets_count

(****************************************************************************)
(* create_bucket takes a bucket n nobody refers to, on the free list or     *)
(* behind the last one.  What remains of the free list is in F without n.   *)
(****************************************************************************)
LEMMA TakenBucket ==
  ASSUME NEW L, Inv(L), header_taken, NEW F \in SUBSET Ids, Separates(F, L),
         NEW n, n = new_bucket_id
  PROVE  /\ n \in Ids /\ n # INVALID_BUCKET_ID
         /\ n \notin Live(L) \ F
         /\ buckets_count' \in 0 .. MaxBuckets
         /\ Live(L)' = Live(L) \cup {n} /\ L \subseteq Allocated'
         /\ first_free_bucket_id' \in (F \ {n}) \cup {INVALID_BUCKET_ID}
         /\ \A b \in Live(L) : nxt[b] # n
         /\ \A b \in Live(L) \ {n} :
              nxt[b] # INVALID_BUCKET_ID => nxt[b] # first_free_bucket_id'
         /\ n \in Live(L) => nxt[n] = first_free_bucket_id'
<1> USE IdsValid
<1>1. Live(L) \subseteq Ids /\ F \subseteq Live(L)
  BY DEF Live, Allocated, Inv, Typed, Separates, HoldsFreeList
<1>2. n \in Ids /\ n # INVALID_BUCKET_ID
  BY DEF header_taken
<1>3. CASE first_free_bucket_id = INVALID_BUCKET_ID
  <2>1. n = buckets_count /\ buckets_count' = buckets_count + 1
        /\ first_free_bucket_id' = INVALID_BUCKET_ID
    BY <1>3 DEF new_bucket_id, header_taken
  <2>2. /\ buckets_count \in Nat /\ n \notin Live(L)
        /\ Live(L)' = Live(L) \cup {n} /\ L \subseteq Allocated'
    BY <2>1 DEF Inv, Typed, Live, Allocated
  <2>3. buckets_count' \in 0 .. MaxBuckets
    BY <1>2, <2>1, SizesAssumption DEF Inv, Typed, Ids
  <2>4. \A b \in Live(L) : nxt[b] # n
    BY <1>2, <2>2 DEF Inv, OneReference
  <2> QED
    BY <1>2, <2>1, <2>2, <2>3, <2>4
<1>4. CASE first_free_bucket_id # INVALID_BUCKET_ID
  <2>1. n = first_free_bucket_id /\ buckets_count' = buckets_count
        /\ first_free_bucket_id' = nxt[n]
    BY <1>2, <1>4 DEF new_bucket_id, header_taken, nxt
  <2>2. n \in F /\ Live(L)' = Live(L) /\ L \subseteq Allocated'
    BY <1>2, <2>1 DEF Inv, Typed, Separates, HoldsFreeList, Live, Allocated
  <2>3. \A b \in Live(L) : nxt[b] # n
    BY <1>2, <2>1 DEF Inv, OneReference
  <2>4. nxt[n] \in (F \ {n}) \cup {INVALID_BUCKET_ID}
    BY <1>1, <2>2, <2>3 DEF Separates, HoldsFreeList
  <2>5. \A b \in Live(L) \ {n} : nxt[b] # INVALID_BUCKET_ID => nxt[b] # nxt[n]
    BY <1>1, <2>2 DEF Inv, OneReference
  <2> QED
    BY <1>1, <1>2, <2>1, <2>2, <2>3, <2>4, <2>5 DEF Inv, Typed
<1> QED
  BY <1>3, <1>4

LEMMA NewBucket ==
  ASSUME NEW L, Inv(L), create_bucket, NEW F \in SUBSET Ids, Separates(F, L),
         NEW n, n = new_bucket_id
  PROVE  /\ n \in Ids /\ n # INVALID_BUCKET_ID
         /\ n \notin Live(L) \ F
         /\ buckets_count' \in 0 .. MaxBuckets
         /\ Live(L)' = Live(L) \cup {n} /\ L \subseteq Allocated'
         /\ first_free_bucket_id' \in (F \ {n}) \cup {INVALID_BUCKET_ID}
         /\ \A b \in Live(L) : nxt[b] # n
         /\ \A b \in Live(L) \ {n} :
              nxt[b] # INVALID_BUCKET_ID => nxt[b] # first_free_bucket_id'
         /\ n \in Live(L) => nxt[n] = first_free_bucket_id'
<1>1. header_taken
  BY DEF create_bucket, header_taken
<1> QED
  BY <1>1, TakenBucket

(* The new bucket becomes a chain of its own.                               *)
LEMMA NewRoot ==
  ASSUME NEW L, Inv(L), create_bucket, Typed(L)', NewChain(L)',
         NEW F \in SUBSET Ids, Separates(F, L),
         NEW n, n = new_bucket_id,
         \A x \in Ids : nxt'[x] = IF x = n THEN INVALID_BUCKET_ID ELSE nxt[x],
         heads' \in SUBSET (heads \cup {n}),
         splitting' => sp'.result = n /\ n \notin heads',
         pc' # "free", Roots \ {n} \subseteq Roots', n \in Roots',
         CallAvoids(F \ {n})'
  PROVE  Inv(L)'
<1> USE IdsValid
<1>1. /\ Live(L) \subseteq Ids /\ F \subseteq Live(L) /\ heads \subseteq Live(L) \ F
      /\ \A b \in F : nxt[b] \in F \cup {INVALID_BUCKET_ID}
      /\ \A b \in Live(L) \ F : nxt[b] \notin F
  BY DEF Live, Allocated, Inv, Typed, Separates, HoldsFreeList
<1>2. /\ n \in Ids /\ n # INVALID_BUCKET_ID
      /\ n \notin Live(L) \ F
      /\ Live(L)' = Live(L) \cup {n}
      /\ first_free_bucket_id' \in (F \ {n}) \cup {INVALID_BUCKET_ID}
      /\ \A b \in Live(L) : nxt[b] # n
      /\ \A b \in Live(L) \ {n} :
           nxt[b] # INVALID_BUCKET_ID => nxt[b] # first_free_bucket_id'
  BY NewBucket
<1>3. OneReference(L)'
  BY <1>1, <1>2 DEF Inv, OneReference
<1>4. RootsDiffer'
  BY <1>1, <1>2 DEF RootsDiffer
<1>5. HoldsFreeList(F \ {n}, L)'
  BY <1>1, <1>2 DEF HoldsFreeList
<1>6. Reached(L)'
  <2>1. n \in Live(L) => nxt[n] = first_free_bucket_id'
    BY NewBucket
  <2>2. first_free_bucket_id' \in Roots' \cup {INVALID_BUCKET_ID}
    BY DEF Roots
  <2> QED
    BY <1>1, <1>2, <2>1, <2>2, LinkedAnew
<1> QED
  BY <1>3, <1>4, <1>5, <1>6 DEF Inv, Separates

(* The new bucket is linked behind c, the last bucket of a chain.           *)
LEMMA NewLink ==
  ASSUME NEW L, Inv(L), create_bucket, Typed(L)', NewChain(L)',
         NEW F \in SUBSET Ids, Separates(F, L),
         NEW n, n = new_bucket_id,
         NEW c \in Live(L) \ F, nxt[c] = INVALID_BUCKET_ID,
         \A x \in Ids : nxt'[x] = IF x = n THEN INVALID_BUCKET_ID
                                  ELSE IF x = c THEN n ELSE nxt[x],
         heads' = heads, splitting' => splitting /\ sp'.result = sp.result,
         pc' # "free", Roots \ {n} \subseteq Roots',
         CallAvoids(F \ {n})'
  PROVE  Inv(L)'
<1> USE IdsValid
<1>1. /\ Live(L) \subseteq Ids /\ F \subseteq Live(L) /\ heads \subseteq Live(L) \ F
      /\ \A b \in F : nxt[b] \in F \cup {INVALID_BUCKET_ID}
      /\ \A b \in Live(L) \ F : nxt[b] \notin F
      /\ splitting => sp.result \in Live(L) \ F
  BY DEF Live, Allocated, Inv, Typed, Separates, HoldsFreeList, CallAvoids
<1>2. /\ n \in Ids /\ n # INVALID_BUCKET_ID
      /\ n \notin Live(L) \ F
      /\ Live(L)' = Live(L) \cup {n}
      /\ first_free_bucket_id' \in (F \ {n}) \cup {INVALID_BUCKET_ID}
      /\ \A b \in Live(L) : nxt[b] # n
      /\ \A b \in Live(L) \ {n} :
           nxt[b] # INVALID_BUCKET_ID => nxt[b] # first_free_bucket_id'
  BY NewBucket
<1>3. OneReference(L)'
  BY <1>1, <1>2 DEF Inv, OneReference
<1>4. RootsDiffer'
  BY <1>1, <1>2 DEF Inv, RootsDiffer
<1>5. HoldsFreeList(F \ {n}, L)'
  BY <1>1, <1>2 DEF HoldsFreeList
<1>6. Reached(L)'
  <2>1. n \in Live(L) => nxt[n] = first_free_bucket_id'
    BY NewBucket
  <2>2. first_free_bucket_id' \in Roots' \cup {INVALID_BUCKET_ID}
    BY DEF Roots
  <2> QED
    BY <1>1, <1>2, <2>1, <2>2, LinkedAnew
<1> QED
  BY <1>3, <1>4, <1>5, <1>6 DEF Inv, Separates

-----------------------------------------------------------------------------
(* The calls, the returns and the chain walks.                              *)
LEMMA CallStep ==
  ASSUME NEW L, Inv(L), NEW name \in {"find", "remove", "create"}, NEW b \in heads,
         NEW k \in Keys, NEW v, name = "create" => v \in Values,
         Call(name, b, k, v), UNCHANGED <<layout_vars, heads, sp>>
  PROVE  Inv(L)'
<1>1. /\ UNCHANGED <<buckets_count, first_free_bucket_id, buckets, heads, sp>>
      /\ pc = "idle" /\ pc' = name /\ cursor' = b
      /\ pc' = "create" => arg'.key \in Keys /\ arg'.value \in Values
  BY DEF Call, layout_vars
<1>2. \A x \in Ids : nxt'[x] = nxt[x]
  BY <1>1 DEF nxt
<1>3. Typed(L)'
  BY <1>1 DEF Inv, Typed, splitting, Live, Allocated
<1>4. ~splitting' /\ pc' # "free"
  BY <1>1 DEF splitting
<1>5. \A F \in SUBSET Ids : Separates(F, L) => CallAvoids(F)'
  BY <1>1, <1>4 DEF Separates, HoldsFreeList, CallAvoids
<1>6. NewChain(L)'
  BY <1>1 DEF NewChain
<1>7. Roots \subseteq Roots'
  BY <1>1 DEF Roots, splitting
<1> QED
  BY <1>1, <1>2, <1>3, <1>4, <1>5, <1>6, <1>7, SameGraph

(* A call that returns without a change of the links.                       *)
LEMMA ReturnStep ==
  ASSUME NEW L, Inv(L), UNCHANGED <<buckets_count, first_free_bucket_id, heads, sp>>,
         pc \in {"find", "remove", "create"}, pc' = "idle",
         buckets' \in [Ids -> AnyBucket],
         \A x \in Ids : buckets'[x].next_bucket_id = buckets[x].next_bucket_id
  PROVE  Inv(L)'
<1>1. \A x \in Ids : nxt'[x] = nxt[x]
  BY DEF nxt
<1>2. Typed(L)'
  BY DEF Inv, Typed, splitting, Live, Allocated
<1>3. ~splitting' /\ pc' # "free"
  BY DEF splitting
<1>4. \A F \in SUBSET Ids : Separates(F, L) => CallAvoids(F)'
  BY <1>3 DEF CallAvoids
<1>5. NewChain(L)'
  BY DEF NewChain
<1>6. Roots \subseteq Roots'
  BY DEF Roots, splitting
<1> QED
  BY <1>1, <1>2, <1>3, <1>4, <1>5, <1>6, SameGraph

(* A chain walk goes on to the next bucket.                                 *)
LEMMA WalkStep ==
  ASSUME NEW L, Inv(L), pc \in {"find", "remove", "create"}, WalkOn
  PROVE  Inv(L)'
<1>1. /\ UNCHANGED <<buckets_count, first_free_bucket_id, buckets, heads, sp, pc, arg>>
      /\ cursor \in Live(L) /\ Live(L) \subseteq Ids
      /\ cursor' = nxt[cursor] /\ nxt[cursor] # INVALID_BUCKET_ID
  BY IdsValid DEF WalkOn, layout_vars, Inv, Typed, Live, Allocated, nxt
<1>2. \A x \in Ids : nxt'[x] = nxt[x]
  BY <1>1 DEF nxt
<1>3. cursor' \in Live(L)
  BY <1>1 DEF Inv, OneReference
<1>4. Typed(L)'
  BY <1>1, <1>3 DEF Inv, Typed, splitting, Live, Allocated
<1>5. ~splitting' /\ pc' # "free" /\ pc' # "split"
  BY <1>1 DEF splitting
<1>6. \A F \in SUBSET Ids : Separates(F, L) => CallAvoids(F)'
  BY <1>1, <1>5 DEF Separates, HoldsFreeList, CallAvoids
<1>7. NewChain(L)'
  BY <1>5 DEF NewChain
<1>8. Roots \subseteq Roots'
  BY <1>1 DEF Roots, splitting
<1> QED
  BY <1>1, <1>2, <1>4, <1>5, <1>6, <1>7, <1>8, SameGraph

(* remove_record removes a record.                                          *)
LEMMA RemoveHitStep ==
  ASSUME NEW L, Inv(L), RemoveHit
  PROVE  Inv(L)'
<1>1. cursor \in Ids /\ buckets \in [Ids -> AnyBucket]
  BY IdsValid DEF RemoveHit, Inv, Typed, Live, Allocated
<1>2. PICK r \in first_match(cursor, arg.key) :
        buckets' = [buckets EXCEPT ![cursor] = without_record(buckets[cursor], r)]
  BY DEF RemoveHit
<1>3. r \in AnyRecord /\ buckets[cursor] \in AnyBucket
  BY <1>1 DEF first_match, matches, AnyBucket
<1>4. UNCHANGED <<buckets_count, first_free_bucket_id, heads, sp>>
      /\ pc = "remove" /\ pc' = "idle"
  BY DEF RemoveHit, Return
<1>5. /\ buckets' \in [Ids -> AnyBucket]
      /\ \A x \in Ids : buckets'[x].next_bucket_id = buckets[x].next_bucket_id
  BY <1>1, <1>2, <1>3, WithoutRecord
<1> QED
  BY <1>4, <1>5, ReturnStep

(* create_record writes its record.                                         *)
LEMMA CreateWriteStep ==
  ASSUME NEW L, Inv(L), CreateWrite
  PROVE  Inv(L)'
<1> DEFINE put == buckets[cursor].bytes_used
           r == [offset |-> put, key |-> arg.key, value |-> arg.value]
<1>1. cursor \in Ids /\ buckets \in [Ids -> AnyBucket]
      /\ arg.key \in Keys /\ arg.value \in Values
  BY IdsValid DEF CreateWrite, Inv, Typed, Live, Allocated
<1>2. buckets[cursor] \in AnyBucket /\ put \in Int
  BY <1>1 DEF AnyBucket
<1>3. r \in AnyRecord
  BY <1>1, <1>2 DEF AnyRecord
<1>4. /\ buckets' = [buckets EXCEPT ![cursor] = with_record(buckets[cursor], put, r)]
      /\ UNCHANGED <<buckets_count, first_free_bucket_id, heads, sp>>
      /\ pc = "create" /\ pc' = "idle"
  BY DEF CreateWrite, Return
<1> HIDE DEF put, r
<1>5. /\ buckets' \in [Ids -> AnyBucket]
      /\ \A x \in Ids : buckets'[x].next_bucket_id = buckets[x].next_bucket_id
  BY <1>1, <1>2, <1>3, <1>4, WithRecord
<1> QED
  BY <1>4, <1>5, ReturnStep

-----------------------------------------------------------------------------
(* Steps that take a new bucket.                                            *)
LEMMA CreateBucketStep ==
  ASSUME NEW L, Inv(L), CreateBucket(1)
  PROVE  Inv(L)'
<1>1. PICK F \in SUBSET Ids : Separates(F, L)
  BY DEF Inv
<1>0. PICK n : n = new_bucket_id
  OBVIOUS
<1>2. /\ create_bucket /\ pc = "idle" /\ pc' = "idle" /\ sp' = sp
      /\ heads' = heads \cup {n}
      /\ buckets' = [buckets EXCEPT ![n] = fresh_bucket(1)]
  BY <1>0 DEF CreateBucket
<1>3. buckets \in [Ids -> AnyBucket] /\ heads \subseteq Live(L)
  BY DEF Inv, Typed
<1>4. /\ n \in Ids /\ buckets_count' \in 0 .. MaxBuckets
      /\ Live(L)' = Live(L) \cup {n} /\ L \subseteq Allocated'
      /\ F \subseteq Live(L)
      /\ first_free_bucket_id' \in (F \ {n}) \cup {INVALID_BUCKET_ID}
  BY <1>1, <1>2, <1>0, NewBucket DEF Separates, HoldsFreeList
<1>5. buckets' \in [Ids -> AnyBucket]
  BY <1>2, <1>3, <1>4, FreshBucket
<1>6. \A x \in Ids : nxt'[x] = IF x = n THEN INVALID_BUCKET_ID ELSE nxt[x]
  BY <1>2, <1>3, <1>4, FreshBucket DEF nxt
<1>7. Typed(L)'
  BY <1>2, <1>3, <1>4, <1>5 DEF Inv, Typed, splitting
<1>8. ~splitting' /\ CallAvoids(F \ {n})'
  BY <1>2 DEF splitting, CallAvoids
<1>9. NewChain(L)'
  BY <1>2 DEF NewChain
<1>10. Roots \ {n} \subseteq Roots' /\ n \in Roots'
  BY <1>0, <1>2, <1>4, IdsValid DEF Roots, splitting, new_bucket_id, create_bucket
<1> QED
  BY <1>0, <1>1, <1>2, <1>6, <1>7, <1>8, <1>9, <1>10, NewRoot

(* append_bucket links the new bucket behind b and changes no other edge.   *)
LEMMA AppendBucket ==
  ASSUME buckets \in [Ids -> AnyBucket], NEW b \in Ids, NEW depth \in Int,
         new_bucket_id \in Ids, new_bucket_id # b
  PROVE  /\ append_bucket(b, depth) \in [Ids -> AnyBucket]
         /\ \A x \in Ids : append_bucket(b, depth)[x].next_bucket_id =
              IF x = new_bucket_id THEN INVALID_BUCKET_ID
              ELSE IF x = b THEN new_bucket_id ELSE buckets[x].next_bucket_id
<1> DEFINE n == new_bucket_id
           old == [buckets EXCEPT ![n] = fresh_bucket(depth)]
           m == [buckets[b] EXCEPT !.next_bucket_id = n]
<1>1. append_bucket(b, depth) = [old EXCEPT ![b] = m]
  BY DEF append_bucket
<1>2. m \in AnyBucket /\ m.next_bucket_id = n
  BY DEF AnyBucket, Links
<1>3. old \in [Ids -> AnyBucket]
  BY FreshBucket
<1>4. \A x \in Ids : old[x].next_bucket_id =
        IF x = n THEN INVALID_BUCKET_ID ELSE buckets[x].next_bucket_id
  BY FreshBucket
<1> HIDE DEF old, m
<1> QED
  BY <1>1, <1>2, <1>3, <1>4

(* create_record appends a bucket to the chain.                             *)
LEMMA CreateGrowStep ==
  ASSUME NEW L, Inv(L), CreateGrow
  PROVE  Inv(L)'
<1>1. PICK F \in SUBSET Ids : Separates(F, L)
  BY DEF Inv
<1>0. PICK n : n = new_bucket_id
  OBVIOUS
<1> DEFINE depth == buckets[cursor].prefix_bits
<1>2. /\ create_bucket /\ pc = "create" /\ cursor' = n
      /\ UNCHANGED <<heads, pc, arg, sp>>
      /\ buckets[cursor].next_bucket_id = INVALID_BUCKET_ID
      /\ buckets' = append_bucket(cursor, depth)
  BY <1>0 DEF CreateGrow
<1>3. /\ buckets \in [Ids -> AnyBucket] /\ heads \subseteq Live(L)
      /\ cursor \in Live(L) \ F /\ cursor \in Ids
  BY <1>1, <1>2, IdsValid DEF Inv, Typed, Separates, CallAvoids, Live, Allocated
<1>4. /\ n \in Ids /\ n \notin Live(L) \ F /\ buckets_count' \in 0 .. MaxBuckets
      /\ Live(L)' = Live(L) \cup {n} /\ L \subseteq Allocated'
      /\ F \subseteq Live(L)
      /\ first_free_bucket_id' \in (F \ {n}) \cup {INVALID_BUCKET_ID}
  BY <1>1, <1>2, <1>0, NewBucket DEF Separates, HoldsFreeList
<1>5. depth \in Int
  BY <1>3 DEF AnyBucket
<1> HIDE DEF depth
<1>6. /\ buckets' \in [Ids -> AnyBucket]
      /\ \A x \in Ids : buckets'[x].next_bucket_id =
            IF x = n THEN INVALID_BUCKET_ID
            ELSE IF x = cursor THEN n ELSE buckets[x].next_bucket_id
  BY <1>2, <1>3, <1>4, <1>5, <1>0, AppendBucket
<1>7. /\ \A x \in Ids : nxt'[x] = IF x = n THEN INVALID_BUCKET_ID
                                 ELSE IF x = cursor THEN n ELSE nxt[x]
      /\ nxt[cursor] = INVALID_BUCKET_ID
  BY <1>2, <1>3, <1>6 DEF nxt
<1>8. Typed(L)'
  BY <1>2, <1>3, <1>4, <1>6 DEF Inv, Typed, splitting
<1>9. ~splitting' /\ pc' # "free" /\ CallAvoids(F \ {n})'
  BY <1>2 DEF splitting, CallAvoids
<1>10. NewChain(L)'
  BY <1>2 DEF NewChain
<1>11. Roots \ {n} \subseteq Roots'
  BY <1>0, <1>2 DEF Roots, splitting, new_bucket_id, create_bucket
<1> QED
  BY <1>0, <1>1, <1>2, <1>3, <1>7, <1>8, <1>9, <1>10, <1>11, NewLink

-----------------------------------------------------------------------------
(* The steps of split.                                                      *)
LEMMA SplitCallStep ==
  ASSUME NEW L, Inv(L), NEW b \in heads, SplitCall(b)
  PROVE  Inv(L)'
<1>0. PICK n : n = new_bucket_id
  OBVIOUS
<1>1. PICK F \in SUBSET Ids : Separates(F, L)
  BY DEF Inv
<1> DEFINE depth == buckets[b].prefix_bits + 1
           deeper == [buckets[b] EXCEPT !.prefix_bits = depth]
           bs == [[buckets EXCEPT ![b] = deeper] EXCEPT ![n] = fresh_bucket(depth)]
<1>2. /\ create_bucket /\ pc' = "split" /\ heads' = heads
      /\ buckets' = begin_reading(bs, b)
      /\ sp' = [prefix_bits |-> depth, bit0 |-> b, bit0_put |-> 0,
                bit1 |-> n, bit1_put |-> 0, result |-> n, get |-> b,
                get_ptr |-> 0, get_last |-> buckets[b].bytes_used]
  BY <1>0 DEF SplitCall, Call
<1>3. /\ buckets \in [Ids -> AnyBucket] /\ heads \subseteq Live(L)
      /\ b \in Live(L) \ F /\ b \in Ids
  BY <1>1, IdsValid DEF Inv, Typed, Separates, HoldsFreeList, Live, Allocated
<1>4. /\ n \in Ids /\ n # INVALID_BUCKET_ID /\ n \notin Live(L) \ F
      /\ buckets_count' \in 0 .. MaxBuckets
      /\ Live(L)' = Live(L) \cup {n} /\ L \subseteq Allocated'
      /\ F \subseteq Live(L)
      /\ first_free_bucket_id' \in (F \ {n}) \cup {INVALID_BUCKET_ID}
  BY <1>0, <1>1, <1>2, NewBucket DEF Separates, HoldsFreeList
<1>5. /\ depth \in Int /\ buckets[b].bytes_used \in Int
      /\ deeper \in AnyBucket /\ deeper.next_bucket_id = buckets[b].next_bucket_id
  BY <1>3 DEF AnyBucket
<1>6. sp' \in AnySplit /\ sp'.bit0 = b /\ sp'.bit1 = n /\ sp'.result = n
  BY <1>2, <1>3, <1>4, <1>5 DEF AnySplit, Links
<1> HIDE DEF depth, deeper
<1>7. /\ bs \in [Ids -> AnyBucket]
      /\ \A x \in Ids : bs[x].next_bucket_id =
           IF x = n THEN INVALID_BUCKET_ID ELSE buckets[x].next_bucket_id
  BY <1>3, <1>4, <1>5, FreshBucket
<1> HIDE DEF bs
<1>8. /\ buckets' \in [Ids -> AnyBucket]
      /\ \A x \in Ids : buckets'[x].next_bucket_id =
           IF x = n THEN INVALID_BUCKET_ID ELSE buckets[x].next_bucket_id
  BY <1>2, <1>3, <1>7, BeginReading
<1>9. \A x \in Ids : nxt'[x] = IF x = n THEN INVALID_BUCKET_ID ELSE nxt[x]
  BY <1>8 DEF nxt
<1>10. splitting' /\ pc' # "free"
  BY <1>2 DEF splitting
<1>11. Typed(L)'
  BY <1>2, <1>3, <1>4, <1>6, <1>8, <1>10 DEF Inv, Typed
<1>12. CallAvoids(F \ {n})'
  BY <1>2, <1>3, <1>6 DEF CallAvoids
<1>13. n \notin heads'
  BY <1>1, <1>2, <1>3, <1>4 DEF Separates, HoldsFreeList
<1>14. SplitsTo({n}, L)'
  <2>1. \A x \in Live(L) : nxt[x] # n
    BY <1>0, <1>1, <1>2, NewBucket
  <2>2. Live(L) \subseteq Ids /\ heads' \cap {n} = {} /\ first_free_bucket_id' # n
        /\ b # n /\ nxt'[n] = INVALID_BUCKET_ID
    BY <1>3, <1>4, <1>9, <1>13, IdsValid DEF Inv, Typed, Live, Allocated
  <2>3. \A x \in Live(L)' \ {n} : nxt'[x] # n
    BY <1>4, <1>9, <2>1, <2>2
  <2> QED
    BY <1>4, <1>6, <2>2, <2>3 DEF SplitsTo
<1>15. NewChain(L)'
  BY <1>4, <1>14 DEF NewChain
<1>16. Roots \ {n} \subseteq Roots' /\ n \in Roots'
  <2>1. pc = "idle"
    BY DEF SplitCall, Call
  <2> QED
    BY <1>0, <1>2, <1>4, <1>6, <1>10, <2>1 DEF Roots, splitting, new_bucket_id, create_bucket
<1> QED
  BY <1>0, <1>1, <1>2, <1>6, <1>9, <1>10, <1>11, <1>12, <1>13, <1>15, <1>16, NewRoot

(* What a step of the main loop may do that takes no new bucket.            *)
LEMMA SplitLoopStep ==
  ASSUME NEW L, Inv(L), pc = "split",
         UNCHANGED <<buckets_count, first_free_bucket_id, heads, pc>>,
         buckets' \in [Ids -> AnyBucket],
         \A x \in Ids : buckets'[x].next_bucket_id = buckets[x].next_bucket_id,
         sp' \in AnySplit, sp'.result = sp.result, sp'.bit1 = sp.bit1,
         sp'.bit0 = sp.bit0 \/
           (sp'.bit0 = nxt[sp.bit0] /\ nxt[sp.bit0] # INVALID_BUCKET_ID)
  PROVE  Inv(L)'
<1>1. \A x \in Ids : nxt'[x] = nxt[x]
  BY DEF nxt
<1>2. splitting /\ splitting' /\ pc' # "free"
  BY DEF splitting
<1>3. Live(L)' = Live(L) /\ Allocated' = Allocated /\ sp.bit0 \in Live(L)
  BY DEF Live, Allocated, Inv, Typed
<1>4. sp'.bit0 \in Live(L)
  BY <1>3 DEF Inv, OneReference
<1>5. Typed(L)'
  BY <1>2, <1>3, <1>4 DEF Inv, Typed
<1>6. \A F \in SUBSET Ids : Separates(F, L) => CallAvoids(F)'
  BY <1>2, <1>3 DEF Separates, HoldsFreeList, CallAvoids
<1>7. NewChain(L)'
  <2>1. PICK G \in SUBSET Ids : SplitsTo(G, L)
    BY DEF Inv, NewChain
  <2>2. SplitsTo(G, L)'
    BY <1>1, <1>3, <2>1, IdsValid DEF SplitsTo, Inv, Typed, Live, Allocated
  <2> QED
    BY <2>2 DEF NewChain
<1>8. Roots \subseteq Roots'
  BY <1>2 DEF Roots
<1> QED
  BY <1>1, <1>2, <1>5, <1>6, <1>7, <1>8, SameGraph

(* A record at get_ptr is a record.                                         *)
LEMMA ReadRecord ==
  ASSUME NEW L, Inv(L), NEW r \in at_get_ptr
  PROVE  /\ r \in AnyRecord /\ len(r) \in Int
         /\ buckets \in [Ids -> AnyBucket]
         /\ sp \in AnySplit /\ sp.bit0 \in Ids /\ sp.bit1 \in Ids /\ sp.get \in Ids
         /\ sp.bit0_put \in Int /\ sp.bit1_put \in Int /\ sp.get_ptr \in Int
         /\ sp.prefix_bits \in Int
<1>1. sp \in AnySplit /\ buckets \in [Ids -> AnyBucket]
  BY DEF Inv, Typed
<1>2. /\ sp.bit0 \in Ids /\ sp.bit1 \in Ids /\ sp.get \in Ids
      /\ sp.bit0_put \in Int /\ sp.bit1_put \in Int /\ sp.get_ptr \in Int
      /\ sp.prefix_bits \in Int
  BY <1>1 DEF AnySplit
<1>3. r \in AnyRecord
  BY <1>1, <1>2 DEF at_get_ptr, AnyBucket
<1> QED
  BY <1>1, <1>2, <1>3, LengthInt

(* split copies a record behind the last one of a chain's bucket.           *)
LEMMA SplitAppendStep ==
  ASSUME NEW L, Inv(L), SplitBit1Append \/ SplitBit0Append
  PROVE  Inv(L)'
<1>1. /\ pc = "split" /\ UNCHANGED <<buckets_count, first_free_bucket_id, heads, pc>>
  BY DEF SplitBit1Append, SplitBit0Append
<1>2. CASE SplitBit1Append
  <2>1. PICK r \in at_get_ptr :
          /\ buckets' = move_record(buckets, r, sp.bit1, sp.bit1_put)
          /\ sp' = [sp EXCEPT !.bit1_put = sp.bit1_put + len(r),
                              !.get_ptr = sp.get_ptr + len(r)]
    BY <1>2 DEF SplitBit1Append
  <2>2. /\ sp' \in AnySplit /\ sp'.result = sp.result
        /\ sp'.bit0 = sp.bit0 /\ sp'.bit1 = sp.bit1
    <3> DEFINE put == sp.bit1_put + len(r)
               get_ptr == sp.get_ptr + len(r)
    <3>1. sp \in AnySplit /\ put \in Int /\ get_ptr \in Int
      BY ReadRecord
    <3>2. sp' = [sp EXCEPT !.bit1_put = put, !.get_ptr = get_ptr]
      BY <2>1
    <3> HIDE DEF put, get_ptr
    <3> QED
      BY <3>1, <3>2 DEF AnySplit
  <2>3. /\ buckets' \in [Ids -> AnyBucket]
        /\ \A x \in Ids : buckets'[x].next_bucket_id = buckets[x].next_bucket_id
    BY <2>1, ReadRecord, MoveRecord
  <2> QED
    BY <1>1, <2>2, <2>3, SplitLoopStep
<1>3. CASE SplitBit0Append
  <2>1. PICK r \in at_get_ptr :
          /\ buckets' = move_record(buckets, r, sp.bit0, sp.bit0_put)
          /\ sp' = [sp EXCEPT !.bit0_put = sp.bit0_put + len(r),
                              !.get_ptr = sp.get_ptr + len(r)]
    BY <1>3 DEF SplitBit0Append
  <2>2. /\ sp' \in AnySplit /\ sp'.result = sp.result
        /\ sp'.bit0 = sp.bit0 /\ sp'.bit1 = sp.bit1
    <3> DEFINE put == sp.bit0_put + len(r)
               get_ptr == sp.get_ptr + len(r)
    <3>1. sp \in AnySplit /\ put \in Int /\ get_ptr \in Int
      BY ReadRecord
    <3>2. sp' = [sp EXCEPT !.bit0_put = put, !.get_ptr = get_ptr]
      BY <2>1
    <3> HIDE DEF put, get_ptr
    <3> QED
      BY <3>1, <3>2 DEF AnySplit
  <2>3. /\ buckets' \in [Ids -> AnyBucket]
        /\ \A x \in Ids : buckets'[x].next_bucket_id = buckets[x].next_bucket_id
    BY <2>1, ReadRecord, MoveRecord
  <2> QED
    BY <1>1, <2>2, <2>3, SplitLoopStep
<1> QED
  BY <1>2, <1>3

(****************************************************************************)
(* The two ways to extend a chain in the main loop: the new bucket goes     *)
(* behind c, which is bit0 or bit1, and takes its place.                    *)
(****************************************************************************)
LEMMA SplitGrowStep ==
  ASSUME NEW L, Inv(L), pc = "split", create_bucket, UNCHANGED <<heads, pc>>,
         NEW n, n = new_bucket_id, NEW c \in {sp.bit0, sp.bit1},
         buckets[c].next_bucket_id = INVALID_BUCKET_ID,
         NEW r \in at_get_ptr,
         buckets' = move_record(append_bucket(c, sp.prefix_bits), r, n, 0),
         sp' \in AnySplit, sp'.result = sp.result,
         sp'.bit0 = (IF c = sp.bit0 THEN n ELSE sp.bit0),
         sp'.bit1 = (IF c = sp.bit1 THEN n ELSE sp.bit1)
  PROVE  Inv(L)'
<1>1. PICK F \in SUBSET Ids : Separates(F, L)
  BY DEF Inv
<1> DEFINE bs == append_bucket(c, sp.prefix_bits)
<1>2. /\ buckets \in [Ids -> AnyBucket] /\ heads \subseteq Live(L)
      /\ sp.bit0 \in Live(L) \ F /\ sp.bit1 \in Live(L) \ F
      /\ sp.result \in Live(L) \ F
      /\ c \in Live(L) \ F /\ c \in Ids
      /\ splitting /\ splitting' /\ pc' # "free"
  BY <1>1, IdsValid DEF Inv, Typed, Separates, CallAvoids, Live, Allocated, splitting
<1>3. /\ n \in Ids /\ n # INVALID_BUCKET_ID /\ n \notin Live(L) \ F
      /\ buckets_count' \in 0 .. MaxBuckets
      /\ Live(L)' = Live(L) \cup {n} /\ L \subseteq Allocated'
      /\ F \subseteq Live(L)
      /\ first_free_bucket_id' \in (F \ {n}) \cup {INVALID_BUCKET_ID}
  BY <1>1, NewBucket DEF Separates, HoldsFreeList
<1>4. /\ bs \in [Ids -> AnyBucket]
      /\ \A x \in Ids : bs[x].next_bucket_id =
           IF x = n THEN INVALID_BUCKET_ID
           ELSE IF x = c THEN n ELSE buckets[x].next_bucket_id
  BY <1>2, <1>3, ReadRecord, AppendBucket
<1> HIDE DEF bs
<1>5. /\ buckets' \in [Ids -> AnyBucket]
      /\ \A x \in Ids : buckets'[x].next_bucket_id = bs[x].next_bucket_id
  BY <1>3, <1>4, ReadRecord, MoveRecord DEF bs
<1>6. /\ \A x \in Ids : nxt'[x] = IF x = n THEN INVALID_BUCKET_ID
                                 ELSE IF x = c THEN n ELSE nxt[x]
      /\ nxt[c] = INVALID_BUCKET_ID
  BY <1>2, <1>4, <1>5 DEF nxt
<1>7. Typed(L)'
  BY <1>2, <1>3, <1>5 DEF Inv, Typed
<1>8. CallAvoids(F \ {n})'
  BY <1>2 DEF CallAvoids
<1>9. NewChain(L)'
  <2>1. PICK G \in SUBSET Ids : SplitsTo(G, L)
    BY DEF Inv, NewChain
  <2>2. /\ \A x \in Live(L) : nxt[x] # n
        /\ \A x \in Live(L) \ {n} :
             nxt[x] # INVALID_BUCKET_ID => nxt[x] # first_free_bucket_id'
    BY <1>1, NewBucket
  <2>3. n \notin G /\ first_free_bucket_id' \notin G
    BY <1>2, <1>3, <2>1 DEF SplitsTo, new_bucket_id, create_bucket, nxt, Live, Allocated
  <2>4. /\ Live(L) \subseteq Ids /\ heads' \cap G = {} /\ n \notin heads
        /\ sp.bit0 # sp.bit1 /\ sp.bit0 # n /\ sp.bit1 # n
    BY <1>1, <1>2, <1>3, <2>1, IdsValid
       DEF SplitsTo, Inv, Typed, Live, Allocated, Separates, HoldsFreeList
  <2>5. CASE c = sp.bit1
    <3>1. SplitsTo(G \cup {n}, L)'
      <4>1. \A x \in G \cup {n} : nxt'[x] \in (G \cup {n}) \cup {INVALID_BUCKET_ID}
        BY <1>3, <1>6, <2>1, <2>4, <2>5 DEF SplitsTo
      <4>2. \A x \in Live(L)' \ (G \cup {n}) : nxt'[x] \notin G \cup {n}
        BY <1>3, <1>6, <2>1, <2>2, <2>4, <2>5 DEF SplitsTo
      <4> QED
        BY <1>3, <1>6, <2>1, <2>3, <2>4, <2>5, <4>1, <4>2 DEF SplitsTo
    <3> QED
      BY <1>3, <3>1 DEF NewChain
  <2>6. CASE c # sp.bit1
    <3>1. c = sp.bit0
      BY <2>6
    <3>2. SplitsTo(G, L)'
      <4>1. \A x \in G : nxt'[x] \in G \cup {INVALID_BUCKET_ID}
        BY <1>6, <2>1, <2>3, <3>1 DEF SplitsTo
      <4>2. \A x \in Live(L)' \ G : nxt'[x] \notin G
        BY <1>3, <1>6, <2>1, <2>3, <2>4, <3>1, IdsValid DEF SplitsTo
      <4> QED
        BY <1>3, <1>6, <2>1, <2>3, <2>4, <2>6, <3>1, <4>1, <4>2 DEF SplitsTo
    <3> QED
      BY <3>2 DEF NewChain
  <2> QED
    BY <2>5, <2>6
<1>10. Roots \ {n} \subseteq Roots'
  BY <1>2 DEF Roots, new_bucket_id, create_bucket
<1> QED
  BY <1>1, <1>2, <1>6, <1>7, <1>8, <1>9, <1>10, NewLink

(* split appends a bucket to the bit1 chain.                                *)
LEMMA SplitBit1GrowStep ==
  ASSUME NEW L, Inv(L), SplitBit1Grow
  PROVE  Inv(L)'
<1>0. PICK n : n = new_bucket_id
  OBVIOUS
<1>1. PICK r \in at_get_ptr :
        /\ ~bytes_left_in(sp.bit1, r)
        /\ buckets' = move_record(append_bucket(sp.bit1, sp.prefix_bits), r, n, 0)
        /\ sp' = [sp EXCEPT !.bit1 = n, !.bit1_put = len(r),
                            !.bit0_put = buckets[sp.bit0].bytes_used,
                            !.get_ptr = sp.get_ptr + len(r)]
  BY <1>0 DEF SplitBit1Grow
<1>2. pc = "split" /\ create_bucket /\ UNCHANGED <<heads, pc>> /\ n \in Ids
  BY <1>0 DEF SplitBit1Grow, create_bucket
<1>3. sp' \in AnySplit /\ sp'.result = sp.result /\ sp'.bit0 = sp.bit0 /\ sp'.bit1 = n
  <2> DEFINE put == buckets[sp.bit0].bytes_used
             get_ptr == sp.get_ptr + len(r)
             here == [sp EXCEPT !.bit1 = n, !.bit1_put = len(r)]
  <2>1. /\ sp \in AnySplit /\ len(r) \in Int /\ get_ptr \in Int /\ put \in Int
    BY ReadRecord DEF AnyBucket
  <2>2. /\ here \in AnySplit /\ here.result = sp.result
        /\ here.bit0 = sp.bit0 /\ here.bit1 = n
    BY <1>2, <2>1 DEF AnySplit
  <2>3. sp' = [here EXCEPT !.bit0_put = put, !.get_ptr = get_ptr]
    BY <1>1
  <2> HIDE DEF here, put, get_ptr
  <2> QED
    BY <2>1, <2>2, <2>3 DEF AnySplit
<1>4. buckets[sp.bit1].next_bucket_id = INVALID_BUCKET_ID /\ sp.bit0 # sp.bit1
  BY <1>1, <1>2, ReadRecord DEF Inv, NewChain, SplitsTo, nxt
<1> QED
  BY <1>0, <1>1, <1>2, <1>3, <1>4, SplitGrowStep

(* split goes on to read the next bucket.                                   *)
LEMMA SplitNextBucketStep ==
  ASSUME NEW L, Inv(L), SplitNextBucket
  PROVE  Inv(L)'
<1>1. /\ pc = "split" /\ UNCHANGED <<buckets_count, first_free_bucket_id, heads, pc>>
      /\ sp \in AnySplit /\ buckets \in [Ids -> AnyBucket]
  BY DEF SplitNextBucket, Inv, Typed
<1> DEFINE next == buckets[sp.get].next_bucket_id
           last == buckets[next].bytes_used
<1>2. /\ next # INVALID_BUCKET_ID
      /\ sp' = [sp EXCEPT !.get = next, !.get_ptr = 0, !.get_last = last]
      /\ buckets' = begin_reading(buckets, next)
  BY DEF SplitNextBucket
<1>3. sp.get \in Ids
  BY <1>1 DEF AnySplit
<1>4. next \in Ids
  BY <1>1, <1>2, <1>3 DEF AnyBucket, Links
<1>5. last \in Int
  BY <1>1, <1>4 DEF AnyBucket
<1> HIDE DEF next, last
<1>6. /\ sp' \in AnySplit /\ sp'.result = sp.result
      /\ sp'.bit0 = sp.bit0 /\ sp'.bit1 = sp.bit1
  <2> DEFINE first == 0
             here == [sp EXCEPT !.get = next]
  <2>1. first \in Int
    OBVIOUS
  <2>2. /\ here \in AnySplit /\ here.result = sp.result
        /\ here.bit0 = sp.bit0 /\ here.bit1 = sp.bit1
    BY <1>1, <1>4 DEF AnySplit
  <2>3. sp' = [here EXCEPT !.get_ptr = first, !.get_last = last]
    BY <1>2
  <2> HIDE DEF here, first
  <2> QED
    BY <1>5, <2>1, <2>2, <2>3 DEF AnySplit
<1>7. /\ buckets' \in [Ids -> AnyBucket]
      /\ \A x \in Ids : buckets'[x].next_bucket_id = buckets[x].next_bucket_id
  BY <1>1, <1>2, <1>4, BeginReading
<1> QED
  BY <1>1, <1>6, <1>7, SplitLoopStep

(* split returns: the new chain is the caller's.                            *)
LEMMA HandOver ==
  ASSUME NEW L, Inv(L), pc = "free", cursor = INVALID_BUCKET_ID, pc' = "idle",
         heads' = heads \cup {sp.result}, sp' = NoSplit,
         UNCHANGED <<buckets_count, first_free_bucket_id, buckets>>
  PROVE  Inv(L)'
<1>1. /\ splitting /\ ~splitting' /\ Live(L)' = Live(L) /\ nxt' = nxt
      /\ Allocated' = Allocated
  BY DEF splitting, Live, Allocated, nxt
<1>2. NoSplit \in AnySplit
  BY IdsValid DEF NoSplit, AnySplit, Links
<1>3. Typed(L)'
  BY <1>1, <1>2 DEF Inv, Typed
<1>4. OneReference(L)'
  BY <1>1 DEF Inv, OneReference
<1>5. RootsDiffer'
  BY <1>1 DEF Inv, RootsDiffer
<1>6. ASSUME NEW F \in SUBSET Ids, Separates(F, L) PROVE Separates(F, L)'
  BY <1>1, <1>6 DEF Separates, HoldsFreeList, CallAvoids
<1>7. NewChain(L)'
  BY DEF NewChain
<1>8. Reached(L)'
  <2>1. Roots \subseteq Roots'
    BY DEF Roots, splitting
  <2> QED
    BY <1>1, <2>1, LinksMoved
<1> QED
  BY <1>3, <1>4, <1>5, <1>6, <1>7, <1>8 DEF Inv

LEMMA SplitReturnStep ==
  ASSUME NEW L, Inv(L), SplitReturn
  PROVE  Inv(L)'
  BY HandOver DEF SplitReturn, Return, layout_vars

(* The bit0 chain moves on to its next bucket, or is extended.              *)
LEMMA SplitBit0AdvanceStep ==
  ASSUME NEW L, Inv(L), SplitBit0Advance
  PROVE  Inv(L)'
<1> DEFINE linked == IF buckets[sp.bit0].next_bucket_id # INVALID_BUCKET_ID
                       THEN [buckets EXCEPT ![bit0_next].prefix_bits = sp.prefix_bits]
                       ELSE append_bucket(sp.bit0, sp.prefix_bits)
           put1 == IF buckets[sp.bit0].next_bucket_id # INVALID_BUCKET_ID
                     THEN sp.bit1_put ELSE buckets[sp.bit1].bytes_used
<1>1. PICK r \in at_get_ptr :
        /\ buckets' = move_record(linked, r, bit0_next, 0)
        /\ sp' = [sp EXCEPT !.bit0 = bit0_next, !.bit0_put = len(r),
                            !.bit1_put = put1, !.get_ptr = sp.get_ptr + len(r)]
  BY DEF SplitBit0Advance
<1>2. /\ pc = "split" /\ UNCHANGED <<heads, pc>>
      /\ IF buckets[sp.bit0].next_bucket_id # INVALID_BUCKET_ID
           THEN UNCHANGED <<buckets_count, first_free_bucket_id, length>>
           ELSE create_bucket
  BY DEF SplitBit0Advance
<1>3. bit0_next \in Ids
  <2>1. buckets[sp.bit0].next_bucket_id \in Links
    BY ReadRecord, <1>1 DEF AnyBucket
  <2> QED
    BY <1>2, <2>1 DEF bit0_next, create_bucket, Links
<1>4. /\ sp' \in AnySplit /\ sp'.result = sp.result
      /\ sp'.bit0 = bit0_next /\ sp'.bit1 = sp.bit1
  <2> DEFINE get_ptr == sp.get_ptr + len(r)
             here == [sp EXCEPT !.bit0 = bit0_next, !.bit0_put = len(r)]
  <2>1. sp \in AnySplit /\ len(r) \in Int /\ get_ptr \in Int
    BY ReadRecord
  <2>2. put1 \in Int
    BY ReadRecord DEF AnyBucket
  <2>3. /\ here \in AnySplit /\ here.result = sp.result
        /\ here.bit0 = bit0_next /\ here.bit1 = sp.bit1
    BY <1>3, <2>1 DEF AnySplit
  <2>4. sp' = [here EXCEPT !.bit1_put = put1, !.get_ptr = get_ptr]
    BY <1>1
  <2> HIDE DEF here, put1, get_ptr
  <2> QED
    BY <2>1, <2>2, <2>3, <2>4 DEF AnySplit
<1>5. CASE buckets[sp.bit0].next_bucket_id # INVALID_BUCKET_ID
  <2>1. /\ bit0_next = nxt[sp.bit0] /\ nxt[sp.bit0] # INVALID_BUCKET_ID
        /\ linked = [buckets EXCEPT ![bit0_next] =
                       [buckets[bit0_next] EXCEPT !.prefix_bits = sp.prefix_bits]]
    BY <1>5, ReadRecord DEF bit0_next, nxt
  <2>2. /\ [buckets[bit0_next] EXCEPT !.prefix_bits = sp.prefix_bits] \in AnyBucket
        /\ [buckets[bit0_next] EXCEPT !.prefix_bits = sp.prefix_bits].next_bucket_id
             = buckets[bit0_next].next_bucket_id
    BY <1>3, ReadRecord DEF AnyBucket
  <2>3. /\ linked \in [Ids -> AnyBucket]
        /\ \A x \in Ids : linked[x].next_bucket_id = buckets[x].next_bucket_id
    BY <1>3, <2>1, <2>2, ReadRecord
  <2> HIDE DEF linked, put1
  <2>4. sp.get \in Ids /\ r \in AnyRecord /\ 0 \in Int
    BY <1>1, ReadRecord
  <2>5. /\ buckets' \in [Ids -> AnyBucket]
        /\ \A x \in Ids : buckets'[x].next_bucket_id = buckets[x].next_bucket_id
    BY <1>1, <1>3, <2>3, <2>4, MoveRecord
  <2> QED
    BY <1>2, <1>4, <1>5, <2>1, <2>5, SplitLoopStep
<1>6. CASE buckets[sp.bit0].next_bucket_id = INVALID_BUCKET_ID
  <2>0. PICK n : n = new_bucket_id
    OBVIOUS
  <2>1. /\ bit0_next = n /\ create_bucket
        /\ buckets' = move_record(append_bucket(sp.bit0, sp.prefix_bits), r, n, 0)
    BY <1>1, <1>2, <1>6, <2>0 DEF bit0_next
  <2>2. sp.bit0 # sp.bit1
    BY <1>2 DEF Inv, NewChain, SplitsTo
  <2> QED
    BY <1>1, <1>2, <1>4, <1>6, <2>0, <2>1, <2>2, SplitGrowStep
<1> QED
  BY <1>5, <1>6

(* The rest of the bit0 chain is cut off: the cursor is a root now.         *)
LEMMA SplitUnlinkStep ==
  ASSUME NEW L, Inv(L), SplitUnlink
  PROVE  Inv(L)'
<1>1. /\ pc = "split" /\ pc' = "free" /\ cursor' = buckets[sp.bit0].next_bucket_id
      /\ buckets' = [buckets EXCEPT ![sp.bit0] =
                       [buckets[sp.bit0] EXCEPT !.next_bucket_id = INVALID_BUCKET_ID]]
      /\ UNCHANGED <<buckets_count, first_free_bucket_id, heads, sp>>
  BY DEF SplitUnlink
<1>2. /\ buckets \in [Ids -> AnyBucket] /\ sp.bit0 \in Live(L) /\ sp.bit0 \in Ids
      /\ Live(L) \subseteq Ids /\ Live(L)' = Live(L) /\ Allocated' = Allocated
      /\ splitting /\ splitting'
  BY <1>1, IdsValid DEF Inv, Typed, Live, Allocated, splitting
<1>3. /\ [buckets[sp.bit0] EXCEPT !.next_bucket_id = INVALID_BUCKET_ID] \in AnyBucket
      /\ [buckets[sp.bit0] EXCEPT !.next_bucket_id = INVALID_BUCKET_ID].next_bucket_id
           = INVALID_BUCKET_ID
  BY <1>2 DEF AnyBucket, Links
<1>4. /\ buckets' \in [Ids -> AnyBucket] /\ cursor' = nxt[sp.bit0]
      /\ \A x \in Ids : nxt'[x] = IF x = sp.bit0 THEN INVALID_BUCKET_ID ELSE nxt[x]
  BY <1>1, <1>2, <1>3 DEF nxt
<1>5. cursor' \in Live(L) \cup {INVALID_BUCKET_ID}
  BY <1>2, <1>4 DEF Inv, OneReference
<1>6. Typed(L)'
  BY <1>1, <1>2, <1>4, <1>5 DEF Inv, Typed
<1>7. OneReference(L)'
  BY <1>1, <1>2, <1>4 DEF Inv, OneReference
<1>8. RootsDiffer'
  BY <1>1, <1>2, <1>4 DEF Inv, RootsDiffer, OneReference
<1>9. ASSUME NEW F \in SUBSET Ids, Separates(F, L) PROVE Separates(F, L)'
  <2>1. HoldsFreeList(F, L)'
    BY <1>1, <1>2, <1>4, <1>9, IdsValid DEF Separates, HoldsFreeList, CallAvoids
  <2>2. CallAvoids(F)'
    BY <1>1, <1>2, <1>4, <1>9 DEF Separates, HoldsFreeList, CallAvoids
  <2> QED
    BY <2>1, <2>2 DEF Separates
<1>10. NewChain(L)'
  BY <1>1 DEF NewChain
<1>11. Reached(L)'
  <2>1. Roots \subseteq Roots' /\ cursor' \in Roots' \cup {INVALID_BUCKET_ID}
    BY <1>1, <1>2 DEF Roots
  <2> QED
    BY <1>2, <1>4, <2>1, LinksMoved
<1> QED
  BY <1>6, <1>7, <1>8, <1>9, <1>10, <1>11 DEF Inv

(* A bucket of that rest goes from the chain to the free list.              *)
LEMMA SplitFreeStep ==
  ASSUME NEW L, Inv(L), SplitFree
  PROVE  Inv(L)'
<1>1. /\ pc = "free" /\ pc' = "free" /\ cursor # INVALID_BUCKET_ID
      /\ cursor' = buckets[cursor].next_bucket_id
      /\ first_free_bucket_id' = cursor
      /\ buckets' = [buckets EXCEPT ![cursor] =
                       [buckets[cursor] EXCEPT !.next_bucket_id = first_free_bucket_id]]
      /\ UNCHANGED <<buckets_count, heads, sp>>
  BY DEF SplitFree
<1>2. /\ buckets \in [Ids -> AnyBucket] /\ cursor \in Live(L) /\ cursor \in Ids
      /\ Live(L) \subseteq Ids /\ Live(L)' = Live(L) /\ Allocated' = Allocated
      /\ first_free_bucket_id \in Live(L) \cup {INVALID_BUCKET_ID}
      /\ splitting /\ splitting'
  BY <1>1, IdsValid DEF Inv, Typed, Live, Allocated, splitting
<1>3. /\ [buckets[cursor] EXCEPT !.next_bucket_id = first_free_bucket_id] \in AnyBucket
      /\ [buckets[cursor] EXCEPT !.next_bucket_id = first_free_bucket_id].next_bucket_id
           = first_free_bucket_id
  BY <1>2 DEF AnyBucket, Links
<1>4. /\ buckets' \in [Ids -> AnyBucket] /\ cursor' = nxt[cursor]
      /\ \A x \in Ids : nxt'[x] = IF x = cursor THEN first_free_bucket_id ELSE nxt[x]
  BY <1>1, <1>2, <1>3 DEF nxt
<1>5. cursor' \in Live(L) \cup {INVALID_BUCKET_ID} /\ cursor' # cursor
  BY <1>1, <1>2, <1>4 DEF Inv, OneReference
<1>6. Typed(L)'
  BY <1>1, <1>2, <1>4, <1>5 DEF Inv, Typed
<1>7. OneReference(L)'
  BY <1>1, <1>2, <1>4, <1>5, IdsValid DEF Inv, OneReference, RootsDiffer
<1>8. RootsDiffer'
  BY <1>1, <1>2, <1>4, <1>5 DEF Inv, RootsDiffer, OneReference
<1>9. \E F \in SUBSET Ids : Separates(F, L)'
  <2>1. PICK F \in SUBSET Ids : Separates(F, L)
    BY DEF Inv
  <2>2. PICK c : c = cursor
    OBVIOUS
  <2>3. /\ c \notin F /\ F \subseteq Live(L)
        /\ c \notin heads /\ c # sp.result /\ nxt[c] # c /\ nxt[c] \notin F
        /\ first_free_bucket_id \in F \cup {INVALID_BUCKET_ID}
        /\ \A b \in Live(L) : nxt[b] # c
    BY <1>1, <1>2, <2>1, <2>2
       DEF Inv, OneReference, RootsDiffer, Separates, HoldsFreeList, CallAvoids
  <2>4. HoldsFreeList(F \cup {c}, L)'
    BY <1>1, <1>2, <1>4, <2>1, <2>2, <2>3 DEF Separates, HoldsFreeList
  <2>5. CallAvoids(F \cup {c})'
    BY <1>1, <1>2, <1>4, <2>1, <2>2, <2>3 DEF Separates, CallAvoids
  <2> QED
    BY <1>2, <2>2, <2>4, <2>5 DEF Separates
<1>10. NewChain(L)'
  BY <1>1 DEF NewChain
<1>11. Reached(L)'
  <2>1. /\ cursor \in Roots' /\ cursor' \in Roots' \cup {INVALID_BUCKET_ID}
        /\ Roots \ {first_free_bucket_id} \subseteq Roots'
    BY <1>1, <1>2 DEF Roots
  <2>2. \A x \in Live(L) : \/ nxt'[x] = nxt[x]
                             \/ nxt[x] \in Roots' \cup {INVALID_BUCKET_ID}
    BY <1>2, <1>4, <2>1
  <2>3. \A x \in Roots : x \in Roots' \/ \E y \in Roots' : nxt'[y] = x
    BY <1>2, <1>4, <2>1
  <2> QED
    BY <1>2, <2>2, <2>3, LinksMoved
<1> QED
  BY <1>6, <1>7, <1>8, <1>9, <1>10, <1>11 DEF Inv

-----------------------------------------------------------------------------
(* All that this proof asks of the callers: ids come from the container.    *)
AnyCall ==
    \/ CreateBucket(1)
    \/ \E b \in heads, k \in Keys :
         \/ FindCall(b, k) \/ RemoveCall(b, k)
         \/ \E v \in Values : CreateCall(b, k, v)
    \/ \E b \in heads : SplitCall(b)

AnyStep == AnyCall \/ ContainerStep \/ ContainerReturn

(* What the other proofs ask: a chain is split while hash bits are left.    *)
Called ==
    \/ CreateBucket(1)
    \/ \E b \in heads, k \in Keys :
         \/ FindCall(b, k) \/ RemoveCall(b, k)
         \/ \E v \in Values : CreateCall(b, k, v)
    \/ \E b \in heads : buckets[b].prefix_bits < HASH_BITS /\ SplitCall(b)

Used == Called \/ ContainerStep \/ ContainerReturn

(* The callers of the container on its own ask no more.                     *)
LEMMA NextUsed == ContainerNext => Used
  BY DEF ContainerNext, ContainerCall, Used, Called

(* Every step preserves the invariant.                                      *)
LEMMA InvAnyStep ==
  ASSUME NEW L, Inv(L), [AnyStep]_cvars
  PROVE  Inv(L)'
<1>1. CASE AnyCall
  <2>1. CASE CreateBucket(1)
    BY <2>1, CreateBucketStep
  <2>2. ASSUME NEW b \in heads, NEW k \in Keys, FindCall(b, k) PROVE Inv(L)'
    BY <2>2, CallStep DEF FindCall
  <2>3. ASSUME NEW b \in heads, NEW k \in Keys, RemoveCall(b, k) PROVE Inv(L)'
    BY <2>3, CallStep DEF RemoveCall
  <2>4. ASSUME NEW b \in heads, NEW k \in Keys, NEW v \in Values, CreateCall(b, k, v)
        PROVE  Inv(L)'
    BY <2>4, CallStep DEF CreateCall
  <2>5. ASSUME NEW b \in heads, SplitCall(b) PROVE Inv(L)'
    BY <2>5, SplitCallStep
  <2> QED
    BY <1>1, <2>1, <2>2, <2>3, <2>4, <2>5 DEF AnyCall
<1>2. CASE ContainerStep
  <2>1. CASE FindNext \/ RemoveNext \/ CreateNext
    BY <2>1, WalkStep DEF FindNext, RemoveNext, CreateNext
  <2>2. CASE CreateGrow
    BY <2>2, CreateGrowStep
  <2>3. CASE SplitStep
    BY <2>3, SplitAppendStep, SplitBit1GrowStep, SplitBit0AdvanceStep,
       SplitNextBucketStep, SplitUnlinkStep, SplitFreeStep DEF SplitStep
  <2> QED
    BY <1>2, <2>1, <2>2, <2>3 DEF ContainerStep
<1>3. CASE ContainerReturn
  <2>1. CASE FindHit \/ FindMiss \/ RemoveMiss
    <3>1. /\ UNCHANGED <<buckets_count, first_free_bucket_id, buckets, heads, sp>>
          /\ pc \in {"find", "remove", "create"} /\ pc' = "idle"
      BY <2>1 DEF FindHit, FindMiss, RemoveMiss, Return, layout_vars
    <3> QED
      BY <3>1, ReturnStep DEF Inv, Typed
  <2>2. CASE RemoveHit
    BY <2>2, RemoveHitStep
  <2>3. CASE CreateWrite
    BY <2>3, CreateWriteStep
  <2>4. CASE SplitReturn
    BY <2>4, SplitReturnStep
  <2> QED
    BY <1>3, <2>1, <2>2, <2>3, <2>4 DEF ContainerReturn
<1>4. CASE UNCHANGED cvars
  <2>1. UNCHANGED <<buckets_count, first_free_bucket_id, buckets, heads, pc, arg, cursor, sp>>
    BY <1>4 DEF cvars, layout_vars, local_vars
  <2>2. /\ nxt' = nxt /\ Live(L)' = Live(L) /\ splitting' = splitting
        /\ Allocated' = Allocated
    BY <2>1 DEF nxt, Live, Allocated, splitting
  <2>3. Typed(L)' /\ NewChain(L)'
    BY <2>1, <2>2 DEF Inv, Typed, NewChain, SplitsTo
  <2>4. \A F \in SUBSET Ids : Separates(F, L) => CallAvoids(F)'
    BY <2>1, <2>2 DEF Separates, CallAvoids
  <2>5. Roots \subseteq Roots'
    BY <2>1, <2>2 DEF Roots
  <2> QED
    BY <2>1, <2>2, <2>3, <2>4, <2>5, SameGraph
<1> QED
  BY <1>1, <1>2, <1>3, <1>4 DEF AnyStep

LEMMA InvStep == Inv({}) /\ [Used]_cvars => Inv({})'
<1> SUFFICES ASSUME Inv({}), [Used]_cvars PROVE Inv({})'
  OBVIOUS
<1>1. [AnyStep]_cvars
  BY DEF Used, Called, AnyStep, AnyCall
<1> QED
  BY <1>1, InvAnyStep

(* The invariant says what NoSharing says.                                  *)
LEMMA InvNoSharing == Inv({}) => NoSharing
<1> SUFFICES ASSUME Inv({}) PROVE NoSharing
  OBVIOUS
<1>0. Live({}) = Allocated
  BY DEF Live
<1>1. Allocated \subseteq Ids /\ \A b \in Allocated : nxt[b] = buckets[b].next_bucket_id
  BY <1>0, IdsValid DEF Inv, Typed, Allocated, nxt
<1>2. Roots \subseteq Allocated
  BY <1>0 DEF Inv, Typed, Roots
<1>3. \A b \in Allocated : nxt[b] # INVALID_BUCKET_ID =>
        /\ nxt[b] \in Allocated \ Roots
        /\ \A c \in Allocated \ {b} : nxt[c] # nxt[b]
  BY <1>0 DEF Inv, OneReference, Roots
<1>4. /\ splitting => sp.result \notin heads \cup {first_free_bucket_id}
      /\ first_free_bucket_id \notin heads
      /\ pc = "free" => cursor \notin heads \cup {first_free_bucket_id, sp.result}
                          \/ cursor = INVALID_BUCKET_ID
  BY DEF Inv, RootsDiffer
<1> QED
  BY <1>1, <1>2, <1>3, <1>4 DEF NoSharing

-----------------------------------------------------------------------------
(* A set of numbers that is not empty has a least one.                      *)
LEMMA LeastNumber ==
  ASSUME NEW T \in SUBSET Nat, T # {}
  PROVE  \E x \in T : \A y \in T : x <= y
<1>1. PICK R : R = OpToRel(<, Nat)
  OBVIOUS
<1>2. IsWellFoundedOn(R, Nat)
  BY <1>1, NatLessThanWellFounded
<1>3. PICK x \in T : \A y \in T : ~(<<y, x>> \in R)
  BY <1>2, WFMin
<1>4. \A a, b \in Nat : <<a, b>> \in R <=> a < b
  BY <1>1 DEF OpToRel
<1>5. \A y \in T : ~(y < x)
  BY <1>3, <1>4
<1>6. \A y \in T : x <= y
  BY <1>5
<1> QED
  BY <1>6

(* A set of numbers that is closed under + 1 has them all.                  *)
LEMMA Numbers ==
  ASSUME NEW T, 0 \in T, \A n \in Nat : n \in T => n + 1 \in T
  PROVE  Nat \subseteq T
<1> SUFFICES ASSUME Nat \ T # {} PROVE FALSE
  OBVIOUS
<1>1. PICK m \in Nat \ T : \A y \in Nat \ T : m <= y
  BY LeastNumber
<1>2. m # 0 /\ m \in Nat /\ m \notin T
  BY <1>1
<1>3. m - 1 \in Nat /\ ~(m <= m - 1) /\ (m - 1) + 1 = m
  BY <1>2
<1>4. m - 1 \in T
  BY <1>1, <1>3
<1> QED
  BY <1>2, <1>3, <1>4

(* f is the function walk of Chain, up to m steps.                          *)
Walks(f, bs, m) ==
    f = [n \in 0 .. m |->
           [x \in Ids \cup {INVALID_BUCKET_ID} |->
              IF n = 0 \/ x = INVALID_BUCKET_ID THEN {}
              ELSE {x} \cup f[n - 1][bs[x].next_bucket_id]]]

(* There is such a function for any number of steps.                        *)
LEMMA WalkExists ==
  ASSUME NEW bs
  PROVE  \A m \in Nat : \E f : Walks(f, bs, m)
<1>1. PICK T : T = {m \in Nat : \E f : Walks(f, bs, m)}
  OBVIOUS
<1>2. 0 \in T
  <2>1. PICK f : f = [n \in 0 .. 0 |-> [x \in Ids \cup {INVALID_BUCKET_ID} |-> {}]]
    OBVIOUS
  <2>2. Walks(f, bs, 0)
    BY <2>1 DEF Walks
  <2> QED
    BY <1>1, <2>2
<1>3. ASSUME NEW m \in Nat, m \in T PROVE m + 1 \in T
  <2>1. PICK f : Walks(f, bs, m)
    BY <1>1, <1>3
  <2>2. PICK last : last = [x \in Ids \cup {INVALID_BUCKET_ID} |->
                              IF x = INVALID_BUCKET_ID THEN {}
                              ELSE {x} \cup f[m][bs[x].next_bucket_id]]
    OBVIOUS
  <2>3. PICK g : g = [n \in 0 .. m + 1 |-> IF n <= m THEN f[n] ELSE last]
    OBVIOUS
  <2>4. (\A n \in 0 .. m : g[n] = f[n]) /\ g[m + 1] = last
    BY <2>3
  <2>5. ASSUME NEW n \in 0 .. m + 1
        PROVE  g[n] = [x \in Ids \cup {INVALID_BUCKET_ID} |->
                         IF n = 0 \/ x = INVALID_BUCKET_ID THEN {}
                         ELSE {x} \cup g[n - 1][bs[x].next_bucket_id]]
    <3>1. CASE n = m + 1
      <4>1. n - 1 = m /\ n # 0 /\ g[n - 1] = f[m] /\ g[n] = last
        BY <2>4, <3>1
      <4> QED
        BY <2>2, <4>1
    <3>2. CASE n \in 0 .. m
      <4>1. g[n] = [x \in Ids \cup {INVALID_BUCKET_ID} |->
                      IF n = 0 \/ x = INVALID_BUCKET_ID THEN {}
                      ELSE {x} \cup f[n - 1][bs[x].next_bucket_id]]
        BY <2>1, <2>4, <3>2 DEF Walks
      <4>2. n # 0 => g[n - 1] = f[n - 1]
        BY <2>4, <3>2
      <4> QED
        BY <4>1, <4>2
    <3> QED
      BY <3>1, <3>2
  <2>6. PICK h : h = [n \in 0 .. m + 1 |->
                        [x \in Ids \cup {INVALID_BUCKET_ID} |->
                           IF n = 0 \/ x = INVALID_BUCKET_ID THEN {}
                           ELSE {x} \cup g[n - 1][bs[x].next_bucket_id]]]
    OBVIOUS
  <2>7. \A n \in 0 .. m + 1 : h[n] = g[n]
    BY <2>5, <2>6
  <2>8. g = h
    BY <2>3, <2>6, <2>7
  <2>9. Walks(g, bs, m + 1)
    BY <2>6, <2>8 DEF Walks
  <2> QED
    BY <1>1, <2>9
<1>4. Nat \subseteq T
  BY <1>2, <1>3, Numbers
<1> QED
  BY <1>1, <1>4

(* What it collects along the links next, step by step.                     *)
Steps(f, next) ==
    /\ \A x \in Links : f[0][x] = {}
    /\ \A n \in 1 .. MaxBuckets : f[n][INVALID_BUCKET_ID] = {}
    /\ \A n \in 1 .. MaxBuckets, x \in Ids : f[n][x] = {x} \cup f[n - 1][next[x]]

(* Chain is the last of these steps.                                        *)
LEMMA ChainWalk ==
  ASSUME buckets \in [Ids -> AnyBucket]
  PROVE  \E f : /\ \A b : Chain(b) = f[MaxBuckets][b]
                /\ Steps(f, nxt)
<1>1. PICK g : g = CHOOSE f : Walks(f, buckets, MaxBuckets)
  OBVIOUS
<1>2. Walks(g, buckets, MaxBuckets)
  BY <1>1, WalkExists, SizesAssumption
<1>3. ASSUME NEW b PROVE Chain(b) = g[MaxBuckets][b]
  BY <1>1 DEF Chain, Walks
<1>4. \A n \in 0 .. MaxBuckets :
        g[n] = [x \in Ids \cup {INVALID_BUCKET_ID} |->
                  IF n = 0 \/ x = INVALID_BUCKET_ID THEN {}
                  ELSE {x} \cup g[n - 1][buckets[x].next_bucket_id]]
  BY <1>2 DEF Walks
<1>5. \A x \in Links : g[0][x] = {}
  <2>1. 0 \in 0 .. MaxBuckets
    BY SizesAssumption
  <2>2. g[0] = [x \in Ids \cup {INVALID_BUCKET_ID} |->
                  IF 0 = 0 \/ x = INVALID_BUCKET_ID THEN {}
                  ELSE {x} \cup g[0 - 1][buckets[x].next_bucket_id]]
    BY ONLY <1>4, <2>1
  <2> QED
    BY ONLY <2>2 DEF Links
<1>6. \A n \in 1 .. MaxBuckets :
        g[n] = [x \in Ids \cup {INVALID_BUCKET_ID} |->
                  IF x = INVALID_BUCKET_ID THEN {}
                  ELSE {x} \cup g[n - 1][buckets[x].next_bucket_id]]
  BY <1>4, SizesAssumption
<1>7. \A n \in 1 .. MaxBuckets : g[n][INVALID_BUCKET_ID] = {}
  BY <1>6
<1>8. \A n \in 1 .. MaxBuckets, x \in Ids : g[n][x] = {x} \cup g[n - 1][nxt[x]]
  BY <1>6, IdsValid DEF nxt
<1> QED
  BY <1>3, <1>5, <1>7, <1>8 DEF Steps

(* A step further are all links out of what was collected.                  *)
LEMMA WalkGrows ==
  ASSUME NEW f, NEW next \in [Ids -> Links], Steps(f, next)
  PROVE  \A n \in 0 .. MaxBuckets - 1 : \A x \in Links :
           /\ f[n][x] \subseteq f[n + 1][x]
           /\ \A z \in f[n][x] : z \in Ids /\ next[z] \in f[n + 1][x] \cup {INVALID_BUCKET_ID}
<1> DEFINE Grows(n) ==
             \A x \in Links :
               /\ f[n][x] \subseteq f[n + 1][x]
               /\ \A z \in f[n][x] : /\ z \in Ids
                                     /\ next[z] \in f[n + 1][x] \cup {INVALID_BUCKET_ID}
<1>1. PICK T : T = {n \in Nat : n < MaxBuckets => Grows(n)}
  OBVIOUS
<1>2. 0 \in T
  BY <1>1 DEF Steps
<1>3. ASSUME NEW n \in Nat, n \in T PROVE n + 1 \in T
  <2> SUFFICES ASSUME n + 1 < MaxBuckets, NEW x \in Links
               PROVE  /\ f[n + 1][x] \subseteq f[n + 1 + 1][x]
                      /\ \A z \in f[n + 1][x] :
                           /\ z \in Ids
                           /\ next[z] \in f[n + 1 + 1][x] \cup {INVALID_BUCKET_ID}
    BY <1>1
  <2>1. Grows(n)
    BY <1>1, <1>3, SizesAssumption
  <2>2. /\ n + 1 \in 1 .. MaxBuckets /\ n + 1 + 1 \in 1 .. MaxBuckets
        /\ (n + 1) - 1 = n /\ (n + 1 + 1) - 1 = n + 1
    BY SizesAssumption
  <2>3. CASE x = INVALID_BUCKET_ID
    BY <2>2, <2>3 DEF Steps
  <2>4. CASE x \in Ids
    <3>1. PICK y \in Links : y = next[x]
      BY <2>4
    <3>2. f[n + 1][x] = {x} \cup f[n][y] /\ f[n + 1 + 1][x] = {x} \cup f[n + 1][y]
      BY <2>2, <2>4, <3>1 DEF Steps
    <3>3. y # INVALID_BUCKET_ID => y \in f[n + 1][y]
      BY <2>2 DEF Steps, Links
    <3> QED
      BY <2>1, <2>4, <3>1, <3>2, <3>3
  <2> QED
    BY <2>3, <2>4 DEF Links
<1> HIDE DEF Grows
<1>4. Nat \subseteq T
  BY <1>2, <1>3, Numbers
<1>5. \A n \in 0 .. MaxBuckets - 1 : Grows(n)
  BY <1>1, <1>4, SizesAssumption
<1> QED
  BY <1>5 DEF Grows

(* The walk does not leave a set that no link leaves.                       *)
LEMMA WalkWithin ==
  ASSUME NEW f, NEW next \in [Ids -> Links], Steps(f, next), NEW S \in SUBSET Ids,
         \A x \in S : next[x] \in S \cup {INVALID_BUCKET_ID}
  PROVE  \A n \in 0 .. MaxBuckets : \A x \in S \cup {INVALID_BUCKET_ID} : f[n][x] \subseteq S
<1> DEFINE In(n) == \A x \in S \cup {INVALID_BUCKET_ID} : f[n][x] \subseteq S
<1>1. PICK T : T = {n \in Nat : n <= MaxBuckets => In(n)}
  OBVIOUS
<1>2. 0 \in T
  BY <1>1 DEF Steps, Links
<1>3. ASSUME NEW n \in Nat, n \in T PROVE n + 1 \in T
  <2> SUFFICES ASSUME n + 1 <= MaxBuckets, NEW x \in S \cup {INVALID_BUCKET_ID}
               PROVE  f[n + 1][x] \subseteq S
    BY <1>1
  <2>1. In(n)
    BY <1>1, <1>3, SizesAssumption
  <2>2. n + 1 \in 1 .. MaxBuckets /\ (n + 1) - 1 = n
    BY SizesAssumption
  <2> QED
    BY <2>1, <2>2 DEF Steps
<1> HIDE DEF In
<1>4. Nat \subseteq T
  BY <1>2, <1>3, Numbers
<1>5. \A n \in 0 .. MaxBuckets : In(n)
  BY <1>1, <1>4, SizesAssumption
<1> QED
  BY <1>5 DEF In

(****************************************************************************)
(* MaxBuckets steps are enough: as long as a step adds a bucket there are   *)
(* at least as many as steps, and when one adds none the walk is complete.  *)
(****************************************************************************)
LEMMA WalkCloses ==
  ASSUME NEW f, NEW next \in [Ids -> Links], Steps(f, next), NEW b \in Ids
  PROVE  /\ b \in f[MaxBuckets][b]
         /\ \A z \in f[MaxBuckets][b] :
              next[z] \in f[MaxBuckets][b] \cup {INVALID_BUCKET_ID}
<1> DEFINE Closed(D) == \A z \in D : next[z] \in D \cup {INVALID_BUCKET_ID}
           Far(n) == Closed(f[n][b]) \/ Cardinality(f[n][b]) >= n
<1>0. IsFiniteSet(Ids) /\ Cardinality(Ids) = MaxBuckets /\ MaxBuckets \in Nat /\ MaxBuckets >= 1
  <2>1. MaxBuckets \in Nat /\ MaxBuckets >= 1 /\ MaxBuckets - 1 \in Int
    BY SizesAssumption
  <2> QED
    BY <2>1, FS_Interval DEF Ids
<1>1. \A n \in 0 .. MaxBuckets : f[n][b] \subseteq Ids
  BY WalkWithin DEF Links
<1>2. \A n \in 1 .. MaxBuckets : b \in f[n][b]
  BY DEF Steps
<1>3. PICK T : T = {n \in Nat : n <= MaxBuckets => Far(n)}
  OBVIOUS
<1>4. 0 \in T
  BY <1>3 DEF Steps, Links
<1>5. ASSUME NEW n \in Nat, n \in T PROVE n + 1 \in T
  <2> SUFFICES ASSUME n + 1 <= MaxBuckets PROVE Far(n + 1)
    BY <1>3
  <2>1. n \in 0 .. MaxBuckets - 1 /\ n \in 0 .. MaxBuckets /\ n + 1 \in 1 .. MaxBuckets
        /\ n + 1 \in 0 .. MaxBuckets /\ Far(n)
    BY <1>0, <1>3, <1>5
  <2>2. PICK D, E : D = f[n][b] /\ E = f[n + 1][b]
    OBVIOUS
  <2>3. /\ D \subseteq E /\ E \subseteq Ids
        /\ \A z \in D : next[z] \in E \cup {INVALID_BUCKET_ID}
    BY <1>1, <2>1, <2>2, WalkGrows DEF Links
  <2>4. IsFiniteSet(E) /\ IsFiniteSet(D) /\ Cardinality(D) <= Cardinality(E)
        /\ (Cardinality(D) = Cardinality(E) => D = E)
        /\ Cardinality(D) \in Nat /\ Cardinality(E) \in Nat
    <3>1. IsFiniteSet(E)
      BY <1>0, <2>3, FS_Subset
    <3>2. /\ IsFiniteSet(D) /\ Cardinality(D) <= Cardinality(E)
          /\ (Cardinality(E) = Cardinality(D) => E = D)
      BY <2>3, <3>1, FS_Subset
    <3> QED
      BY <3>1, <3>2, FS_CardinalityType
  <2>5. CASE D = E
    BY <2>2, <2>3, <2>5
  <2>6. CASE D # E /\ Closed(D)
    <3>1. CASE n = 0
      <4>1. IsFiniteSet(E) /\ E # {}
        BY <1>2, <2>1, <2>2, <2>4
      <4>2. Cardinality(E) # 0
        BY <4>1, FS_EmptySet
      <4> QED
        BY <2>2, <2>4, <3>1, <4>2
    <3>2. CASE n # 0
      <4>1. b \in D /\ D \subseteq Ids
        BY <1>1, <1>2, <2>1, <2>2, <3>2
      <4>2. \A m \in 0 .. MaxBuckets : \A x \in D \cup {INVALID_BUCKET_ID} :
              f[m][x] \subseteq D
        <5>1. \A z \in D : next[z] \in D \cup {INVALID_BUCKET_ID}
          BY <2>6
        <5> QED
          BY <4>1, <5>1, WalkWithin
      <4>3. E \subseteq D
        BY <2>1, <2>2, <4>1, <4>2
      <4> QED
        BY <2>3, <2>6, <4>3
    <3> QED
      BY <3>1, <3>2
  <2>7. CASE D # E /\ Cardinality(D) >= n
    BY <2>2, <2>4, <2>7
  <2> QED
    BY <2>1, <2>2, <2>5, <2>6, <2>7
<1> HIDE DEF Far
<1>6. Nat \subseteq T
  BY <1>4, <1>5, Numbers
<1>7. Far(MaxBuckets)
  BY <1>0, <1>3, <1>6
<1>8. PICK D : D = f[MaxBuckets][b]
  OBVIOUS
<1>9. b \in D /\ D \subseteq Ids
  BY <1>0, <1>1, <1>2, <1>8
<1>10. CASE Cardinality(D) >= MaxBuckets
  <2>1. Cardinality(D) <= Cardinality(Ids) /\ (Cardinality(Ids) = Cardinality(D) => Ids = D)
        /\ IsFiniteSet(D)
    BY <1>0, <1>9, FS_Subset
  <2>2. Cardinality(D) \in Nat
    BY <2>1, FS_CardinalityType
  <2>3. D = Ids
    BY <1>0, <1>10, <2>1, <2>2
  <2> QED
    BY <1>8, <1>9, <2>3 DEF Links
<1> QED
  BY <1>7, <1>8, <1>9, <1>10 DEF Far

(****************************************************************************)
(* The chain of b is the least set of buckets with b in it that no link     *)
(* leaves.                                                                  *)
(****************************************************************************)
LEMMA ChainLeast ==
  ASSUME buckets \in [Ids -> AnyBucket], NEW b \in Ids
  PROVE  /\ b \in Chain(b) /\ Chain(b) \subseteq Ids
         /\ \A z \in Chain(b) : nxt[z] \in Chain(b) \cup {INVALID_BUCKET_ID}
         /\ \A S \in SUBSET Ids :
              b \in S /\ (\A x \in S : nxt[x] \in S \cup {INVALID_BUCKET_ID})
                => Chain(b) \subseteq S
<1>1. nxt \in [Ids -> Links]
  BY DEF nxt, AnyBucket
<1>2. PICK f : (\A c : Chain(c) = f[MaxBuckets][c]) /\ Steps(f, nxt)
  BY ChainWalk
<1>3. MaxBuckets \in 0 .. MaxBuckets
  BY SizesAssumption
<1>4. /\ b \in Chain(b)
      /\ \A z \in Chain(b) : nxt[z] \in Chain(b) \cup {INVALID_BUCKET_ID}
  BY <1>1, <1>2, WalkCloses
<1>5. ASSUME NEW S \in SUBSET Ids, b \in S,
             \A x \in S : nxt[x] \in S \cup {INVALID_BUCKET_ID}
      PROVE  Chain(b) \subseteq S
  BY <1>1, <1>2, <1>3, <1>5, WalkWithin
<1>6. Chain(b) \subseteq Ids
  <2>1. \A x \in Ids : nxt[x] \in Ids \cup {INVALID_BUCKET_ID}
    BY <1>1 DEF Links
  <2> QED
    BY <1>5, <2>1
<1> QED
  BY <1>4, <1>5, <1>6

(****************************************************************************)
(* Together the chains of the roots are a set with every root in it that no *)
(* link leaves.                                                             *)
(****************************************************************************)
LEMMA InvNoLeak == Inv({}) => NoLeak
<1> SUFFICES ASSUME Inv({}) PROVE NoLeak
  OBVIOUS
<1>1. /\ buckets \in [Ids -> AnyBucket] /\ Live({}) \subseteq Ids
      /\ Roots \subseteq Live({})
      /\ \A x \in Live({}) : nxt[x] \in Live({}) \cup {INVALID_BUCKET_ID}
  BY IdsValid DEF Inv, Typed, Live, Allocated, Roots, OneReference
<1>2. ASSUME NEW b \in Roots
      PROVE  /\ b \in Chain(b) /\ Chain(b) \subseteq Live({})
             /\ \A z \in Chain(b) : nxt[z] \in Chain(b) \cup {INVALID_BUCKET_ID}
  <2>1. b \in Ids /\ b \in Live({})
    BY <1>1
  <2> QED
    BY <1>1, <2>1, ChainLeast
<1>3. PICK T : T = UNION {Chain(b) : b \in Roots}
  OBVIOUS
<1>4. T \in SUBSET Live({}) /\ Roots \subseteq T
  BY <1>2, <1>3
<1>5. ASSUME NEW x \in T PROVE nxt[x] \in T \cup {INVALID_BUCKET_ID}
  <2>1. PICK b \in Roots : x \in Chain(b)
    BY <1>3
  <2>2. nxt[x] \in Chain(b) \cup {INVALID_BUCKET_ID}
    BY <1>2, <2>1
  <2> QED
    BY <1>3, <2>2
<1>6. T = Live({})
  BY <1>4, <1>5 DEF Inv, Reached, Live
<1> QED
  BY <1>3, <1>6 DEF NoLeak, Live

-----------------------------------------------------------------------------
(****************************************************************************)
(* A process that was killed or threw may leave buckets behind that nothing *)
(* refers to.  With no call in progress the links are sound: Orphans(L) is  *)
(* all of Inv(L) but that the buckets in use are reached.                   *)
(****************************************************************************)
Orphans(L) ==
    /\ pc = "idle"
    /\ Typed(L) /\ OneReference(L) /\ RootsDiffer
    /\ \E F \in SUBSET Ids : HoldsFreeList(F, L)

Orphaned == \E L \in SUBSET Ids : Orphans(L)

Sound == \E L \in SUBSET Ids : Inv(L)

(****************************************************************************)
(* The buckets that the roots no longer reach are then no longer in use:    *)
(* the chains of the roots are closed under links.                          *)
(****************************************************************************)
LEMMA OrphansLeft == Orphaned => Sound
<1> SUFFICES ASSUME NEW L \in SUBSET Ids, Orphans(L) PROVE Sound
  BY DEF Orphaned
<1> DEFINE T == UNION {Chain(b) : b \in Roots}
           K == Allocated \ T
<1>1. /\ buckets \in [Ids -> AnyBucket] /\ Live(L) \subseteq Ids
      /\ Allocated \subseteq Ids /\ Live(L) \subseteq Allocated
      /\ Roots \subseteq Live(L) /\ INVALID_BUCKET_ID \notin Roots
      /\ \A x \in Live(L) : nxt[x] \in Live(L) \cup {INVALID_BUCKET_ID}
  BY IdsValid DEF Orphans, Typed, Live, Allocated, Roots, OneReference, splitting
<1>2. ASSUME NEW b \in Roots
      PROVE  /\ b \in Chain(b) /\ Chain(b) \subseteq Live(L)
             /\ \A z \in Chain(b) : nxt[z] \in Chain(b) \cup {INVALID_BUCKET_ID}
             /\ \A S \in SUBSET Ids :
                  b \in S /\ (\A x \in S : nxt[x] \in S \cup {INVALID_BUCKET_ID})
                    => Chain(b) \subseteq S
  <2>1. b \in Ids /\ b \in Live(L)
    BY <1>1
  <2> QED
    BY <1>1, <2>1, ChainLeast
<1>3. T \subseteq Live(L) /\ Roots \subseteq T
  BY <1>2
<1>4. ASSUME NEW x \in T PROVE nxt[x] \in T \cup {INVALID_BUCKET_ID}
  <2>1. PICK b \in Roots : x \in Chain(b)
    OBVIOUS
  <2>2. nxt[x] \in Chain(b) \cup {INVALID_BUCKET_ID}
    BY <1>2, <2>1
  <2> QED
    BY <2>2
<1>5. ASSUME NEW S \in SUBSET T, Roots \subseteq S,
             \A x \in S : nxt[x] \in S \cup {INVALID_BUCKET_ID}
      PROVE  S = T
  <2>1. S \in SUBSET Ids
    BY <1>1, <1>3
  <2>2. \A b \in Roots : Chain(b) \subseteq S
    BY <1>2, <1>5, <2>1
  <2> QED
    BY <2>2
<1> HIDE DEF T
<1>6. Live(K) = T /\ K \in SUBSET Ids /\ K \subseteq Allocated
  BY <1>1, <1>3 DEF Live
<1> HIDE DEF K
<1>7. ~splitting /\ pc = "idle"
  BY DEF Orphans, splitting
<1>8. Typed(K)
  <2>1. /\ heads \subseteq T
        /\ first_free_bucket_id \in T \cup {INVALID_BUCKET_ID}
    BY <1>1, <1>3, IdsValid DEF Roots, Orphans, Typed
  <2> QED
    BY <1>6, <1>7, <2>1 DEF Orphans, Typed
<1>9. OneReference(K)
  BY <1>3, <1>4, <1>6 DEF Orphans, OneReference
<1>10. \E F \in SUBSET Ids : Separates(F, K)
  <2>1. PICK F \in SUBSET Ids : HoldsFreeList(F, L)
    BY DEF Orphans
  <2>2. HoldsFreeList(F \cap T, K)
    <3>1. first_free_bucket_id \in T \cup {INVALID_BUCKET_ID}
      BY <1>3 DEF Roots
    <3> QED
      BY <1>3, <1>4, <1>6, <2>1, <3>1 DEF HoldsFreeList
  <2>3. CallAvoids(F \cap T)
    BY <1>7 DEF CallAvoids
  <2> QED
    BY <2>2, <2>3 DEF Separates
<1>11. NewChain(K)
  BY <1>7 DEF NewChain
<1>12. Reached(K)
  BY <1>5, <1>6 DEF Reached
<1>13. RootsDiffer
  BY DEF Orphans
<1> QED
  BY <1>6, <1>8, <1>9, <1>10, <1>11, <1>12, <1>13 DEF Sound, Inv

(* A call that is given up leaves the links as they are.                    *)
LEMMA GivenUp ==
  ASSUME Sound, pc' = "idle", sp' = NoSplit,
         UNCHANGED <<buckets_count, first_free_bucket_id, heads>>,
         buckets' \in [Ids -> AnyBucket],
         \A x \in Ids : buckets'[x].next_bucket_id = buckets[x].next_bucket_id
  PROVE  Orphaned'
<1>0. PICK L \in SUBSET Ids : Inv(L)
  BY DEF Sound
<1>1. /\ nxt' = nxt /\ Allocated' = Allocated /\ Live(L)' = Live(L) /\ ~splitting'
  BY DEF nxt, Allocated, Live, splitting
<1>2. NoSplit \in AnySplit
  BY IdsValid DEF NoSplit, AnySplit, Links
<1>3. Typed(L)'
  BY <1>0, <1>1, <1>2 DEF Inv, Typed
<1>4. OneReference(L)' /\ RootsDiffer'
  BY <1>0, <1>1 DEF Inv, OneReference, RootsDiffer
<1>5. \E F \in SUBSET Ids : HoldsFreeList(F, L)'
  <2>1. PICK F \in SUBSET Ids : HoldsFreeList(F, L)
    BY <1>0 DEF Inv, Separates
  <2>2. HoldsFreeList(F, L)'
    BY <1>1, <2>1 DEF HoldsFreeList
  <2> QED
    BY <2>2
<1> QED
  BY <1>0, <1>3, <1>4, <1>5 DEF Orphaned, Orphans

(* A bucket that was taken and not linked yet is left behind.               *)
LEMMA TakenLeft ==
  ASSUME Sound, header_taken, pc' = "idle", sp' = NoSplit, UNCHANGED heads,
         buckets' \in [Ids -> AnyBucket],
         \A x \in Ids : buckets'[x].next_bucket_id = buckets[x].next_bucket_id
  PROVE  Orphaned'
<1>0. PICK L \in SUBSET Ids : Inv(L)
  BY DEF Sound
<1>1. PICK n : n = new_bucket_id
  OBVIOUS
<1>2. PICK F \in SUBSET Ids : Separates(F, L)
  BY <1>0 DEF Inv
<1>3. /\ n \in Ids /\ n # INVALID_BUCKET_ID /\ n \notin Live(L) \ F
      /\ buckets_count' \in 0 .. MaxBuckets
      /\ Live(L)' = Live(L) \cup {n} /\ L \subseteq Allocated'
      /\ first_free_bucket_id' \in (F \ {n}) \cup {INVALID_BUCKET_ID}
      /\ \A b \in Live(L) : nxt[b] # n
      /\ \A b \in Live(L) \ {n} :
           nxt[b] # INVALID_BUCKET_ID => nxt[b] # first_free_bucket_id'
  BY <1>0, <1>1, <1>2, TakenBucket
<1>4. PICK K : K = L \cup {n}
  OBVIOUS
<1>5. K \in SUBSET Ids /\ K \subseteq Allocated' /\ Live(K)' = Live(L) \ {n}
  BY <1>3, <1>4 DEF Live
<1>6. /\ F \subseteq Live(L) /\ heads \subseteq Live(L) \ F /\ nxt' = nxt
      /\ \A b \in F : nxt[b] \in F \cup {INVALID_BUCKET_ID}
      /\ \A b \in Live(L) \ F : nxt[b] \notin F
  BY <1>0, <1>2 DEF Inv, Typed, Separates, HoldsFreeList, nxt
<1>7. NoSplit \in AnySplit /\ ~splitting'
  BY IdsValid DEF NoSplit, AnySplit, Links, splitting
<1>8. Typed(K)'
  BY <1>0, <1>3, <1>5, <1>6, <1>7 DEF Inv, Typed
<1>9. OneReference(K)'
  BY <1>0, <1>3, <1>5, <1>6, <1>7 DEF Inv, OneReference
<1>10. RootsDiffer'
  <2>1. Live(L) \subseteq Ids
    BY <1>0, IdsValid DEF Inv, Typed, Live, Allocated
  <2>2. first_free_bucket_id' \notin heads'
    BY <1>3, <1>6, <2>1, IdsValid
  <2> QED
    BY <1>7, <2>2 DEF RootsDiffer
<1>11. HoldsFreeList(F \ {n}, K)'
  BY <1>3, <1>5, <1>6 DEF HoldsFreeList
<1> QED
  BY <1>5, <1>8, <1>9, <1>10, <1>11 DEF Orphaned, Orphans

(* A chain stays among the buckets in use.                                  *)
LEMMA ChainWithin ==
  ASSUME NEW L, Inv(L), NEW b \in Roots
  PROVE  /\ b \in Chain(b) /\ Chain(b) \subseteq Live(L) /\ Chain(b) \subseteq Allocated
         /\ \A x \in Chain(b) : nxt[x] \in Chain(b) \cup {INVALID_BUCKET_ID}
         /\ \A S \in SUBSET Ids :
              b \in S /\ (\A x \in S : nxt[x] \in S \cup {INVALID_BUCKET_ID})
                => Chain(b) \subseteq S
<1>1. /\ buckets \in [Ids -> AnyBucket] /\ Live(L) \subseteq Ids
      /\ Live(L) \subseteq Allocated /\ Roots \subseteq Live(L)
      /\ \A x \in Live(L) : nxt[x] \in Live(L) \cup {INVALID_BUCKET_ID}
  BY IdsValid DEF Inv, Typed, Live, Allocated, Roots, OneReference
<1>2. b \in Ids /\ b \in Live(L)
  BY <1>1
<1> QED
  BY <1>1, <1>2, ChainLeast

(****************************************************************************)
(* The chains of different roots share no bucket: a bucket of both would    *)
(* have a predecessor in each, up to one root.                              *)
(****************************************************************************)
LEMMA ChainsApart ==
  ASSUME NEW L, Inv(L), NEW b \in Roots, NEW c \in Roots, b # c
  PROVE  Chain(b) \cap Chain(c) = {}
<1> DEFINE Closed(S) == \A x \in S : nxt[x] \in S \cup {INVALID_BUCKET_ID}
<1>1. Live(L) \subseteq Ids /\ Roots \subseteq Live(L)
  BY IdsValid DEF Inv, Typed, Live, Allocated, Roots
<1>2. /\ \A x \in Live(L) : nxt[x] \notin Roots
      /\ \A x, y \in Live(L) : x # y /\ nxt[x] # INVALID_BUCKET_ID => nxt[x] # nxt[y]
  BY DEF Inv, Roots, OneReference
<1>3. PICK B, C : B = Chain(b) /\ C = Chain(c)
  OBVIOUS
<1>4. /\ b \in B /\ B \subseteq Live(L) /\ Closed(B)
      /\ c \in C /\ C \subseteq Live(L) /\ Closed(C)
      /\ \A S \in SUBSET Ids : b \in S /\ Closed(S) => B \subseteq S
      /\ \A S \in SUBSET Ids : c \in S /\ Closed(S) => C \subseteq S
  BY <1>3, ChainWithin
<1>5. b \notin C
  <2>1. C \ {b} \in SUBSET Ids /\ c \in C \ {b}
    BY <1>1, <1>4
  <2>2. Closed(C \ {b})
    BY <1>2, <1>4
  <2> QED
    BY <1>4, <2>1, <2>2
<1>6. ASSUME NEW y \in C, y # c PROVE \E z \in C : nxt[z] = y
  <2> SUFFICES ASSUME \A z \in C : nxt[z] # y PROVE FALSE
    OBVIOUS
  <2>1. C \ {y} \in SUBSET Ids /\ c \in C \ {y}
    BY <1>1, <1>4, <1>6
  <2>2. Closed(C \ {y})
    BY <1>4
  <2> QED
    BY <1>4, <2>1, <2>2
<1>7. ASSUME NEW x \in B \ C PROVE nxt[x] \in (B \ C) \cup {INVALID_BUCKET_ID}
  <2> SUFFICES ASSUME nxt[x] \in C, nxt[x] # INVALID_BUCKET_ID PROVE FALSE
    BY <1>4
  <2>1. nxt[x] # c
    BY <1>2, <1>4
  <2>2. PICK z \in C : nxt[z] = nxt[x]
    BY <1>6, <2>1
  <2> QED
    BY <1>2, <1>4, <2>2
<1>8. B \ C \in SUBSET Ids /\ b \in B \ C /\ Closed(B \ C)
  BY <1>1, <1>4, <1>5, <1>7
<1>9. B \subseteq B \ C
  BY <1>4, <1>8
<1> QED
  BY <1>3, <1>4, <1>9

-----------------------------------------------------------------------------
(****************************************************************************)
(* No bucket is ever on two lists, whatever is stored, removed and split,   *)
(* in the middle of every call: create_bucket, create_record, split.        *)
(****************************************************************************)
THEOREM BucketsNotShared == ContainerSpec => []NoSharing
<1>1. ContainerSpec => []Inv({})
  BY InvInit, InvStep, NextUsed, PTL DEF ContainerSpec
<1> QED
  BY <1>1, InvNoSharing, PTL

(****************************************************************************)
(* No bucket is ever lost: the chains of the callers' ids, the free list    *)
(* and the two chains of a split in progress together are all of them, at   *)
(* every step of create_bucket, create_record and split.                    *)
(****************************************************************************)
THEOREM NoBucketLost == ContainerSpec => []NoLeak
<1>1. ContainerSpec => []Inv({})
  BY InvInit, InvStep, NextUsed, PTL DEF ContainerSpec
<1> QED
  BY <1>1, InvNoLeak, PTL

-----------------------------------------------------------------------------
(****************************************************************************)
(* The bytes of the buckets: the records of a bucket are packed at every    *)
(* moment, and the asserts inside split hold.  No bucket is left behind     *)
(* here: these are facts about Spec, whose calls run to their end.          *)
(*                                                                          *)
(* So far only the links between the buckets mattered; now the chains a     *)
(* split works on become paths of these links, which say what is already    *)
(* read, what is written again, and that the rest is empty.                 *)
(****************************************************************************)
(* S are the nodes on the path of the graph next from first to last.        *)
Path(next, S, first, last) ==
    /\ first \in S /\ last \in S
    /\ \A b \in S \ {last} : next[b] \in S
    /\ next[last] \notin S
    /\ \A b \in S \ {first} : \E a \in S : next[a] = b

(****************************************************************************)
(* While split moves records: P are the buckets of the old chain it has     *)
(* begun to read, W those of them it has written again, Q the new chain.    *)
(* Between bit0 and get, nothing is left of what was read.                  *)
(****************************************************************************)
Splits(P, W, Q) ==
    /\ Path(nxt, P, arg.bucket_id, sp.get)
    /\ Path(nxt, W, arg.bucket_id, sp.bit0)
    /\ Path(nxt, Q, sp.result, sp.bit1) /\ nxt[sp.bit1] = INVALID_BUCKET_ID
    /\ P \cup Q \subseteq Allocated /\ W \subseteq P /\ P \cap Q = {}
    /\ \A b \in P \ W : buckets[b].bytes_used = 0

SplitPaths ==
    pc = "split" =>
      /\ arg.bucket_id \in heads
      /\ \E P, W, Q \in SUBSET Ids : Splits(P, W, Q)

(* What split frees: R is the rest of the chain behind bit0, and is empty.  *)
Frees(R) ==
    /\ R \subseteq Allocated /\ cursor \in R \cup {INVALID_BUCKET_ID}
    /\ \A b \in R : nxt[b] \in R \cup {INVALID_BUCKET_ID}
    /\ \A b \in R : buckets[b].bytes_used = 0

FreedPath == pc = "free" => \E R \in SUBSET Ids : Frees(R)

(* The write positions of split are the fill levels.                        *)
PutPositions ==
    pc = "split" => /\ sp.bit0_put = buckets[sp.bit0].bytes_used
                    /\ sp.bit1_put = buckets[sp.bit1].bytes_used

(* The records of a bucket nobody is reading.                               *)
Whole(bucket) == Tiles(bucket.data, 0, bucket.bytes_used)

(* A bucket that is read from p up to l and written from its start.         *)
From(data, p) == {r \in data : r.offset >= p}

Partly(bucket, p, l) ==
    /\ Tiles(bucket.data \ From(bucket.data, p), 0, bucket.bytes_used)
    /\ Tiles(From(bucket.data, p), p, l)
    /\ bucket.bytes_used <= p

PackedAt(b) == IF reading(b) THEN Partly(buckets[b], sp.get_ptr, sp.get_last)
                             ELSE Whole(buckets[b])

(* The types that Typed leaves open.                                        *)
SplitLocals ==
    [prefix_bits : 0 .. HASH_BITS, bit0 : Ids, bit1 : Ids, get : Ids,
     bit0_put : 0 .. BUCKET_SIZE, bit1_put : 0 .. BUCKET_SIZE,
     get_ptr : 0 .. BUCKET_SIZE, get_last : 0 .. BUCKET_SIZE, result : Links]

Arguments == [bucket_id : Links, key : Keys \cup {NoValue},
              value : Values \cup {NoValue}]

Results == [found : BOOLEAN, value : Values \cup {NoValue}, bucket_id : Links]

Locals == /\ arg \in Arguments /\ cursor \in Links
          /\ sp \in SplitLocals /\ result \in Results

Bounded == buckets \in [Ids -> Bucket] /\ Locals

Mapped == length \in Nat /\ InMapping

PackedInv ==
    /\ Inv({})
    /\ Bounded
    /\ Mapped
    /\ \A b \in Allocated : PackedAt(b)
    /\ PutPositions
    /\ SplitPaths
    /\ FreedPath

-----------------------------------------------------------------------------
(* A record takes at least a byte, and fits a bucket.                       *)
LEMMA LengthPositive ==
  \A r \in AnyRecord : len(r) \in 1 .. BUCKET_SIZE /\ len(r) \in Int
  BY RecordsFit, SizesAssumption DEF len, AnyRecord

(* The record that a copy of r to position put is.                          *)
copied(r, put) == [r EXCEPT !.offset = put]

(* A record that is copied to another offset is the same record.            *)
LEMMA Moved ==
  ASSUME NEW r \in AnyRecord, NEW put \in Int
  PROVE  /\ [r EXCEPT !.offset = put] \in AnyRecord
         /\ [r EXCEPT !.offset = put].offset = put
         /\ len([r EXCEPT !.offset = put]) = len(r)
  BY DEF AnyRecord, len

-----------------------------------------------------------------------------
(* Tiles: an empty range, and what it says of the range.                    *)
LEMMA TilesNothing ==
  ASSUME NEW S \in SUBSET AnyRecord, NEW a \in Int, NEW b \in Int, Tiles(S, a, b)
  PROVE  a <= b /\ (a = b <=> S = {})
<1>1. CASE a = b
  BY <1>1 DEF Tiles
<1>2. CASE a # b
  <2>1. PICK r \in S : r.offset = a
    BY <1>2 DEF Tiles
  <2>2. r.offset + len(r) <= b /\ r.offset \in Int
    BY <2>1 DEF Tiles, AnyRecord
  <2> QED
    BY <1>2, <2>1, <2>2, LengthPositive
<1> QED
  BY <1>1, <1>2

(* No records tile an empty range.                                          *)
LEMMA TilesEmpty ==
  ASSUME NEW a \in Int
  PROVE  Tiles({}, a, a)
  BY DEF Tiles

(* A record is written behind the last one.                                 *)
LEMMA TilesAppend ==
  ASSUME NEW S \in SUBSET AnyRecord, NEW a \in Int, NEW b \in Int, Tiles(S, a, b),
         NEW r \in AnyRecord, r.offset = b
  PROVE  Tiles(S \cup {r}, a, b + len(r))
<1>1. /\ a <= b /\ (a = b <=> S = {}) /\ len(r) \in Int /\ len(r) > 0
      /\ \A q \in S : q.offset \in Int /\ len(q) \in Int /\ len(q) > 0
  BY TilesNothing, LengthPositive DEF AnyRecord
<1>2. \A q \in S : a <= q.offset /\ q.offset + len(q) <= b
  BY DEF Tiles
<1>s. \A q \in S : q.offset + len(q) = b \/ \E t \in S : t.offset = q.offset + len(q)
  BY DEF Tiles
<1>d. \A q \in S : \A t \in S \ {q} : \/ q.offset + len(q) <= t.offset
                                   \/ t.offset + len(t) <= q.offset
  BY DEF Tiles
<1> DEFINE T == S \cup {r}
<1>3. \A q \in T : a <= q.offset /\ q.offset + len(q) <= b + len(r)
  BY <1>1, <1>2
<1>4. \A q \in T : \/ q.offset + len(q) = b + len(r)
                   \/ \E t \in T : t.offset = q.offset + len(q)
  BY <1>s
<1>5. \A q \in T : \A t \in T \ {q} : \/ q.offset + len(q) <= t.offset
                                   \/ t.offset + len(t) <= q.offset
  BY <1>1, <1>2, <1>d
<1>6. a # b + len(r) /\ \E q \in T : q.offset = a
  BY <1>1 DEF Tiles
<1> QED
  BY <1>3, <1>4, <1>5, <1>6 DEF Tiles

(* The first record is read.                                                *)
LEMMA TilesTail ==
  ASSUME NEW S \in SUBSET AnyRecord, NEW a \in Int, NEW b \in Int, Tiles(S, a, b),
         NEW r \in S, r.offset = a
  PROVE  /\ Tiles(S \ {r}, a + len(r), b)
         /\ a + len(r) <= b
         /\ \A q \in S \ {r} : q.offset >= a + len(r)
<1>1. /\ len(r) \in Int /\ len(r) > 0
      /\ \A q \in S : q.offset \in Int /\ len(q) \in Int /\ len(q) > 0
  BY LengthPositive DEF AnyRecord
<1>2. \A q \in S : a <= q.offset /\ q.offset + len(q) <= b
  BY DEF Tiles
<1>s. \A q \in S : q.offset + len(q) = b \/ \E t \in S : t.offset = q.offset + len(q)
  BY DEF Tiles
<1>d. \A q \in S : \A t \in S \ {q} : \/ q.offset + len(q) <= t.offset
                                   \/ t.offset + len(t) <= q.offset
  BY DEF Tiles
<1> DEFINE T == S \ {r}
<1>3. \A q \in T : a + len(r) <= q.offset /\ q.offset + len(q) <= b
  BY <1>1, <1>2, <1>d
<1>4. \A q \in T : \/ q.offset + len(q) = b
                   \/ \E t \in T : t.offset = q.offset + len(q)
  <2> TAKE q \in T
  <2>1. q.offset + len(q) # a
    BY <1>1, <1>2
  <2> QED
    BY <1>s, <2>1
<1>5. \A q \in T : \A t \in T \ {q} : \/ q.offset + len(q) <= t.offset
                                   \/ t.offset + len(t) <= q.offset
  BY <1>d
<1>6. a + len(r) = b => T = {}
  BY <1>1, <1>3
<1>7. a + len(r) # b => \E q \in T : q.offset = a + len(r)
  <2>1. \A t \in S : t.offset = a + len(r) => t # r
    BY <1>1
  <2> QED
    BY <1>s, <2>1
<1> QED
  BY <1>2, <1>3, <1>4, <1>5, <1>6, <1>7 DEF Tiles

(* The records behind a removed one move down by its length.                *)
LEMMA TilesRemove ==
  ASSUME NEW S \in SUBSET AnyRecord, NEW b \in Int, Tiles(S, 0, b), NEW r \in S
  PROVE  /\ remove_bytes(S, r) \in SUBSET AnyRecord
         /\ Tiles(remove_bytes(S, r), 0, b - len(r))
<1>1. /\ len(r) \in Int /\ len(r) > 0
      /\ \A q \in S : q \in AnyRecord /\ q.offset \in Int /\ len(q) \in Int /\ len(q) > 0
  BY LengthPositive DEF AnyRecord
<1>2. \A q \in S : 0 <= q.offset /\ q.offset + len(q) <= b
  BY DEF Tiles
<1>s. \A q \in S : q.offset + len(q) = b \/ \E t \in S : t.offset = q.offset + len(q)
  BY DEF Tiles
<1>d. \A q \in S : \A t \in S \ {q} : \/ q.offset + len(q) <= t.offset
                                   \/ t.offset + len(t) <= q.offset
  BY DEF Tiles
<1> DEFINE low == {e \in S : e.offset < r.offset}
           high == {d \in S : d.offset > r.offset}
           down(e) == [e EXCEPT !.offset = e.offset - len(r)]
           T == low \cup {down(e) : e \in high}
<1>3. \A e \in high : /\ down(e) \in AnyRecord /\ down(e).offset = e.offset - len(r)
                     /\ len(down(e)) = len(e)
  BY <1>1, Moved
<1>4. remove_bytes(S, r) = T
  BY DEF remove_bytes
<1> HIDE DEF down
<1>5. /\ \A e \in low : e.offset + len(e) <= r.offset
      /\ \A e \in high : e.offset >= r.offset + len(r)
  BY <1>1, <1>d
<1>6. \A q \in T : 0 <= q.offset /\ q.offset + len(q) <= b - len(r)
  BY <1>1, <1>2, <1>3, <1>5
<1>7. S = low \cup {r} \cup high
  BY <1>1, <1>d
<1>8. \A q \in S : q.offset = r.offset + len(r) => down(q) \in T /\ down(q).offset = r.offset
  BY <1>1, <1>3
<1>9. \A q \in T : \/ q.offset + len(q) = b - len(r)
                   \/ \E t \in T : t.offset = q.offset + len(q)
  <2>1. ASSUME NEW q \in low PROVE \/ q.offset + len(q) = b - len(r)
                                  \/ \E t \in T : t.offset = q.offset + len(q)
    <3>1. CASE q.offset + len(q) = b
      BY <1>1, <1>2, <1>5, <3>1
    <3>2. ASSUME NEW t \in S, t.offset = q.offset + len(q)
          PROVE  \/ q.offset + len(q) = b - len(r)
                 \/ \E u \in T : u.offset = q.offset + len(q)
      <4>1. CASE t \in low
        BY <3>2, <4>1
      <4>2. CASE t = r
        <5>1. CASE r.offset + len(r) = b
          BY <1>1, <3>2, <4>2, <5>1
        <5>2. CASE r.offset + len(r) # b
          BY <1>s, <1>8, <3>2, <4>2, <5>2
        <5> QED
          BY <5>1, <5>2
      <4>3. CASE t \in high
        BY <1>1, <1>5, <3>2, <4>3
      <4> QED
        BY <1>7, <4>1, <4>2, <4>3
    <3> QED
      BY <1>s, <3>1, <3>2
  <2>2. ASSUME NEW e \in high PROVE \/ down(e).offset + len(down(e)) = b - len(r)
                                   \/ \E t \in T : t.offset = down(e).offset + len(down(e))
    <3>1. CASE e.offset + len(e) = b
      BY <1>1, <1>3, <3>1
    <3>2. ASSUME NEW t \in S, t.offset = e.offset + len(e)
          PROVE  \E u \in T : u.offset = down(e).offset + len(down(e))
      <4>1. t \in high
        BY <1>1, <3>2
      <4>2. down(t).offset = down(e).offset + len(down(e)) /\ down(t) \in T
        BY <1>1, <1>3, <3>2, <4>1
      <4> QED
        BY <4>2
    <3> QED
      BY <1>s, <3>1, <3>2
  <2> QED
    BY <2>1, <2>2
<1>10. \A q \in T : \A t \in T \ {q} : \/ q.offset + len(q) <= t.offset
                                    \/ t.offset + len(t) <= q.offset
  <2>1. ASSUME NEW q \in low, NEW t \in low \ {q}
        PROVE  q.offset + len(q) <= t.offset \/ t.offset + len(t) <= q.offset
    BY <1>d
  <2>2. ASSUME NEW q \in low, NEW e \in high
        PROVE  q.offset + len(q) <= down(e).offset
    BY <1>1, <1>3, <1>5
  <2>3. ASSUME NEW d \in high, NEW e \in high, down(d) # down(e)
        PROVE  \/ down(d).offset + len(down(d)) <= down(e).offset
               \/ down(e).offset + len(down(e)) <= down(d).offset
    BY <1>1, <1>3, <1>d, <2>3
  <2> QED
    BY <2>1, <2>2, <2>3
<1>11. b - len(r) = 0 => T = {}
  <2>1. \A q \in T : len(q) > 0 /\ len(q) \in Int /\ q.offset \in Int
    BY <1>1, <1>3
  <2> QED
    BY <1>1, <1>6, <2>1
<1>12. b - len(r) # 0 => \E q \in T : q.offset = 0
  <2>1. b # 0
    BY <1>1, <1>2
  <2>2. PICK q \in S : q.offset = 0
    BY <2>1 DEF Tiles
  <2>3. CASE q = r
    <3>1. b - len(r) # 0 => r.offset + len(r) # b
      BY <1>1, <2>2, <2>3
    <3> QED
      BY <1>s, <1>8, <2>2, <2>3, <3>1
  <2>4. CASE q # r
    BY <1>1, <1>2, <1>7, <2>2, <2>4
  <2> QED
    BY <2>3, <2>4
<1>13. T \in SUBSET AnyRecord
  BY <1>1, <1>3
<1> HIDE DEF T
<1> QED
  BY <1>4, <1>6, <1>9, <1>10, <1>11, <1>12, <1>13 DEF Tiles

-----------------------------------------------------------------------------
(* The types with bounds are among those without.                           *)
LEMMA BucketTypes ==
  /\ Record \subseteq AnyRecord
  /\ \A bucket \in Bucket :
       /\ bucket \in AnyBucket
       /\ bucket.data \in SUBSET AnyRecord /\ bucket.data \in SUBSET Record
       /\ bucket.bytes_used \in 0 .. BUCKET_SIZE /\ bucket.bytes_used \in Int
       /\ bucket.next_bucket_id \in Links /\ bucket.prefix_bits \in 0 .. HASH_BITS
<1>1. 0 .. BUCKET_SIZE \subseteq Int /\ 0 .. HASH_BITS \subseteq Int
  BY SizesAssumption
<1>2. Record \subseteq AnyRecord
  BY <1>1 DEF Record, AnyRecord
<1>3. \A bucket \in Bucket : bucket \in AnyBucket
  BY <1>1, <1>2 DEF Bucket, AnyBucket, Links
<1> QED
  BY <1>1, <1>2, <1>3 DEF Bucket, Links

(* A record whose bytes lie in a bucket.                                    *)
LEMMA RecordIn ==
  ASSUME NEW r \in AnyRecord, r.offset \in 0 .. BUCKET_SIZE
  PROVE  r \in Record
  BY DEF AnyRecord, Record

(* with_record behind the last record of a bucket that has room.            *)
LEMMA AppendRecord ==
  ASSUME NEW bucket \in Bucket, Whole(bucket), NEW r \in AnyRecord,
         bucket.bytes_used + len(r) <= BUCKET_SIZE,
         NEW put, put = bucket.bytes_used,
         NEW new, new = with_record(bucket, put, r)
  PROVE  /\ new \in Bucket /\ Whole(new)
         /\ new.bytes_used = put + len(r)
         /\ new.next_bucket_id = bucket.next_bucket_id
         /\ new.data = bucket.data \cup {copied(r, put)}
<1> DEFINE m == [r EXCEPT !.offset = put]
           d == overwrite(bucket.data, put, r)
           n == bucket.bytes_used + len(r)
<1>1. /\ put \in 0 .. BUCKET_SIZE /\ put \in Int
      /\ bucket.data \in SUBSET AnyRecord /\ bucket.data \in SUBSET Record
      /\ len(r) \in Int /\ len(r) > 0
  BY BucketTypes, LengthPositive
<1>2. m \in AnyRecord /\ m.offset = put /\ len(m) = len(r)
  BY <1>1, Moved
<1>3. m \in Record
  BY <1>1, <1>2, RecordIn
<1> HIDE DEF m
<1>4. \A e \in bucket.data : e.offset + len(e) <= put
  BY DEF Whole, Tiles
<1>5. d = bucket.data \cup {m}
  BY <1>4 DEF overwrite, m
<1>6. Tiles(d, 0, n) /\ n \in 0 .. BUCKET_SIZE
  <2>1. Tiles(bucket.data \cup {m}, 0, put + len(m))
    BY <1>1, <1>2, TilesAppend DEF Whole
  <2> QED
    BY <1>1, <1>2, <1>5, <2>1, SizesAssumption
<1>7. new = [bucket EXCEPT !.data = d, !.bytes_used = n]
  BY DEF with_record
<1>8. d \in SUBSET Record
  BY <1>1, <1>3, <1>5
<1> HIDE DEF d, n
<1>9. /\ new \in Bucket /\ new.data = d /\ new.bytes_used = n
      /\ new.next_bucket_id = bucket.next_bucket_id
  BY <1>6, <1>7, <1>8 DEF Bucket
<1>10. new.data = bucket.data \cup {copied(r, put)}
  BY <1>5, <1>9 DEF copied, m
<1> QED
  BY <1>6, <1>9, <1>10 DEF Whole, n

(* without_record of one of a bucket's records.                             *)
LEMMA RemoveRecord ==
  ASSUME NEW bucket \in Bucket, Whole(bucket), NEW r \in bucket.data,
         NEW new, new = without_record(bucket, r)
  PROVE  /\ new \in Bucket /\ Whole(new) /\ new.next_bucket_id = bucket.next_bucket_id
         /\ new.data = remove_bytes(bucket.data, r)
<1> DEFINE d == remove_bytes(bucket.data, r)
           n == bucket.bytes_used - len(r)
<1>1. /\ bucket.bytes_used \in 0 .. BUCKET_SIZE /\ bucket.bytes_used \in Int
      /\ bucket.data \in SUBSET AnyRecord
      /\ r \in AnyRecord /\ r.offset \in Int /\ len(r) \in Int /\ len(r) > 0
  BY BucketTypes, LengthPositive DEF AnyRecord
<1>2. d \in SUBSET AnyRecord /\ Tiles(d, 0, n)
  BY <1>1, TilesRemove DEF Whole
<1>3. 0 <= r.offset /\ r.offset + len(r) <= bucket.bytes_used
  BY DEF Whole, Tiles
<1>4. n \in 0 .. BUCKET_SIZE
  BY <1>1, <1>3, SizesAssumption
<1>5. new = [bucket EXCEPT !.data = d, !.bytes_used = n]
  BY DEF without_record
<1> HIDE DEF d, n
<1>6. \A e \in d : e.offset \in 0 .. BUCKET_SIZE
  <2> TAKE e \in d
  <2>1. /\ e.offset \in Int /\ len(e) \in Int /\ len(e) > 0
        /\ 0 <= e.offset /\ e.offset + len(e) <= n
    BY <1>2, LengthPositive DEF Tiles, AnyRecord
  <2> QED
    BY <1>4, <2>1, SizesAssumption
<1>7. d \in SUBSET Record
  BY <1>2, <1>6, RecordIn
<1>8. /\ new \in Bucket /\ new.data = d /\ new.bytes_used = n
      /\ new.next_bucket_id = bucket.next_bucket_id
  BY <1>4, <1>5, <1>7 DEF Bucket
<1> QED
  BY <1>2, <1>8 DEF Whole, d

(* split begins to read a bucket, and has read it to the end.               *)
LEMMA ReadFirst ==
  ASSUME NEW bucket \in Bucket, Whole(bucket),
         NEW new, new = [bucket EXCEPT !.bytes_used = 0]
  PROVE  /\ new \in Bucket /\ Partly(new, 0, bucket.bytes_used)
         /\ new.bytes_used = 0
         /\ new.next_bucket_id = bucket.next_bucket_id
<1>1. /\ new \in Bucket /\ new.data = bucket.data /\ new.bytes_used = 0
      /\ new.next_bucket_id = bucket.next_bucket_id
  BY SizesAssumption DEF Bucket
<1>2. \A r \in bucket.data : r.offset >= 0
  <2> TAKE r \in bucket.data
  <2>1. r.offset \in Int /\ 0 <= r.offset
    BY BucketTypes DEF Whole, Tiles, AnyRecord
  <2> QED
    BY <2>1
<1>3. From(bucket.data, 0) = bucket.data
  BY <1>2 DEF From
<1>4. bucket.data \ bucket.data = {}
  OBVIOUS
<1> QED
  BY <1>1, <1>3, <1>4, TilesEmpty DEF Partly, Whole

(* When split has read the last record, what is left is packed.             *)
LEMMA ReadLast ==
  ASSUME NEW bucket \in Bucket, NEW p \in Int, Partly(bucket, p, p)
  PROVE  Whole(bucket)
<1>1. From(bucket.data, p) = {}
  BY DEF Partly, Tiles
<1>2. bucket.data \ {} = bucket.data
  OBVIOUS
<1> QED
  BY <1>1, <1>2 DEF Partly, Whole

(* The record at the read position is read: the rest is still to be read.   *)
LEMMA ReadNext ==
  ASSUME NEW bucket \in Bucket, NEW p \in Int, NEW l \in Int, Partly(bucket, p, l),
         NEW r \in bucket.data, r.offset = p
  PROVE  /\ r \in AnyRecord /\ len(r) \in Int /\ len(r) > 0 /\ p + len(r) <= l
         /\ From(bucket.data, p) \ {r} = From(bucket.data \ {r}, p + len(r))
         /\ Tiles(From(bucket.data, p) \ {r}, p + len(r), l)
         /\ \A q \in From(bucket.data, p) \ {r} : q.offset >= p + len(r)
<1> DEFINE U == From(bucket.data, p)
<1>1. /\ bucket.data \in SUBSET AnyRecord /\ r \in AnyRecord
      /\ len(r) \in Int /\ len(r) > 0
      /\ \A q \in bucket.data : q.offset \in Int
  BY BucketTypes, LengthPositive DEF AnyRecord
<1>2. r \in U /\ U \in SUBSET AnyRecord /\ Tiles(U, p, l)
  BY <1>1 DEF From, Partly
<1> HIDE DEF U
<1>3. /\ Tiles(U \ {r}, p + len(r), l) /\ p + len(r) <= l
      /\ \A q \in U \ {r} : q.offset >= p + len(r)
  BY <1>2, TilesTail
<1>4. U \ {r} = From(bucket.data \ {r}, p + len(r))
  BY <1>1, <1>3 DEF From, U
<1> QED
  BY <1>1, <1>3, <1>4 DEF U

(* ... and copied to another bucket,                                        *)
LEMMA ReadAway ==
  ASSUME NEW bucket \in Bucket, NEW p \in Int, NEW l \in Int, Partly(bucket, p, l),
         NEW r \in bucket.data, r.offset = p,
         NEW new, new = [bucket EXCEPT !.data = bucket.data \ {r}]
  PROVE  /\ new \in Bucket /\ Partly(new, p + len(r), l)
         /\ new.bytes_used = bucket.bytes_used
         /\ new.next_bucket_id = bucket.next_bucket_id
<1> DEFINE U == From(bucket.data, p)
           d == bucket.data \ {r}
<1>1. d \in SUBSET Record
  BY BucketTypes
<1> HIDE DEF d
<1>2. /\ new \in Bucket /\ new.data = d /\ new.bytes_used = bucket.bytes_used
      /\ new.next_bucket_id = bucket.next_bucket_id
  BY <1>1 DEF Bucket, d
<1>3. /\ U \ {r} = From(d, p + len(r)) /\ Tiles(U \ {r}, p + len(r), l)
      /\ len(r) \in Int /\ len(r) > 0
  BY ReadNext, ZenonT(30) DEF d
<1>4. d \ (U \ {r}) = bucket.data \ U
  BY SMTT(30) DEF d, From
<1>5. new.bytes_used <= p + len(r)
  BY <1>2, <1>3, BucketTypes DEF Partly
<1> HIDE DEF U
<1>6. Tiles(bucket.data \ U, 0, bucket.bytes_used)
  BY DEF Partly, U
<1> QED
  BY <1>2, <1>3, <1>4, <1>5, <1>6 DEF Partly

(* ... or to the same one, where it goes at or before where it was.         *)
LEMMA ReadAndPut ==
  ASSUME NEW bucket \in Bucket, NEW p \in Int, NEW l \in Int, Partly(bucket, p, l),
         l <= BUCKET_SIZE,
         NEW r \in bucket.data, r.offset = p, NEW put, put = bucket.bytes_used,
         NEW out, out = [bucket EXCEPT !.data = bucket.data \ {r}],
         NEW new, new = with_record(out, put, r)
  PROVE  /\ new \in Bucket /\ Partly(new, p + len(r), l)
         /\ new.bytes_used = put + len(r)
         /\ new.next_bucket_id = bucket.next_bucket_id
         /\ new.data = (bucket.data \ {r}) \cup {copied(r, put)}
<1> DEFINE U == From(bucket.data, p)
           m == [r EXCEPT !.offset = put]
           d == overwrite(out.data, put, r)
           n == out.bytes_used + len(r)
<1>1. /\ put \in Int /\ put \in 0 .. BUCKET_SIZE /\ put <= p
      /\ bucket.data \in SUBSET AnyRecord /\ bucket.data \in SUBSET Record
      /\ \A q \in bucket.data : q.offset \in Int /\ len(q) \in Int /\ len(q) > 0
  BY BucketTypes, LengthPositive DEF Partly, AnyRecord
<1>2. /\ r \in AnyRecord /\ len(r) \in Int /\ len(r) > 0 /\ p + len(r) <= l
      /\ U \ {r} = From(bucket.data \ {r}, p + len(r))
      /\ Tiles(U \ {r}, p + len(r), l)
      /\ \A q \in U \ {r} : q.offset >= p + len(r)
  BY ReadNext
<1>3. m \in AnyRecord /\ m.offset = put /\ len(m) = len(r)
  BY <1>1, <1>2, Moved
<1>4. m \in Record
  BY <1>1, <1>3, RecordIn
<1>5. Tiles(bucket.data \ U, 0, put)
  BY DEF Partly
<1>6. \A q \in bucket.data \ U : q.offset + len(q) <= put /\ q.offset < p
  <2>1. \A q \in bucket.data \ U : q.offset + len(q) <= put
    BY <1>5 DEF Tiles
  <2> QED
    BY <1>1, <2>1
<1> HIDE DEF m, U
<1>7. out \in Bucket /\ out.data = bucket.data \ {r} /\ out.bytes_used = put
      /\ out.next_bucket_id = bucket.next_bucket_id
  BY ReadAway DEF Bucket
<1>8. d = (bucket.data \ {r}) \cup {m}
  <2>1. \A q \in out.data : q.offset + len(q) <= put \/ q.offset >= put + len(r)
    BY <1>1, <1>2, <1>6, <1>7
  <2> QED
    BY <1>7, <2>1 DEF overwrite, m
<1>9. From(d, p + len(r)) = U \ {r}
  <2>1. ~(m.offset >= p + len(r))
    BY <1>1, <1>2, <1>3
  <2> QED
    BY <1>2, <1>8, <2>1 DEF From
<1>10. d \ (U \ {r}) = (bucket.data \ U) \cup {m}
  <2>1. m \notin U \ {r} /\ r \in U
    BY <1>1, <1>2, <1>3 DEF From, U
  <2> QED
    BY <1>8, <2>1 DEF From, U
<1>11. Tiles((bucket.data \ U) \cup {m}, 0, put + len(r))
  <2>1. bucket.data \ U \in SUBSET AnyRecord
    BY <1>1
  <2>2. Tiles((bucket.data \ U) \cup {m}, 0, put + len(m))
    BY <1>1, <1>3, <1>5, <2>1, TilesAppend
  <2> QED
    BY <1>3, <2>2
<1>12. n = put + len(r) /\ n \in 0 .. BUCKET_SIZE /\ n <= p + len(r)
  BY <1>1, <1>2, <1>7, SizesAssumption
<1>13. d \in SUBSET Record
  BY <1>1, <1>4, <1>8
<1>14. new = [out EXCEPT !.data = d, !.bytes_used = n]
  BY DEF with_record
<1> HIDE DEF d, n
<1>15. /\ new \in Bucket /\ new.data = d /\ new.bytes_used = n
       /\ new.next_bucket_id = out.next_bucket_id
  BY <1>7, <1>12, <1>13, <1>14 DEF Bucket
<1>16. new.data = (bucket.data \ {r}) \cup {copied(r, put)}
  BY <1>8, <1>15 DEF copied, m
<1> QED
  BY <1>2, <1>7, <1>9, <1>10, <1>11, <1>12, <1>15, <1>16 DEF Partly

-----------------------------------------------------------------------------
(* The buckets that count are in the array.                                 *)
LEMMA AllocatedIds == Inv({}) => Allocated \subseteq Ids /\ buckets_count \in Nat
  BY IdsValid, SizesAssumption DEF Inv, Live, Typed, Allocated

(* create_bucket extends the file when the mapping is too short.            *)
LEMMA FileGrows ==
  ASSUME Inv({}), Mapped, create_bucket
  PROVE  Mapped'
<1>1. buckets_count \in Nat
  BY AllocatedIds
<1>2. sizeof_bucket \in Nat /\ sizeof_layout = 20 + sizeof_bucket
  BY SizesAssumption DEF sizeof_bucket, sizeof_layout
<1> DEFINE used == buckets_count * sizeof_bucket
<1>3. used \in Nat
  BY <1>1, <1>2
<1>4. (buckets_count + 1) * sizeof_bucket = used + sizeof_bucket
  BY <1>1, <1>2
<1>5. bytes_needed = used + 20 + sizeof_bucket
  BY <1>2, <1>3 DEF bytes_needed
<1>6. CASE first_free_bucket_id = INVALID_BUCKET_ID
  <2>1. /\ buckets_count' = buckets_count + 1
        /\ length' = IF bytes_needed > length THEN (bytes_needed * 11) \div 10 ELSE length
    BY <1>6 DEF create_bucket
  <2> HIDE DEF used
  <2>2. length' \in Nat /\ length' >= bytes_needed
    BY <1>2, <1>3, <1>5, <2>1 DEF Mapped
  <2>3. buckets_count' * sizeof_bucket = used + sizeof_bucket
    BY <1>4, <2>1
  <2> QED
    BY <1>2, <1>3, <1>5, <2>2, <2>3 DEF Mapped, InMapping, sizeof_bucket
<1>7. CASE first_free_bucket_id # INVALID_BUCKET_ID
  BY <1>7 DEF create_bucket, Mapped, InMapping, sizeof_bucket
<1> QED
  BY <1>6, <1>7

(* Between two calls, and in a call other than split, no bucket is read.    *)
LEMMA NotReading ==
  ASSUME PackedInv, pc # "split"
  PROVE  \A b \in Allocated : Whole(buckets[b])
  BY DEF PackedInv, PackedAt, reading

(* Outside split, the invariant says that each bucket is packed.            *)
LEMMA NotSplitting ==
  ASSUME Inv({})', Bounded', Mapped', pc' \notin {"split", "free"},
         \A b \in Allocated' : Whole(buckets'[b])
  PROVE  PackedInv'
  BY DEF PackedInv, PackedAt, reading, PutPositions, SplitPaths, FreedPath

(* Steps that write no bucket.                                              *)
LEMMA QuietStep ==
  ASSUME PackedInv, Inv({})', Locals', UNCHANGED <<buckets_count, buckets, length>>,
         pc \notin {"split", "free"}, pc' \notin {"split", "free"}
  PROVE  PackedInv'
<1>1. Bounded' /\ Mapped'
  BY DEF PackedInv, Bounded, Mapped, InMapping, sizeof_bucket
<1>2. \A b \in Allocated' : Whole(buckets'[b])
  BY NotReading DEF Allocated
<1> QED
  BY <1>1, <1>2, NotSplitting

(* The values the constructor gives the locals have their types.            *)
LEMMA LinkTypes ==
  /\ INVALID_BUCKET_ID \in Links /\ Ids \subseteq Links
  /\ NoArg \in Arguments /\ NoResult \in Results /\ NoSplit \in SplitLocals
  BY IdsValid, SizesAssumption
     DEF Links, NoArg, NoResult, NoSplit, Arguments, Results, SplitLocals

(* find_record, remove_record or create_record is called.                   *)
LEMMA PackedCall ==
  ASSUME PackedInv, Inv({})', NEW name \in {"find", "remove", "create"}, NEW b \in heads,
         NEW k \in Keys, NEW v \in Values \cup {NoValue},
         Call(name, b, k, v), UNCHANGED <<layout_vars, heads, sp>>
  PROVE  PackedInv'
<1>1. /\ pc = "idle" /\ pc' = name /\ cursor' = b /\ result' = NoResult
      /\ arg' = [bucket_id |-> b, key |-> k, value |-> v]
      /\ UNCHANGED <<buckets_count, buckets, length, sp>>
  BY DEF Call, layout_vars
<1>2. b \in Links
  BY AllocatedIds, LinkTypes DEF PackedInv, Inv, Live, Typed
<1>3. arg' \in Arguments
  BY <1>1, <1>2 DEF Arguments
<1>4. Locals'
  BY <1>1, <1>2, <1>3, LinkTypes DEF PackedInv, Bounded, Locals
<1> QED
  BY <1>1, <1>4, QuietStep

(* A chain walk goes on to the next bucket.                                 *)
LEMMA PackedWalk ==
  ASSUME PackedInv, Inv({})', pc \in {"find", "remove", "create"}, WalkOn
  PROVE  PackedInv'
<1>1. UNCHANGED <<buckets_count, buckets, length, sp, pc, arg, result>>
  BY DEF WalkOn, layout_vars
<1>2. cursor' \in Links
  BY <1>1, AllocatedIds, LinkTypes DEF Inv, Live, Typed, Allocated, PackedInv
<1>3. Locals'
  BY <1>1, <1>2 DEF PackedInv, Bounded, Locals
<1> QED
  BY <1>1, <1>3, QuietStep

(* find_record returns, or remove_record without a match.                   *)
LEMMA PackedReturn ==
  ASSUME PackedInv, Inv({})', FindHit \/ FindMiss \/ RemoveMiss
  PROVE  PackedInv'
<1>1. /\ UNCHANGED <<buckets_count, buckets, length, sp>>
      /\ pc \in {"find", "remove"} /\ pc' = "idle"
      /\ arg' = NoArg /\ cursor' = INVALID_BUCKET_ID
  BY DEF FindHit, FindMiss, RemoveMiss, Return, layout_vars
<1>2. result' \in Results
  <2>1. CASE FindHit
    <3>1. PICK r \in first_match(cursor, arg.key) :
            result' = [NoResult EXCEPT !.found = TRUE, !.value = r.value]
      BY <2>1 DEF FindHit, Return
    <3>2. cursor \in Ids /\ buckets \in [Ids -> Bucket]
      BY <1>1, AllocatedIds DEF PackedInv, Inv, Live, Typed, Bounded
    <3>3. r \in AnyRecord
      BY <3>2, BucketTypes DEF first_match, matches
    <3>4. r.value \in Values
      BY <3>3 DEF AnyRecord
    <3> QED
      BY <3>1, <3>4, LinkTypes DEF NoResult, Results
  <2>2. CASE FindMiss \/ RemoveMiss
    BY <2>2, LinkTypes DEF FindMiss, RemoveMiss, Return
  <2> QED
    BY <2>1, <2>2
<1>3. Locals'
  BY <1>1, <1>2, LinkTypes DEF PackedInv, Bounded, Locals
<1> QED
  BY <1>1, <1>3, QuietStep

(* Steps of the other calls that write one bucket.                          *)
LEMMA PackedRemoveHit ==
  ASSUME PackedInv, Inv({})', RemoveHit
  PROVE  PackedInv'
<1>1. /\ UNCHANGED <<buckets_count, length, sp>>
      /\ pc = "remove" /\ pc' = "idle"
      /\ arg' = NoArg /\ cursor' = INVALID_BUCKET_ID
      /\ result' = [NoResult EXCEPT !.found = TRUE]
  BY DEF RemoveHit, Return
<1>2. PICK r \in first_match(cursor, arg.key) :
        buckets' = [buckets EXCEPT ![cursor] = without_record(buckets[cursor], r)]
  BY DEF RemoveHit
<1>3. cursor \in Allocated /\ Allocated \subseteq Ids /\ buckets \in [Ids -> Bucket]
  BY <1>1, AllocatedIds DEF PackedInv, Inv, Live, Typed, Bounded
<1>4. Whole(buckets[cursor]) /\ r \in buckets[cursor].data /\ buckets[cursor] \in Bucket
  BY <1>1, <1>3, NotReading DEF first_match, matches
<1> DEFINE new == without_record(buckets[cursor], r)
<1>5. new \in Bucket /\ Whole(new)
  BY <1>4, RemoveRecord
<1> HIDE DEF new
<1>6. result' \in Results
  BY <1>1, LinkTypes DEF NoResult, Results
<1>7. Bounded'
  BY <1>1, <1>2, <1>3, <1>5, <1>6, LinkTypes DEF PackedInv, Bounded, Locals, new
<1>8. \A b \in Allocated' : Whole(buckets'[b])
  BY <1>1, <1>2, <1>3, <1>5, NotReading DEF Allocated, new
<1>9. Mapped'
  BY <1>1 DEF PackedInv, Mapped, InMapping, sizeof_bucket
<1> QED
  BY <1>1, <1>7, <1>8, <1>9, NotSplitting

(* create_record writes its record behind the last one.                     *)
LEMMA PackedCreateWrite ==
  ASSUME PackedInv, Inv({})', CreateWrite
  PROVE  PackedInv'
<1> DEFINE put == buckets[cursor].bytes_used
           r == [offset |-> put, key |-> arg.key, value |-> arg.value]
           new == with_record(buckets[cursor], put, r)
<1>1. /\ UNCHANGED <<buckets_count, length, sp>>
      /\ pc = "create" /\ pc' = "idle"
      /\ arg' = NoArg /\ cursor' = INVALID_BUCKET_ID
      /\ result' = [NoResult EXCEPT !.value = arg.value]
      /\ put + arg_length <= BUCKET_SIZE
      /\ buckets' = [buckets EXCEPT ![cursor] = new]
  BY DEF CreateWrite, Return
<1>2. /\ cursor \in Allocated /\ Allocated \subseteq Ids /\ buckets \in [Ids -> Bucket]
      /\ arg.key \in Keys /\ arg.value \in Values
  BY <1>1, AllocatedIds DEF PackedInv, Inv, Live, Typed, Bounded
<1>3. Whole(buckets[cursor]) /\ buckets[cursor] \in Bucket /\ put \in Int
  BY <1>1, <1>2, NotReading, BucketTypes
<1>4. r \in AnyRecord
  BY <1>2, <1>3 DEF AnyRecord
<1>5. len(r) = arg_length
  BY DEF len, arg_length
<1> HIDE DEF r
<1>6. put + len(r) <= BUCKET_SIZE
  BY <1>1, <1>5
<1>7. new \in Bucket /\ Whole(new)
  BY <1>3, <1>4, <1>6, AppendRecord
<1> HIDE DEF new, put
<1>8. result' \in Results
  BY <1>1, <1>2, LinkTypes DEF NoResult, Results
<1>9. Bounded'
  BY <1>1, <1>2, <1>7, <1>8, LinkTypes DEF PackedInv, Bounded, Locals
<1>10. \A b \in Allocated' : Whole(buckets'[b])
  BY <1>1, <1>2, <1>7, NotReading DEF Allocated
<1>11. Mapped'
  BY <1>1 DEF PackedInv, Mapped, InMapping, sizeof_bucket
<1> QED
  BY <1>1, <1>9, <1>10, <1>11, NotSplitting

(* A new bucket is empty.                                                   *)
LEMMA FreshPacked ==
  ASSUME NEW depth \in 0 .. HASH_BITS
  PROVE  /\ fresh_bucket(depth) \in Bucket /\ Whole(fresh_bucket(depth))
         /\ fresh_bucket(depth).bytes_used = 0
         /\ fresh_bucket(depth).next_bucket_id = INVALID_BUCKET_ID
<1>1. 0 \in 0 .. BUCKET_SIZE /\ INVALID_BUCKET_ID \in Ids \cup {INVALID_BUCKET_ID}
  BY SizesAssumption
<1>2. fresh_bucket(depth) \in Bucket
  BY <1>1 DEF fresh_bucket, Bucket
<1>3. Tiles({}, 0, 0)
  BY TilesEmpty
<1> QED
  BY <1>2, <1>3 DEF fresh_bucket, Whole

(* The id create_bucket returns, as far as the links are concerned.         *)
LEMMA TakesBucket ==
  ASSUME Inv({}), create_bucket, NEW n, n = new_bucket_id
  PROVE  /\ n \in Ids /\ n # INVALID_BUCKET_ID
         /\ Allocated' = Allocated \cup {n}
         /\ \A b \in Allocated : nxt[b] # n
         /\ n \notin heads
         /\ splitting => n # sp.result
         /\ pc \in {"find", "remove", "create"} => n # cursor
         /\ pc = "split" => n # sp.bit0 /\ n # sp.bit1
<1>1. PICK F \in SUBSET Ids : Separates(F, {})
  BY DEF Inv
<1>2. /\ n \in Ids /\ n # INVALID_BUCKET_ID /\ n \notin Allocated \ F
      /\ Allocated' = Allocated \cup {n}
      /\ \A b \in Allocated : nxt[b] # n
  <2>1. /\ n \in Ids /\ n # INVALID_BUCKET_ID /\ n \notin Live({}) \ F
        /\ Live({})' = Live({}) \cup {n}
        /\ \A b \in Live({}) : nxt[b] # n
    BY <1>1, NewBucket
  <2> QED
    BY <2>1 DEF Live
<1>3. /\ heads \subseteq Allocated \ F
      /\ splitting => sp.result \in Allocated \ F
      /\ pc \in {"find", "remove", "create"} => cursor \in Allocated \ F
      /\ pc = "split" => sp.bit0 \in Allocated \ F /\ sp.bit1 \in Allocated \ F
  BY <1>1 DEF Inv, Live, Typed, Separates, HoldsFreeList, CallAvoids
<1> QED
  BY <1>2, <1>3

(* create_bucket, called by the constructor of hash_map.                    *)
LEMMA PackedCreateBucket ==
  ASSUME PackedInv, Inv({})', CreateBucket(1)
  PROVE  PackedInv'
<1>0. PICK n : n = new_bucket_id
  OBVIOUS
<1>1. /\ create_bucket /\ pc = "idle" /\ UNCHANGED <<pc, arg, cursor, sp>>
      /\ buckets' = [buckets EXCEPT ![n] = fresh_bucket(1)]
      /\ result' = [NoResult EXCEPT !.bucket_id = n]
  BY <1>0 DEF CreateBucket
<1>2. n \in Ids /\ Allocated' = Allocated \cup {n}
  BY <1>0, <1>1, TakesBucket DEF PackedInv
<1>3. 1 \in 0 .. HASH_BITS
  BY SizesAssumption
<1>4. fresh_bucket(1) \in Bucket /\ Whole(fresh_bucket(1))
  BY <1>3, FreshPacked
<1>5. result' \in Results
  BY <1>1, <1>2, LinkTypes DEF NoResult, Results
<1>6. Allocated \subseteq Ids /\ buckets \in [Ids -> Bucket]
  BY AllocatedIds DEF PackedInv, Bounded
<1>7. Bounded'
  BY <1>1, <1>2, <1>4, <1>5 DEF PackedInv, Bounded, Locals
<1>8. \A b \in Allocated' : Whole(buckets'[b])
  BY <1>1, <1>2, <1>4, <1>6, NotReading
<1>9. Mapped'
  BY <1>1, FileGrows DEF PackedInv
<1> QED
  BY <1>1, <1>7, <1>8, <1>9, NotSplitting

(* append_bucket links an empty bucket behind b; no record moves.           *)
LEMMA AppendEmpty ==
  ASSUME buckets \in [Ids -> Bucket], NEW b \in Ids, NEW depth \in 0 .. HASH_BITS,
         NEW n \in Ids, n = new_bucket_id, n # b,
         NEW bs, bs = append_bucket(b, depth)
  PROVE  /\ bs \in [Ids -> Bucket]
         /\ bs[n].bytes_used = 0 /\ Whole(bs[n]) /\ bs[n].data = {}
         /\ bs[n].next_bucket_id = INVALID_BUCKET_ID
         /\ bs[b].next_bucket_id = n
         /\ \A x \in Ids \ {n} : /\ bs[x].data = buckets[x].data
                                /\ bs[x].bytes_used = buckets[x].bytes_used
         /\ \A x \in Ids \ {n, b} : bs[x] = buckets[x]
<1> DEFINE m == [buckets[b] EXCEPT !.next_bucket_id = n]
           old == [buckets EXCEPT ![n] = fresh_bucket(depth)]
<1>1. bs = [old EXCEPT ![b] = m]
  BY DEF append_bucket
<1>2. /\ m \in Bucket /\ m.next_bucket_id = n /\ m.data = buckets[b].data
      /\ m.bytes_used = buckets[b].bytes_used
  BY DEF Bucket
<1>3. /\ fresh_bucket(depth) \in Bucket /\ Whole(fresh_bucket(depth))
      /\ fresh_bucket(depth).bytes_used = 0 /\ fresh_bucket(depth).data = {}
      /\ fresh_bucket(depth).next_bucket_id = INVALID_BUCKET_ID
  BY FreshPacked DEF fresh_bucket
<1> HIDE DEF m
<1> QED
  BY <1>1, <1>2, <1>3

(* create_record appends a bucket to the chain.                             *)
LEMMA PackedCreateGrow ==
  ASSUME PackedInv, Inv({})', CreateGrow
  PROVE  PackedInv'
<1>0. PICK n : n = new_bucket_id
  OBVIOUS
<1> DEFINE depth == buckets[cursor].prefix_bits
<1>1. /\ create_bucket /\ pc = "create" /\ cursor' = n
      /\ UNCHANGED <<pc, arg, sp, result>>
      /\ buckets' = append_bucket(cursor, depth)
  BY <1>0 DEF CreateGrow
<1>2. n \in Ids /\ Allocated' = Allocated \cup {n} /\ n # cursor
  BY <1>0, <1>1, TakesBucket DEF PackedInv
<1>3. /\ Allocated \subseteq Ids /\ buckets \in [Ids -> Bucket] /\ cursor \in Ids
      /\ depth \in 0 .. HASH_BITS
  BY <1>1, AllocatedIds, BucketTypes DEF PackedInv, Bounded, Inv, Live, Typed
<1> HIDE DEF depth
<1>4. /\ buckets' \in [Ids -> Bucket] /\ Whole(buckets'[n])
      /\ \A x \in Ids \ {n} : /\ buckets'[x].data = buckets[x].data
                             /\ buckets'[x].bytes_used = buckets[x].bytes_used
  BY <1>0, <1>1, <1>2, <1>3, AppendEmpty
<1>5. Bounded'
  BY <1>1, <1>2, <1>4, LinkTypes DEF PackedInv, Bounded, Locals
<1>6. \A b \in Allocated' : Whole(buckets'[b])
  <2> TAKE b \in Allocated'
  <2>1. CASE b = n
    BY <1>4, <2>1
  <2>2. CASE b # n
    <3>1. b \in Allocated /\ b \in Ids \ {n}
      BY <1>2, <1>3, <2>2
    <3>2. Whole(buckets[b])
      BY <1>1, <3>1, NotReading
    <3> QED
      BY <1>4, <3>1, <3>2 DEF Whole
  <2> QED
    BY <2>1, <2>2
<1>7. Mapped'
  BY <1>1, FileGrows DEF PackedInv
<1> QED
  BY <1>1, <1>5, <1>6, <1>7, NotSplitting

-----------------------------------------------------------------------------
(* A path is a matter of the links of its nodes; a node alone is one.       *)
LEMMA PathKept ==
  ASSUME NEW next, NEW new, NEW S, NEW first, NEW last, Path(next, S, first, last),
         \A x \in S : new[x] = next[x]
  PROVE  Path(new, S, first, last)
  BY DEF Path

(* One node is a path.                                                      *)
LEMMA PathOne ==
  ASSUME NEW next, NEW b, next[b] # b
  PROVE  Path(next, {b}, b, b)
  BY DEF Path

(* It goes on to the node behind its last one, which is not on it yet when  *)
(* no node has two predecessors and the first has none.                     *)
LEMMA PathGrows ==
  ASSUME NEW next, NEW A, NEW S \in SUBSET A, NEW first, NEW last,
         Path(next, S, first, last), next[last] \in A,
         \A x \in A : next[x] # first,
         \A x, y \in A : x # y /\ next[x] \in A => next[x] # next[y]
  PROVE  /\ Path(next, S \cup {next[last]}, first, next[last])
         /\ next[last] \notin S
<1> DEFINE l == next[last]
           T == S \cup {l}
<1>1. l \notin S /\ last \in S /\ first \in S
  BY DEF Path
<1>2. \A b \in T \ {l} : next[b] \in T
  BY DEF Path
<1>3. next[l] \notin T
  <2>1. next[l] # l
    BY <1>1
  <2>2. ASSUME next[l] \in S PROVE FALSE
    <3>1. next[l] # first
      OBVIOUS
    <3>2. PICK a \in S : next[a] = next[l]
      BY <2>2, <3>1 DEF Path
    <3> QED
      BY <1>1, <2>2, <3>2
  <2> QED
    BY <2>1, <2>2
<1>4. \A b \in T \ {first} : \E a \in T : next[a] = b
  BY <1>1 DEF Path
<1> QED
  BY <1>1, <1>2, <1>3, <1>4 DEF Path

(* It ends behind another node after a new node is linked there.            *)
LEMMA PathLinked ==
  ASSUME NEW next, NEW new, NEW S, NEW first, NEW last, Path(next, S, first, last),
         NEW n, n \notin S, \A x \in S \ {last} : new[x] = next[x],
         new[last] = n, new[n] \notin S \cup {n}
  PROVE  Path(new, S \cup {n}, first, n)
<1> DEFINE T == S \cup {n}
<1>1. \A b \in T \ {n} : new[b] \in T
  BY DEF Path
<1>2. \A b \in T \ {first} : \E a \in T : new[a] = b
  <2> TAKE b \in T \ {first}
  <2>1. CASE b = n
    BY <2>1 DEF Path
  <2>2. CASE b # n
    <3>1. PICK a \in S : next[a] = b
      BY <2>2 DEF Path
    <3>2. a # last
      BY <2>2, <3>1 DEF Path
    <3> QED
      BY <3>1, <3>2
  <2> QED
    BY <2>1, <2>2
<1> QED
  BY <1>1, <1>2 DEF Path

-----------------------------------------------------------------------------
(* What is known in the main loop of split.                                 *)
LEMMA InSplit ==
  ASSUME PackedInv, pc = "split"
  PROVE  /\ sp \in SplitLocals /\ arg \in Arguments /\ arg.bucket_id \in heads
         /\ sp.prefix_bits \in 0 .. HASH_BITS
         /\ sp.bit0_put \in 0 .. BUCKET_SIZE /\ sp.bit1_put \in 0 .. BUCKET_SIZE
         /\ sp.get_ptr \in 0 .. BUCKET_SIZE /\ sp.get_last \in 0 .. BUCKET_SIZE
         /\ sp.get_ptr \in Int /\ sp.get_last \in Int
         /\ sp.get \in Ids /\ sp.bit0 \in Ids /\ sp.bit1 \in Ids
         /\ sp.bit0_put = buckets[sp.bit0].bytes_used
         /\ sp.bit1_put = buckets[sp.bit1].bytes_used
         /\ buckets \in [Ids -> Bucket] /\ Allocated \subseteq Ids
         /\ \E P, W, Q \in SUBSET Ids : Splits(P, W, Q)
<1>1. sp \in SplitLocals /\ arg \in Arguments
  BY DEF PackedInv, Bounded, Locals
<1>2. /\ sp.prefix_bits \in 0 .. HASH_BITS
      /\ sp.bit0_put \in 0 .. BUCKET_SIZE /\ sp.bit1_put \in 0 .. BUCKET_SIZE
      /\ sp.get_ptr \in 0 .. BUCKET_SIZE /\ sp.get_last \in 0 .. BUCKET_SIZE
      /\ sp.get \in Ids /\ sp.bit0 \in Ids /\ sp.bit1 \in Ids
  BY <1>1 DEF SplitLocals
<1>3. sp.get_ptr \in Int /\ sp.get_last \in Int
  BY <1>2, SizesAssumption
<1>4. /\ arg.bucket_id \in heads
      /\ sp.bit0_put = buckets[sp.bit0].bytes_used
      /\ sp.bit1_put = buckets[sp.bit1].bytes_used
      /\ \E P, W, Q \in SUBSET Ids : Splits(P, W, Q)
  BY DEF PackedInv, SplitPaths, PutPositions
<1>5. buckets \in [Ids -> Bucket] /\ Allocated \subseteq Ids
  BY AllocatedIds DEF PackedInv, Bounded
<1> QED
  BY <1>1, <1>2, <1>3, <1>4, <1>5

(* The chains are disjoint, and nothing is linked to their first buckets.   *)
LEMMA SplitPlaces ==
  ASSUME PackedInv, pc = "split", NEW P \in SUBSET Ids, NEW W \in SUBSET Ids,
         NEW Q \in SUBSET Ids, Splits(P, W, Q)
  PROVE  /\ sp.get \in P /\ sp.bit0 \in W /\ sp.bit0 \in P /\ sp.bit1 \in Q
         /\ sp.get \in Allocated /\ sp.bit0 \in Allocated /\ sp.bit1 \in Allocated
         /\ sp.bit1 # sp.get /\ sp.bit1 # sp.bit0
         /\ Partly(buckets[sp.get], sp.get_ptr, sp.get_last)
         /\ \A b \in Allocated \ {sp.get} : Whole(buckets[b])
         /\ \A x \in Allocated : nxt[x] # arg.bucket_id /\ nxt[x] # sp.result
         /\ \A x, y \in Allocated : x # y /\ nxt[x] \in Allocated => nxt[x] # nxt[y]
<1>1. /\ sp.get \in P /\ sp.bit0 \in W /\ sp.bit1 \in Q
      /\ P \cup Q \subseteq Allocated /\ W \subseteq P /\ P \cap Q = {}
  BY DEF Splits, Path
<1>2. /\ Partly(buckets[sp.get], sp.get_ptr, sp.get_last)
      /\ \A b \in Allocated \ {sp.get} : Whole(buckets[b])
  BY <1>1 DEF PackedInv, PackedAt, reading
<1>3. INVALID_BUCKET_ID \notin Allocated
  BY AllocatedIds, IdsValid DEF PackedInv
<1>4. \A x \in Allocated : nxt[x] # arg.bucket_id /\ nxt[x] # sp.result
  <2>1. arg.bucket_id \in heads /\ heads \subseteq Allocated
        /\ sp.result \in Allocated /\ splitting
    BY InSplit DEF PackedInv, Inv, Live, Typed, splitting
  <2> QED
    BY <1>3, <2>1 DEF PackedInv, Inv, Live, OneReference
<1>5. \A x, y \in Allocated : x # y /\ nxt[x] \in Allocated => nxt[x] # nxt[y]
  BY <1>3 DEF PackedInv, Inv, Live, OneReference
<1> QED
  BY <1>1, <1>2, <1>4, <1>5

(* What is to be shown of a step of the main loop.                          *)
LEMMA SplitDone ==
  ASSUME Inv({})', pc' = "split", buckets' \in [Ids -> Bucket], Locals', Mapped',
         Partly(buckets'[sp'.get], sp'.get_ptr, sp'.get_last),
         \A b \in Allocated' \ {sp'.get} : Whole(buckets'[b]),
         PutPositions', arg'.bucket_id \in heads',
         NEW P \in SUBSET Ids, NEW W \in SUBSET Ids, NEW Q \in SUBSET Ids,
         Splits(P, W, Q)'
  PROVE  PackedInv'
<1>1. \A b \in Allocated' : PackedAt(b)'
  BY DEF PackedAt, reading
<1>2. Bounded'
  BY DEF Bounded
<1>3. SplitPaths'
  BY DEF SplitPaths
<1>4. FreedPath'
  BY DEF FreedPath
<1> QED
  BY <1>1, <1>2, <1>3, <1>4 DEF PackedInv

(* Record r of bucket g is m in bucket t; nothing else changes.             *)
Transfers(bs, new, g, r, t, m) ==
    \A x \in Ids :
      new[x].data = (IF x = g THEN bs[x].data \ {r} ELSE bs[x].data)
                      \cup (IF x = t THEN {m} ELSE {})

(* A record of the bucket being read goes to the end of bucket t of bs.     *)
LEMMA MoveTo ==
  ASSUME NEW bs \in [Ids -> Bucket], NEW A \in SUBSET Ids, sp.get \in A, NEW t \in A,
         NEW p \in Int, NEW l \in Int, l <= BUCKET_SIZE,
         Partly(bs[sp.get], p, l), \A x \in A \ {sp.get} : Whole(bs[x]),
         NEW r \in bs[sp.get].data, r.offset = p,
         NEW put, put = bs[t].bytes_used, put + len(r) <= BUCKET_SIZE,
         NEW new, new = move_record(bs, r, t, put)
  PROVE  /\ new \in [Ids -> Bucket]
         /\ p + len(r) \in Int /\ p + len(r) <= l /\ p < p + len(r)
         /\ Partly(new[sp.get], p + len(r), l)
         /\ \A x \in A \ {sp.get} : Whole(new[x])
         /\ new[t].bytes_used = put + len(r)
         /\ \A x \in Ids \ {t} : new[x].bytes_used = bs[x].bytes_used
         /\ \A x \in Ids : new[x].next_bucket_id = bs[x].next_bucket_id
         /\ Transfers(bs, new, sp.get, r, t, copied(r, put))
<1> DEFINE out == [bs[sp.get] EXCEPT !.data = bs[sp.get].data \ {r}]
           read == [bs EXCEPT ![sp.get] = out]
<1>1. /\ r \in AnyRecord /\ len(r) \in Int /\ len(r) > 0 /\ p + len(r) <= l
  BY ReadNext
<1>2. /\ out \in Bucket /\ Partly(out, p + len(r), l)
      /\ out.bytes_used = bs[sp.get].bytes_used
      /\ out.next_bucket_id = bs[sp.get].next_bucket_id
  BY ReadAway
<1>3. new = [read EXCEPT ![t] = with_record(read[t], put, r)]
  BY DEF move_record
<1>4. CASE t = sp.get
  <2> DEFINE put_in == with_record(out, put, r)
  <2>1. /\ put_in \in Bucket /\ Partly(put_in, p + len(r), l)
        /\ put_in.bytes_used = put + len(r)
        /\ put_in.next_bucket_id = bs[sp.get].next_bucket_id
        /\ put_in.data = (bs[sp.get].data \ {r}) \cup {copied(r, put)}
    BY <1>4, ReadAndPut
  <2>2. new = [bs EXCEPT ![sp.get] = put_in]
    BY <1>3, <1>4
  <2> HIDE DEF put_in
  <2>3. /\ new \in [Ids -> Bucket] /\ new[sp.get] = put_in
        /\ \A x \in Ids \ {sp.get} : new[x] = bs[x]
    BY <2>1, <2>2
  <2>4. \A x \in A \ {sp.get} : Whole(new[x])
    BY <2>3
  <2>5. p + len(r) \in Int /\ p < p + len(r)
    BY <1>1
  <2>6. new[t].bytes_used = put + len(r) /\ Partly(new[sp.get], p + len(r), l)
    BY <1>4, <2>1, <2>3
  <2>7. /\ \A x \in Ids \ {t} : new[x].bytes_used = bs[x].bytes_used
        /\ \A x \in Ids : new[x].next_bucket_id = bs[x].next_bucket_id
    BY <1>4, <2>1, <2>3
  <2>8. Transfers(bs, new, sp.get, r, t, copied(r, put))
    BY <1>4, <2>1, <2>3 DEF Transfers
  <2> QED
    BY <1>1, <2>3, <2>4, <2>5, <2>6, <2>7, <2>8
<1>5. CASE t # sp.get
  <2> DEFINE put_in == with_record(bs[t], put, r)
  <2>1. /\ put_in \in Bucket /\ Whole(put_in)
        /\ put_in.bytes_used = put + len(r)
        /\ put_in.next_bucket_id = bs[t].next_bucket_id
        /\ put_in.data = bs[t].data \cup {copied(r, put)}
    BY <1>1, <1>5, AppendRecord
  <2>2. new = [[bs EXCEPT ![sp.get] = out] EXCEPT ![t] = put_in]
    BY <1>3, <1>5
  <2>3. out.data = bs[sp.get].data \ {r}
    BY DEF Bucket
  <2> HIDE DEF put_in, out
  <2>4. Transfers(bs, new, sp.get, r, t, copied(r, put))
    BY <1>5, <2>1, <2>2, <2>3 DEF Transfers
  <2> QED
    BY <1>1, <1>2, <1>5, <2>1, <2>2, <2>4
<1> QED
  BY <1>4, <1>5

-----------------------------------------------------------------------------
(* split reads its first bucket, and has a new chain of one empty bucket.   *)
LEMMA PackedSplitCall ==
  ASSUME PackedInv, Inv({})', NEW b \in heads, buckets[b].prefix_bits < HASH_BITS,
         SplitCall(b)
  PROVE  PackedInv'
<1>0. PICK n : n = new_bucket_id
  OBVIOUS
<1> DEFINE depth == buckets[b].prefix_bits + 1
           last == buckets[b].bytes_used
           deeper == [buckets[b] EXCEPT !.prefix_bits = depth]
           bs == [[buckets EXCEPT ![b] = deeper] EXCEPT ![n] = fresh_bucket(depth)]
           first == [deeper EXCEPT !.bytes_used = 0]
<1>1. /\ create_bucket /\ pc = "idle" /\ pc' = "split" /\ heads' = heads
      /\ cursor' = b /\ result' = NoResult
      /\ arg' = [bucket_id |-> b, key |-> NoValue, value |-> NoValue]
      /\ buckets' = begin_reading(bs, b)
      /\ sp' = [prefix_bits |-> depth, bit0 |-> b, bit0_put |-> 0,
                bit1 |-> n, bit1_put |-> 0, result |-> n, get |-> b,
                get_ptr |-> 0, get_last |-> last]
  BY <1>0 DEF SplitCall, Call
<1>2. /\ n \in Ids /\ n # INVALID_BUCKET_ID /\ Allocated' = Allocated \cup {n}
      /\ n \notin heads /\ \A x \in Allocated : nxt[x] # n
  BY <1>0, <1>1, TakesBucket DEF PackedInv
<1>3. /\ Allocated \subseteq Ids /\ heads \subseteq Allocated /\ b \in Allocated
      /\ buckets \in [Ids -> Bucket] /\ b # n
  BY <1>2, AllocatedIds DEF PackedInv, Bounded, Inv, Live, Typed
<1>4. /\ buckets[b] \in Bucket /\ Whole(buckets[b])
      /\ depth \in 0 .. HASH_BITS /\ last \in 0 .. BUCKET_SIZE
  BY <1>1, <1>3, NotReading, BucketTypes, SizesAssumption
<1> HIDE DEF depth
<1>5. /\ deeper \in Bucket /\ deeper.data = buckets[b].data
      /\ deeper.bytes_used = last /\ deeper.next_bucket_id = buckets[b].next_bucket_id
  BY <1>4 DEF Bucket
<1>6. Whole(deeper)
  BY <1>4, <1>5 DEF Whole
<1> HIDE DEF deeper
<1>7. /\ first \in Bucket /\ Partly(first, 0, last) /\ first.bytes_used = 0
      /\ first.next_bucket_id = buckets[b].next_bucket_id
  BY <1>5, <1>6, ReadFirst
<1>8. /\ fresh_bucket(depth) \in Bucket /\ Whole(fresh_bucket(depth))
      /\ fresh_bucket(depth).bytes_used = 0
      /\ fresh_bucket(depth).next_bucket_id = INVALID_BUCKET_ID
  BY <1>4, FreshPacked
<1>9. buckets' = [bs EXCEPT ![b] = first]
  BY <1>1, <1>3 DEF begin_reading
<1> HIDE DEF first, last
<1>10. /\ buckets' \in [Ids -> Bucket] /\ buckets'[b] = first
       /\ buckets'[n] = fresh_bucket(depth)
       /\ \A x \in Ids \ {b, n} : buckets'[x] = buckets[x]
  BY <1>2, <1>3, <1>5, <1>7, <1>8, <1>9
<1>11. /\ sp'.bit0 = b /\ sp'.bit1 = n /\ sp'.result = n /\ sp'.get = b
       /\ sp'.bit0_put = 0 /\ sp'.bit1_put = 0 /\ sp'.get_ptr = 0 /\ sp'.get_last = last
       /\ sp' \in SplitLocals
  <2>1. b \in Ids /\ n \in Links /\ 0 \in 0 .. BUCKET_SIZE
    BY <1>2, <1>3, LinkTypes, SizesAssumption
  <2> QED
    BY <1>1, <1>2, <1>4, <2>1 DEF SplitLocals
<1>12. arg' \in Arguments /\ arg'.bucket_id = b /\ b \in Links
  BY <1>1, <1>3, LinkTypes DEF Arguments
<1>13. Locals'
  BY <1>1, <1>11, <1>12, LinkTypes DEF Locals
<1>14. Mapped'
  BY <1>1, FileGrows DEF PackedInv
<1>15. PutPositions'
  BY <1>7, <1>8, <1>10, <1>11 DEF PutPositions
<1>16. \A x \in Allocated' \ {b} : Whole(buckets'[x])
  <2> TAKE x \in Allocated' \ {b}
  <2>1. CASE x = n
    BY <1>8, <1>10, <2>1
  <2>2. CASE x # n
    BY <1>1, <1>2, <1>3, <1>10, <2>2, NotReading
  <2> QED
    BY <2>1, <2>2
<1>17. Splits({b}, {b}, {n})'
  <2>1. nxt'[n] = INVALID_BUCKET_ID /\ nxt'[b] = nxt[b]
    BY <1>2, <1>3, <1>7, <1>8, <1>10 DEF nxt
  <2>2. nxt[b] # b
    BY <1>3, IdsValid DEF PackedInv, Inv, Live, OneReference
  <2>3. Path(nxt', {b}, b, b)
    BY <2>1, <2>2, PathOne
  <2>4. Path(nxt', {n}, n, n)
    BY <1>2, <2>1, PathOne
  <2> QED
    BY <1>2, <1>3, <1>11, <1>12, <2>1, <2>3, <2>4 DEF Splits
<1>18. /\ Partly(buckets'[sp'.get], sp'.get_ptr, sp'.get_last)
       /\ \A x \in Allocated' \ {sp'.get} : Whole(buckets'[x])
       /\ arg'.bucket_id \in heads'
  BY <1>1, <1>7, <1>10, <1>11, <1>12, <1>16
<1>19. {b} \in SUBSET Ids /\ {n} \in SUBSET Ids
  BY <1>2, <1>3
<1> QED
  BY <1>1, <1>10, <1>13, <1>14, <1>15, <1>17, <1>18, <1>19, SplitDone

(* A step of the main loop that leaves the links as they are: the paths     *)
(* stay, unless it moves on along them.                                     *)
LEMMA SplitsKept ==
  ASSUME PackedInv, pc = "split", Allocated' = Allocated, arg' = arg,
         NEW P \in SUBSET Ids, NEW W \in SUBSET Ids, NEW Q \in SUBSET Ids,
         Splits(P, W, Q),
         \A x \in Ids : buckets'[x].next_bucket_id = buckets[x].next_bucket_id,
         sp'.get = sp.get, sp'.bit0 = sp.bit0, sp'.bit1 = sp.bit1,
         sp'.result = sp.result,
         \A b \in P \ W : buckets'[b].bytes_used = buckets[b].bytes_used
  PROVE  Splits(P, W, Q)'
<1>1. nxt' = nxt
  BY DEF nxt
<1> QED
  BY <1>1 DEF Splits

(* split copies a record behind the last one of a chain's bucket.           *)
LEMMA PackedSplitAppend ==
  ASSUME PackedInv, Inv({})', SplitBit1Append \/ SplitBit0Append
  PROVE  PackedInv'
<1>1. /\ pc = "split" /\ pc' = "split"
      /\ UNCHANGED <<buckets_count, length, heads, arg, cursor, result>>
  BY DEF SplitBit1Append, SplitBit0Append
<1>2. PICK P, W, Q \in SUBSET Ids : Splits(P, W, Q)
  BY <1>1, InSplit
<1>3. Allocated' = Allocated /\ Mapped'
  BY <1>1 DEF Allocated, PackedInv, Mapped, InMapping, sizeof_bucket
<1> DEFINE Moves(r, t, put) ==
             /\ r \in buckets[sp.get].data /\ r.offset = sp.get_ptr
             /\ t \in Allocated /\ t \notin P \ W
             /\ put = buckets[t].bytes_used /\ put + len(r) <= BUCKET_SIZE
             /\ buckets' = move_record(buckets, r, t, put)
<1>4. ASSUME NEW r, NEW t, NEW put, Moves(r, t, put), sp' \in SplitLocals,
             sp'.get = sp.get, sp'.bit0 = sp.bit0, sp'.bit1 = sp.bit1,
             sp'.result = sp.result, sp'.get_last = sp.get_last,
             sp'.get_ptr = sp.get_ptr + len(r),
             sp'.bit0_put = IF t = sp.bit0 THEN put + len(r) ELSE sp.bit0_put,
             sp'.bit1_put = IF t = sp.bit1 THEN put + len(r) ELSE sp.bit1_put
      PROVE  PackedInv'
  <2>1. /\ buckets' \in [Ids -> Bucket]
        /\ Partly(buckets'[sp.get], sp.get_ptr + len(r), sp.get_last)
        /\ \A x \in Allocated \ {sp.get} : Whole(buckets'[x])
        /\ buckets'[t].bytes_used = put + len(r)
        /\ \A x \in Ids \ {t} : buckets'[x].bytes_used = buckets[x].bytes_used
        /\ \A x \in Ids : buckets'[x].next_bucket_id = buckets[x].next_bucket_id
    <3>1. /\ buckets \in [Ids -> Bucket] /\ Allocated \in SUBSET Ids
          /\ sp.get_ptr \in Int /\ sp.get_last \in Int
          /\ sp.get_last <= BUCKET_SIZE
      BY <1>1, InSplit, SizesAssumption
    <3>2. /\ sp.get \in Allocated
          /\ Partly(buckets[sp.get], sp.get_ptr, sp.get_last)
          /\ \A x \in Allocated \ {sp.get} : Whole(buckets[x])
      BY <1>1, <1>2, SplitPlaces
    <3> QED
      BY <1>4, <3>1, <3>2, MoveTo
  <2>2. Splits(P, W, Q)'
    BY <1>1, <1>2, <1>3, <1>4, <2>1, SplitsKept
  <2>3. PutPositions'
    BY <1>1, <1>4, <2>1, InSplit DEF PutPositions
  <2>4. Locals'
    BY <1>1, <1>4 DEF PackedInv, Bounded, Locals
  <2>5. arg'.bucket_id \in heads'
    BY <1>1, InSplit
  <2>6. /\ Partly(buckets'[sp'.get], sp'.get_ptr, sp'.get_last)
        /\ \A x \in Allocated' \ {sp'.get} : Whole(buckets'[x])
    BY <1>3, <1>4, <2>1
  <2> QED
    BY <1>1, <1>3, <2>1, <2>2, <2>3, <2>4, <2>5, <2>6, SplitDone
<1>5. CASE SplitBit1Append
  <2>1. PICK r \in at_get_ptr :
          /\ bytes_left_in(sp.bit1, r)
          /\ buckets' = move_record(buckets, r, sp.bit1, sp.bit1_put)
          /\ sp' = [sp EXCEPT !.bit1_put = sp.bit1_put + len(r),
                              !.get_ptr = sp.get_ptr + len(r)]
    BY <1>5 DEF SplitBit1Append
  <2>2. r \in buckets[sp.get].data /\ r.offset = sp.get_ptr
    BY DEF at_get_ptr
  <2>3. Moves(r, sp.bit1, sp.bit1_put)
    BY <1>1, <1>2, <2>1, <2>2, InSplit, SplitPlaces DEF bytes_left_in, Splits
  <2> DEFINE put == sp.bit1_put + len(r)
             ptr == sp.get_ptr + len(r)
  <2>4. len(r) \in Int /\ len(r) > 0 /\ ptr <= sp.get_last
    BY <1>1, <1>2, <2>2, InSplit, SplitPlaces, ReadNext
  <2>5. put \in 0 .. BUCKET_SIZE /\ ptr \in 0 .. BUCKET_SIZE
    BY <1>1, <2>3, <2>4, InSplit, SizesAssumption
  <2>6. sp' = [sp EXCEPT !.bit1_put = put, !.get_ptr = ptr]
    BY <2>1
  <2>7. sp \in SplitLocals
    BY <1>1, InSplit
  <2> HIDE DEF put, ptr
  <2>8. /\ sp' \in SplitLocals
        /\ sp'.get = sp.get /\ sp'.bit0 = sp.bit0 /\ sp'.bit1 = sp.bit1
        /\ sp'.result = sp.result /\ sp'.get_last = sp.get_last
        /\ sp'.get_ptr = ptr /\ sp'.bit0_put = sp.bit0_put /\ sp'.bit1_put = put
    BY <2>5, <2>6, <2>7 DEF SplitLocals
  <2>9. sp.bit1 # sp.bit0
    BY <1>1, <1>2, SplitPlaces
  <2> HIDE DEF Moves
  <2> QED
    BY <1>4, <2>3, <2>8, <2>9 DEF put, ptr
<1>6. CASE SplitBit0Append
  <2>1. PICK r \in at_get_ptr :
          /\ bytes_left_in(sp.bit0, r)
          /\ buckets' = move_record(buckets, r, sp.bit0, sp.bit0_put)
          /\ sp' = [sp EXCEPT !.bit0_put = sp.bit0_put + len(r),
                              !.get_ptr = sp.get_ptr + len(r)]
    BY <1>6 DEF SplitBit0Append
  <2>2. r \in buckets[sp.get].data /\ r.offset = sp.get_ptr
    BY DEF at_get_ptr
  <2>3. Moves(r, sp.bit0, sp.bit0_put)
    BY <1>1, <1>2, <2>1, <2>2, InSplit, SplitPlaces DEF bytes_left_in
  <2> DEFINE put == sp.bit0_put + len(r)
             ptr == sp.get_ptr + len(r)
  <2>4. len(r) \in Int /\ len(r) > 0 /\ ptr <= sp.get_last
    BY <1>1, <1>2, <2>2, InSplit, SplitPlaces, ReadNext
  <2>5. put \in 0 .. BUCKET_SIZE /\ ptr \in 0 .. BUCKET_SIZE
    BY <1>1, <2>3, <2>4, InSplit, SizesAssumption
  <2>6. sp' = [sp EXCEPT !.bit0_put = put, !.get_ptr = ptr]
    BY <2>1
  <2>7. sp \in SplitLocals
    BY <1>1, InSplit
  <2> HIDE DEF put, ptr
  <2>8. /\ sp' \in SplitLocals
        /\ sp'.get = sp.get /\ sp'.bit0 = sp.bit0 /\ sp'.bit1 = sp.bit1
        /\ sp'.result = sp.result /\ sp'.get_last = sp.get_last
        /\ sp'.get_ptr = ptr /\ sp'.bit1_put = sp.bit1_put /\ sp'.bit0_put = put
    BY <2>5, <2>6, <2>7 DEF SplitLocals
  <2>9. sp.bit1 # sp.bit0
    BY <1>1, <1>2, SplitPlaces
  <2> HIDE DEF Moves
  <2> QED
    BY <1>4, <2>3, <2>8, <2>9 DEF put, ptr
<1> QED
  BY <1>5, <1>6

(* The bucket create_bucket returns is on neither chain.                    *)
LEMMA TakenApart ==
  ASSUME PackedInv, pc = "split", create_bucket, NEW n, n = new_bucket_id,
         NEW P \in SUBSET Ids, NEW W \in SUBSET Ids, NEW Q \in SUBSET Ids,
         Splits(P, W, Q)
  PROVE  n \in Ids /\ n # INVALID_BUCKET_ID /\ n \notin P /\ n \notin Q
         /\ Allocated' = Allocated \cup {n}
<1>1. /\ n \in Ids /\ n # INVALID_BUCKET_ID /\ n \notin heads /\ n # sp.result
      /\ Allocated' = Allocated \cup {n} /\ \A x \in Allocated : nxt[x] # n
  BY TakesBucket DEF PackedInv, splitting
<1>2. arg.bucket_id \in heads
  BY InSplit
<1>3. P \cup Q \subseteq Allocated
  BY DEF Splits
<1>4. n \notin P
  BY <1>1, <1>2, <1>3 DEF Splits, Path
<1>5. n \notin Q
  BY <1>1, <1>3 DEF Splits, Path
<1> QED
  BY <1>1, <1>4, <1>5

(* split appends a bucket to the bit1 chain for the record it read.         *)
LEMMA PackedSplitBit1Grow ==
  ASSUME PackedInv, Inv({})', SplitBit1Grow
  PROVE  PackedInv'
<1>0. PICK n : n = new_bucket_id
  OBVIOUS
<1> DEFINE bs == append_bucket(sp.bit1, sp.prefix_bits)
           ptr(r) == sp.get_ptr + len(r)
<1>1. PICK r \in at_get_ptr :
        /\ buckets' = move_record(bs, r, n, 0)
        /\ sp' = [sp EXCEPT !.bit1 = n, !.bit1_put = len(r),
                            !.bit0_put = buckets[sp.bit0].bytes_used,
                            !.get_ptr = ptr(r)]
  BY <1>0 DEF SplitBit1Grow
<1>2. /\ pc = "split" /\ pc' = "split" /\ create_bucket
      /\ UNCHANGED <<heads, arg, cursor, result>>
  BY DEF SplitBit1Grow
<1>3. PICK P, W, Q \in SUBSET Ids : Splits(P, W, Q)
  BY <1>2, InSplit
<1>4. /\ n \in Ids /\ n # INVALID_BUCKET_ID /\ n \notin P /\ n \notin Q
      /\ Allocated' = Allocated \cup {n}
  BY <1>0, <1>2, <1>3, TakenApart
<1>5. /\ sp.get \in P /\ sp.bit0 \in P /\ sp.bit1 \in Q
      /\ P \cup Q \subseteq Allocated /\ Allocated \subseteq Ids /\ P \cap Q = {}
      /\ W \subseteq P
      /\ Partly(buckets[sp.get], sp.get_ptr, sp.get_last)
      /\ \A x \in Allocated \ {sp.get} : Whole(buckets[x])
  BY <1>2, <1>3, SplitPlaces, AllocatedIds DEF PackedInv, Splits
<1>6. /\ buckets \in [Ids -> Bucket] /\ sp \in SplitLocals
      /\ sp.prefix_bits \in 0 .. HASH_BITS
      /\ sp.get_ptr \in Int /\ sp.get_ptr >= 0 /\ sp.get_last \in Int
      /\ sp.get_last <= BUCKET_SIZE
      /\ sp.bit0_put = buckets[sp.bit0].bytes_used
      /\ sp.bit0_put \in 0 .. BUCKET_SIZE
      /\ arg.bucket_id \in heads
  BY <1>2, InSplit, SizesAssumption
<1>7. /\ bs \in [Ids -> Bucket]
      /\ bs[n].bytes_used = 0 /\ Whole(bs[n])
      /\ bs[n].next_bucket_id = INVALID_BUCKET_ID
      /\ bs[sp.bit1].next_bucket_id = n
      /\ \A x \in Ids \ {n} : /\ bs[x].data = buckets[x].data
                             /\ bs[x].bytes_used = buckets[x].bytes_used
      /\ \A x \in Ids \ {n, sp.bit1} : bs[x] = buckets[x]
  BY <1>0, <1>4, <1>5, <1>6, AppendEmpty
<1> HIDE DEF bs
<1>8. bs[sp.get] = buckets[sp.get]
  BY <1>4, <1>5, <1>7
<1>9. \A x \in Allocated' \ {sp.get} : Whole(bs[x])
  BY <1>4, <1>5, <1>7 DEF Whole
<1>10. /\ r \in bs[sp.get].data /\ r.offset = sp.get_ptr /\ r \in AnyRecord
       /\ len(r) \in Int /\ len(r) \in 0 .. BUCKET_SIZE /\ 0 + len(r) <= BUCKET_SIZE
       /\ 0 + len(r) = len(r)
  <2>1. r \in buckets[sp.get].data /\ r.offset = sp.get_ptr
    BY DEF at_get_ptr
  <2>2. r \in AnyRecord
    BY <1>5, <1>6, <2>1, BucketTypes
  <2> QED
    BY <1>8, <2>1, <2>2, LengthPositive, SizesAssumption
<1>11. /\ buckets' \in [Ids -> Bucket]
       /\ ptr(r) \in Int /\ ptr(r) <= sp.get_last /\ sp.get_ptr < ptr(r)
       /\ Partly(buckets'[sp.get], ptr(r), sp.get_last)
       /\ \A x \in Allocated' \ {sp.get} : Whole(buckets'[x])
       /\ buckets'[n].bytes_used = len(r)
       /\ \A x \in Ids \ {n} : buckets'[x].bytes_used = bs[x].bytes_used
       /\ \A x \in Ids : buckets'[x].next_bucket_id = bs[x].next_bucket_id
  <2>1. /\ Allocated' \in SUBSET Ids /\ sp.get \in Allocated' /\ n \in Allocated'
        /\ Partly(bs[sp.get], sp.get_ptr, sp.get_last)
    BY <1>4, <1>5, <1>8
  <2>2. /\ bs \in [Ids -> Bucket] /\ 0 = bs[n].bytes_used
        /\ buckets' = move_record(bs, r, n, 0)
    BY <1>1, <1>7
  <2>3. sp.get_ptr \in Int /\ sp.get_last \in Int /\ sp.get_last <= BUCKET_SIZE
    BY <1>6
  <2>4. r \in bs[sp.get].data /\ r.offset = sp.get_ptr /\ 0 + len(r) <= BUCKET_SIZE
    BY <1>10
  <2>5. /\ buckets' \in [Ids -> Bucket]
        /\ sp.get_ptr + len(r) \in Int /\ sp.get_ptr + len(r) <= sp.get_last
        /\ sp.get_ptr < sp.get_ptr + len(r)
        /\ Partly(buckets'[sp.get], sp.get_ptr + len(r), sp.get_last)
        /\ \A x \in Allocated' \ {sp.get} : Whole(buckets'[x])
        /\ buckets'[n].bytes_used = 0 + len(r)
        /\ \A x \in Ids \ {n} : buckets'[x].bytes_used = bs[x].bytes_used
        /\ \A x \in Ids : buckets'[x].next_bucket_id = bs[x].next_bucket_id
    BY <1>9, <2>1, <2>2, <2>3, <2>4, MoveTo
  <2> QED
    BY <1>10, <2>5
<1>12. ptr(r) \in 0 .. BUCKET_SIZE
  BY <1>6, <1>11, SizesAssumption
<1>13. /\ sp' \in SplitLocals
       /\ sp'.get = sp.get /\ sp'.bit0 = sp.bit0 /\ sp'.bit1 = n
       /\ sp'.result = sp.result /\ sp'.get_last = sp.get_last
       /\ sp'.get_ptr = ptr(r) /\ sp'.bit1_put = len(r)
       /\ sp'.bit0_put = buckets[sp.bit0].bytes_used
  <2> DEFINE q == ptr(r)
             k == len(r)
             put == buckets[sp.bit0].bytes_used
             here == [sp EXCEPT !.bit1 = n, !.bit1_put = k]
  <2>1. q \in 0 .. BUCKET_SIZE /\ k \in 0 .. BUCKET_SIZE /\ put \in 0 .. BUCKET_SIZE
    BY <1>6, <1>10, <1>12
  <2>2. sp' = [here EXCEPT !.bit0_put = put, !.get_ptr = q]
    BY <1>1
  <2> HIDE DEF q, k, put
  <2>3. /\ here \in SplitLocals /\ here.get = sp.get /\ here.bit0 = sp.bit0
        /\ here.bit1 = n /\ here.bit1_put = k /\ here.result = sp.result
        /\ here.get_last = sp.get_last
    BY <1>4, <1>6, <2>1 DEF SplitLocals
  <2> HIDE DEF here
  <2>4. /\ sp' \in SplitLocals
        /\ sp'.get = sp.get /\ sp'.bit0 = sp.bit0 /\ sp'.bit1 = n
        /\ sp'.result = sp.result /\ sp'.get_last = sp.get_last
        /\ sp'.get_ptr = q /\ sp'.bit1_put = k /\ sp'.bit0_put = put
    BY <2>1, <2>2, <2>3 DEF SplitLocals
  <2> QED
    BY <2>4 DEF q, k, put
<1> HIDE DEF ptr
<1>14. PutPositions'
  BY <1>4, <1>5, <1>7, <1>11, <1>13 DEF PutPositions
<1>15. Splits(P, W, Q \cup {n})'
  <2>1. /\ \A x \in P : nxt'[x] = nxt[x]
        /\ \A x \in Q \ {sp.bit1} : nxt'[x] = nxt[x]
        /\ nxt'[sp.bit1] = n /\ nxt'[n] = INVALID_BUCKET_ID
    BY <1>4, <1>5, <1>7, <1>11 DEF nxt
  <2>2. INVALID_BUCKET_ID \notin Q \cup {n}
    BY <1>4, <1>5, IdsValid
  <2>3. /\ Path(nxt', P, arg.bucket_id, sp.get) /\ Path(nxt', W, arg.bucket_id, sp.bit0)
    BY <1>3, <1>5, <2>1, PathKept DEF Splits
  <2>4. Path(nxt', Q \cup {n}, sp.result, n)
    BY <1>3, <1>4, <2>1, <2>2, PathLinked DEF Splits
  <2>5. \A b \in P \ W : buckets'[b].bytes_used = 0
    BY <1>3, <1>4, <1>5, <1>7, <1>11 DEF Splits
  <2> QED
    BY <1>2, <1>4, <1>5, <1>13, <2>1, <2>3, <2>4, <2>5 DEF Splits
<1>16. Locals' /\ arg'.bucket_id \in heads'
  BY <1>2, <1>6, <1>13 DEF PackedInv, Bounded, Locals
<1>17. Mapped'
  BY <1>2, FileGrows DEF PackedInv
<1>18. /\ Partly(buckets'[sp'.get], sp'.get_ptr, sp'.get_last)
       /\ \A x \in Allocated' \ {sp'.get} : Whole(buckets'[x])
  BY <1>11, <1>13
<1>19. Q \cup {n} \in SUBSET Ids
  BY <1>4
<1> QED
  BY <1>2, <1>11, <1>14, <1>15, <1>16, <1>17, <1>18, <1>19, SplitDone

(****************************************************************************)
(* A record that stays has room: where it is read from, if bit0 is the      *)
(* bucket being read, and else in the next bucket of the old chain, which   *)
(* has been read and not written.                                           *)
(****************************************************************************)
LEMMA Bit0Room ==
  ASSUME PackedInv, pc = "split", NEW r \in at_get_ptr, ~bytes_left_in(sp.bit0, r),
         NEW P, NEW W, NEW Q, Splits(P, W, Q), NEW t, t = nxt[sp.bit0]
  PROVE  /\ sp.bit0 # sp.get
         /\ t = buckets[sp.bit0].next_bucket_id /\ t # INVALID_BUCKET_ID
         /\ t \in P /\ t \notin W /\ buckets[t].bytes_used = 0
         /\ Path(nxt, W \cup {t}, arg.bucket_id, t)
<1>1. /\ sp.get \in P /\ sp.bit0 \in P /\ sp.get \in Allocated /\ sp.bit0 \in Allocated
      /\ Partly(buckets[sp.get], sp.get_ptr, sp.get_last)
      /\ \A x \in Allocated : nxt[x] # arg.bucket_id
      /\ \A x, y \in Allocated : x # y /\ nxt[x] \in Allocated => nxt[x] # nxt[y]
  <2>1. P \in SUBSET Ids /\ W \in SUBSET Ids /\ Q \in SUBSET Ids
    BY InSplit DEF Splits
  <2> QED
    BY <2>1, SplitPlaces
<1>2. /\ buckets \in [Ids -> Bucket] /\ sp.get_ptr \in Int /\ sp.get_last \in Int
      /\ sp.get_last <= BUCKET_SIZE /\ Allocated \subseteq Ids
  BY InSplit, SizesAssumption
<1>3. P \subseteq Allocated /\ W \subseteq P
  BY DEF Splits
<1>4. sp.bit0 # sp.get
  <2>1. r \in buckets[sp.get].data /\ r.offset = sp.get_ptr
    BY DEF at_get_ptr
  <2>2. len(r) \in Int /\ sp.get_ptr + len(r) <= sp.get_last
    BY <1>1, <1>2, <2>1, ReadNext
  <2>3. buckets[sp.get].bytes_used \in Int /\ buckets[sp.get].bytes_used <= sp.get_ptr
    BY <1>1, <1>2, BucketTypes DEF Partly
  <2>4. bytes_left_in(sp.get, r)
    BY <1>2, <2>2, <2>3, SizesAssumption DEF bytes_left_in
  <2> QED
    BY <2>4
<1>5. t \in P
  BY <1>1, <1>4 DEF Splits, Path
<1>6. t \notin W /\ Path(nxt, W \cup {t}, arg.bucket_id, t)
  <2>1. W \in SUBSET Allocated /\ nxt[sp.bit0] \in Allocated
    BY <1>3, <1>5
  <2>2. Path(nxt, W, arg.bucket_id, sp.bit0)
    BY DEF Splits
  <2>3. /\ \A x \in Allocated : nxt[x] # arg.bucket_id
        /\ \A x, y \in Allocated : x # y /\ nxt[x] \in Allocated => nxt[x] # nxt[y]
    BY <1>1
  <2>4. /\ Path(nxt, W \cup {nxt[sp.bit0]}, arg.bucket_id, nxt[sp.bit0])
        /\ nxt[sp.bit0] \notin W
    BY <2>1, <2>2, <2>3, PathGrows
  <2> QED
    BY <2>4
<1>7. buckets[t].bytes_used = 0
  BY <1>5, <1>6 DEF Splits
<1>8. t = buckets[sp.bit0].next_bucket_id /\ t # INVALID_BUCKET_ID
  BY <1>1, <1>2, <1>3, <1>5, IdsValid DEF nxt
<1> QED
  BY <1>4, <1>5, <1>6, <1>7, <1>8

(* split goes on to write the next bucket of the bit0 chain.                *)
LEMMA PackedSplitBit0Advance ==
  ASSUME PackedInv, Inv({})', SplitBit0Advance
  PROVE  PackedInv'
<1>0. PICK t : t = nxt[sp.bit0]
  OBVIOUS
<1> DEFINE bt == [buckets[t] EXCEPT !.prefix_bits = sp.prefix_bits]
           bs == [buckets EXCEPT ![t] = bt]
           ptr(r) == sp.get_ptr + len(r)
<1>2. /\ pc = "split" /\ pc' = "split" /\ UNCHANGED <<heads, arg, cursor, result>>
  BY DEF SplitBit0Advance
<1>3. PICK P, W, Q \in SUBSET Ids : Splits(P, W, Q)
  BY <1>2, InSplit
<1>1. PICK r \in at_get_ptr :
        /\ ~bytes_left_in(sp.bit0, r)
        /\ buckets' =
              LET linked ==
                    IF buckets[sp.bit0].next_bucket_id # INVALID_BUCKET_ID
                      THEN [buckets EXCEPT ![bit0_next].prefix_bits = sp.prefix_bits]
                      ELSE append_bucket(sp.bit0, sp.prefix_bits)
              IN move_record(linked, r, bit0_next, 0)
        /\ sp' = [sp EXCEPT !.bit0 = bit0_next, !.bit0_put = len(r),
                            !.bit1_put =
                              IF buckets[sp.bit0].next_bucket_id # INVALID_BUCKET_ID
                                THEN sp.bit1_put ELSE buckets[sp.bit1].bytes_used,
                            !.get_ptr = ptr(r)]
  BY DEF SplitBit0Advance
<1>4. /\ sp.bit0 # sp.get
      /\ t = buckets[sp.bit0].next_bucket_id /\ t # INVALID_BUCKET_ID
      /\ t \in P /\ t \notin W /\ buckets[t].bytes_used = 0
      /\ Path(nxt, W \cup {t}, arg.bucket_id, t)
  <2>1. ~bytes_left_in(sp.bit0, r)
    BY <1>1
  <2> QED
    BY <1>0, <1>2, <1>3, <2>1, Bit0Room
<1>5. /\ bit0_next = t /\ UNCHANGED <<buckets_count, length>>
      /\ buckets' = move_record(bs, r, t, 0)
      /\ sp' = [sp EXCEPT !.bit0 = t, !.bit0_put = len(r),
                          !.bit1_put = sp.bit1_put, !.get_ptr = ptr(r)]
  BY <1>1, <1>4 DEF SplitBit0Advance, bit0_next
<1>6. /\ sp.get \in P /\ sp.bit0 \in P /\ sp.bit1 \in Q
      /\ P \cup Q \subseteq Allocated /\ Allocated \subseteq Ids /\ P \cap Q = {}
      /\ W \subseteq P
      /\ Partly(buckets[sp.get], sp.get_ptr, sp.get_last)
      /\ \A x \in Allocated \ {sp.get} : Whole(buckets[x])
  BY <1>2, <1>3, SplitPlaces, AllocatedIds DEF PackedInv, Splits
<1>7. /\ buckets \in [Ids -> Bucket] /\ sp \in SplitLocals
      /\ sp.prefix_bits \in 0 .. HASH_BITS
      /\ sp.get_ptr \in Int /\ sp.get_ptr >= 0 /\ sp.get_last \in Int
      /\ sp.get_last <= BUCKET_SIZE
      /\ sp.bit1_put = buckets[sp.bit1].bytes_used
      /\ sp.bit1_put \in 0 .. BUCKET_SIZE
      /\ arg.bucket_id \in heads
  BY <1>2, InSplit, SizesAssumption
<1>8. /\ bt \in Bucket /\ bt.data = buckets[t].data
      /\ bt.bytes_used = buckets[t].bytes_used
      /\ bt.next_bucket_id = buckets[t].next_bucket_id
  <2>1. PICK old : old = buckets[t]
    OBVIOUS
  <2>2. old \in Bucket /\ sp.prefix_bits \in 0 .. HASH_BITS
    BY <1>4, <1>6, <1>7, <2>1
  <2>3. bt = [old EXCEPT !.prefix_bits = sp.prefix_bits]
    BY <2>1
  <2> HIDE DEF bt
  <2> QED
    BY <2>1, <2>2, <2>3 DEF Bucket
<1> HIDE DEF bt
<1>9. /\ bs \in [Ids -> Bucket]
      /\ \A x \in Ids : /\ bs[x].data = buckets[x].data
                       /\ bs[x].bytes_used = buckets[x].bytes_used
                       /\ bs[x].next_bucket_id = buckets[x].next_bucket_id
  BY <1>4, <1>6, <1>7, <1>8
<1> HIDE DEF bs
<1>10. /\ Partly(bs[sp.get], sp.get_ptr, sp.get_last)
       /\ \A x \in Allocated \ {sp.get} : Whole(bs[x])
  BY <1>6, <1>9 DEF Partly, Whole
<1>11. /\ r \in bs[sp.get].data /\ r.offset = sp.get_ptr /\ r \in AnyRecord
       /\ len(r) \in Int /\ len(r) \in 0 .. BUCKET_SIZE /\ 0 + len(r) <= BUCKET_SIZE
       /\ 0 + len(r) = len(r)
  <2>1. r \in buckets[sp.get].data /\ r.offset = sp.get_ptr
    BY DEF at_get_ptr
  <2>2. r \in AnyRecord
    BY <1>6, <1>7, <2>1, BucketTypes
  <2> QED
    BY <1>6, <1>9, <2>1, <2>2, LengthPositive, SizesAssumption
<1>12. /\ buckets' \in [Ids -> Bucket]
       /\ ptr(r) \in Int /\ ptr(r) <= sp.get_last /\ sp.get_ptr < ptr(r)
       /\ Partly(buckets'[sp.get], ptr(r), sp.get_last)
       /\ \A x \in Allocated \ {sp.get} : Whole(buckets'[x])
       /\ buckets'[t].bytes_used = len(r)
       /\ \A x \in Ids \ {t} : buckets'[x].bytes_used = bs[x].bytes_used
       /\ \A x \in Ids : buckets'[x].next_bucket_id = bs[x].next_bucket_id
  <2>1. /\ Allocated \in SUBSET Ids /\ sp.get \in Allocated /\ t \in Allocated
        /\ 0 = bs[t].bytes_used
    BY <1>4, <1>6, <1>9
  <2>2. buckets' = move_record(bs, r, t, 0) /\ bs \in [Ids -> Bucket]
    BY <1>5, <1>9
  <2>3. sp.get_ptr \in Int /\ sp.get_last \in Int /\ sp.get_last <= BUCKET_SIZE
    BY <1>7
  <2>4. /\ r \in bs[sp.get].data /\ r.offset = sp.get_ptr
        /\ 0 + len(r) <= BUCKET_SIZE
    BY <1>11
  <2> HIDE DEF ptr
  <2>5. /\ buckets' \in [Ids -> Bucket]
        /\ sp.get_ptr + len(r) \in Int /\ sp.get_ptr + len(r) <= sp.get_last
        /\ sp.get_ptr < sp.get_ptr + len(r)
        /\ Partly(buckets'[sp.get], sp.get_ptr + len(r), sp.get_last)
        /\ \A x \in Allocated \ {sp.get} : Whole(buckets'[x])
        /\ buckets'[t].bytes_used = 0 + len(r)
        /\ \A x \in Ids \ {t} : buckets'[x].bytes_used = bs[x].bytes_used
        /\ \A x \in Ids : buckets'[x].next_bucket_id = bs[x].next_bucket_id
    BY <1>10, <2>1, <2>2, <2>3, <2>4, MoveTo
  <2> QED
    BY <1>11, <2>5 DEF ptr
<1>13. ptr(r) \in 0 .. BUCKET_SIZE
  BY <1>7, <1>12, SizesAssumption
<1>14. /\ sp' \in SplitLocals
       /\ sp'.get = sp.get /\ sp'.bit0 = t /\ sp'.bit1 = sp.bit1
       /\ sp'.result = sp.result /\ sp'.get_last = sp.get_last
       /\ sp'.get_ptr = ptr(r) /\ sp'.bit0_put = len(r)
       /\ sp'.bit1_put = sp.bit1_put
  <2> DEFINE q == ptr(r)
             k == len(r)
             here == [sp EXCEPT !.bit0 = t, !.bit0_put = k]
  <2>1. q \in 0 .. BUCKET_SIZE /\ k \in 0 .. BUCKET_SIZE /\ t \in Ids
    BY <1>4, <1>6, <1>11, <1>13
  <2>2. sp' = [here EXCEPT !.bit1_put = sp.bit1_put, !.get_ptr = q]
    BY <1>5
  <2> HIDE DEF q, k
  <2>3. /\ here \in SplitLocals /\ here.get = sp.get /\ here.bit0 = t
        /\ here.bit1 = sp.bit1 /\ here.bit0_put = k /\ here.result = sp.result
        /\ here.get_last = sp.get_last
    BY <1>7, <2>1 DEF SplitLocals
  <2> HIDE DEF here
  <2>4. /\ sp' \in SplitLocals
        /\ sp'.get = sp.get /\ sp'.bit0 = t /\ sp'.bit1 = sp.bit1
        /\ sp'.result = sp.result /\ sp'.get_last = sp.get_last
        /\ sp'.get_ptr = q /\ sp'.bit0_put = k /\ sp'.bit1_put = sp.bit1_put
    BY <1>7, <2>1, <2>2, <2>3 DEF SplitLocals
  <2> QED
    BY <2>4 DEF q, k
<1> HIDE DEF ptr
<1>15. PutPositions'
  BY <1>4, <1>6, <1>7, <1>9, <1>12, <1>14 DEF PutPositions
<1>16. Allocated' = Allocated /\ Mapped'
  BY <1>5 DEF Allocated, PackedInv, Mapped, InMapping, sizeof_bucket
<1>17. Splits(P, W \cup {t}, Q)'
  <2>1. nxt' = nxt
    BY <1>9, <1>12 DEF nxt
  <2>2. \A b \in P \ (W \cup {t}) : buckets'[b].bytes_used = 0
    BY <1>3, <1>6, <1>9, <1>12 DEF Splits
  <2> QED
    BY <1>2, <1>3, <1>4, <1>14, <1>16, <2>1, <2>2 DEF Splits
<1>18. Locals' /\ arg'.bucket_id \in heads'
  BY <1>2, <1>7, <1>14 DEF PackedInv, Bounded, Locals
<1>19. /\ Partly(buckets'[sp'.get], sp'.get_ptr, sp'.get_last)
       /\ \A x \in Allocated' \ {sp'.get} : Whole(buckets'[x])
  BY <1>12, <1>14, <1>16
<1>20. W \cup {t} \in SUBSET Ids
  BY <1>4
<1> QED
  BY <1>2, <1>12, <1>15, <1>16, <1>17, <1>18, <1>19, <1>20, SplitDone

(* The bucket just read is whole again; the next one has not been touched.  *)
LEMMA PackedSplitNextBucket ==
  ASSUME PackedInv, Inv({})', SplitNextBucket
  PROVE  PackedInv'
<1>1. /\ pc = "split" /\ pc' = "split" /\ sp.get_ptr = sp.get_last
      /\ UNCHANGED <<buckets_count, length, heads, arg, cursor, result>>
  BY DEF SplitNextBucket
<1>2. PICK P, W, Q \in SUBSET Ids : Splits(P, W, Q)
  BY <1>1, InSplit
<1>3. /\ sp.get \in P /\ sp.bit0 \in W /\ sp.bit0 \in P /\ sp.bit1 \in Q
      /\ sp.get \in Allocated
      /\ Partly(buckets[sp.get], sp.get_ptr, sp.get_last)
      /\ \A b \in Allocated \ {sp.get} : Whole(buckets[b])
      /\ \A x \in Allocated : nxt[x] # arg.bucket_id /\ nxt[x] # sp.result
      /\ \A x, y \in Allocated : x # y /\ nxt[x] \in Allocated => nxt[x] # nxt[y]
  BY <1>1, <1>2, SplitPlaces
<1>4. /\ P \cup Q \subseteq Allocated /\ W \subseteq P /\ P \cap Q = {}
      /\ Path(nxt, P, arg.bucket_id, sp.get)
  BY <1>2 DEF Splits
<1>5. /\ buckets \in [Ids -> Bucket] /\ sp \in SplitLocals /\ sp.get_ptr \in Int
      /\ Allocated \subseteq Ids /\ arg.bucket_id \in heads
      /\ sp.bit0_put = buckets[sp.bit0].bytes_used
      /\ sp.bit1_put = buckets[sp.bit1].bytes_used
  BY <1>1, InSplit
<1>6. PICK t : t = nxt[sp.get]
  OBVIOUS
<1> DEFINE last == buckets[t].bytes_used
           first == [buckets[t] EXCEPT !.bytes_used = 0]
<1>7. /\ t = buckets[sp.get].next_bucket_id /\ t # INVALID_BUCKET_ID
      /\ buckets' = [buckets EXCEPT ![t] = first]
      /\ sp' = [sp EXCEPT !.get = t, !.get_ptr = 0, !.get_last = last]
  <2>1. t = buckets[sp.get].next_bucket_id
    BY <1>3, <1>5, <1>6 DEF nxt
  <2> QED
    BY <2>1 DEF SplitNextBucket, begin_reading
<1>8. t \in Allocated
  BY <1>3, <1>6, <1>7 DEF PackedInv, Inv, Live, OneReference
<1>9. t \notin P /\ Path(nxt, P \cup {t}, arg.bucket_id, t)
  <2>1. P \in SUBSET Allocated /\ nxt[sp.get] \in Allocated
    BY <1>4, <1>6, <1>8
  <2>2. /\ \A x \in Allocated : nxt[x] # arg.bucket_id
        /\ \A x, y \in Allocated : x # y /\ nxt[x] \in Allocated => nxt[x] # nxt[y]
    BY <1>3
  <2>3. /\ Path(nxt, P \cup {nxt[sp.get]}, arg.bucket_id, nxt[sp.get])
        /\ nxt[sp.get] \notin P
    BY <1>4, <2>1, <2>2, PathGrows
  <2> QED
    BY <1>6, <2>3
<1>10. t \notin Q
  <2> SUFFICES ASSUME t \in Q PROVE FALSE
    OBVIOUS
  <2>1. PICK a \in Q : nxt[a] = t
    BY <1>2, <1>3, <1>6 DEF Splits, Path
  <2> QED
    BY <1>3, <1>4, <1>6, <1>8, <2>1
<1>11. Whole(buckets[t]) /\ buckets[t] \in Bucket /\ last \in 0 .. BUCKET_SIZE
  BY <1>3, <1>5, <1>8, <1>9, BucketTypes
<1>12. /\ first \in Bucket /\ Partly(first, 0, last) /\ first.bytes_used = 0
       /\ first.next_bucket_id = buckets[t].next_bucket_id
  BY <1>11, ReadFirst
<1> HIDE DEF first, last
<1>13. Whole(buckets[sp.get])
  BY <1>1, <1>3, <1>5, ReadLast
<1>14. /\ buckets' \in [Ids -> Bucket] /\ buckets'[t] = first
       /\ \A x \in Ids \ {t} : buckets'[x] = buckets[x]
  BY <1>5, <1>7, <1>8, <1>12
<1>15. /\ sp' \in SplitLocals
       /\ sp'.get = t /\ sp'.bit0 = sp.bit0 /\ sp'.bit1 = sp.bit1
       /\ sp'.result = sp.result /\ sp'.get_last = last
       /\ sp'.get_ptr = 0 /\ sp'.bit0_put = sp.bit0_put
       /\ sp'.bit1_put = sp.bit1_put
  <2> DEFINE zero == 0
             here == [sp EXCEPT !.get = t, !.get_ptr = zero]
  <2>1. zero \in 0 .. BUCKET_SIZE /\ t \in Ids
    BY <1>5, <1>8, SizesAssumption
  <2>2. sp' = [here EXCEPT !.get_last = last]
    BY <1>7
  <2> HIDE DEF zero
  <2>3. /\ here \in SplitLocals /\ here.get = t /\ here.bit0 = sp.bit0
        /\ here.bit1 = sp.bit1 /\ here.bit0_put = sp.bit0_put
        /\ here.bit1_put = sp.bit1_put /\ here.result = sp.result
        /\ here.get_ptr = zero
    BY <1>5, <2>1 DEF SplitLocals
  <2> HIDE DEF here
  <2>4. /\ sp' \in SplitLocals
        /\ sp'.get = t /\ sp'.bit0 = sp.bit0 /\ sp'.bit1 = sp.bit1
        /\ sp'.result = sp.result /\ sp'.get_last = last
        /\ sp'.get_ptr = zero /\ sp'.bit0_put = sp.bit0_put
        /\ sp'.bit1_put = sp.bit1_put
    BY <1>11, <2>2, <2>3 DEF SplitLocals
  <2> QED
    BY <2>4 DEF zero
<1>16. Allocated' = Allocated /\ Mapped'
  BY <1>1 DEF Allocated, PackedInv, Mapped, InMapping, sizeof_bucket
<1>17. PutPositions'
  BY <1>3, <1>4, <1>5, <1>9, <1>10, <1>14, <1>15 DEF PutPositions
<1>18. Splits(P \cup {t}, W, Q)'
  <2>1. nxt' = nxt
    BY <1>12, <1>14 DEF nxt
  <2>2. \A b \in (P \cup {t}) \ W : buckets'[b].bytes_used = 0
    BY <1>2, <1>12, <1>14 DEF Splits
  <2>3. (P \cup {t}) \cup Q \subseteq Allocated /\ W \subseteq P \cup {t}
        /\ (P \cup {t}) \cap Q = {}
    BY <1>4, <1>8, <1>10
  <2> QED
    BY <1>1, <1>2, <1>9, <1>15, <1>16, <2>1, <2>2, <2>3 DEF Splits
<1>19. Locals' /\ arg'.bucket_id \in heads'
  BY <1>1, <1>5, <1>15 DEF PackedInv, Bounded, Locals
<1>20. /\ Partly(buckets'[sp'.get], sp'.get_ptr, sp'.get_last)
       /\ \A x \in Allocated' \ {sp'.get} : Whole(buckets'[x])
  <2>1. \A x \in Allocated \ {t} : Whole(buckets[x])
    BY <1>3, <1>13
  <2> QED
    BY <1>5, <1>12, <1>14, <1>15, <1>16, <2>1
<1>21. P \cup {t} \in SUBSET Ids
  BY <1>5, <1>8
<1> QED
  BY <1>1, <1>14, <1>16, <1>17, <1>18, <1>19, <1>20, <1>21, SplitDone

(* What is cut off behind bit0 is what was read and not written.            *)
LEMMA PackedSplitUnlink ==
  ASSUME PackedInv, Inv({})', SplitUnlink
  PROVE  PackedInv'
<1> DEFINE cut == [buckets[sp.bit0] EXCEPT !.next_bucket_id = INVALID_BUCKET_ID]
<1>1. /\ pc = "split" /\ pc' = "free" /\ sp.get_ptr = sp.get_last
      /\ cursor' = buckets[sp.bit0].next_bucket_id
      /\ buckets[sp.get].next_bucket_id = INVALID_BUCKET_ID
      /\ buckets' = [buckets EXCEPT ![sp.bit0] = cut]
      /\ UNCHANGED <<buckets_count, length, heads, arg, sp, result>>
  BY DEF SplitUnlink
<1>2. PICK P, W, Q \in SUBSET Ids : Splits(P, W, Q)
  BY <1>1, InSplit
<1>3. /\ sp.get \in P /\ sp.bit0 \in W /\ sp.bit0 \in P
      /\ sp.get \in Allocated /\ sp.bit0 \in Allocated
      /\ Partly(buckets[sp.get], sp.get_ptr, sp.get_last)
      /\ \A b \in Allocated \ {sp.get} : Whole(buckets[b])
      /\ \A x \in Allocated : nxt[x] # arg.bucket_id
      /\ \A x, y \in Allocated : x # y /\ nxt[x] \in Allocated => nxt[x] # nxt[y]
  BY <1>1, <1>2, SplitPlaces
<1>4. /\ buckets \in [Ids -> Bucket] /\ sp.get_ptr \in Int /\ Allocated \subseteq Ids
  BY <1>1, InSplit
<1>5. \A b \in Allocated : Whole(buckets[b])
  BY <1>1, <1>3, <1>4, ReadLast
<1>6. /\ cut \in Bucket /\ cut.data = buckets[sp.bit0].data
      /\ cut.bytes_used = buckets[sp.bit0].bytes_used
      /\ cut.next_bucket_id = INVALID_BUCKET_ID
  BY <1>3, <1>4 DEF Bucket
<1> HIDE DEF cut
<1>7. Allocated' = Allocated /\ Mapped'
  BY <1>1 DEF Allocated, PackedInv, Mapped, InMapping, sizeof_bucket
<1>8. \A b \in Allocated' : PackedAt(b)'
  <2>1. \A b \in Allocated : Whole(buckets'[b])
    BY <1>1, <1>3, <1>4, <1>5, <1>6 DEF Whole
  <2> QED
    BY <1>1, <1>7, <2>1 DEF PackedAt, reading
<1>9. cursor' = nxt[sp.bit0] /\ nxt[sp.get] = INVALID_BUCKET_ID
  BY <1>1, <1>3, <1>4 DEF nxt
<1>10. Bounded'
  <2>1. cursor' \in Links
    BY <1>1, <1>3, <1>4, BucketTypes
  <2> QED
    BY <1>1, <1>3, <1>4, <1>6, <2>1 DEF PackedInv, Bounded, Locals
<1>11. Frees(P \ W)'
  <2>1. \A b \in P : nxt[b] = INVALID_BUCKET_ID \/ nxt[b] \in P
    BY <1>2, <1>9 DEF Splits, Path
  <2>2. P \subseteq Allocated /\ W \subseteq P
    BY <1>2 DEF Splits
  <2>3. \A b \in P \ W : nxt[b] \notin W
    <3> SUFFICES ASSUME NEW b \in P \ W, nxt[b] \in W PROVE FALSE
      OBVIOUS
    <3>1. PICK a \in W : nxt[a] = nxt[b]
      BY <1>2, <1>3, <2>2 DEF Splits, Path
    <3> QED
      BY <1>3, <2>2, <3>1
  <2>4. nxt[sp.bit0] \notin W
    BY <1>2 DEF Splits, Path
  <2>5. \A b \in P \ W : nxt'[b] = nxt[b] /\ buckets'[b] = buckets[b]
    BY <1>1, <1>3, <1>4, <2>2 DEF nxt
  <2>6. \A b \in P \ W : buckets'[b].bytes_used = 0
    BY <1>2, <2>5 DEF Splits
  <2>7. cursor' \in (P \ W) \cup {INVALID_BUCKET_ID}
    BY <1>3, <1>9, <2>1, <2>4
  <2>8. \A b \in P \ W : nxt'[b] \in (P \ W) \cup {INVALID_BUCKET_ID}
    BY <2>1, <2>3, <2>5
  <2> QED
    BY <1>7, <2>2, <2>6, <2>7, <2>8 DEF Frees
<1>12. FreedPath'
  BY <1>11 DEF FreedPath
<1>13. SplitPaths' /\ PutPositions'
  BY <1>1 DEF SplitPaths, PutPositions
<1> QED
  BY <1>7, <1>8, <1>10, <1>12, <1>13 DEF PackedInv

(* split puts an empty bucket on the free list.                             *)
LEMMA PackedSplitFree ==
  ASSUME PackedInv, Inv({})', SplitFree
  PROVE  PackedInv'
<1> DEFINE freed == [buckets[cursor] EXCEPT !.next_bucket_id = first_free_bucket_id]
<1>1. /\ pc = "free" /\ pc' = "free" /\ cursor # INVALID_BUCKET_ID
      /\ cursor' = buckets[cursor].next_bucket_id
      /\ buckets' = [buckets EXCEPT ![cursor] = freed]
      /\ UNCHANGED <<buckets_count, length, arg, sp, result>>
  BY DEF SplitFree
<1>2. /\ cursor \in Allocated /\ Allocated \subseteq Ids /\ buckets \in [Ids -> Bucket]
      /\ first_free_bucket_id \in Links
  BY <1>1, AllocatedIds, LinkTypes DEF PackedInv, Inv, Live, Typed, Bounded
<1>3. /\ freed \in Bucket /\ freed.data = buckets[cursor].data
      /\ freed.bytes_used = buckets[cursor].bytes_used
  BY <1>2 DEF Bucket, Links
<1> HIDE DEF freed
<1>4. Allocated' = Allocated /\ Mapped'
  BY <1>1 DEF Allocated, PackedInv, Mapped, InMapping, sizeof_bucket
<1>5. \A b \in Allocated' : PackedAt(b)'
  <2>1. \A b \in Allocated : Whole(buckets[b])
    BY <1>1, NotReading
  <2>2. \A b \in Allocated : Whole(buckets'[b])
    BY <1>1, <1>2, <1>3, <2>1 DEF Whole
  <2> QED
    BY <1>1, <1>4, <2>2 DEF PackedAt, reading
<1>6. Bounded'
  <2>1. cursor' \in Links
    BY <1>1, <1>2, BucketTypes
  <2> QED
    BY <1>1, <1>2, <1>3, <2>1 DEF PackedInv, Bounded, Locals
<1>7. PICK R \in SUBSET Ids : Frees(R)
  BY <1>1 DEF PackedInv, FreedPath
<1>0. PICK c : c = cursor
  OBVIOUS
<1>8. Frees(R \ {c})'
  <2>1. /\ \A b \in Allocated : nxt[b] # c
        /\ R \subseteq Allocated /\ c \in R /\ cursor' = nxt[c]
        /\ \A b \in R : nxt[b] \in R \cup {INVALID_BUCKET_ID}
        /\ \A b \in R : buckets[b].bytes_used = 0
    BY <1>0, <1>1, <1>2, <1>7 DEF PackedInv, Inv, Live, OneReference, Frees, nxt
  <2>2. \A b \in R \ {c} : nxt'[b] = nxt[b] /\ buckets'[b] = buckets[b]
    BY <1>0, <1>1, <1>2, <2>1 DEF nxt
  <2> QED
    BY <1>4, <2>1, <2>2 DEF Frees
<1>9. FreedPath'
  BY <1>8 DEF FreedPath
<1>10. SplitPaths' /\ PutPositions'
  BY <1>1 DEF SplitPaths, PutPositions
<1> QED
  BY <1>4, <1>5, <1>6, <1>9, <1>10 DEF PackedInv

(* split returns.                                                           *)
LEMMA PackedSplitReturn ==
  ASSUME PackedInv, Inv({})', SplitReturn
  PROVE  PackedInv'
<1>1. /\ pc = "free" /\ pc' = "idle" /\ arg' = NoArg /\ cursor' = INVALID_BUCKET_ID
      /\ result' = [NoResult EXCEPT !.bucket_id = sp.result] /\ sp' = NoSplit
      /\ UNCHANGED <<buckets_count, buckets, length>>
  BY DEF SplitReturn, Return, layout_vars
<1>2. sp.result \in Links
  BY DEF PackedInv, Bounded, Locals, SplitLocals
<1>3. result' \in Results
  BY <1>1, <1>2, LinkTypes DEF NoResult, Results
<1>4. Bounded'
  BY <1>1, <1>3, LinkTypes DEF PackedInv, Bounded, Locals
<1>5. \A b \in Allocated' : Whole(buckets'[b])
  BY <1>1, NotReading DEF Allocated
<1>6. Mapped'
  BY <1>1 DEF PackedInv, Mapped, InMapping, sizeof_bucket
<1> QED
  BY <1>1, <1>4, <1>5, <1>6, NotSplitting

-----------------------------------------------------------------------------
(* The invariant holds on a new file, and always.                           *)
LEMMA PackedInit == ContainerInit => PackedInv
<1> SUFFICES ASSUME ContainerInit PROVE PackedInv
  OBVIOUS
<1>1. Inv({})
  BY InvInit
<1>2. Allocated = {} /\ pc = "idle" /\ buckets_count = 0 /\ length = sizeof_layout
  BY DEF ContainerInit, Allocated
<1>3. buckets \in [Ids -> Bucket]
  <2>1. 0 \in Ids \cup {INVALID_BUCKET_ID} /\ 0 \in 0 .. HASH_BITS
        /\ 0 \in 0 .. BUCKET_SIZE
    BY IdsValid, SizesAssumption
  <2>2. [prefix_bits |-> 0, bytes_used |-> 0, next_bucket_id |-> 0, data |-> {}]
          \in Bucket
    BY <2>1 DEF Bucket
  <2> QED
    BY <2>2 DEF ContainerInit
<1>4. Locals
  BY LinkTypes DEF ContainerInit, Locals
<1>5. Mapped
  BY <1>2, SizesAssumption DEF Mapped, InMapping, sizeof_layout, sizeof_bucket
<1> QED
  BY <1>1, <1>2, <1>3, <1>4, <1>5
     DEF PackedInv, Bounded, PutPositions, SplitPaths, FreedPath

(* Every step preserves it.                                                 *)
LEMMA PackedStep == PackedInv /\ [Used]_cvars => PackedInv'
<1> SUFFICES ASSUME PackedInv, [Used]_cvars PROVE PackedInv'
  OBVIOUS
<1>0. Inv({})'
  BY InvStep DEF PackedInv
<1>1. CASE Called
  <2>1. CASE CreateBucket(1)
    BY <1>0, <2>1, PackedCreateBucket
  <2>2. ASSUME NEW b \in heads, NEW k \in Keys, FindCall(b, k) PROVE PackedInv'
    BY <1>0, <2>2, PackedCall DEF FindCall
  <2>3. ASSUME NEW b \in heads, NEW k \in Keys, RemoveCall(b, k) PROVE PackedInv'
    BY <1>0, <2>3, PackedCall DEF RemoveCall
  <2>4. ASSUME NEW b \in heads, NEW k \in Keys, NEW v \in Values, CreateCall(b, k, v)
        PROVE  PackedInv'
    BY <1>0, <2>4, PackedCall DEF CreateCall
  <2>5. ASSUME NEW b \in heads, buckets[b].prefix_bits < HASH_BITS, SplitCall(b)
        PROVE  PackedInv'
    BY <1>0, <2>5, PackedSplitCall
  <2> QED
    BY <1>1, <2>1, <2>2, <2>3, <2>4, <2>5 DEF Called
<1>2. CASE ContainerStep
  <2>1. CASE FindNext \/ RemoveNext \/ CreateNext
    BY <1>0, <2>1, PackedWalk DEF FindNext, RemoveNext, CreateNext
  <2>2. CASE CreateGrow
    BY <1>0, <2>2, PackedCreateGrow
  <2>3. CASE SplitStep
    BY <1>0, <2>3, PackedSplitAppend, PackedSplitBit1Grow, PackedSplitBit0Advance,
       PackedSplitNextBucket, PackedSplitUnlink, PackedSplitFree DEF SplitStep
  <2> QED
    BY <1>2, <2>1, <2>2, <2>3 DEF ContainerStep
<1>3. CASE ContainerReturn
  BY <1>0, <1>3, PackedReturn, PackedRemoveHit, PackedCreateWrite, PackedSplitReturn
     DEF ContainerReturn
<1>4. CASE UNCHANGED cvars
  <2>1. UNCHANGED <<buckets_count, first_free_bucket_id, buckets, length, heads, pc, arg,
                    cursor, sp, result>>
    BY <1>4 DEF cvars, layout_vars, local_vars
  <2>2. nxt' = nxt /\ Allocated' = Allocated
    BY <2>1 DEF nxt, Allocated
  <2>3. Bounded' /\ Mapped'
    BY <2>1 DEF PackedInv, Bounded, Locals, Mapped, InMapping, sizeof_bucket
  <2>4. \A b \in Allocated' : PackedAt(b)'
    BY <2>1, <2>2 DEF PackedInv, PackedAt, reading
  <2>5. PutPositions'
    BY <2>1 DEF PackedInv, PutPositions
  <2>6. SplitPaths'
    BY <2>1, <2>2 DEF PackedInv, SplitPaths, Splits
  <2>7. FreedPath'
    BY <2>1, <2>2 DEF PackedInv, FreedPath, Frees
  <2> QED
    BY <1>0, <2>3, <2>4, <2>5, <2>6, <2>7 DEF PackedInv
<1> QED
  BY <1>1, <1>2, <1>3, <1>4 DEF Used

(* Every call of container keeps it.                                        *)
LEMMA PackedAlways == ContainerSpec => []PackedInv
  BY PackedInit, PackedStep, NextUsed, PTL DEF ContainerSpec

(* It says what Packed, SplitAsserts, InMapping and the types say.          *)
LEMMA InvPacked == PackedInv => Packed
<1> SUFFICES ASSUME PackedInv PROVE Packed
  OBVIOUS
<1> SUFFICES ASSUME NEW b \in Allocated
             PROVE  LET data == buckets[b].data
                        unread == IF reading(b) THEN {r \in data : r.offset >= sp.get_ptr}
                                                ELSE {}
                    IN /\ Tiles(data \ unread, 0, buckets[b].bytes_used)
                       /\ reading(b) => /\ Tiles(unread, sp.get_ptr, sp.get_last)
                                        /\ buckets[b].bytes_used <= sp.get_ptr
  BY DEF Packed
<1>1. PackedAt(b)
  BY DEF PackedInv
<1>2. CASE reading(b)
  BY <1>1, <1>2 DEF PackedAt, Partly, From
<1>3. CASE ~reading(b)
  <2>1. Tiles(buckets[b].data, 0, buckets[b].bytes_used)
    BY <1>1, <1>3 DEF PackedAt, Whole
  <2>2. buckets[b].data \ {} = buckets[b].data
    OBVIOUS
  <2> QED
    BY <1>3, <2>1, <2>2
<1> QED
  BY <1>2, <1>3

(* The invariant implies the asserts of split.                              *)
LEMMA InvSplitAsserts == PackedInv => SplitAsserts
<1> SUFFICES ASSUME PackedInv PROVE SplitAsserts
  OBVIOUS
<1>1. pc = "split" => /\ sp.bit0_put = buckets[sp.bit0].bytes_used
                      /\ sp.bit1_put = buckets[sp.bit1].bytes_used
  BY DEF PackedInv, PutPositions
<1>2. ASSUME pc = "free", cursor # INVALID_BUCKET_ID
      PROVE  buckets[cursor].bytes_used = 0 /\ buckets[cursor].data = {}
  <2>1. cursor \in Allocated /\ buckets[cursor].bytes_used = 0
    BY <1>2 DEF PackedInv, FreedPath, Frees
  <2>2. Whole(buckets[cursor])
    BY <1>2, <2>1, NotReading
  <2> QED
    BY <2>1, <2>2 DEF Whole, Tiles
<1> QED
  BY <1>1, <1>2 DEF SplitAsserts

(****************************************************************************)
(* The bucket being read is on the chain behind bit0.  If it were not, the  *)
(* links would lead from the buckets written, and what of that chain has    *)
(* been read, to these again and never to the first: there are too few.     *)
(****************************************************************************)
LEMMA GetAhead ==
  ASSUME PackedInv, pc = "split",
         NEW P \in SUBSET Ids, NEW W \in SUBSET Ids, NEW Q \in SUBSET Ids,
         Splits(P, W, Q), NEW t, t = nxt[sp.bit0], t \in P
  PROVE  sp.get \in Chain(t)
<1>1. PICK first : first = arg.bucket_id
  OBVIOUS
<1>2. /\ \A x \in Allocated : nxt[x] # first
      /\ \A x, y \in Allocated : x # y /\ nxt[x] \in Allocated => nxt[x] # nxt[y]
  BY <1>1, SplitPlaces
<1>3. /\ P \subseteq Allocated /\ W \subseteq P /\ first \in W
      /\ \A x \in P \ {sp.get} : nxt[x] \in P
      /\ \A x \in W \ {sp.bit0} : nxt[x] \in W
  BY <1>1 DEF Splits, Path
<1>4. INVALID_BUCKET_ID \notin Ids /\ t \in Ids /\ buckets \in [Ids -> AnyBucket]
  BY IdsValid DEF PackedInv, Inv, Live, Typed
<1>5. /\ t \in Chain(t)
      /\ \A x \in Chain(t) : nxt[x] \in Chain(t) \cup {INVALID_BUCKET_ID}
  BY <1>4, ChainLeast
<1> SUFFICES ASSUME sp.get \notin Chain(t) PROVE FALSE
  OBVIOUS
<1>6. PICK S : S = W \cup (P \cap Chain(t))
  OBVIOUS
<1>7. S \subseteq Allocated /\ S \subseteq Ids /\ first \in S
  BY <1>3, <1>6
<1>8. \A x \in S : nxt[x] \in S \ {first}
  <2>1. \A x \in P \cap Chain(t) : nxt[x] \in P \cap Chain(t)
    BY <1>3, <1>4, <1>5
  <2>2. \A x \in W : nxt[x] \in W \cup {t}
    BY <1>3
  <2>3. t \in P \cap Chain(t)
    BY <1>5
  <2>4. \A x \in S : nxt[x] \in S
    BY <1>6, <2>1, <2>2, <2>3
  <2> QED
    BY <1>2, <1>7, <2>4
<1>9. IsFiniteSet(S) /\ IsFiniteSet(S \ {first})
      /\ Cardinality(S \ {first}) < Cardinality(S)
  <2>1. IsFiniteSet(Ids)
    <3>1. MaxBuckets - 1 \in Int
      BY SizesAssumption
    <3> QED
      BY <3>1, FS_Interval DEF Ids
  <2>2. IsFiniteSet(S)
    BY <1>7, <2>1, FS_Subset
  <2>3. IsFiniteSet(S \ {first}) /\ Cardinality(S \ {first}) = Cardinality(S) - 1
    BY <1>7, <2>2, FS_RemoveElement
  <2> QED
    BY <2>2, <2>3, FS_CardinalityType
<1>10. PICK f \in [S -> S \ {first}] : \A x \in S : f[x] = nxt[x]
  <2>1. [x \in S |-> nxt[x]] \in [S -> S \ {first}]
    BY <1>8
  <2> QED
    BY <2>1
<1>11. \E x, y \in S : x # y /\ f[x] = f[y]
  BY <1>9, FS_PigeonHole
<1> QED
  BY <1>2, <1>7, <1>8, <1>10, <1>11

(* A record that stays has room behind bit0, up to where it is read.        *)
LEMMA InvBit0HasRoom == PackedInv => Bit0HasRoom
<1> SUFFICES ASSUME PackedInv, pc = "split", NEW r \in at_get_ptr,
                    ~bytes_left_in(sp.bit0, r)
             PROVE  /\ sp.bit0 # sp.get
                    /\ buckets[sp.bit0].next_bucket_id # INVALID_BUCKET_ID
                    /\ sp.get \in Chain(buckets[sp.bit0].next_bucket_id)
  BY DEF Bit0HasRoom
<1>1. PICK P, W, Q \in SUBSET Ids : Splits(P, W, Q)
  BY InSplit
<1>2. PICK t : t = nxt[sp.bit0]
  OBVIOUS
<1>3. /\ sp.bit0 # sp.get /\ t = buckets[sp.bit0].next_bucket_id
      /\ t # INVALID_BUCKET_ID /\ t \in P
  BY <1>1, <1>2, Bit0Room
<1>4. sp.get \in Chain(t)
  BY <1>1, <1>2, <1>3, GetAhead
<1> QED
  BY <1>3, <1>4

(* It bounds what the types bound.                                          *)
LEMMA InvTypes == PackedInv => ContainerTypeOK
<1> SUFFICES ASSUME PackedInv PROVE ContainerTypeOK
  OBVIOUS
<1>1. /\ buckets_count \in 0 .. MaxBuckets
      /\ first_free_bucket_id \in Ids \cup {INVALID_BUCKET_ID}
      /\ heads \subseteq Ids
      /\ pc \in {"idle", "find", "remove", "create", "split", "free"}
  BY AllocatedIds DEF PackedInv, Inv, Live, Typed
<1>2. /\ buckets \in [Ids -> Bucket] /\ length \in Nat
      /\ arg \in Arguments /\ cursor \in Links /\ sp \in SplitLocals
      /\ result \in Results
  BY DEF PackedInv, Bounded, Locals, Mapped
<1> QED
  BY <1>1, <1>2 DEF ContainerTypeOK, Arguments, Links, SplitLocals, Results

(****************************************************************************)
(* Every variable of the container keeps its type, the widths of the fields *)
(* in the file and of the locals of split included.                         *)
(****************************************************************************)
THEOREM ContainerTypes == ContainerSpec => []ContainerTypeOK
  BY PackedAlways, InvTypes, PTL

(****************************************************************************)
(* The records of every bucket are packed without a gap or an overlap, in   *)
(* the middle of every call: remove_record closes the gap it makes,         *)
(* create_record and split write behind the last record, and split never    *)
(* writes over a record it has still to read.                               *)
(****************************************************************************)
THEOREM RecordsPacked == ContainerSpec => []Packed
  BY PackedAlways, InvPacked, PTL

(****************************************************************************)
(* The asserts inside split hold: it writes at the fill level of the        *)
(* bucket, and frees only buckets that hold no record.                      *)
(****************************************************************************)
THEOREM SplitAssertsHold == ContainerSpec => []SplitAsserts
  BY PackedAlways, InvSplitAsserts, PTL

(****************************************************************************)
(* Every bucket create_bucket hands out lies in the mapping.                *)
(****************************************************************************)
THEOREM BucketsMapped == ContainerSpec => []InMapping
<1>1. PackedInv => InMapping
  BY DEF PackedInv, Mapped
<1> QED
  BY <1>1, PackedAlways, PTL

(****************************************************************************)
(* split never extends the chain it packs: a record that stays has room in  *)
(* bit0 or in the bucket behind it, and the bucket being read is on the     *)
(* chain from there on, so writing never overtakes reading.                 *)
(****************************************************************************)
THEOREM StayersHaveRoom == ContainerSpec => []Bit0HasRoom
  BY PackedAlways, InvBit0HasRoom, PTL
=============================================================================
