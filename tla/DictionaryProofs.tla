-------------------------- MODULE DictionaryProofs ---------------------------
(****************************************************************************)
(* Proofs that Container implements BucketStore and HashMap implements      *)
(* KVMap, for any keys, values, hashes and sizes.  The invariant is the     *)
(* same for both: every record is on the chain its key belongs to, and no   *)
(* key is stored twice.  On its own the container keeps any placing of the  *)
(* keys its callers began with; the map's is that of its catalogue.         *)
(*                                                                          *)
(* Every bucket in use has an owner, the first bucket of its chain.  That a *)
(* walk meets all buckets of a chain is said without recursion: a set with  *)
(* the first bucket that is closed under next_bucket_id is all of it.       *)
(*                                                                          *)
(* The last part is about module Iterator: that an iterator over such a map *)
(* meets each of its records once.                                          *)
(****************************************************************************)
EXTENDS HashMapProofs

(* S is what the links of the graph next lead to from c, and no more.       *)
Generated(next, S, c) ==
    /\ c \in S
    /\ \A T \in SUBSET S :
         c \in T /\ (\A x \in T : next[x] \in S => next[x] \in T) => T = S

(****************************************************************************)
(* own gives the chain in C that each bucket of A belongs to, or none.  The *)
(* free list, f, belongs to none.                                           *)
(****************************************************************************)
Owned(own, A, next, C, f) ==
    /\ own \in [Ids -> Links]
    /\ \A x \in A : own[x] \in C \cup {INVALID_BUCKET_ID}
    /\ \A x \in A : next[x] # INVALID_BUCKET_ID => own[next[x]] = own[x]
    /\ f # INVALID_BUCKET_ID => own[f] = INVALID_BUCKET_ID
    /\ \A c \in C : Generated(next, {x \in A : own[x] = c}, c)

(* The graph of the buckets A: an edge leads to a bucket of A.              *)
Graph(A, next, C) ==
    /\ A \subseteq Ids /\ C \subseteq A /\ next \in [Ids -> Links]
    /\ \A x \in A : next[x] \in A \cup {INVALID_BUCKET_ID}

(* Bucket n can be taken; the free list goes on with f2.                    *)
Taken(own, A, next, C, n, f2) ==
    /\ n \in Ids /\ n \notin C /\ \A x \in A : next[x] # n
    /\ f2 # INVALID_BUCKET_ID => f2 \in Ids /\ f2 # n /\ own[f2] = INVALID_BUCKET_ID
    /\ n \in A => own[n] = INVALID_BUCKET_ID

-----------------------------------------------------------------------------
(* The chains: those callers know, and the one a split is filling.          *)
chain_ids == heads \cup (IF splitting THEN {sp.result} ELSE {})

Owners(own) == Owned(own, Allocated, nxt, chain_ids, first_free_bucket_id)

(* Whose buckets the call in progress writes.                               *)
Working(own) ==
    /\ pc = "create" => own[cursor] = arg.bucket_id
    /\ pc = "split" => own[sp.bit0] = arg.bucket_id /\ own[sp.bit1] = sp.result
    /\ pc = "free" /\ cursor # INVALID_BUCKET_ID => own[cursor] = INVALID_BUCKET_ID

(****************************************************************************)
(* A record in bucket x is on the chain its key is placed on; if the chain  *)
(* is being split, it may be on the new one, when it has the new bit.       *)
(****************************************************************************)
Home(own, x, r, place) ==
    \/ own[x] \in heads /\ place[r.key] = own[x]
    \/ /\ splitting /\ own[x] = sp.result
       /\ new_bit_of(r) = 1 /\ place[r.key] = arg.bucket_id

Homes(own, place) ==
    \A x \in Allocated : \A r \in buckets[x].data : Home(own, x, r, place)

(* The bucket a walk along a chain has come to.                             *)
walker == IF pc = "split" THEN sp.get ELSE cursor

(* The walk has passed the buckets in seen, from the chain's first one on.  *)
Walked(own, seen) ==
    pc \in {"find", "remove", "split"} =>
      /\ seen \cup {walker} \subseteq {x \in Allocated : own[x] = arg.bucket_id}
      /\ arg.bucket_id \in seen \cup {walker}
      /\ \A x \in seen : nxt[x] \in seen \cup {walker}

(* What it has found out about their records.                               *)
Searched(own, seen) ==
    /\ pc \in {"find", "remove"} =>
         \A x \in seen : \A r \in buckets[x].data : r.key # arg.key
    /\ pc = "split" =>
         \A x \in seen \cup {sp.get} : \A r \in buckets[x].data :
           new_bit_of(r) = 0 \/ (x = sp.get /\ r.offset >= sp.get_ptr)
    /\ pc = "free" =>
         \A x \in Allocated : own[x] = arg.bucket_id =>
           \A r \in buckets[x].data : new_bit_of(r) = 0

Laid(own, seen, place) ==
    /\ Owners(own) /\ Working(own) /\ Homes(own, place)
    /\ Walked(own, seen) /\ Searched(own, seen)

(* No key is stored twice in the buckets A.                                 *)
UniqueIn(bs, A) ==
    \A x, y \in A : \A r \in bs[x].data, s \in bs[y].data :
      r.key = s.key => x = y /\ r = s

Unique == UniqueIn(buckets, Allocated)

(* Some bucket has a record of k with value v.                              *)
StoredIn(bs, A, k, v) ==
    \E x \in A : \E r \in bs[x].data : r.key = k /\ r.value = v

Stored(k, v) == StoredIn(buckets, Allocated, k, v)

(* The same values are stored for the same keys.                            *)
SameItems(old, A, new, B) ==
    \A k, v : StoredIn(new, B, k, v) <=> StoredIn(old, A, k, v)

(* What the container's callers have asked it for.                          *)
Serving ==
    /\ pc # "idle" => arg.bucket_id \in heads
    /\ splitting => sp.prefix_bits \in 1 .. HASH_BITS

(****************************************************************************)
(* place says which chain a key belongs to.  The container keeps the        *)
(* records in that order, wherever its callers got it from.                 *)
(****************************************************************************)
Arranged(place) ==
    PackedInv /\ Serving /\ Unique /\ \E own, seen : Laid(own, seen, place)

(* A step that leaves the keys where they are.                              *)
Rearranged(place) ==
    /\ (\E own, seen : Laid(own, seen, place))'
    /\ Unique' /\ SameItems(buckets, Allocated, buckets', Allocated')

-----------------------------------------------------------------------------
(* A bucket that is taken becomes a chain of its own.                       *)
LEMMA OwnedNew ==
  ASSUME NEW own, NEW A, NEW next, NEW C, NEW f, NEW n, NEW f2,
         Graph(A, next, C), Owned(own, A, next, C, f),
         Taken(own, A, next, C, n, f2),
         NEW next2, next2 = [next EXCEPT ![n] = INVALID_BUCKET_ID],
         NEW own2, own2 = [own EXCEPT ![n] = n]
  PROVE  Owned(own2, A \cup {n}, next2, C \cup {n}, f2)
<1>1. /\ A \subseteq Ids /\ C \subseteq A /\ next \in [Ids -> Links] /\ own \in [Ids -> Links]
      /\ \A x \in A : next[x] \in A \cup {INVALID_BUCKET_ID}
      /\ n \in Ids /\ n \notin C /\ \A x \in A : next[x] # n
      /\ INVALID_BUCKET_ID \notin Ids
  BY IdsValid DEF Graph, Owned, Taken
<1>2. /\ own2 \in [Ids -> Links] /\ own2[n] = n /\ \A x \in Ids \ {n} : own2[x] = own[x]
      /\ next2 \in [Ids -> Links] /\ next2[n] = INVALID_BUCKET_ID
      /\ \A x \in Ids \ {n} : next2[x] = next[x]
  BY <1>1 DEF Links
<1>3. \A x \in A \cup {n} : own2[x] \in (C \cup {n}) \cup {INVALID_BUCKET_ID}
  BY <1>1, <1>2 DEF Owned
<1>4. \A x \in A \cup {n} : next2[x] # INVALID_BUCKET_ID => own2[next2[x]] = own2[x]
  BY <1>1, <1>2 DEF Owned
<1>6. f2 # INVALID_BUCKET_ID => own2[f2] = INVALID_BUCKET_ID
  BY <1>1, <1>2 DEF Taken
<1>7. ASSUME NEW c \in C
      PROVE  Generated(next2, {x \in A \cup {n} : own2[x] = c}, c)
  <2>1. PICK S : S = {x \in A : own[x] = c}
    OBVIOUS
  <2>2. n \notin S
    BY <1>1, <2>1 DEF Taken
  <2>3. {x \in A \cup {n} : own2[x] = c} = S
    BY <1>1, <1>2, <2>1, <2>2
  <2>4. \A x \in S : next2[x] = next[x]
    BY <1>1, <1>2, <2>1, <2>2
  <2>5. Generated(next, S, c)
    BY <2>1 DEF Owned
  <2>6. Generated(next2, S, c)
    BY <2>4, <2>5 DEF Generated
  <2> QED
    BY <2>3, <2>6
<1>8. Generated(next2, {x \in A \cup {n} : own2[x] = n}, n)
  <2>1. \A x \in A : own[x] # n
    BY <1>1 DEF Owned
  <2>2. {x \in A \cup {n} : own2[x] = n} = {n}
    BY <1>1, <1>2, <2>1
  <2>3. Generated(next2, {n}, n)
    BY DEF Generated
  <2> QED
    BY <2>2, <2>3
<1>9. \A c \in C \cup {n} : Generated(next2, {x \in A \cup {n} : own2[x] = c}, c)
  BY <1>7, <1>8
<1> QED
  BY <1>2, <1>3, <1>4, <1>6, <1>9 DEF Owned

(* Or it becomes the last bucket of the chain that l was the last one of.   *)
LEMMA OwnedGrow ==
  ASSUME NEW own, NEW A, NEW next, NEW C, NEW f, NEW n, NEW f2, NEW l,
         Graph(A, next, C), Owned(own, A, next, C, f),
         Taken(own, A, next, C, n, f2),
         l \in A, l # n, next[l] = INVALID_BUCKET_ID, own[l] \in C,
         NEW next2, next2 = [[next EXCEPT ![n] = INVALID_BUCKET_ID] EXCEPT ![l] = n],
         NEW own2, own2 = [own EXCEPT ![n] = own[l]]
  PROVE  Owned(own2, A \cup {n}, next2, C, f2)
<1>1. /\ A \subseteq Ids /\ C \subseteq A /\ next \in [Ids -> Links] /\ own \in [Ids -> Links]
      /\ \A x \in A : next[x] \in A \cup {INVALID_BUCKET_ID}
      /\ n \in Ids /\ n \notin C /\ \A x \in A : next[x] # n
      /\ INVALID_BUCKET_ID \notin Ids /\ l \in Ids
  BY IdsValid DEF Graph, Owned, Taken
<1>2. /\ own2 \in [Ids -> Links] /\ own2[n] = own[l]
      /\ \A x \in Ids \ {n} : own2[x] = own[x]
      /\ next2[n] = INVALID_BUCKET_ID /\ next2[l] = n
      /\ \A x \in Ids \ {n, l} : next2[x] = next[x]
  BY <1>1 DEF Links
<1>3. \A x \in A \cup {n} : own2[x] \in C \cup {INVALID_BUCKET_ID}
  BY <1>1, <1>2 DEF Owned
<1>4. \A x \in A \cup {n} : next2[x] # INVALID_BUCKET_ID => own2[next2[x]] = own2[x]
  BY <1>1, <1>2 DEF Owned
<1>6. f2 # INVALID_BUCKET_ID => own2[f2] = INVALID_BUCKET_ID
  BY <1>1, <1>2 DEF Taken
<1>7. ASSUME NEW c \in C
      PROVE  Generated(next2, {x \in A \cup {n} : own2[x] = c}, c)
  <2>1. PICK S : S = {x \in A : own[x] = c}
    OBVIOUS
  <2>2. n \notin S /\ S \subseteq Ids
    BY <1>1, <2>1 DEF Taken
  <2>3. Generated(next, S, c)
    BY <2>1 DEF Owned
  <2>4. CASE own[l] # c
    <3>1. {x \in A \cup {n} : own2[x] = c} = S
      BY <1>1, <1>2, <2>1, <2>2, <2>4
    <3>2. \A x \in S : next2[x] = next[x]
      BY <1>1, <1>2, <2>1, <2>2, <2>4
    <3>3. Generated(next2, S, c)
      BY <2>3, <3>2 DEF Generated
    <3> QED
      BY <3>1, <3>3
  <2>5. CASE own[l] = c
    <3>1. {x \in A \cup {n} : own2[x] = c} = S \cup {n}
      BY <1>1, <1>2, <2>1, <2>2, <2>5
    <3>2. l \in S /\ \A x \in S \ {l} : next2[x] = next[x]
      BY <1>1, <1>2, <2>1, <2>2, <2>5
    <3>3. ASSUME NEW T \in SUBSET (S \cup {n}), c \in T,
                 \A x \in T : next2[x] \in S \cup {n} => next2[x] \in T
          PROVE  T = S \cup {n}
      <4>1. \A x \in T \ {n} : next[x] \in S => next[x] \in T \ {n}
        BY <1>1, <2>2, <3>2, <3>3
      <4>2. T \ {n} \in SUBSET S /\ c \in T \ {n}
        BY <1>1, <3>3
      <4>3. T \ {n} = S
        BY <2>3, <4>1, <4>2 DEF Generated
      <4>4. n \in T
        BY <1>2, <3>2, <3>3, <4>3
      <4> QED
        BY <4>3, <4>4
    <3>4. Generated(next2, S \cup {n}, c)
      BY <2>3, <3>3 DEF Generated
    <3> QED
      BY <3>1, <3>4
  <2> QED
    BY <2>4, <2>5
<1> QED
  BY <1>2, <1>3, <1>4, <1>6, <1>7 DEF Owned

(* Of chain c only the path W is left, up to l.                             *)
Cuts(own, A, next, C, f, c, W, l, next2, own2) ==
    /\ Graph(A, next, C) /\ Owned(own, A, next, C, f)
    /\ f \in A \cup {INVALID_BUCKET_ID}
    /\ c \in C /\ Path(next, W, c, l) /\ W \subseteq {x \in A : own[x] = c}
    /\ \A x \in A : next[x] # c
    /\ \A x, y \in A : x # y /\ next[x] \in A => next[x] # next[y]
    /\ next2 = [next EXCEPT ![l] = INVALID_BUCKET_ID]
    /\ own2 = [x \in Ids |-> IF x \in A /\ own[x] = c /\ x \notin W
                                THEN INVALID_BUCKET_ID ELSE own[x]]

(****************************************************************************)
(* The chain of c is cut behind l, the last bucket of a path W from c: what *)
(* follows belongs to no chain.  No bucket is linked twice, and c not at    *)
(* all, so nothing behind l leads back into W.                              *)
(****************************************************************************)
LEMMA OwnedCut ==
  ASSUME NEW own, NEW A, NEW next, NEW C, NEW f, NEW c, NEW W, NEW l, NEW next2, NEW own2,
         Cuts(own, A, next, C, f, c, W, l, next2, own2)
  PROVE  /\ Owned(own2, A, next2, C, f)
         /\ \A x \in W : own2[x] = c
         /\ \A x \in A : own2[x] = c => x \in W
<1> USE DEF Cuts
<1> DEFINE S == {x \in A : own[x] = c}
<1>1. /\ A \subseteq Ids /\ C \subseteq A /\ next \in [Ids -> Links] /\ own \in [Ids -> Links]
      /\ \A x \in A : next[x] \in A \cup {INVALID_BUCKET_ID}
      /\ INVALID_BUCKET_ID \notin Ids /\ W \subseteq S /\ c \in W /\ l \in W
      /\ \A x \in A : next[x] # INVALID_BUCKET_ID => own[next[x]] = own[x]
  BY IdsValid DEF Graph, Owned, Path
<1>2. /\ own2 \in [Ids -> Links]
      /\ \A x \in S \ W : own2[x] = INVALID_BUCKET_ID
      /\ \A x \in A \ (S \ W) : own2[x] = own[x]
      /\ next2[l] = INVALID_BUCKET_ID
      /\ \A x \in Ids \ {l} : next2[x] = next[x]
  BY <1>1 DEF Links
<1>3. \A x \in W \ {l} : next[x] \in W
  BY DEF Path
<1>4. \A x \in A : next[x] \in W => x \in W \ {l}
  <2> TAKE x \in A
  <2> SUFFICES ASSUME next[x] \in W PROVE x \in W \ {l}
    OBVIOUS
  <2>1. next[x] \in W \ {c} /\ next[x] \in A
    BY <1>1
  <2>2. PICK y \in W : next[y] = next[x]
    BY <2>1 DEF Path
  <2>3. y # l
    BY <2>1, <2>2 DEF Path
  <2> QED
    BY <1>1, <2>1, <2>2, <2>3
<1>5. \A x \in A : own2[x] \in C \cup {INVALID_BUCKET_ID}
  BY <1>1, <1>2 DEF Owned
<1>6. \A x \in A : next2[x] # INVALID_BUCKET_ID => own2[next2[x]] = own2[x]
  BY <1>1, <1>2, <1>3, <1>4
<1>7. f # INVALID_BUCKET_ID => own2[f] = INVALID_BUCKET_ID
  <2>1. f # INVALID_BUCKET_ID => own[f] = INVALID_BUCKET_ID
    BY DEF Owned
  <2> QED
    BY <1>1, <1>2, <2>1
<1>8. ASSUME NEW d \in C
      PROVE  Generated(next2, {x \in A : own2[x] = d}, d)
  <2>1. Generated(next, {x \in A : own[x] = d}, d)
    BY DEF Owned
  <2>2. CASE d # c
    <3>1. {x \in A : own2[x] = d} = {x \in A : own[x] = d}
      BY <1>1, <1>2, <2>2
    <3>2. \A x \in {y \in A : own[y] = d} : next2[x] = next[x]
      BY <1>1, <1>2, <2>2
    <3> QED
      BY <2>1, <3>1, <3>2 DEF Generated
  <2>3. CASE d = c
    <3>1. {x \in A : own2[x] = d} = W
      BY <1>1, <1>2, <2>3
    <3>2. ASSUME NEW T \in SUBSET W, c \in T,
                 \A x \in T : next2[x] \in W => next2[x] \in T
          PROVE  T = W
      <4>1. PICK U : U = T \cup (S \ W)
        OBVIOUS
      <4>2. U \in SUBSET S /\ c \in U
        BY <1>1, <3>2, <4>1
      <4>3. \A x \in U : next[x] \in S => next[x] \in U
        BY <1>1, <1>2, <1>3, <1>4, <3>2, <4>1
      <4>4. U = S
        BY <2>1, <2>3, <4>2, <4>3 DEF Generated
      <4> QED
        BY <1>1, <4>1, <4>4
    <3> QED
      BY <1>1, <2>3, <3>1, <3>2 DEF Generated
  <2> QED
    BY <2>2, <2>3
<1>9. Owned(own2, A, next2, C, f)
  BY <1>2, <1>5, <1>6, <1>7, <1>8 DEF Owned
<1> QED
  BY <1>1, <1>2, <1>9

(* A bucket that belongs to no chain goes to the head of the free list.     *)
LEMMA OwnedFree ==
  ASSUME NEW own, NEW A, NEW next, NEW C, NEW f,
         Graph(A, next, C), Owned(own, A, next, C, f),
         NEW x \in A, own[x] = INVALID_BUCKET_ID,
         NEW next2, next2 = [next EXCEPT ![x] = f]
  PROVE  Owned(own, A, next2, C, x)
<1>1. /\ A \subseteq Ids /\ C \subseteq A /\ next \in [Ids -> Links] /\ own \in [Ids -> Links]
      /\ INVALID_BUCKET_ID \notin Ids
  BY IdsValid DEF Graph, Owned
<1>2. next2[x] = f /\ \A y \in Ids \ {x} : next2[y] = next[y]
  BY <1>1
<1>3. \A y \in A : next2[y] # INVALID_BUCKET_ID => own[next2[y]] = own[y]
  BY <1>1, <1>2 DEF Owned
<1>4. ASSUME NEW c \in C
      PROVE  Generated(next2, {y \in A : own[y] = c}, c)
  <2>1. Generated(next, {y \in A : own[y] = c}, c)
    BY DEF Owned
  <2>2. \A z \in {y \in A : own[y] = c} : next2[z] = next[z]
    BY <1>1, <1>2
  <2> QED
    BY <2>1, <2>2 DEF Generated
<1> QED
  BY <1>3, <1>4 DEF Owned

-----------------------------------------------------------------------------
(* A record that moves to another place is still stored, and only there.    *)
LEMMA ItemsMoved ==
  ASSUME NEW A \in SUBSET Ids, NEW old, NEW new, NEW g \in A, NEW t \in A,
         NEW r \in old[g].data, NEW m, m.key = r.key, m.value = r.value,
         Transfers(old, new, g, r, t, m), UniqueIn(old, A)
  PROVE  UniqueIn(new, A) /\ SameItems(old, A, new, A)
<1>1. \A x \in A : \A e \in new[x].data :
        (e \in old[x].data /\ ~(x = g /\ e = r)) \/ (x = t /\ e = m)
  BY DEF Transfers
<1>2. \A x \in A : \A e \in old[x].data : e \in new[x].data \/ (x = g /\ e = r)
  BY DEF Transfers
<1>3. m \in new[t].data
  BY DEF Transfers
<1>4. UniqueIn(new, A)
  <2> SUFFICES ASSUME NEW x \in A, NEW y \in A, NEW e \in new[x].data, NEW f \in new[y].data,
                      e.key = f.key
               PROVE  x = y /\ e = f
    BY DEF UniqueIn
  <2>1. CASE e \in old[x].data /\ ~(x = g /\ e = r) /\ f \in old[y].data
    BY <2>1 DEF UniqueIn
  <2>2. CASE e \in old[x].data /\ ~(x = g /\ e = r) /\ y = t /\ f = m
    BY <2>2 DEF UniqueIn
  <2>3. CASE x = t /\ e = m /\ f \in old[y].data /\ ~(y = g /\ f = r)
    BY <2>3 DEF UniqueIn
  <2>4. CASE x = t /\ e = m /\ y = t /\ f = m
    BY <2>4
  <2> QED
    BY <1>1, <2>1, <2>2, <2>3, <2>4
<1>5. ASSUME NEW k, NEW v, StoredIn(new, A, k, v)
      PROVE  StoredIn(old, A, k, v)
  BY <1>1, <1>5 DEF StoredIn
<1>6. ASSUME NEW k, NEW v, StoredIn(old, A, k, v)
      PROVE  StoredIn(new, A, k, v)
  BY <1>2, <1>3, <1>6 DEF StoredIn
<1> QED
  BY <1>4, <1>5, <1>6 DEF SameItems

(* Nor does another bucket without records change what is stored.           *)
LEMMA ItemsKept ==
  ASSUME NEW A, NEW old, NEW new, NEW n,
         \A x \in A \ {n} : new[x].data = old[x].data,
         new[n].data = {}, n \in A => old[n].data = {}, UniqueIn(old, A)
  PROVE  UniqueIn(new, A \cup {n}) /\ SameItems(old, A, new, A \cup {n})
<1>1. \A x \in A \cup {n} : \A e \in new[x].data : x \in A /\ e \in old[x].data
  OBVIOUS
<1>2. \A x \in A : \A e \in old[x].data : e \in new[x].data
  OBVIOUS
<1>3. UniqueIn(new, A \cup {n})
  BY <1>1 DEF UniqueIn
<1> QED
  BY <1>1, <1>2, <1>3 DEF SameItems, StoredIn

(* Neither do steps that write no record.                                   *)
LEMMA ItemsSame ==
  ASSUME NEW A, NEW old, NEW new, \A x \in A : new[x].data = old[x].data,
         UniqueIn(old, A)
  PROVE  UniqueIn(new, A) /\ SameItems(old, A, new, A)
  BY DEF UniqueIn, SameItems, StoredIn

-----------------------------------------------------------------------------
(* What the invariant says of the buckets and of the call in progress.      *)
LEMMA StoreFacts ==
  ASSUME PackedInv
  PROVE  /\ Allocated \subseteq Ids /\ buckets \in [Ids -> Bucket]
         /\ heads \subseteq Allocated /\ chain_ids \subseteq Allocated
         /\ INVALID_BUCKET_ID \notin Ids
         /\ first_free_bucket_id \in Allocated \cup {INVALID_BUCKET_ID}
         /\ Graph(Allocated, nxt, chain_ids)
         /\ \A x \in Allocated : \A r \in buckets[x].data :
              /\ r \in AnyRecord /\ r.key \in Keys /\ r.value \in Values
              /\ Hash[r.key] \in HashValues
         /\ pc \in {"find", "remove", "create"} => cursor \in Allocated
         /\ splitting => sp.result \in Allocated /\ sp.result \notin heads
<1>1. /\ Allocated \subseteq Ids /\ buckets \in [Ids -> Bucket]
      /\ heads \subseteq Allocated /\ INVALID_BUCKET_ID \notin Ids
      /\ first_free_bucket_id \in Allocated \cup {INVALID_BUCKET_ID}
      /\ splitting => sp.result \in Allocated /\ sp.result \notin heads
      /\ pc \in {"find", "remove", "create"} => cursor \in Allocated
  BY AllocatedIds, IdsValid DEF PackedInv, Inv, Live, Typed, Bounded, RootsDiffer
<1>2. chain_ids \subseteq Allocated
  BY <1>1 DEF chain_ids
<1>3. nxt \in [Ids -> Links] /\ \A x \in Allocated : nxt[x] \in Allocated \cup {INVALID_BUCKET_ID}
  <2>1. \A x \in Ids : buckets[x].next_bucket_id \in Links
    BY <1>1, BucketTypes
  <2> QED
    BY <2>1 DEF nxt, PackedInv, Inv, Live, OneReference
<1>4. \A x \in Allocated : \A r \in buckets[x].data :
        /\ r \in AnyRecord /\ r.key \in Keys /\ r.value \in Values
        /\ Hash[r.key] \in HashValues
  <2> TAKE x \in Allocated
  <2> TAKE r \in buckets[x].data
  <2>1. r \in AnyRecord
    BY <1>1, BucketTypes
  <2> QED
    BY <2>1, SizesAssumption DEF AnyRecord
<1> QED
  BY <1>1, <1>2, <1>3, <1>4 DEF Graph

(* A step that writes no record, links no bucket and moves no key.          *)
LEMMA Still ==
  ASSUME PackedInv, NEW own, NEW place, Owners(own), Homes(own, place), Unique,
         UNCHANGED <<heads, first_free_bucket_id>>, Allocated' = Allocated, nxt' = nxt,
         \A x \in Allocated : buckets'[x].data = buckets[x].data,
         splitting' <=> splitting,
         splitting => /\ arg'.bucket_id = arg.bucket_id /\ sp'.result = sp.result
                      /\ sp'.prefix_bits = sp.prefix_bits
  PROVE  /\ Owners(own)' /\ Homes(own, place)' /\ Unique'
         /\ SameItems(buckets, Allocated, buckets', Allocated')
<1>1. chain_ids' = chain_ids
  BY DEF chain_ids
<1>2. Owners(own)'
  BY <1>1 DEF Owners
<1>3. Homes(own, place)'
  <2> SUFFICES ASSUME NEW x \in Allocated, NEW r \in buckets[x].data
               PROVE  Home(own, x, r, place)'
    BY DEF Homes
  <2>1. Home(own, x, r, place)
    BY DEF Homes
  <2> QED
    BY <2>1 DEF Home, new_bit_of
<1>4. UniqueIn(buckets', Allocated) /\ SameItems(buckets, Allocated, buckets', Allocated)
  BY ItemsSame DEF Unique
<1> QED
  BY <1>2, <1>3, <1>4 DEF Unique

(* A chain's first bucket belongs to it.                                    *)
LEMMA FirstOwned ==
  ASSUME PackedInv, NEW own, Owners(own)
  PROVE  /\ own \in [Ids -> Links]
         /\ \A c \in chain_ids : own[c] = c
         /\ \A x \in Allocated : nxt[x] # INVALID_BUCKET_ID => own[nxt[x]] = own[x]
<1>1. \A c \in chain_ids : c \in {x \in Allocated : own[x] = c}
  BY DEF Owners, Owned, Generated
<1> QED
  BY <1>1 DEF Owners, Owned

-----------------------------------------------------------------------------
(* A walk starts at the first bucket of a chain.                            *)
LEMMA StoreCall ==
  ASSUME NEW place, Arranged(place), NEW name \in {"find", "remove", "create"},
         NEW b \in heads, NEW k, NEW v, Call(name, b, k, v),
         UNCHANGED <<layout_vars, heads, sp>>
  PROVE  Rearranged(place)
<1>1. /\ pc = "idle" /\ pc' = name /\ cursor' = b /\ arg'.bucket_id = b
      /\ UNCHANGED <<buckets_count, buckets, first_free_bucket_id, heads>>
  BY DEF Call, layout_vars
<1>2. PICK own, seen : Laid(own, seen, place)
  BY DEF Arranged
<1>3. Allocated' = Allocated /\ nxt' = nxt /\ ~splitting /\ ~splitting'
  BY <1>1 DEF Allocated, nxt, splitting
<1>4. /\ Owners(own)' /\ Homes(own, place)' /\ Unique'
      /\ SameItems(buckets, Allocated, buckets', Allocated')
  BY <1>1, <1>2, <1>3, Still DEF Arranged, Laid
<1>5. b \in Allocated
  BY StoreFacts DEF Arranged
<1>6. own[b] = b
  BY <1>2, FirstOwned DEF Arranged, Laid, chain_ids
<1>7. Walked(own, {})' /\ Searched(own, {})' /\ Working(own)'
  BY <1>1, <1>3, <1>5, <1>6 DEF Walked, Searched, Working, walker
<1> QED
  BY <1>4, <1>7 DEF Rearranged, Laid

(* The call returns, and no record was written.                             *)
LEMMA StoreReturns ==
  ASSUME NEW place, Arranged(place), pc \in {"find", "remove"}, pc' = "idle",
         UNCHANGED <<layout_vars, heads>>
  PROVE  Rearranged(place)
<1>1. PICK own, seen : Laid(own, seen, place)
  BY DEF Arranged
<1>2. /\ Allocated' = Allocated /\ nxt' = nxt /\ ~splitting /\ ~splitting'
      /\ buckets' = buckets /\ UNCHANGED <<heads, first_free_bucket_id>>
  BY DEF Allocated, nxt, splitting, layout_vars
<1>3. /\ Owners(own)' /\ Homes(own, place)' /\ Unique'
      /\ SameItems(buckets, Allocated, buckets', Allocated')
  BY <1>1, <1>2, Still DEF Arranged, Laid
<1>4. Walked(own, seen)' /\ Searched(own, seen)' /\ Working(own)'
  BY DEF Walked, Searched, Working
<1> QED
  BY <1>3, <1>4 DEF Rearranged, Laid

(* A walk meets the records of one chain.                                   *)
LEMMA Met ==
  ASSUME NEW place, Arranged(place), pc \in {"find", "remove"},
         NEW r \in first_match(cursor, arg.key)
  PROVE  /\ cursor \in Allocated /\ r \in buckets[cursor].data /\ r.key = arg.key
         /\ Stored(arg.key, r.value) /\ place[arg.key] = arg.bucket_id
<1>1. cursor \in Allocated /\ ~splitting
  BY StoreFacts DEF Arranged, splitting
<1>2. r \in buckets[cursor].data /\ r.key = arg.key
  BY DEF first_match, matches
<1>3. PICK own, seen : Laid(own, seen, place)
  BY DEF Arranged
<1>4. Home(own, cursor, r, place)
  BY <1>1, <1>2, <1>3 DEF Laid, Homes
<1>5. own[cursor] = arg.bucket_id
  BY <1>3 DEF Laid, Walked, walker
<1> QED
  BY <1>1, <1>2, <1>4, <1>5 DEF Home, Stored, StoredIn

(* A walk that came to the end of its chain has not met the key.            *)
LEMMA Missed ==
  ASSUME NEW place, Arranged(place), pc \in {"find", "remove"},
         matches(cursor, arg.key) = {}, buckets[cursor].next_bucket_id = INVALID_BUCKET_ID
  PROVE  \A v : ~(Stored(arg.key, v) /\ place[arg.key] = arg.bucket_id)
<1>1. PICK own, seen : Laid(own, seen, place)
  BY DEF Arranged
<1>2. /\ Allocated \subseteq Ids /\ buckets \in [Ids -> Bucket]
      /\ cursor \in Allocated /\ ~splitting /\ INVALID_BUCKET_ID \notin Ids
      /\ arg.bucket_id \in heads
  BY StoreFacts DEF Arranged, splitting, Serving
<1>3. PICK k, c : k = arg.key /\ c = arg.bucket_id
  OBVIOUS
<1>4. PICK S : S = {x \in Allocated : own[x] = c}
  OBVIOUS
<1>5. Generated(nxt, S, c)
  BY <1>1, <1>2, <1>3, <1>4 DEF Laid, Owners, Owned, chain_ids
<1>6. seen \cup {cursor} = S
  <2>1. /\ seen \cup {cursor} \in SUBSET S /\ c \in seen \cup {cursor}
        /\ \A x \in seen : nxt[x] \in seen \cup {cursor}
    BY <1>1, <1>3, <1>4 DEF Laid, Walked, walker
  <2>2. nxt[cursor] \notin S
    BY <1>2, <1>4 DEF nxt
  <2> QED
    BY <1>5, <2>1, <2>2 DEF Generated
<1>7. \A r \in buckets[cursor].data : r.key # k
  <2> SUFFICES ASSUME NEW r \in buckets[cursor].data, r.key = k
               PROVE  FALSE
    OBVIOUS
  <2>1. Whole(buckets[cursor])
    BY <1>2, NotReading DEF Arranged
  <2>2. r.offset + len(r) <= buckets[cursor].bytes_used
    BY <2>1 DEF Whole, Tiles
  <2>3. r.offset \in Int /\ len(r) \in Int /\ len(r) > 0
        /\ buckets[cursor].bytes_used \in Int
    BY <1>2, BucketTypes, LengthPositive DEF AnyRecord
  <2>4. r \in matches(cursor, k)
    BY <2>2, <2>3 DEF matches
  <2> QED
    BY <1>3, <2>4
<1>8. ASSUME NEW x \in Allocated, NEW r \in buckets[x].data, r.key = k, place[k] = c
      PROVE  FALSE
  <2>1. own[x] = c
    BY <1>1, <1>2, <1>8 DEF Laid, Homes, Home
  <2>2. x \in seen \cup {cursor}
    BY <1>4, <1>6, <2>1
  <2>3. \A y \in seen : \A e \in buckets[y].data : e.key # k
    BY <1>1, <1>3 DEF Laid, Searched
  <2> QED
    BY <1>7, <1>8, <2>2, <2>3
<1> QED
  BY <1>3, <1>8 DEF Stored, StoredIn

(* The walk of find_record or remove_record goes on past a bucket without   *)
(* the key, the one of create_record past a full one.                       *)
LEMMA StoreWalk ==
  ASSUME NEW place, Arranged(place), FindNext \/ RemoveNext \/ CreateNext
  PROVE  Rearranged(place)
<1>1. /\ pc \in {"find", "remove", "create"} /\ pc' = pc
      /\ UNCHANGED <<buckets_count, buckets, first_free_bucket_id, heads, arg, sp>>
      /\ cursor' = buckets[cursor].next_bucket_id /\ cursor' # INVALID_BUCKET_ID
      /\ pc \in {"find", "remove"} => matches(cursor, arg.key) = {}
  BY DEF FindNext, RemoveNext, CreateNext, WalkOn, layout_vars
<1>2. PICK own, seen : Laid(own, seen, place)
  BY DEF Arranged
<1>3. /\ Allocated' = Allocated /\ nxt' = nxt /\ ~splitting /\ ~splitting'
  BY <1>1 DEF Allocated, nxt, splitting
<1>5. /\ Owners(own)' /\ Homes(own, place)' /\ Unique'
      /\ SameItems(buckets, Allocated, buckets', Allocated')
  BY <1>1, <1>2, <1>3, Still DEF Arranged, Laid
<1>6. /\ cursor \in Allocated /\ Allocated \subseteq Ids
      /\ buckets \in [Ids -> Bucket] /\ Graph(Allocated, nxt, chain_ids)
  BY <1>1, StoreFacts DEF Arranged
<1>7. cursor' = nxt[cursor] /\ cursor' \in Allocated /\ own[cursor'] = own[cursor]
  <2>1. cursor' = nxt[cursor]
    BY <1>1, <1>6 DEF nxt
  <2> QED
    BY <1>1, <1>2, <1>6, <2>1, FirstOwned DEF Graph, Arranged, Laid
<1>8. Working(own)'
  BY <1>1, <1>2, <1>7 DEF Laid, Working
<1>0. PICK now : now = seen \cup {cursor}
  OBVIOUS
<1>9. Walked(own, now)'
  <2> SUFFICES ASSUME pc \in {"find", "remove"}
               PROVE  /\ now \cup {cursor'} \subseteq {x \in Allocated : own[x] = arg.bucket_id}
                      /\ arg.bucket_id \in now \cup {cursor'}
                      /\ \A x \in now : nxt[x] \in now \cup {cursor'}
    BY <1>1, <1>3 DEF Walked, walker
  <2>1. /\ seen \cup {cursor} \subseteq {x \in Allocated : own[x] = arg.bucket_id}
        /\ arg.bucket_id \in seen \cup {cursor}
        /\ \A x \in seen : nxt[x] \in seen \cup {cursor}
    BY <1>2 DEF Laid, Walked, walker
  <2> QED
    BY <1>0, <1>7, <2>1
<1>10. ASSUME pc \in {"find", "remove"}, NEW r \in buckets[cursor].data
       PROVE  r.key # arg.key
  <2>1. Whole(buckets[cursor])
    BY <1>6, <1>10, NotReading DEF Arranged
  <2>2. r.offset + len(r) <= buckets[cursor].bytes_used
    BY <1>10, <2>1 DEF Whole, Tiles
  <2>3. r.offset \in Int /\ len(r) \in Int /\ len(r) > 0
        /\ buckets[cursor].bytes_used \in Int
    BY <1>6, <1>10, BucketTypes, LengthPositive DEF AnyRecord
  <2> QED
    BY <1>1, <1>10, <2>2, <2>3 DEF matches
<1>11. Searched(own, now)'
  BY <1>0, <1>1, <1>2, <1>10 DEF Laid, Searched
<1> QED
  BY <1>5, <1>8, <1>9, <1>11 DEF Rearranged, Laid

-----------------------------------------------------------------------------
(* The bucket create_bucket takes belongs to no chain and has no records.   *)
LEMMA FreeToTake ==
  ASSUME PackedInv, NEW own, NEW place, Owners(own), Homes(own, place), create_bucket,
         NEW n, n = new_bucket_id
  PROVE  /\ n \in Ids /\ n # INVALID_BUCKET_ID /\ Allocated' = Allocated \cup {n}
         /\ \E f : /\ f = first_free_bucket_id'
                   /\ Taken(own, Allocated, nxt, chain_ids, n, f)
         /\ n \in Allocated => buckets[n].data = {}
         /\ n \notin chain_ids
<1>1. /\ n \in Ids /\ n # INVALID_BUCKET_ID /\ Allocated' = Allocated \cup {n}
      /\ \A b \in Allocated : nxt[b] # n
      /\ n \notin chain_ids
  BY TakesBucket DEF PackedInv, chain_ids
<1>2. /\ Allocated \subseteq Ids /\ heads \subseteq Allocated
      /\ chain_ids \subseteq Allocated
      /\ INVALID_BUCKET_ID \notin Ids
      /\ first_free_bucket_id \in Allocated \cup {INVALID_BUCKET_ID}
      /\ \A x \in Allocated : nxt[x] \in Allocated \cup {INVALID_BUCKET_ID}
  BY StoreFacts DEF Graph
<1>3. n \in Allocated => own[n] = INVALID_BUCKET_ID
  <2>1. CASE first_free_bucket_id = INVALID_BUCKET_ID
    <3>1. n = buckets_count /\ buckets_count \in Nat
      BY <2>1, AllocatedIds DEF new_bucket_id, PackedInv
    <3> QED
      BY <3>1 DEF Allocated
  <2>2. CASE first_free_bucket_id # INVALID_BUCKET_ID
    BY <2>2 DEF new_bucket_id, Owners, Owned
  <2> QED
    BY <2>1, <2>2
<1>4. PICK f : f = first_free_bucket_id'
  OBVIOUS
<1>5. f # INVALID_BUCKET_ID => f \in Ids /\ f # n /\ own[f] = INVALID_BUCKET_ID
  <2>1. CASE first_free_bucket_id = INVALID_BUCKET_ID
    BY <1>4, <2>1 DEF create_bucket
  <2>2. CASE first_free_bucket_id # INVALID_BUCKET_ID
    <3>1. n = first_free_bucket_id /\ n \in Allocated /\ f = nxt[n]
      BY <1>1, <1>2, <1>4, <2>2 DEF create_bucket, new_bucket_id, nxt
    <3> QED
      BY <1>1, <1>2, <1>3, <3>1 DEF Owners, Owned
  <2> QED
    BY <2>1, <2>2
<1>6. n \in Allocated => buckets[n].data = {}
  <2>1. INVALID_BUCKET_ID \notin chain_ids
    BY <1>2
  <2> QED
    BY <1>3, <2>1 DEF Homes, Home, chain_ids
<1>7. Taken(own, Allocated, nxt, chain_ids, n, f)
  BY <1>1, <1>3, <1>5 DEF Taken
<1> QED
  BY <1>1, <1>4, <1>6, <1>7

(* A bucket taken by a caller is a new chain without records.               *)
LEMMA StoreCreateBucket ==
  ASSUME NEW place, Arranged(place), NEW depth, CreateBucket(depth)
  PROVE  Rearranged(place)
<1>0. PICK n : n = new_bucket_id
  OBVIOUS
<1>1. /\ pc = "idle" /\ pc' = "idle" /\ create_bucket
      /\ buckets' = [buckets EXCEPT ![n] = fresh_bucket(depth)]
      /\ heads' = heads \cup {n}
  BY <1>0 DEF CreateBucket
<1>2. PICK own, seen : Laid(own, seen, place)
  BY DEF Arranged
<1>3. ~splitting /\ ~splitting'
  BY <1>1 DEF splitting
<1>4. /\ n \in Ids /\ n # INVALID_BUCKET_ID /\ Allocated' = Allocated \cup {n}
      /\ \E f : /\ f = first_free_bucket_id'
                /\ Taken(own, Allocated, nxt, chain_ids, n, f)
      /\ n \in Allocated => buckets[n].data = {}
  BY <1>0, <1>1, <1>2, FreeToTake DEF Arranged, Laid
<1>5. PICK f : f = first_free_bucket_id' /\ Taken(own, Allocated, nxt, chain_ids, n, f)
  BY <1>4
<1>6. /\ Allocated \subseteq Ids /\ buckets \in [Ids -> Bucket]
      /\ Graph(Allocated, nxt, chain_ids)
  BY StoreFacts DEF Arranged
<1>7. /\ fresh_bucket(depth).next_bucket_id = INVALID_BUCKET_ID
      /\ fresh_bucket(depth).data = {}
  BY DEF fresh_bucket
<1>8. /\ buckets'[n].data = {} /\ \A x \in Ids \ {n} : buckets'[x] = buckets[x]
      /\ nxt' = [nxt EXCEPT ![n] = INVALID_BUCKET_ID]
  BY <1>1, <1>4, <1>6, <1>7 DEF nxt
<1>9. PICK own2 : own2 = [own EXCEPT ![n] = n]
  OBVIOUS
<1>10. chain_ids' = chain_ids \cup {n}
  BY <1>1, <1>3 DEF chain_ids
<1>11. Owners(own2)'
  <2>1. Owned(own, Allocated, nxt, chain_ids, first_free_bucket_id)
    BY <1>2 DEF Laid, Owners
  <2>2. Owned(own2, Allocated \cup {n}, nxt', chain_ids \cup {n}, f)
    BY <1>5, <1>6, <1>8, <1>9, <2>1, OwnedNew
  <2> QED
    BY <1>4, <1>5, <1>10, <2>2 DEF Owners
<1>12. \A x \in Allocated \ {n} : own2[x] = own[x]
  BY <1>2, <1>6, <1>9 DEF Laid, Owners, Owned
<1>13. Homes(own2, place)'
  <2> SUFFICES ASSUME NEW x \in Allocated \ {n}, NEW r \in buckets[x].data
               PROVE  Home(own2, x, r, place)'
    BY <1>4, <1>6, <1>8 DEF Homes
  <2>1. Home(own, x, r, place)
    BY <1>2 DEF Laid, Homes
  <2> QED
    BY <1>1, <1>3, <1>12, <2>1 DEF Home
<1>14. UniqueIn(buckets', Allocated') /\ SameItems(buckets, Allocated, buckets', Allocated')
  BY <1>4, <1>6, <1>8, ItemsKept DEF Arranged, Unique
<1>15. Working(own2)' /\ Walked(own2, seen)' /\ Searched(own2, seen)'
  BY <1>1 DEF Working, Walked, Searched
<1> QED
  BY <1>11, <1>13, <1>14, <1>15 DEF Rearranged, Laid, Unique

(* create_record appends a bucket to the chain.                             *)
LEMMA StoreCreateGrow ==
  ASSUME NEW place, Arranged(place), CreateGrow
  PROVE  Rearranged(place)
<1>0. PICK n : n = new_bucket_id
  OBVIOUS
<1>1. /\ pc = "create" /\ pc' = "create" /\ create_bucket /\ cursor' = n
      /\ buckets' = append_bucket(cursor, buckets[cursor].prefix_bits)
      /\ buckets[cursor].next_bucket_id = INVALID_BUCKET_ID
      /\ UNCHANGED <<heads, arg>>
  BY <1>0 DEF CreateGrow
<1>2. PICK own, seen : Laid(own, seen, place)
  BY DEF Arranged
<1>3. /\ ~splitting /\ ~splitting' /\ cursor \in Allocated
      /\ Allocated \subseteq Ids /\ buckets \in [Ids -> Bucket]
      /\ Graph(Allocated, nxt, chain_ids)
  BY <1>1, StoreFacts DEF splitting, Arranged
<1>4. /\ n \in Ids /\ n # INVALID_BUCKET_ID /\ Allocated' = Allocated \cup {n}
      /\ \E f : /\ f = first_free_bucket_id'
                /\ Taken(own, Allocated, nxt, chain_ids, n, f)
      /\ n \in Allocated => buckets[n].data = {}
  BY <1>0, <1>1, <1>2, FreeToTake DEF Arranged, Laid
<1>5. PICK f : f = first_free_bucket_id' /\ Taken(own, Allocated, nxt, chain_ids, n, f)
  BY <1>4
<1>6. n # cursor
  BY <1>0, <1>1, TakesBucket DEF Arranged, PackedInv
<1>7. PICK c : c = cursor
  OBVIOUS
<1>8. /\ \A x \in Ids \ {n} : buckets'[x].data = buckets[x].data
      /\ buckets'[n].data = {}
      /\ nxt' = [[nxt EXCEPT ![n] = INVALID_BUCKET_ID] EXCEPT ![c] = n]
  <2>1. buckets[cursor].prefix_bits \in 0 .. HASH_BITS
    BY <1>3, BucketTypes
  <2>2. /\ buckets'[n].next_bucket_id = INVALID_BUCKET_ID /\ buckets'[n].data = {}
        /\ buckets'[c].next_bucket_id = n
        /\ \A x \in Ids \ {n} : buckets'[x].data = buckets[x].data
        /\ \A x \in Ids \ {n, c} : buckets'[x] = buckets[x]
    BY <1>0, <1>1, <1>3, <1>4, <1>6, <1>7, <2>1, AppendEmpty
  <2> QED
    BY <1>4, <1>6, <1>7, <2>2 DEF nxt
<1>9. own[c] = arg.bucket_id /\ arg.bucket_id \in heads
  BY <1>1, <1>2, <1>3, <1>7 DEF Laid, Working, Arranged, Serving
<1>10. PICK own2 : own2 = [own EXCEPT ![n] = own[c]]
  OBVIOUS
<1>11. Owners(own2)'
  <2>1. Owned(own, Allocated, nxt, chain_ids, first_free_bucket_id)
    BY <1>2 DEF Laid, Owners
  <2>2. nxt[c] = INVALID_BUCKET_ID /\ own[c] \in chain_ids /\ c \in Allocated /\ c # n
    BY <1>1, <1>3, <1>6, <1>7, <1>9 DEF nxt, chain_ids
  <2>3. Owned(own2, Allocated \cup {n}, nxt', chain_ids, f)
    BY <1>3, <1>5, <1>8, <1>10, <2>1, <2>2, OwnedGrow
  <2>4. chain_ids' = chain_ids
    BY <1>1, <1>3 DEF chain_ids
  <2> QED
    BY <1>4, <1>5, <2>3, <2>4 DEF Owners
<1>12. own2[n] = arg.bucket_id /\ \A x \in Allocated \ {n} : own2[x] = own[x]
  BY <1>2, <1>3, <1>4, <1>9, <1>10 DEF Laid, Owners, Owned
<1>13. Homes(own2, place)'
  <2> SUFFICES ASSUME NEW x \in Allocated \ {n}, NEW r \in buckets[x].data
               PROVE  Home(own2, x, r, place)'
    BY <1>3, <1>4, <1>8 DEF Homes
  <2>1. Home(own, x, r, place)
    BY <1>2 DEF Laid, Homes
  <2> QED
    BY <1>1, <1>3, <1>12, <2>1 DEF Home
<1>14. UniqueIn(buckets', Allocated') /\ SameItems(buckets, Allocated, buckets', Allocated')
  BY <1>3, <1>4, <1>8, ItemsKept DEF Arranged, Unique
<1>15. Working(own2)' /\ Walked(own2, seen)' /\ Searched(own2, seen)'
  BY <1>1, <1>12 DEF Working, Walked, Searched
<1> QED
  BY <1>11, <1>13, <1>14, <1>15 DEF Rearranged, Laid, Unique

-----------------------------------------------------------------------------
(* remove_bytes keeps every other record, at its place or further down.     *)
LEMMA OthersStay ==
  ASSUME NEW data \in SUBSET AnyRecord, NEW b \in Int, Tiles(data, 0, b), NEW r \in data
  PROVE  \E f : /\ remove_bytes(data, r) = {f[d] : d \in data \ {r}}
                /\ \A d \in data \ {r} : f[d].key = d.key /\ f[d].value = d.value
<1>1. PICK f : f = [d \in data \ {r} |-> IF d.offset < r.offset THEN d
                                         ELSE [d EXCEPT !.offset = d.offset - len(r)]]
  OBVIOUS
<1>2. \A d \in data \ {r} : f[d].key = d.key /\ f[d].value = d.value
  BY <1>1 DEF AnyRecord
<1>3. \A d \in data \ {r} : d.offset < r.offset \/ d.offset > r.offset
  <2> TAKE d \in data \ {r}
  <2>1. d.offset \in Int /\ r.offset \in Int /\ len(d) \in Int /\ len(r) \in Int
        /\ len(d) > 0 /\ len(r) > 0
    BY LengthPositive DEF AnyRecord
  <2>2. d.offset + len(d) <= r.offset \/ r.offset + len(r) <= d.offset
    BY DEF Tiles
  <2> QED
    BY <2>1, <2>2
<1>4. \A d \in data : d.offset \in Int
  BY DEF AnyRecord
<1>5. ~(r.offset < r.offset) /\ ~(r.offset > r.offset)
  BY <1>4
<1>6. ASSUME NEW e \in remove_bytes(data, r)
      PROVE  \E d \in data \ {r} : e = f[d]
  <2>1. CASE e \in data /\ e.offset < r.offset
    BY <1>1, <1>5, <2>1
  <2>2. CASE \E d \in data : d.offset > r.offset /\ e = [d EXCEPT !.offset = d.offset - len(r)]
    <3>1. PICK d \in data : d.offset > r.offset /\ e = [d EXCEPT !.offset = d.offset - len(r)]
      BY <2>2
    <3>2. d # r /\ ~(d.offset < r.offset)
      BY <1>4, <1>5, <3>1
    <3> QED
      BY <1>1, <3>1, <3>2
  <2> QED
    BY <2>1, <2>2 DEF remove_bytes
<1>7. ASSUME NEW d \in data \ {r}
      PROVE  f[d] \in remove_bytes(data, r)
  <2>1. CASE d.offset < r.offset
    BY <1>1, <2>1 DEF remove_bytes
  <2>2. CASE d.offset > r.offset
    <3>1. f[d] = [d EXCEPT !.offset = d.offset - len(r)]
      BY <1>1, <1>4, <2>2
    <3> QED
      BY <2>2, <3>1 DEF remove_bytes
  <2> QED
    BY <1>3, <2>1, <2>2
<1>8. remove_bytes(data, r) = {f[d] : d \in data \ {r}}
  BY <1>6, <1>7
<1> QED
  BY <1>2, <1>8

(* When record r of bucket g goes, its key goes, and nothing else.          *)
LEMMA ItemsRemoved ==
  ASSUME NEW A, NEW old, NEW new, NEW g \in A, NEW r \in old[g].data, NEW f,
         new[g].data = {f[d] : d \in old[g].data \ {r}},
         \A d \in old[g].data \ {r} : f[d].key = d.key /\ f[d].value = d.value,
         \A x \in A \ {g} : new[x].data = old[x].data, UniqueIn(old, A)
  PROVE  /\ UniqueIn(new, A)
         /\ \A k, v : StoredIn(new, A, k, v) <=> StoredIn(old, A, k, v) /\ k # r.key
<1>1. \A x \in A : \A e \in new[x].data :
        \/ x # g /\ e \in old[x].data
        \/ x = g /\ \E d \in old[g].data \ {r} : e = f[d]
  OBVIOUS
<1>2. UniqueIn(new, A)
  <2> SUFFICES ASSUME NEW x \in A, NEW y \in A, NEW e \in new[x].data, NEW h \in new[y].data,
                      e.key = h.key
               PROVE  x = y /\ e = h
    BY DEF UniqueIn
  <2>1. CASE x = g /\ y = g
    BY <1>1, <2>1 DEF UniqueIn
  <2>2. CASE x = g /\ y # g
    BY <1>1, <2>2 DEF UniqueIn
  <2>3. CASE x # g /\ y = g
    BY <1>1, <2>3 DEF UniqueIn
  <2>4. CASE x # g /\ y # g
    BY <1>1, <2>4 DEF UniqueIn
  <2> QED
    BY <2>1, <2>2, <2>3, <2>4
<1>3. ASSUME NEW k, NEW v, StoredIn(new, A, k, v)
      PROVE  StoredIn(old, A, k, v) /\ k # r.key
  <2>1. PICK x \in A : \E e \in new[x].data : e.key = k /\ e.value = v
    BY <1>3 DEF StoredIn
  <2>2. PICK e \in new[x].data : e.key = k /\ e.value = v
    BY <2>1
  <2>3. PICK d \in old[x].data : d.key = k /\ d.value = v /\ ~(x = g /\ d = r)
    BY <1>1, <2>2
  <2> QED
    BY <2>3 DEF StoredIn, UniqueIn
<1>4. ASSUME NEW k, NEW v, StoredIn(old, A, k, v), k # r.key
      PROVE  StoredIn(new, A, k, v)
  <2>1. PICK x \in A : \E d \in old[x].data : d.key = k /\ d.value = v
    BY <1>4 DEF StoredIn
  <2>2. PICK d \in old[x].data : d.key = k /\ d.value = v
    BY <2>1
  <2>3. CASE x = g
    BY <1>4, <2>2, <2>3 DEF StoredIn
  <2>4. CASE x # g
    BY <2>2, <2>4 DEF StoredIn
  <2> QED
    BY <2>3, <2>4
<1> QED
  BY <1>2, <1>3, <1>4

(* A record of a key that was not stored.                                   *)
LEMMA ItemsAdded ==
  ASSUME NEW A, NEW old, NEW new, NEW g \in A, NEW m,
         new[g].data = old[g].data \cup {m},
         \A x \in A \ {g} : new[x].data = old[x].data, UniqueIn(old, A),
         \A v : ~StoredIn(old, A, m.key, v)
  PROVE  /\ UniqueIn(new, A)
         /\ \A k, v : StoredIn(new, A, k, v) <=>
                        StoredIn(old, A, k, v) \/ (k = m.key /\ v = m.value)
<1>1. \A x \in A : \A e \in new[x].data : e \in old[x].data \/ (x = g /\ e = m)
  OBVIOUS
<1>2. \A x \in A : \A e \in old[x].data : e \in new[x].data /\ e.key # m.key
  BY DEF StoredIn
<1>3. UniqueIn(new, A)
  BY <1>1, <1>2 DEF UniqueIn
<1> QED
  BY <1>1, <1>2, <1>3 DEF StoredIn

-----------------------------------------------------------------------------
(* remove_record removes the record it found.                               *)
LEMMA StoreRemoveHit ==
  ASSUME NEW place, Arranged(place), RemoveHit
  PROVE  /\ (\E own, seen : Laid(own, seen, place))' /\ Unique'
         /\ place[arg.key] = arg.bucket_id /\ \E v : Stored(arg.key, v)
         /\ \A k, v : Stored(k, v)' <=> Stored(k, v) /\ k # arg.key
<1>1. /\ pc = "remove" /\ pc' = "idle"
      /\ UNCHANGED <<buckets_count, first_free_bucket_id, heads, sp>>
  BY DEF RemoveHit, Return
<1>2. PICK r \in first_match(cursor, arg.key) :
        buckets' = [buckets EXCEPT ![cursor] = without_record(buckets[cursor], r)]
  BY DEF RemoveHit
<1>3. PICK own, seen : Laid(own, seen, place)
  BY DEF Arranged
<1>4. PICK c : c = cursor
  OBVIOUS
<1>5. /\ Allocated \subseteq Ids /\ buckets \in [Ids -> Bucket]
      /\ c \in Allocated /\ Whole(buckets[c])
      /\ ~splitting /\ ~splitting' /\ Allocated' = Allocated
      /\ buckets[c].data \in SUBSET AnyRecord /\ buckets[c].bytes_used \in Int
  BY <1>1, <1>4, StoreFacts, NotReading, BucketTypes
     DEF Arranged, splitting, Allocated
<1>6. r \in buckets[c].data /\ r.key = arg.key
  BY <1>1, <1>2, <1>4, Met
<1>7. PICK f : /\ remove_bytes(buckets[c].data, r) = {f[d] : d \in buckets[c].data \ {r}}
               /\ \A d \in buckets[c].data \ {r} : f[d].key = d.key /\ f[d].value = d.value
  BY <1>5, <1>6, OthersStay DEF Whole
<1>8. PICK w : w = without_record(buckets[c], r)
  OBVIOUS
<1>9. /\ w.next_bucket_id = buckets[c].next_bucket_id
      /\ w.data = remove_bytes(buckets[c].data, r)
  BY <1>5, <1>6, <1>8, RemoveRecord
<1>10. buckets'[c] = w /\ \A x \in Ids \ {c} : buckets'[x] = buckets[x]
  BY <1>2, <1>4, <1>5, <1>8
<1>11. nxt' = nxt
  BY <1>5, <1>9, <1>10 DEF nxt
<1>12. Owners(own)'
  <2>1. chain_ids' = chain_ids
    BY <1>1, <1>5 DEF chain_ids
  <2> QED
    BY <1>1, <1>3, <1>5, <1>11, <2>1 DEF Laid, Owners
<1>13. Homes(own, place)'
  <2> SUFFICES ASSUME NEW x \in Allocated, NEW e \in buckets'[x].data
               PROVE  Home(own, x, e, place)'
    BY <1>5 DEF Homes
  <2>1. PICK d \in buckets[x].data : d.key = e.key
    BY <1>5, <1>7, <1>9, <1>10
  <2>2. Home(own, x, d, place)
    BY <1>3 DEF Laid, Homes
  <2> QED
    BY <1>1, <1>5, <2>1, <2>2 DEF Home
<1>14. /\ UniqueIn(buckets', Allocated)
       /\ \A k, v : StoredIn(buckets', Allocated, k, v) <=>
                      StoredIn(buckets, Allocated, k, v) /\ k # r.key
  <2>1. PICK A, old, new : A = Allocated /\ old = buckets /\ new = buckets'
    OBVIOUS
  <2>2. UniqueIn(old, A) /\ c \in A /\ r \in old[c].data
    BY <1>5, <1>6, <2>1 DEF Arranged, Unique
  <2>3. /\ new[c].data = {f[d] : d \in old[c].data \ {r}}
        /\ \A d \in old[c].data \ {r} : f[d].key = d.key /\ f[d].value = d.value
        /\ \A x \in A \ {c} : new[x].data = old[x].data
    BY <1>5, <1>7, <1>9, <1>10, <2>1
  <2>4. /\ UniqueIn(new, A)
        /\ \A k, v : StoredIn(new, A, k, v) <=> StoredIn(old, A, k, v) /\ k # r.key
    BY ONLY <2>2, <2>3, ItemsRemoved
  <2> QED
    BY <2>1, <2>4
<1>15. Working(own)' /\ Walked(own, seen)' /\ Searched(own, seen)'
  BY <1>1 DEF Working, Walked, Searched
<1>16. Stored(arg.key, r.value) /\ place[arg.key] = arg.bucket_id
  BY <1>1, <1>2, Met
<1> QED
  BY <1>5, <1>6, <1>12, <1>13, <1>14, <1>15, <1>16 DEF Laid, Unique, Stored

(* create_record writes the record.                                         *)
LEMMA StoreCreateWrite ==
  ASSUME NEW place, Arranged(place), CreateWrite,
         \A v : ~Stored(arg.key, v), place[arg.key] = arg.bucket_id
  PROVE  /\ (\E own, seen : Laid(own, seen, place))' /\ Unique'
         /\ \A k, v : Stored(k, v)' <=> Stored(k, v) \/ (k = arg.key /\ v = arg.value)
<1>1. /\ pc = "create" /\ pc' = "idle"
      /\ buckets[cursor].bytes_used + arg_length <= BUCKET_SIZE
      /\ UNCHANGED <<buckets_count, first_free_bucket_id, heads, sp>>
  BY DEF CreateWrite, Return
<1>2. PICK c, put, r : /\ c = cursor /\ put = buckets[c].bytes_used
                       /\ r = [offset |-> put, key |-> arg.key, value |-> arg.value]
  OBVIOUS
<1>3. PICK w : w = with_record(buckets[c], put, r)
  OBVIOUS
<1>4. buckets' = [buckets EXCEPT ![c] = w]
  BY <1>2, <1>3 DEF CreateWrite
<1>5. PICK own, seen : Laid(own, seen, place)
  BY DEF Arranged
<1>6. /\ Allocated \subseteq Ids /\ buckets \in [Ids -> Bucket]
      /\ c \in Allocated /\ Whole(buckets[c])
      /\ ~splitting /\ ~splitting' /\ Allocated' = Allocated
      /\ put \in Int
  BY <1>1, <1>2, StoreFacts, NotReading, BucketTypes
     DEF Arranged, splitting, Allocated
<1>7. arg.key \in Keys /\ arg.value \in Values /\ arg.bucket_id \in heads
  BY <1>1 DEF Arranged, PackedInv, Inv, Typed, Serving
<1>8. /\ r \in AnyRecord /\ r.key = arg.key /\ r.value = arg.value
      /\ put + len(r) <= BUCKET_SIZE /\ copied(r, put) = r
  BY <1>1, <1>2, <1>6, <1>7 DEF AnyRecord, len, arg_length, copied
<1>9. w.next_bucket_id = buckets[c].next_bucket_id /\ w.data = buckets[c].data \cup {r}
  BY <1>2, <1>3, <1>6, <1>8, AppendRecord
<1>10. buckets'[c] = w /\ \A x \in Ids \ {c} : buckets'[x] = buckets[x]
  BY <1>4, <1>6
<1>11. nxt' = nxt
  BY <1>6, <1>9, <1>10 DEF nxt
<1>12. Owners(own)'
  <2>1. chain_ids' = chain_ids
    BY <1>1, <1>6 DEF chain_ids
  <2> QED
    BY <1>1, <1>5, <1>6, <1>11, <2>1 DEF Laid, Owners
<1>13. own[c] = arg.bucket_id
  BY <1>1, <1>2, <1>5, <1>7 DEF Laid, Working
<1>14. Homes(own, place)'
  <2> SUFFICES ASSUME NEW x \in Allocated, NEW e \in buckets'[x].data
               PROVE  Home(own, x, e, place)'
    BY <1>6 DEF Homes
  <2>1. CASE e \in buckets[x].data
    <3>1. Home(own, x, e, place)
      BY <1>5, <2>1 DEF Laid, Homes
    <3> QED
      BY <1>1, <1>6, <3>1 DEF Home
  <2>2. CASE x = c /\ e = r
    BY <1>1, <1>7, <1>8, <1>13, <2>2 DEF Home
  <2> QED
    BY <1>6, <1>9, <1>10, <2>1, <2>2
<1>15. /\ UniqueIn(buckets', Allocated)
       /\ \A k, v : StoredIn(buckets', Allocated, k, v) <=>
                      StoredIn(buckets, Allocated, k, v) \/ (k = r.key /\ v = r.value)
  <2>1. UniqueIn(buckets, Allocated) /\ \A v : ~StoredIn(buckets, Allocated, r.key, v)
    BY <1>8 DEF Arranged, Unique, Stored
  <2>2. /\ buckets'[c].data = buckets[c].data \cup {r}
        /\ \A x \in Allocated \ {c} : buckets'[x].data = buckets[x].data
    BY <1>6, <1>9, <1>10
  <2> QED
    BY <1>6, <2>1, <2>2, ItemsAdded
<1>16. Working(own)' /\ Walked(own, seen)' /\ Searched(own, seen)'
  BY <1>1 DEF Working, Walked, Searched
<1> QED
  BY <1>6, <1>8, <1>12, <1>14, <1>15, <1>16 DEF Laid, Unique, Stored

-----------------------------------------------------------------------------
(* split starts a chain of its own.                                         *)
LEMMA StoreSplitCall ==
  ASSUME NEW place, Arranged(place), NEW b \in heads, SplitCall(b)
  PROVE  Rearranged(place)
<1>0. PICK n : n = new_bucket_id
  OBVIOUS
<1> DEFINE depth == buckets[b].prefix_bits + 1
           deeper == [buckets[b] EXCEPT !.prefix_bits = depth]
           first == [deeper EXCEPT !.bytes_used = 0]
<1>1. /\ create_bucket /\ pc = "idle" /\ pc' = "split" /\ heads' = heads
      /\ arg' = [bucket_id |-> b, key |-> NoValue, value |-> NoValue]
      /\ buckets' = begin_reading([[buckets EXCEPT ![b] = deeper]
                                      EXCEPT ![n] = fresh_bucket(depth)], b)
      /\ sp' = [prefix_bits |-> depth, bit0 |-> b, bit0_put |-> 0,
                bit1 |-> n, bit1_put |-> 0, result |-> n, get |-> b,
                get_ptr |-> 0, get_last |-> buckets[b].bytes_used]
  BY <1>0 DEF SplitCall, Call
<1>2. PICK own, seen : Laid(own, seen, place)
  BY DEF Arranged
<1>3. /\ ~splitting /\ splitting'
  BY <1>1 DEF splitting
<1>4. /\ n \in Ids /\ n # INVALID_BUCKET_ID /\ Allocated' = Allocated \cup {n}
      /\ \E f : /\ f = first_free_bucket_id'
                /\ Taken(own, Allocated, nxt, chain_ids, n, f)
      /\ n \in Allocated => buckets[n].data = {}
      /\ n \notin chain_ids
  BY <1>0, <1>1, <1>2, FreeToTake DEF Arranged, Laid
<1>5. PICK f : f = first_free_bucket_id' /\ Taken(own, Allocated, nxt, chain_ids, n, f)
  BY <1>4
<1>6. /\ Allocated \subseteq Ids /\ buckets \in [Ids -> Bucket]
      /\ Graph(Allocated, nxt, chain_ids) /\ heads \subseteq Allocated
  BY StoreFacts DEF Arranged
<1>7. b \in Allocated /\ b \in Ids /\ b # n /\ buckets[b] \in Bucket
  BY <1>4, <1>6 DEF chain_ids
<1>8. /\ deeper.data = buckets[b].data /\ deeper.next_bucket_id = buckets[b].next_bucket_id
      /\ first.data = buckets[b].data /\ first.next_bucket_id = buckets[b].next_bucket_id
  BY <1>7 DEF Bucket
<1>9. fresh_bucket(depth).next_bucket_id = INVALID_BUCKET_ID /\ fresh_bucket(depth).data = {}
  BY DEF fresh_bucket
<1>10. buckets' = [[[buckets EXCEPT ![b] = deeper] EXCEPT ![n] = fresh_bucket(depth)]
                       EXCEPT ![b] = first]
  BY <1>1, <1>4, <1>6, <1>7 DEF begin_reading
<1> HIDE DEF first, deeper, depth
<1>11. /\ buckets'[n] = fresh_bucket(depth) /\ buckets'[b] = first
       /\ \A x \in Ids \ {n, b} : buckets'[x] = buckets[x]
  BY <1>4, <1>6, <1>7, <1>10
<1>12. /\ buckets'[n].data = {} /\ \A x \in Ids \ {n} : buckets'[x].data = buckets[x].data
       /\ nxt' = [nxt EXCEPT ![n] = INVALID_BUCKET_ID]
  BY <1>4, <1>6, <1>7, <1>8, <1>9, <1>11 DEF nxt
<1>13. PICK own2 : own2 = [own EXCEPT ![n] = n]
  OBVIOUS
<1>14. /\ sp'.bit0 = b /\ sp'.bit1 = n /\ sp'.result = n /\ sp'.get = b
       /\ sp'.get_ptr = 0 /\ arg'.bucket_id = b
  BY <1>1
<1>15. chain_ids' = chain_ids \cup {n}
  BY <1>1, <1>3, <1>14 DEF chain_ids
<1>16. Owners(own2)'
  <2>1. Owned(own, Allocated, nxt, chain_ids, first_free_bucket_id)
    BY <1>2 DEF Laid, Owners
  <2>2. Owned(own2, Allocated \cup {n}, nxt', chain_ids \cup {n}, f)
    BY <1>5, <1>6, <1>12, <1>13, <2>1, OwnedNew
  <2> QED
    BY <1>4, <1>5, <1>15, <2>2 DEF Owners
<1>17. own2[n] = n /\ own2[b] = b /\ \A x \in Allocated \ {n} : own2[x] = own[x]
  <2>1. own \in [Ids -> Links] /\ own[b] = b
    BY <1>2, <1>7, FirstOwned DEF Laid, Arranged, chain_ids
  <2> QED
    BY <1>4, <1>6, <1>7, <1>13, <2>1
<1>18. Homes(own2, place)'
  <2> SUFFICES ASSUME NEW x \in Allocated \ {n}, NEW r \in buckets[x].data
               PROVE  Home(own2, x, r, place)'
    BY <1>4, <1>6, <1>12 DEF Homes
  <2>1. Home(own, x, r, place)
    BY <1>2 DEF Laid, Homes
  <2> QED
    BY <1>1, <1>3, <1>17, <2>1 DEF Home
<1>19. UniqueIn(buckets', Allocated') /\ SameItems(buckets, Allocated, buckets', Allocated')
  BY <1>4, <1>6, <1>12, ItemsKept DEF Arranged, Unique
<1>20. Working(own2)' /\ Walked(own2, {})'
  BY <1>1, <1>4, <1>7, <1>14, <1>17 DEF Working, Walked, walker
<1>21. Searched(own2, {})'
  <2>1. \A r \in buckets[b].data : r.offset >= 0
    <3>1. Whole(buckets[b])
      BY <1>1, <1>7, NotReading DEF Arranged
    <3> TAKE r \in buckets[b].data
    <3>2. r.offset \in Int /\ 0 <= r.offset
      BY <1>7, <3>1, BucketTypes DEF Whole, Tiles, AnyRecord
    <3> QED
      BY <3>2
  <2>2. buckets'[b].data = buckets[b].data
    BY <1>7, <1>12
  <2> QED
    BY <1>1, <1>14, <2>1, <2>2 DEF Searched
<1> QED
  BY <1>16, <1>18, <1>19, <1>20, <1>21 DEF Rearranged, Laid, Unique

-----------------------------------------------------------------------------
(****************************************************************************)
(* split reads record r and writes it as m to bucket t: bs are the buckets  *)
(* with the one for m in place, own2 the owners with it.                    *)
(****************************************************************************)
Copies(own, own2, bs, r, t, m) ==
    /\ r \in buckets[sp.get].data /\ r.offset = sp.get_ptr
    /\ m.key = r.key /\ m.value = r.value
    /\ Transfers(bs, buckets', sp.get, r, t, m) /\ bs[sp.get].data = buckets[sp.get].data
    /\ t \in Allocated' /\ Allocated \subseteq Allocated' /\ Allocated' \subseteq Ids
    /\ own2[t] = IF new_bit_of(r) = 1 THEN sp.result ELSE arg.bucket_id
    /\ \A x \in Allocated' : \A e \in bs[x].data :
         x \in Allocated /\ e \in buckets[x].data /\ own2[x] = own[x]
    /\ \A x \in Allocated : own[x] = arg.bucket_id =>
         own2[x] = arg.bucket_id /\ nxt'[x] = nxt[x]
    /\ UniqueIn(bs, Allocated') /\ SameItems(buckets, Allocated, bs, Allocated')

(* What a step of the main loop that copies a record leaves alone.          *)
SplitGoesOn(r) ==
    /\ pc = "split" /\ pc' = "split"
    /\ UNCHANGED <<heads, arg>>
    /\ sp'.get = sp.get /\ sp'.result = sp.result /\ sp'.prefix_bits = sp.prefix_bits
    /\ sp'.get_ptr = sp.get_ptr + len(r)

(* The record is on the chain its bit leads to, and the rest still to read. *)
LEMMA StoreCopied ==
  ASSUME NEW place, Arranged(place), NEW own, NEW seen, Laid(own, seen, place),
         NEW own2, NEW bs, NEW r, NEW t, NEW m,
         SplitGoesOn(r), Copies(own, own2, bs, r, t, m), Owners(own2)',
         own2[sp'.bit0] = arg.bucket_id, own2[sp'.bit1] = sp.result
  PROVE  Rearranged(place)
<1>1. /\ pc = "split" /\ pc' = "split" /\ splitting /\ splitting'
      /\ UNCHANGED <<heads, arg>>
      /\ sp'.get = sp.get /\ sp'.result = sp.result /\ sp'.prefix_bits = sp.prefix_bits
      /\ sp'.get_ptr = sp.get_ptr + len(r)
  BY DEF SplitGoesOn, splitting
<1>2. arg.bucket_id \in heads /\ sp.result \notin heads
  BY <1>1, StoreFacts DEF Arranged, Serving
<1>3. /\ seen \cup {sp.get} \subseteq {x \in Allocated : own[x] = arg.bucket_id}
      /\ arg.bucket_id \in seen \cup {sp.get}
      /\ \A x \in seen : nxt[x] \in seen \cup {sp.get}
  BY <1>1 DEF Laid, Walked, walker
<1>4. /\ r \in buckets[sp.get].data /\ r.offset = sp.get_ptr
      /\ m.key = r.key /\ m.value = r.value
      /\ t \in Allocated' /\ Allocated \subseteq Allocated' /\ Allocated' \subseteq Ids
      /\ own2[t] = IF new_bit_of(r) = 1 THEN sp.result ELSE arg.bucket_id
      /\ \A x \in Allocated' : \A e \in bs[x].data :
           x \in Allocated /\ e \in buckets[x].data /\ own2[x] = own[x]
      /\ bs[sp.get].data = buckets[sp.get].data
      /\ \A x \in Allocated : own[x] = arg.bucket_id =>
           own2[x] = arg.bucket_id /\ nxt'[x] = nxt[x]
  BY DEF Copies
<1>5. \A x \in Allocated' : \A e \in buckets'[x].data :
        (e \in bs[x].data /\ ~(x = sp.get /\ e = r)) \/ (x = t /\ e = m)
  BY <1>4 DEF Copies, Transfers
<1>6. new_bit_of(r) \in {0, 1}
  <2>1. Hash[r.key] \in HashValues
    BY <1>3, <1>4, StoreFacts DEF Arranged
  <2>2. sp.prefix_bits \in 1 .. HASH_BITS
    BY <1>1 DEF Arranged, Serving
  <2> QED
    BY <2>1, <2>2 DEF new_bit_of, HashValues
<1>7. own[sp.get] = arg.bucket_id /\ place[r.key] = arg.bucket_id
  <2>1. Home(own, sp.get, r, place)
    BY <1>3, <1>4 DEF Laid, Homes
  <2> QED
    BY <1>2, <1>3, <2>1 DEF Home
<1>8. Homes(own2, place)'
  <2> SUFFICES ASSUME NEW x \in Allocated', NEW e \in buckets'[x].data
               PROVE  Home(own2, x, e, place)'
    BY DEF Homes
  <2>2. CASE e \in bs[x].data
    <3>1. Home(own, x, e, place) /\ own2[x] = own[x]
      BY <1>4, <2>2 DEF Laid, Homes
    <3> QED
      BY <1>1, <3>1 DEF Home, new_bit_of
  <2>3. CASE x = t /\ e = m
    BY <1>1, <1>2, <1>4, <1>7, <2>3 DEF Home, new_bit_of
  <2> QED
    BY <1>5, <2>2, <2>3
<1>9. Walked(own2, seen)'
  BY <1>1, <1>3, <1>4 DEF Walked, walker
<1>10. Searched(own2, seen)'
  <2> SUFFICES ASSUME NEW x \in seen \cup {sp.get}, NEW e \in buckets'[x].data
               PROVE  new_bit_of(e) = 0 \/ (x = sp.get /\ e.offset >= sp.get_ptr + len(r))
    BY <1>1 DEF Searched, new_bit_of
  <2>1. x \in Allocated /\ x \in Allocated' /\ own[x] = arg.bucket_id /\ own2[x] = arg.bucket_id
    BY <1>3, <1>4
  <2>2. CASE x = t /\ e = m
    <3>1. new_bit_of(r) = 0
      BY <1>2, <1>4, <1>6, <2>1, <2>2
    <3> QED
      BY <1>4, <2>2, <3>1 DEF new_bit_of
  <2>3. CASE e \in bs[x].data /\ ~(x = sp.get /\ e = r)
    <3>1. e \in buckets[x].data
      BY <1>4, <2>1, <2>3
    <3>2. new_bit_of(e) = 0 \/ (x = sp.get /\ e.offset >= sp.get_ptr)
      BY <1>1, <3>1 DEF Laid, Searched
    <3>3. ASSUME x = sp.get, e.offset >= sp.get_ptr
          PROVE  e.offset >= sp.get_ptr + len(r)
      <4>1. PICK P, W, Q \in SUBSET Ids : Splits(P, W, Q)
        BY <1>1, InSplit DEF Arranged
      <4>2. /\ sp.get \in Allocated /\ Partly(buckets[sp.get], sp.get_ptr, sp.get_last)
            /\ buckets[sp.get] \in Bucket /\ sp.get_ptr \in Int /\ sp.get_last \in Int
        BY <1>1, <4>1, InSplit, SplitPlaces DEF Arranged
      <4>3. e \in From(buckets[sp.get].data, sp.get_ptr) \ {r}
        BY <2>3, <3>1, <3>3 DEF From
      <4> QED
        BY <1>4, <4>2, <4>3, ReadNext
    <3> QED
      BY <3>2, <3>3
  <2> QED
    BY <1>5, <2>1, <2>2, <2>3
<1>11. Working(own2)'
  BY <1>1 DEF Working
<1>12. UniqueIn(buckets', Allocated') /\ SameItems(bs, Allocated', buckets', Allocated')
  <2>1. sp.get \in Allocated' /\ r \in bs[sp.get].data
    BY <1>3, <1>4
  <2>2. UniqueIn(bs, Allocated') /\ Transfers(bs, buckets', sp.get, r, t, m)
    BY DEF Copies
  <2> QED
    BY <1>4, <2>1, <2>2, ItemsMoved
<1>13. SameItems(buckets, Allocated, buckets', Allocated')
  BY <1>12 DEF SameItems, Copies
<1> QED
  BY <1>8, <1>9, <1>10, <1>11, <1>12, <1>13 DEF Rearranged, Laid, Unique

(* A record goes to a bucket that is already on one of the two chains.      *)
LEMMA StoreInPlace ==
  ASSUME NEW place, Arranged(place), NEW r, SplitGoesOn(r), r \in at_get_ptr,
         NEW t, NEW put, NEW bs,
         bs \in [Ids -> Bucket], \A x \in Ids : /\ bs[x].data = buckets[x].data
                                               /\ bs[x].bytes_used = buckets[x].bytes_used
                                               /\ bs[x].next_bucket_id = buckets[x].next_bucket_id,
         t \in Allocated, put = bs[t].bytes_used, put + len(r) <= BUCKET_SIZE,
         buckets' = move_record(bs, r, t, put),
         UNCHANGED <<buckets_count, first_free_bucket_id>>,
         NEW own, NEW seen, Laid(own, seen, place),
         own[t] = IF new_bit_of(r) = 1 THEN sp.result ELSE arg.bucket_id,
         own[sp'.bit0] = arg.bucket_id, own[sp'.bit1] = sp.result
  PROVE  Rearranged(place)
<1>1. pc = "split" /\ Allocated' = Allocated
  BY DEF SplitGoesOn, Allocated
<1>2. PICK P, W, Q \in SUBSET Ids : Splits(P, W, Q)
  BY <1>1, InSplit DEF Arranged
<1>3. /\ sp.get \in Allocated /\ Partly(buckets[sp.get], sp.get_ptr, sp.get_last)
      /\ \A x \in Allocated \ {sp.get} : Whole(buckets[x])
      /\ buckets \in [Ids -> Bucket] /\ sp.get_ptr \in Int /\ sp.get_last \in Int
      /\ sp.get_last <= BUCKET_SIZE /\ Allocated \in SUBSET Ids
  <2>1. PackedInv
    BY DEF Arranged
  <2>2. /\ buckets \in [Ids -> Bucket] /\ sp.get_ptr \in Int /\ sp.get_last \in Int
        /\ sp.get_last \in 0 .. BUCKET_SIZE /\ Allocated \in SUBSET Ids
    BY <1>1, <2>1, InSplit
  <2>3. /\ sp.get \in Allocated /\ Partly(buckets[sp.get], sp.get_ptr, sp.get_last)
        /\ \A x \in Allocated \ {sp.get} : Whole(buckets[x])
    BY <1>1, <1>2, <2>1, SplitPlaces
  <2>4. sp.get_last <= BUCKET_SIZE
    BY <2>2, SizesAssumption
  <2> QED
    BY <2>2, <2>3, <2>4
<1>4. r \in bs[sp.get].data /\ r.offset = sp.get_ptr /\ r \in AnyRecord
  BY <1>3, BucketTypes DEF at_get_ptr
<1>5. /\ Partly(bs[sp.get], sp.get_ptr, sp.get_last)
      /\ \A x \in Allocated \ {sp.get} : Whole(bs[x])
  BY <1>3 DEF Partly, Whole
<1>6. PICK m : m = copied(r, put)
  OBVIOUS
<1>7. /\ \A x \in Ids : buckets'[x].next_bucket_id = bs[x].next_bucket_id
      /\ Transfers(bs, buckets', sp.get, r, t, m)
  <2>1. /\ bs \in [Ids -> Bucket] /\ Allocated \in SUBSET Ids /\ sp.get \in Allocated
        /\ t \in Allocated /\ sp.get_ptr \in Int /\ sp.get_last \in Int
        /\ sp.get_last <= BUCKET_SIZE
    BY <1>3
  <2>2. /\ r \in bs[sp.get].data /\ r.offset = sp.get_ptr
        /\ put = bs[t].bytes_used /\ put + len(r) <= BUCKET_SIZE
        /\ buckets' = move_record(bs, r, t, put)
    BY <1>4
  <2>3. /\ \A x \in Ids : buckets'[x].next_bucket_id = bs[x].next_bucket_id
        /\ Transfers(bs, buckets', sp.get, r, t, copied(r, put))
    BY ONLY <1>5, <2>1, <2>2, MoveTo
  <2> QED
    BY <1>6, <2>3
<1>8. nxt' = nxt
  BY <1>7 DEF nxt
<1>9. m.key = r.key /\ m.value = r.value
  BY <1>4, <1>6 DEF copied, AnyRecord
<1>10. Owners(own)'
  <2>1. chain_ids' = chain_ids
    BY <1>1 DEF SplitGoesOn, chain_ids, splitting
  <2> QED
    BY <1>1, <1>8, <2>1 DEF Laid, Owners
<1>11. UniqueIn(bs, Allocated') /\ SameItems(buckets, Allocated, bs, Allocated')
  <2>1. \A x \in Allocated : bs[x].data = buckets[x].data
    BY <1>3
  <2>2. UniqueIn(buckets, Allocated)
    BY DEF Arranged, Unique
  <2> QED
    BY <1>1, <2>1, <2>2, ItemsSame
<1>12. Copies(own, own, bs, r, t, m)
  BY <1>1, <1>3, <1>4, <1>7, <1>8, <1>9, <1>11 DEF Copies
<1> QED
  BY <1>10, <1>12, StoreCopied

(* split copies a record behind the last one of a chain's bucket.           *)
LEMMA StoreSplitAppend ==
  ASSUME NEW place, Arranged(place), SplitBit1Append \/ SplitBit0Append
  PROVE  Rearranged(place)
<1>1. /\ pc = "split" /\ pc' = "split"
      /\ UNCHANGED <<buckets_count, first_free_bucket_id, heads, arg>>
  BY DEF SplitBit1Append, SplitBit0Append
<1>2. PICK own, seen : Laid(own, seen, place)
  BY DEF Arranged
<1>3. own[sp.bit0] = arg.bucket_id /\ own[sp.bit1] = sp.result
  BY <1>1, <1>2 DEF Laid, Working
<1>4. /\ sp.bit0 \in Allocated /\ sp.bit1 \in Allocated /\ sp \in SplitLocals
      /\ sp.bit0_put = buckets[sp.bit0].bytes_used
      /\ sp.bit1_put = buckets[sp.bit1].bytes_used
      /\ buckets \in [Ids -> Bucket]
  BY <1>1, InSplit DEF Arranged, PackedInv, Inv, Live, Typed
<1>5. CASE SplitBit1Append
  <2>1. PICK r \in at_get_ptr :
          /\ new_bit_of(r) = 1 /\ bytes_left_in(sp.bit1, r)
          /\ buckets' = move_record(buckets, r, sp.bit1, sp.bit1_put)
          /\ sp' = [sp EXCEPT !.bit1_put = sp.bit1_put + len(r),
                              !.get_ptr = sp.get_ptr + len(r)]
    BY <1>5 DEF SplitBit1Append
  <2>2. /\ sp'.get = sp.get /\ sp'.bit0 = sp.bit0 /\ sp'.bit1 = sp.bit1
        /\ sp'.result = sp.result /\ sp'.prefix_bits = sp.prefix_bits
        /\ sp'.get_ptr = sp.get_ptr + len(r)
    BY <1>4, <2>1 DEF SplitLocals
  <2>3. SplitGoesOn(r)
    BY <1>1, <2>2 DEF SplitGoesOn
  <2>4. sp.bit1_put + len(r) <= BUCKET_SIZE
    BY <1>4, <2>1 DEF bytes_left_in
  <2> QED
    BY <1>1, <1>2, <1>3, <1>4, <2>1, <2>2, <2>3, <2>4, StoreInPlace
<1>6. CASE SplitBit0Append
  <2>1. PICK r \in at_get_ptr :
          /\ new_bit_of(r) = 0 /\ bytes_left_in(sp.bit0, r)
          /\ buckets' = move_record(buckets, r, sp.bit0, sp.bit0_put)
          /\ sp' = [sp EXCEPT !.bit0_put = sp.bit0_put + len(r),
                              !.get_ptr = sp.get_ptr + len(r)]
    BY <1>6 DEF SplitBit0Append
  <2>2. /\ sp'.get = sp.get /\ sp'.bit0 = sp.bit0 /\ sp'.bit1 = sp.bit1
        /\ sp'.result = sp.result /\ sp'.prefix_bits = sp.prefix_bits
        /\ sp'.get_ptr = sp.get_ptr + len(r)
    BY <1>4, <2>1 DEF SplitLocals
  <2>3. SplitGoesOn(r)
    BY <1>1, <2>2 DEF SplitGoesOn
  <2>4. sp.bit0_put + len(r) <= BUCKET_SIZE /\ new_bit_of(r) # 1
    BY <1>4, <2>1 DEF bytes_left_in
  <2> QED
    BY <1>1, <1>2, <1>3, <1>4, <2>1, <2>2, <2>3, <2>4, StoreInPlace
<1> QED
  BY <1>5, <1>6

(* split goes on to write the next bucket of the bit0 chain.                *)
LEMMA StoreBit0Advance ==
  ASSUME NEW place, Arranged(place), SplitBit0Advance
  PROVE  Rearranged(place)
<1>0. PICK t : t = nxt[sp.bit0]
  OBVIOUS
<1> DEFINE bt == [buckets[t] EXCEPT !.prefix_bits = sp.prefix_bits]
           bs == [buckets EXCEPT ![t] = bt]
<1>1. pc = "split" /\ pc' = "split" /\ UNCHANGED <<heads, arg>>
  BY DEF SplitBit0Advance
<1>2. PICK P, W, Q \in SUBSET Ids : Splits(P, W, Q)
  BY <1>1, InSplit DEF Arranged
<1>3. PICK r \in at_get_ptr :
        /\ new_bit_of(r) = 0 /\ ~bytes_left_in(sp.bit0, r)
        /\ buckets' =
              LET linked ==
                    IF buckets[sp.bit0].next_bucket_id # INVALID_BUCKET_ID
                      THEN [buckets EXCEPT ![bit0_next].prefix_bits = sp.prefix_bits]
                      ELSE append_bucket(sp.bit0, sp.prefix_bits)
              IN move_record(linked, r, bit0_next, 0)
        /\ sp' = [sp EXCEPT !.bit0 = bit0_next, !.bit0_put = len(r),
                            !.bit1_put =
                              IF buckets[sp.bit0].next_bucket_id # INVALID_BUCKET_ID
                                THEN sp.bit1_put ELSE buckets[sp.bit1].bytes_used,
                            !.get_ptr = sp.get_ptr + len(r)]
  BY DEF SplitBit0Advance
<1>4. /\ t = buckets[sp.bit0].next_bucket_id /\ t # INVALID_BUCKET_ID
      /\ t \in P /\ buckets[t].bytes_used = 0
  <2>1. ~bytes_left_in(sp.bit0, r)
    BY <1>3
  <2> QED
    BY <1>0, <1>1, <1>2, <2>1, Bit0Room DEF Arranged
<1>5. /\ UNCHANGED <<buckets_count, first_free_bucket_id>>
      /\ buckets' = move_record(bs, r, t, 0)
      /\ sp' = [sp EXCEPT !.bit0 = t, !.bit0_put = len(r),
                          !.bit1_put = sp.bit1_put, !.get_ptr = sp.get_ptr + len(r)]
  BY <1>3, <1>4 DEF SplitBit0Advance, bit0_next
<1>6. /\ t \in Allocated /\ t \in Ids /\ sp.bit0 \in Allocated /\ sp.get \in Allocated
      /\ sp \in SplitLocals /\ sp.get \in Ids
      /\ buckets \in [Ids -> Bucket] /\ sp.prefix_bits \in 0 .. HASH_BITS
  BY <1>1, <1>2, <1>4, InSplit, SplitPlaces DEF Arranged, Splits
<1>7. /\ bt \in Bucket /\ bt.data = buckets[t].data
      /\ bt.bytes_used = buckets[t].bytes_used
      /\ bt.next_bucket_id = buckets[t].next_bucket_id
  <2>1. PICK old : old = buckets[t]
    OBVIOUS
  <2>2. old \in Bucket /\ sp.prefix_bits \in 0 .. HASH_BITS
    BY <1>6, <2>1
  <2>3. bt = [old EXCEPT !.prefix_bits = sp.prefix_bits]
    BY <2>1
  <2> HIDE DEF bt
  <2> QED
    BY <2>1, <2>2, <2>3 DEF Bucket
<1> HIDE DEF bt
<1>8. /\ bs \in [Ids -> Bucket]
      /\ \A x \in Ids : /\ bs[x].data = buckets[x].data
                       /\ bs[x].bytes_used = buckets[x].bytes_used
                       /\ bs[x].next_bucket_id = buckets[x].next_bucket_id
  BY <1>6, <1>7
<1> HIDE DEF bs
<1>9. PICK own, seen : Laid(own, seen, place)
  BY DEF Arranged
<1>10. own[t] = arg.bucket_id /\ own[sp.bit1] = sp.result
  <2>1. own[sp.bit0] = arg.bucket_id /\ own[sp.bit1] = sp.result
    BY <1>1, <1>9 DEF Laid, Working
  <2>2. \A x \in Allocated : nxt[x] # INVALID_BUCKET_ID => own[nxt[x]] = own[x]
    BY <1>9, FirstOwned DEF Arranged, Laid
  <2> QED
    BY <1>0, <1>4, <1>6, <2>1, <2>2
<1>11. /\ sp'.get = sp.get /\ sp'.bit0 = t /\ sp'.bit1 = sp.bit1
       /\ sp'.result = sp.result /\ sp'.prefix_bits = sp.prefix_bits
       /\ sp'.get_ptr = sp.get_ptr + len(r)
  <2>1. PICK k, p, h : /\ k = len(r) /\ p = sp.get_ptr + len(r)
                       /\ h = [sp EXCEPT !.bit0 = t, !.bit0_put = k]
    OBVIOUS
  <2>2. /\ h.get = sp.get /\ h.bit0 = t /\ h.bit1 = sp.bit1 /\ h.result = sp.result
        /\ h.prefix_bits = sp.prefix_bits
        /\ DOMAIN h = DOMAIN sp
    BY <1>6, <2>1 DEF SplitLocals
  <2>3. sp' = [h EXCEPT !.bit1_put = sp.bit1_put, !.get_ptr = p]
    BY <1>5, <2>1
  <2> QED
    BY <1>6, <2>1, <2>2, <2>3 DEF SplitLocals
<1>12. SplitGoesOn(r)
  BY <1>1, <1>11 DEF SplitGoesOn
<1>13. 0 = bs[t].bytes_used /\ 0 + len(r) <= BUCKET_SIZE /\ new_bit_of(r) # 1
  <2>1. r \in AnyRecord
    BY <1>6, BucketTypes DEF at_get_ptr
  <2> QED
    BY <1>3, <1>4, <1>6, <1>8, <2>1, LengthPositive, SizesAssumption
<1> QED
  BY <1>5, <1>6, <1>8, <1>9, <1>10, <1>11, <1>12, <1>13, StoreInPlace

(* split appends a bucket to the bit1 chain for the record it read.         *)
LEMMA StoreBit1Grow ==
  ASSUME NEW place, Arranged(place), SplitBit1Grow
  PROVE  Rearranged(place)
<1>0. PICK n, l : n = new_bucket_id /\ l = sp.bit1
  OBVIOUS
<1>a. PICK bs : bs = append_bucket(l, sp.prefix_bits)
  OBVIOUS
<1>1. PICK r \in at_get_ptr :
        /\ new_bit_of(r) = 1 /\ buckets' = move_record(bs, r, n, 0)
        /\ sp' = [sp EXCEPT !.bit1 = n, !.bit1_put = len(r),
                            !.bit0_put = buckets[sp.bit0].bytes_used,
                            !.get_ptr = sp.get_ptr + len(r)]
  BY <1>0, <1>a DEF SplitBit1Grow
<1>2. pc = "split" /\ pc' = "split" /\ create_bucket /\ UNCHANGED <<heads, arg>>
  BY DEF SplitBit1Grow
<1>3. PICK P, W, Q \in SUBSET Ids : Splits(P, W, Q)
  BY <1>2, InSplit DEF Arranged
<1>4. PackedInv /\ Serving
  BY DEF Arranged
<1>5. /\ n \in Ids /\ n # INVALID_BUCKET_ID /\ n \notin P /\ n \notin Q
      /\ Allocated' = Allocated \cup {n}
  BY <1>0, <1>2, <1>3, <1>4, TakenApart
<1>6. /\ sp.get \in P /\ sp.bit0 \in P /\ l \in Q /\ P \cup Q \subseteq Allocated
      /\ nxt[l] = INVALID_BUCKET_ID
      /\ Partly(buckets[sp.get], sp.get_ptr, sp.get_last)
      /\ \A x \in Allocated \ {sp.get} : Whole(buckets[x])
  BY <1>0, <1>2, <1>3, <1>4, SplitPlaces DEF Splits
<1>7. /\ buckets \in [Ids -> Bucket] /\ sp \in SplitLocals /\ sp.prefix_bits \in 0 .. HASH_BITS
      /\ sp.get_ptr \in Int /\ sp.get_last \in Int /\ sp.get_last <= BUCKET_SIZE
      /\ Allocated \subseteq Ids
  BY <1>2, <1>4, InSplit, SizesAssumption
<1>8. /\ bs \in [Ids -> Bucket]
      /\ bs[n].bytes_used = 0 /\ Whole(bs[n]) /\ bs[n].data = {}
      /\ bs[n].next_bucket_id = INVALID_BUCKET_ID /\ bs[l].next_bucket_id = n
      /\ \A x \in Ids \ {n} : /\ bs[x].data = buckets[x].data
                             /\ bs[x].bytes_used = buckets[x].bytes_used
      /\ \A x \in Ids \ {n, l} : bs[x] = buckets[x]
  BY <1>0, <1>a, <1>5, <1>6, <1>7, AppendEmpty
<1>9. /\ r \in buckets[sp.get].data /\ r.offset = sp.get_ptr /\ r \in AnyRecord
      /\ bs[sp.get].data = buckets[sp.get].data
  <2>1. r \in buckets[sp.get].data /\ r.offset = sp.get_ptr
    BY DEF at_get_ptr
  <2> QED
    BY <1>5, <1>6, <1>7, <1>8, <2>1, BucketTypes
<1>10. PICK m : m = copied(r, 0)
  OBVIOUS
<1>11. m.key = r.key /\ m.value = r.value
  BY <1>9, <1>10 DEF copied, AnyRecord
<1>12. /\ \A x \in Ids : buckets'[x].next_bucket_id = bs[x].next_bucket_id
       /\ Transfers(bs, buckets', sp.get, r, n, m)
  <2>1. /\ Allocated' \in SUBSET Ids /\ sp.get \in Allocated' /\ n \in Allocated'
        /\ bs \in [Ids -> Bucket]
    BY <1>5, <1>6, <1>7, <1>8
  <2>2. bs[sp.get] = buckets[sp.get] /\ Partly(bs[sp.get], sp.get_ptr, sp.get_last)
    <3>1. sp.get # n /\ sp.get # l /\ sp.get \in Ids
      BY <1>3, <1>5, <1>6, <1>7 DEF Splits
    <3> QED
      BY <1>6, <1>8, <3>1
  <2>3. \A x \in Allocated' \ {sp.get} : Whole(bs[x])
    BY <1>5, <1>6, <1>7, <1>8 DEF Whole
  <2>4. /\ r \in bs[sp.get].data /\ r.offset = sp.get_ptr
        /\ 0 = bs[n].bytes_used /\ 0 + len(r) <= BUCKET_SIZE
        /\ buckets' = move_record(bs, r, n, 0)
    BY <1>1, <1>8, <1>9, LengthPositive, SizesAssumption
  <2>5. sp.get_ptr \in Int /\ sp.get_last \in Int /\ sp.get_last <= BUCKET_SIZE
    BY <1>7
  <2>6. /\ \A x \in Ids : buckets'[x].next_bucket_id = bs[x].next_bucket_id
        /\ Transfers(bs, buckets', sp.get, r, n, copied(r, 0))
    BY ONLY <2>1, <2>2, <2>3, <2>4, <2>5, MoveTo
  <2> QED
    BY <1>10, <2>6
<1>13. PICK own, seen : Laid(own, seen, place)
  BY DEF Arranged
<1>14. /\ \E f : /\ f = first_free_bucket_id'
                 /\ Taken(own, Allocated, nxt, chain_ids, n, f)
       /\ n \in Allocated => buckets[n].data = {}
  BY <1>0, <1>2, <1>4, <1>13, FreeToTake DEF Laid
<1>15. PICK f : f = first_free_bucket_id' /\ Taken(own, Allocated, nxt, chain_ids, n, f)
  BY <1>14
<1>16. nxt' = [[nxt EXCEPT ![n] = INVALID_BUCKET_ID] EXCEPT ![l] = n]
  <2>1. l \in Ids /\ l # n
    BY <1>5, <1>6, <1>7
  <2>2. /\ buckets'[n].next_bucket_id = INVALID_BUCKET_ID
        /\ buckets'[l].next_bucket_id = n
        /\ \A x \in Ids \ {n, l} : buckets'[x].next_bucket_id = buckets[x].next_bucket_id
    BY <1>5, <1>8, <1>12, <2>1
  <2> QED
    BY <1>5, <2>1, <2>2 DEF nxt
<1>17. own[l] = sp.result /\ own[sp.bit0] = arg.bucket_id /\ sp.result \in chain_ids
  BY <1>0, <1>2, <1>13 DEF Laid, Working, chain_ids, splitting
<1>18. PICK own2 : own2 = [own EXCEPT ![n] = own[l]]
  OBVIOUS
<1>19. /\ sp'.get = sp.get /\ sp'.bit0 = sp.bit0 /\ sp'.bit1 = n
       /\ sp'.result = sp.result /\ sp'.prefix_bits = sp.prefix_bits
       /\ sp'.get_ptr = sp.get_ptr + len(r)
  <2>1. PICK k, p, h : /\ k = len(r) /\ p = sp.get_ptr + len(r)
                       /\ h = [sp EXCEPT !.bit1 = n, !.bit1_put = k]
    OBVIOUS
  <2>2. /\ h.get = sp.get /\ h.bit0 = sp.bit0 /\ h.bit1 = n /\ h.result = sp.result
        /\ h.prefix_bits = sp.prefix_bits
        /\ DOMAIN h = DOMAIN sp
    BY <1>7, <2>1 DEF SplitLocals
  <2>3. sp' = [h EXCEPT !.bit0_put = buckets[sp.bit0].bytes_used, !.get_ptr = p]
    BY <1>1, <2>1
  <2> QED
    BY <1>7, <2>1, <2>2, <2>3 DEF SplitLocals
<1>20. Owners(own2)'
  <2>1. Owned(own, Allocated, nxt, chain_ids, first_free_bucket_id)
    BY <1>13 DEF Laid, Owners
  <2>2. nxt[l] = INVALID_BUCKET_ID /\ own[l] \in chain_ids /\ l \in Allocated /\ l # n
    BY <1>5, <1>6, <1>17
  <2>3. Graph(Allocated, nxt, chain_ids)
    BY <1>4, StoreFacts
  <2>4. Owned(own2, Allocated \cup {n}, nxt', chain_ids, f)
    BY <1>15, <1>16, <1>18, <2>1, <2>2, <2>3, OwnedGrow
  <2>5. chain_ids' = chain_ids
    BY <1>2, <1>19 DEF chain_ids, splitting
  <2> QED
    BY <1>5, <1>15, <2>4, <2>5 DEF Owners
<1>21. own2[n] = sp.result /\ \A x \in Allocated \ {n} : own2[x] = own[x]
  BY <1>5, <1>7, <1>13, <1>17, <1>18 DEF Laid, Owners, Owned
<1>22. UniqueIn(bs, Allocated') /\ SameItems(buckets, Allocated, bs, Allocated')
  <2>1. UniqueIn(buckets, Allocated)
    BY DEF Arranged, Unique
  <2>2. \A x \in Allocated \ {n} : bs[x].data = buckets[x].data
    BY <1>7, <1>8
  <2> QED
    BY <1>5, <1>8, <1>14, <2>1, <2>2, ItemsKept
<1>23. \A x \in Allocated : own[x] = arg.bucket_id => x # n /\ nxt'[x] = nxt[x]
  <2>1. arg.bucket_id # INVALID_BUCKET_ID /\ arg.bucket_id # sp.result
    <3>1. splitting /\ arg.bucket_id \in heads /\ heads \subseteq Ids
      BY <1>2, <1>4, StoreFacts, AllocatedIds DEF splitting, Serving, PackedInv
    <3> QED
      BY <1>4, <3>1, IdsValid DEF PackedInv, Inv, Live, RootsDiffer
  <2>2. n \in Allocated => own[n] = INVALID_BUCKET_ID
    BY <1>15 DEF Taken
  <2>3. nxt \in [Ids -> Links]
    BY <1>4, StoreFacts DEF Graph
  <2> QED
    BY <1>5, <1>7, <1>16, <1>17, <2>1, <2>2, <2>3
<1>24. Copies(own, own2, bs, r, n, m)
  <2>1. new_bit_of(r) = 1
    BY <1>1
  <2>2. \A x \in Allocated' : \A e \in bs[x].data :
          x \in Allocated /\ e \in buckets[x].data /\ own2[x] = own[x]
    BY <1>5, <1>7, <1>8, <1>21
  <2>3. \A x \in Allocated : own[x] = arg.bucket_id =>
          own2[x] = arg.bucket_id /\ nxt'[x] = nxt[x]
    BY <1>21, <1>23
  <2> QED
    BY <1>5, <1>7, <1>9, <1>11, <1>12, <1>21, <1>22, <2>1, <2>2, <2>3 DEF Copies
<1>25. SplitGoesOn(r)
  BY <1>2, <1>19 DEF SplitGoesOn
<1>26. own2[sp'.bit0] = arg.bucket_id /\ own2[sp'.bit1] = sp.result
  BY <1>5, <1>6, <1>17, <1>19, <1>21
<1> QED
  BY <1>13, <1>20, <1>24, <1>25, <1>26, StoreCopied

-----------------------------------------------------------------------------
(* The bucket split has read to its end has no record with the new bit.     *)
LEMMA ReadOut ==
  ASSUME NEW place, Arranged(place), pc = "split", sp.get_ptr = sp.get_last,
         NEW own, NEW seen, Laid(own, seen, place)
  PROVE  /\ \A x \in seen \cup {sp.get} : \A r \in buckets[x].data : new_bit_of(r) = 0
         /\ \A x \in Allocated : Whole(buckets[x])
         /\ sp.get \in Allocated
<1>1. PackedInv
  BY DEF Arranged
<1>2. PICK P, W, Q \in SUBSET Ids : Splits(P, W, Q)
  BY <1>1, InSplit
<1>3. /\ sp.get \in Allocated /\ Partly(buckets[sp.get], sp.get_ptr, sp.get_last)
      /\ \A x \in Allocated \ {sp.get} : Whole(buckets[x])
  BY <1>1, <1>2, SplitPlaces
<1>4. buckets[sp.get] \in Bucket /\ sp.get_ptr \in Int
  BY <1>1, InSplit
<1>5. Whole(buckets[sp.get])
  BY <1>3, <1>4, ReadLast
<1>6. \A r \in buckets[sp.get].data : ~(r.offset >= sp.get_ptr)
  BY <1>3 DEF Partly, Tiles, From
<1>7. \A x \in seen \cup {sp.get} : \A r \in buckets[x].data :
        new_bit_of(r) = 0 \/ (x = sp.get /\ r.offset >= sp.get_ptr)
  BY DEF Laid, Searched
<1> QED
  BY <1>3, <1>5, <1>6, <1>7

(* split begins to read the next bucket of the chain.                       *)
LEMMA StoreNextBucket ==
  ASSUME NEW place, Arranged(place), SplitNextBucket
  PROVE  Rearranged(place)
<1>0. PICK g, t : g = sp.get /\ t = buckets[g].next_bucket_id
  OBVIOUS
<1>1. /\ pc = "split" /\ pc' = "split" /\ sp.get_ptr = sp.get_last
      /\ t # INVALID_BUCKET_ID
      /\ sp' = [sp EXCEPT !.get = t, !.get_ptr = 0, !.get_last = buckets[t].bytes_used]
      /\ buckets' = [buckets EXCEPT ![t].bytes_used = 0]
      /\ UNCHANGED <<buckets_count, first_free_bucket_id, heads, arg>>
  BY <1>0 DEF SplitNextBucket, begin_reading
<1>2. PICK own, seen : Laid(own, seen, place)
  BY DEF Arranged
<1>3. /\ \A x \in seen \cup {g} : \A r \in buckets[x].data : new_bit_of(r) = 0
      /\ \A x \in Allocated : Whole(buckets[x])
      /\ g \in Allocated
  BY <1>0, <1>1, <1>2, ReadOut
<1>4. /\ buckets \in [Ids -> Bucket] /\ Allocated \subseteq Ids /\ sp \in SplitLocals
      /\ Graph(Allocated, nxt, chain_ids)
      /\ INVALID_BUCKET_ID \notin Ids
  BY <1>1, InSplit, StoreFacts DEF Arranged
<1>5. t = nxt[g] /\ t \in Allocated /\ t \in Ids
  BY <1>0, <1>1, <1>3, <1>4 DEF nxt, Graph
<1>6. /\ sp'.get = t /\ sp'.get_ptr = 0 /\ sp'.bit0 = sp.bit0 /\ sp'.bit1 = sp.bit1
      /\ sp'.result = sp.result /\ sp'.prefix_bits = sp.prefix_bits
  <2>1. PICK k, z, h : k = buckets[t].bytes_used /\ z = 0 /\ h = [sp EXCEPT !.get = t]
    OBVIOUS
  <2>2. /\ h.get = t /\ h.bit0 = sp.bit0 /\ h.bit1 = sp.bit1 /\ h.result = sp.result
        /\ h.prefix_bits = sp.prefix_bits /\ DOMAIN h = DOMAIN sp
    BY <1>4, <2>1 DEF SplitLocals
  <2>3. sp' = [h EXCEPT !.get_ptr = z, !.get_last = k]
    BY <1>1, <2>1
  <2> QED
    BY <1>4, <2>1, <2>2, <2>3 DEF SplitLocals
<1>7. \A x \in Ids : /\ buckets'[x].data = buckets[x].data
                     /\ buckets'[x].next_bucket_id = buckets[x].next_bucket_id
  <2>1. PICK old, new : old = buckets[t] /\ new = [old EXCEPT !.bytes_used = 0]
    OBVIOUS
  <2>2. new.data = old.data /\ new.next_bucket_id = old.next_bucket_id
    BY <1>4, <1>5, <2>1 DEF Bucket
  <2>3. buckets' = [buckets EXCEPT ![t] = new]
    BY <1>1, <2>1
  <2> QED
    BY <1>4, <1>5, <2>1, <2>2, <2>3
<1>8. /\ Allocated' = Allocated /\ nxt' = nxt /\ splitting /\ splitting'
  BY <1>1, <1>4, <1>7 DEF Allocated, nxt, splitting
<1>9. /\ Owners(own)' /\ Homes(own, place)' /\ Unique'
      /\ SameItems(buckets, Allocated, buckets', Allocated')
  <2>1. \A x \in Allocated : buckets'[x].data = buckets[x].data
    BY <1>4, <1>7
  <2> QED
    BY <1>1, <1>2, <1>6, <1>8, <2>1, Still DEF Arranged, Laid
<1>10. PICK now : now = seen \cup {g}
  OBVIOUS
<1>11. own[t] = own[g]
  BY <1>1, <1>2, <1>3, <1>5, FirstOwned DEF Arranged, Laid
<1>12. Walked(own, now)'
  <2> SUFFICES /\ now \cup {t} \subseteq {x \in Allocated : own[x] = arg.bucket_id}
               /\ arg.bucket_id \in now \cup {t}
               /\ \A x \in now : nxt[x] \in now \cup {t}
    BY <1>1, <1>6, <1>8 DEF Walked, walker
  <2>1. /\ seen \cup {g} \subseteq {x \in Allocated : own[x] = arg.bucket_id}
        /\ arg.bucket_id \in seen \cup {g}
        /\ \A x \in seen : nxt[x] \in seen \cup {g}
    BY <1>0, <1>1, <1>2 DEF Laid, Walked, walker
  <2> QED
    BY <1>5, <1>10, <1>11, <2>1
<1>13. Searched(own, now)'
  <2> SUFFICES ASSUME NEW x \in now \cup {t}, NEW r \in buckets'[x].data
               PROVE  new_bit_of(r) = 0 \/ (x = t /\ r.offset >= 0)
    BY <1>1, <1>6 DEF Searched, new_bit_of
  <2>1. x \in Allocated
    BY <1>0, <1>1, <1>2, <1>3, <1>5, <1>10 DEF Laid, Walked, walker
  <2>2. r \in buckets[x].data
    BY <1>4, <1>7, <2>1
  <2>3. CASE x \in now
    BY <1>3, <1>10, <2>2, <2>3
  <2>4. CASE x = t
    <3>1. 0 <= r.offset /\ r.offset \in Int
      BY <1>3, <1>4, <1>5, <2>2, <2>4, BucketTypes DEF Whole, Tiles, AnyRecord
    <3> QED
      BY <2>4, <3>1
  <2> QED
    BY <2>3, <2>4
<1>14. Working(own)'
  BY <1>1, <1>2, <1>6 DEF Laid, Working
<1> QED
  BY <1>9, <1>12, <1>13, <1>14 DEF Rearranged, Laid

(* split cuts its old chain behind the last bucket it wrote.                *)
LEMMA StoreUnlink ==
  ASSUME NEW place, Arranged(place), SplitUnlink
  PROVE  Rearranged(place)
<1>0. PICK g, t, c : g = sp.get /\ t = sp.bit0 /\ c = arg.bucket_id
  OBVIOUS
<1>1. /\ pc = "split" /\ pc' = "free" /\ sp.get_ptr = sp.get_last
      /\ buckets[g].next_bucket_id = INVALID_BUCKET_ID
      /\ cursor' = buckets[t].next_bucket_id
      /\ buckets' = [buckets EXCEPT ![t].next_bucket_id = INVALID_BUCKET_ID]
      /\ UNCHANGED <<buckets_count, first_free_bucket_id, heads, arg, sp>>
  BY <1>0 DEF SplitUnlink
<1>2. PICK own, seen : Laid(own, seen, place)
  BY DEF Arranged
<1>3. /\ \A x \in seen \cup {g} : \A r \in buckets[x].data : new_bit_of(r) = 0
      /\ \A x \in Allocated : Whole(buckets[x])
      /\ g \in Allocated
  BY <1>0, <1>1, <1>2, ReadOut
<1>4. /\ buckets \in [Ids -> Bucket] /\ Allocated \subseteq Ids
      /\ Graph(Allocated, nxt, chain_ids)
      /\ INVALID_BUCKET_ID \notin Ids /\ splitting /\ c \in heads
      /\ first_free_bucket_id \in Allocated \cup {INVALID_BUCKET_ID}
      /\ \A x \in Allocated : \A r \in buckets[x].data : r \in AnyRecord
  BY <1>0, <1>1, StoreFacts DEF Arranged, splitting, Serving
<1>5. PICK P, W, Q \in SUBSET Ids : Splits(P, W, Q)
  BY <1>1, InSplit DEF Arranged
<1>6. /\ t \in W /\ t \in Allocated /\ g \in P
      /\ \A x \in Allocated : nxt[x] # c
      /\ \A x, y \in Allocated : x # y /\ nxt[x] \in Allocated => nxt[x] # nxt[y]
  BY <1>0, <1>1, <1>5, SplitPlaces DEF Arranged
<1>7. /\ Path(nxt, P, c, g) /\ Path(nxt, W, c, t) /\ W \subseteq P /\ P \subseteq Allocated
      /\ \A b \in P \ W : buckets[b].bytes_used = 0
  BY <1>0, <1>5 DEF Splits
<1>8. /\ own \in [Ids -> Links] /\ own[c] = c /\ own[t] = c
      /\ \A x \in Allocated : nxt[x] # INVALID_BUCKET_ID => own[nxt[x]] = own[x]
  BY <1>0, <1>1, <1>2, <1>4, FirstOwned DEF Arranged, Laid, Working, chain_ids
<1>9. PICK S : S = {x \in Allocated : own[x] = c}
  OBVIOUS
<1>10. Generated(nxt, S, c)
  BY <1>2, <1>4, <1>9 DEF Laid, Owners, Owned, chain_ids
<1>11. nxt[g] = INVALID_BUCKET_ID /\ INVALID_BUCKET_ID \notin S
  BY <1>1, <1>3, <1>4, <1>9 DEF nxt
<1>12. seen \cup {g} = S
  <2>1. /\ seen \cup {g} \in SUBSET S /\ c \in seen \cup {g}
        /\ \A x \in seen : nxt[x] \in seen \cup {g}
    BY <1>0, <1>1, <1>2, <1>9 DEF Laid, Walked, walker
  <2> QED
    BY <1>10, <1>11, <2>1 DEF Generated
<1>13. S \subseteq P
  <2>0. PICK T : T = P \cap S
    OBVIOUS
  <2>1. T \in SUBSET S /\ c \in T
    BY <1>7, <1>10, <2>0 DEF Path, Generated
  <2>2. \A x \in T : nxt[x] \in S => nxt[x] \in T
    BY <1>7, <1>11, <2>0 DEF Path
  <2>3. T = S
    BY <1>10, <2>1, <2>2 DEF Generated
  <2> QED
    BY <2>0, <2>3
<1>14. PICK V : V = W \cap S
  OBVIOUS
<1>15. Path(nxt, V, c, t)
  <2>1. c \in V /\ t \in V /\ nxt[t] \notin V
    BY <1>6, <1>7, <1>8, <1>9, <1>10, <1>14 DEF Path, Generated
  <2>2. ASSUME NEW b \in V \ {t} PROVE nxt[b] \in V
    <3>1. nxt[b] \in W /\ b \in Allocated /\ own[b] = c
      BY <1>7, <1>9, <1>14, <2>2 DEF Path
    <3>2. nxt[b] \in Allocated /\ nxt[b] # INVALID_BUCKET_ID
      BY <1>4, <1>7, <3>1
    <3> QED
      BY <1>8, <1>9, <1>14, <3>1, <3>2
  <2>3. ASSUME NEW b \in V \ {c} PROVE \E a \in V : nxt[a] = b
    <3>1. PICK a \in W : nxt[a] = b
      BY <1>7, <1>14, <2>3 DEF Path
    <3>2. a \in Allocated /\ b # INVALID_BUCKET_ID /\ own[b] = c
      BY <1>7, <1>9, <1>11, <1>14, <2>3
    <3> QED
      BY <1>8, <1>9, <1>14, <3>1, <3>2
  <2> QED
    BY <2>1, <2>2, <2>3 DEF Path
<1>16. PICK fresh : fresh = [x \in Ids |-> IF x \in Allocated /\ own[x] = c /\ x \notin V
                                             THEN INVALID_BUCKET_ID ELSE own[x]]
  OBVIOUS
<1>17. \A x \in Ids :
         /\ buckets'[x].data = buckets[x].data
         /\ buckets'[x].next_bucket_id = IF x = t THEN INVALID_BUCKET_ID
                                                  ELSE buckets[x].next_bucket_id
  <2>1. PICK old, new : old = buckets[t] /\ new = [old EXCEPT !.next_bucket_id = INVALID_BUCKET_ID]
    OBVIOUS
  <2>2. new.data = old.data /\ new.next_bucket_id = INVALID_BUCKET_ID
    BY <1>4, <1>6, <2>1 DEF Bucket
  <2>3. buckets' = [buckets EXCEPT ![t] = new]
    BY <1>1, <2>1
  <2> QED
    BY <1>4, <1>6, <2>1, <2>2, <2>3
<1>18. nxt' = [nxt EXCEPT ![t] = INVALID_BUCKET_ID]
  BY <1>4, <1>17 DEF nxt
<1>19. /\ Allocated' = Allocated /\ splitting' /\ chain_ids' = chain_ids
  BY <1>1, <1>4 DEF Allocated, splitting, chain_ids
<1>20. /\ Owned(fresh, Allocated, nxt', chain_ids, first_free_bucket_id)
       /\ \A x \in Allocated : fresh[x] = c => x \in V
  <2>1. PICK A, next, C, f, next2 : /\ A = Allocated /\ next = nxt /\ C = chain_ids
                                    /\ f = first_free_bucket_id /\ next2 = nxt'
    OBVIOUS
  <2>2. /\ Graph(A, next, C) /\ Owned(own, A, next, C, f)
        /\ f \in A \cup {INVALID_BUCKET_ID} /\ c \in C
    BY <1>2, <1>4, <2>1 DEF Laid, Owners, chain_ids
  <2>3. /\ Path(next, V, c, t) /\ V \subseteq {x \in A : own[x] = c}
        /\ \A x \in A : next[x] # c
        /\ \A x, y \in A : x # y /\ next[x] \in A => next[x] # next[y]
    BY <1>6, <1>9, <1>14, <1>15, <2>1
  <2>4. /\ next2 = [next EXCEPT ![t] = INVALID_BUCKET_ID]
        /\ fresh = [x \in Ids |-> IF x \in A /\ own[x] = c /\ x \notin V
                                    THEN INVALID_BUCKET_ID ELSE own[x]]
    BY <1>16, <1>18, <2>1
  <2>5. /\ Owned(fresh, A, next2, C, f)
        /\ \A x \in A : fresh[x] = c => x \in V
    <3>1. Cuts(own, A, next, C, f, c, V, t, next2, fresh)
      BY ONLY <2>2, <2>3, <2>4 DEF Cuts
    <3> QED
      BY ONLY <3>1, OwnedCut
  <2> QED
    BY <2>1, <2>5
<1>21. Owners(fresh)'
  BY <1>1, <1>19, <1>20 DEF Owners
<1>22. \A x \in Allocated : \A r \in buckets[x].data : fresh[x] = own[x]
  <2> SUFFICES ASSUME NEW x \in Allocated, NEW r \in buckets[x].data, fresh[x] # own[x]
               PROVE  FALSE
    OBVIOUS
  <2>1. own[x] = c /\ x \notin V
    BY <1>4, <1>16
  <2>2. x \in P \ W
    BY <1>9, <1>13, <1>14, <2>1
  <2>3. buckets[x].bytes_used = 0 /\ Whole(buckets[x])
    BY <1>3, <1>7, <2>2
  <2> QED
    BY <2>3 DEF Whole, Tiles
<1>23. Homes(fresh, place)'
  <2> SUFFICES ASSUME NEW x \in Allocated, NEW r \in buckets[x].data
               PROVE  Home(fresh, x, r, place)'
    BY <1>4, <1>17, <1>19 DEF Homes
  <2>1. Home(own, x, r, place) /\ fresh[x] = own[x]
    BY <1>2, <1>22 DEF Laid, Homes
  <2> QED
    BY <1>1, <1>4, <1>19, <2>1 DEF Home, new_bit_of
<1>24. Working(fresh)'
  <2> SUFFICES ASSUME cursor' # INVALID_BUCKET_ID
               PROVE  fresh[cursor'] = INVALID_BUCKET_ID
    BY <1>1 DEF Working
  <2>1. cursor' = nxt[t] /\ nxt[t] \in Allocated
    BY <1>1, <1>4, <1>6 DEF nxt, Graph
  <2>2. own[nxt[t]] = c /\ nxt[t] \notin V
    BY <1>6, <1>8, <1>15, <2>1 DEF Path
  <2> QED
    BY <1>4, <1>16, <2>1, <2>2
<1>25. Walked(fresh, {})'
  BY <1>1 DEF Walked
<1>26. Searched(fresh, {})'
  <2> SUFFICES ASSUME NEW x \in Allocated, fresh[x] = c, NEW r \in buckets[x].data
               PROVE  new_bit_of(r) = 0
    BY <1>0, <1>1, <1>4, <1>17, <1>19 DEF Searched, new_bit_of
  <2> QED
    BY <1>3, <1>12, <1>14, <1>20
<1>27. Unique' /\ SameItems(buckets, Allocated, buckets', Allocated')
  <2>1. UniqueIn(buckets', Allocated) /\ SameItems(buckets, Allocated, buckets', Allocated)
    BY <1>4, <1>17, ItemsSame DEF Arranged, Unique
  <2> QED
    BY <1>19, <2>1 DEF Unique
<1> QED
  BY <1>21, <1>23, <1>24, <1>25, <1>26, <1>27 DEF Rearranged, Laid

(* split puts an empty bucket on the free list.                             *)
LEMMA StoreFree ==
  ASSUME NEW place, Arranged(place), SplitFree
  PROVE  Rearranged(place)
<1>0. PICK c, f : c = cursor /\ f = first_free_bucket_id
  OBVIOUS
<1>1. /\ pc = "free" /\ pc' = "free" /\ c # INVALID_BUCKET_ID
      /\ cursor' = buckets[c].next_bucket_id /\ first_free_bucket_id' = c
      /\ buckets' = [buckets EXCEPT ![c].next_bucket_id = f]
      /\ UNCHANGED <<buckets_count, heads, arg, sp>>
  BY <1>0 DEF SplitFree
<1>2. PICK own, seen : Laid(own, seen, place)
  BY DEF Arranged
<1>3. /\ buckets \in [Ids -> Bucket] /\ Allocated \subseteq Ids
      /\ Graph(Allocated, nxt, chain_ids)
      /\ INVALID_BUCKET_ID \notin Ids /\ splitting
  BY <1>1, StoreFacts DEF Arranged, splitting
<1>4. c \in Allocated /\ own[c] = INVALID_BUCKET_ID
  BY <1>0, <1>1, <1>2 DEF Arranged, PackedInv, Inv, Live, Typed, Laid, Working
<1>5. \A x \in Ids :
         /\ buckets'[x].data = buckets[x].data
         /\ buckets'[x].next_bucket_id = IF x = c THEN f ELSE buckets[x].next_bucket_id
  <2>1. PICK old, new : old = buckets[c] /\ new = [old EXCEPT !.next_bucket_id = f]
    OBVIOUS
  <2>2. new.data = old.data /\ new.next_bucket_id = f
    BY <1>3, <1>4, <2>1 DEF Bucket
  <2>3. buckets' = [buckets EXCEPT ![c] = new]
    BY <1>1, <2>1
  <2> QED
    BY <1>3, <1>4, <2>1, <2>2, <2>3
<1>6. nxt' = [nxt EXCEPT ![c] = f]
  BY <1>3, <1>5 DEF nxt
<1>7. /\ Allocated' = Allocated /\ splitting' /\ chain_ids' = chain_ids
  BY <1>1, <1>3 DEF Allocated, splitting, chain_ids
<1>8. Owners(own)'
  <2>1. PICK next2 : next2 = nxt'
    OBVIOUS
  <2>2. Owned(own, Allocated, nxt, chain_ids, f)
    BY <1>0, <1>2 DEF Laid, Owners
  <2>3. Owned(own, Allocated, next2, chain_ids, c)
    BY <1>3, <1>4, <1>6, <2>1, <2>2, OwnedFree
  <2> QED
    BY <1>1, <1>7, <2>1, <2>3 DEF Owners
<1>9. Homes(own, place)'
  <2> SUFFICES ASSUME NEW x \in Allocated, NEW r \in buckets[x].data
               PROVE  Home(own, x, r, place)'
    BY <1>3, <1>5, <1>7 DEF Homes
  <2>1. Home(own, x, r, place)
    BY <1>2 DEF Laid, Homes
  <2> QED
    BY <1>1, <1>3, <1>7, <2>1 DEF Home, new_bit_of
<1>10. Working(own)'
  <2>1. cursor' = nxt[c]
    BY <1>1, <1>3, <1>4 DEF nxt
  <2>2. nxt[c] # INVALID_BUCKET_ID => own[nxt[c]] = INVALID_BUCKET_ID
    BY <1>2, <1>4, FirstOwned DEF Arranged, Laid
  <2> QED
    BY <1>1, <2>1, <2>2 DEF Working
<1>11. Walked(own, seen)'
  BY <1>1 DEF Walked
<1>12. Searched(own, seen)'
  <2> SUFFICES ASSUME NEW x \in Allocated, own[x] = arg.bucket_id, NEW r \in buckets[x].data
               PROVE  new_bit_of(r) = 0
    BY <1>1, <1>3, <1>5, <1>7 DEF Searched, new_bit_of
  <2> QED
    BY <1>1, <1>2 DEF Laid, Searched
<1>13. Unique' /\ SameItems(buckets, Allocated, buckets', Allocated')
  <2>1. UniqueIn(buckets', Allocated) /\ SameItems(buckets, Allocated, buckets', Allocated)
    BY <1>3, <1>5, ItemsSame DEF Arranged, Unique
  <2> QED
    BY <1>7, <2>1 DEF Unique
<1> QED
  BY <1>8, <1>9, <1>10, <1>11, <1>12, <1>13 DEF Rearranged, Laid

(* split returns: the records with the new bit are those of the new chain.  *)
LEMMA StoreSplitReturn ==
  ASSUME NEW place, Arranged(place), SplitReturn, NEW place2,
         \A k \in Keys : place2[k] = IF place[k] = arg.bucket_id
                                         /\ Hash[k][sp.prefix_bits] = 1
                                       THEN sp.result ELSE place[k]
  PROVE  Rearranged(place2)
<1>0. PICK b, c, d : b = arg.bucket_id /\ c = sp.result /\ d = sp.prefix_bits
  OBVIOUS
<1>1. /\ pc = "free" /\ pc' = "idle" /\ heads' = heads \cup {c}
      /\ UNCHANGED <<buckets_count, first_free_bucket_id, buckets>>
  BY <1>0 DEF SplitReturn, Return, layout_vars
<1>2. PICK own, seen : Laid(own, seen, place)
  BY DEF Arranged
<1>3. /\ Allocated \subseteq Ids /\ splitting /\ ~splitting'
      /\ Allocated' = Allocated /\ nxt' = nxt /\ chain_ids' = chain_ids
  BY <1>0, <1>1, StoreFacts DEF Arranged, splitting, Allocated, nxt, chain_ids
<1>4. Owners(own)'
  BY <1>1, <1>2, <1>3 DEF Laid, Owners
<1>5. Homes(own, place2)'
  <2> SUFFICES ASSUME NEW x \in Allocated, NEW r \in buckets[x].data
               PROVE  Home(own, x, r, place2)'
    BY <1>1, <1>3 DEF Homes
  <2>1. r.key \in Keys /\ Hash[r.key] \in HashValues
    BY StoreFacts DEF Arranged
  <2>2. Home(own, x, r, place)
    BY <1>2 DEF Laid, Homes
  <2>3. own[x] = b => Hash[r.key][d] = 0
    BY <1>0, <1>1, <1>2 DEF Laid, Searched, new_bit_of
  <2>4. \/ own[x] \in heads /\ place[r.key] = own[x]
        \/ own[x] = c /\ Hash[r.key][d] = 1 /\ place[r.key] = b
    BY <1>0, <2>2 DEF Home, new_bit_of
  <2>5. own[x] \in heads' /\ place2[r.key] = own[x]
    BY <1>0, <1>1, <2>1, <2>3, <2>4
  <2> QED
    BY <2>5 DEF Home
<1>6. Working(own)' /\ Walked(own, seen)' /\ Searched(own, seen)'
  BY <1>1 DEF Working, Walked, Searched
<1>7. Unique' /\ SameItems(buckets, Allocated, buckets', Allocated')
  BY <1>1, <1>3 DEF Arranged, Unique, SameItems
<1> QED
  BY <1>4, <1>5, <1>6, <1>7 DEF Rearranged, Laid

(* Steps inside a call move no key and change no item.                      *)
LEMMA StoreStep ==
  ASSUME NEW place, Arranged(place), ContainerStep
  PROVE  Rearranged(place)
  BY StoreWalk, StoreCreateGrow, StoreSplitAppend, StoreBit0Advance, StoreBit1Grow,
     StoreNextBucket, StoreUnlink, StoreFree DEF ContainerStep, SplitStep

(* Neither does a step that is none of the container's.                     *)
LEMMA StoreStill ==
  ASSUME NEW place, Arranged(place), UNCHANGED cvars
  PROVE  Rearranged(place) /\ Serving'
<1>1. UNCHANGED <<buckets_count, first_free_bucket_id, buckets, heads, pc, arg, cursor, sp>>
  BY DEF cvars, layout_vars, local_vars
<1>2. /\ nxt' = nxt /\ Allocated' = Allocated /\ chain_ids' = chain_ids
      /\ splitting' = splitting
  BY <1>1 DEF nxt, Allocated, chain_ids, splitting
<1>3. PICK own, seen : Laid(own, seen, place)
  BY DEF Arranged
<1>4. Owners(own)' /\ Working(own)'
  BY <1>1, <1>2, <1>3 DEF Laid, Owners, Working
<1>5. Homes(own, place)'
  BY <1>1, <1>2, <1>3 DEF Laid, Homes, Home, new_bit_of
<1>6. Walked(own, seen)' /\ Searched(own, seen)'
  BY <1>1, <1>2, <1>3 DEF Laid, Walked, walker, Searched, new_bit_of
<1>7. Unique' /\ Serving' /\ SameItems(buckets, Allocated, buckets', Allocated')
  BY <1>1, <1>2 DEF Unique, Serving, SameItems, Arranged
<1> QED
  BY <1>4, <1>5, <1>6, <1>7 DEF Laid, Rearranged

(* Where keys that are not stored belong does not matter.                   *)
LEMMA Replaced ==
  ASSUME NEW place, NEW place2, NEW own, NEW seen, Laid(own, seen, place),
         \A k, v : Stored(k, v) => place2[k] = place[k]
  PROVE  Laid(own, seen, place2)
<1>1. ASSUME NEW x \in Allocated, NEW r \in buckets[x].data
      PROVE  Home(own, x, r, place2)
  <2>1. Stored(r.key, r.value)
    BY DEF Stored, StoredIn
  <2> QED
    BY <2>1 DEF Laid, Homes, Home
<1> QED
  BY <1>1 DEF Laid, Homes

(* The buckets of an owner are the chain that starts at it.                 *)
LEMMA ChainOwned ==
  ASSUME PackedInv, NEW own, Owners(own), NEW c \in chain_ids
  PROVE  Chain(c) = {x \in Allocated : own[x] = c}
<1>1. PICK S : S = {x \in Allocated : own[x] = c}
  OBVIOUS
<1>2. /\ Allocated \subseteq Ids /\ c \in Allocated /\ c \in Ids
      /\ \A x \in Allocated : nxt[x] \in Allocated \cup {INVALID_BUCKET_ID}
      /\ buckets \in [Ids -> AnyBucket]
  BY StoreFacts DEF Graph, PackedInv, Inv, Live, Typed
<1>3. c \in S /\ S \in SUBSET Ids /\ \A x \in S : nxt[x] \in S \cup {INVALID_BUCKET_ID}
  BY <1>1, <1>2, FirstOwned
<1>4. /\ c \in Chain(c) /\ Chain(c) \subseteq S
      /\ \A z \in Chain(c) : nxt[z] \in Chain(c) \cup {INVALID_BUCKET_ID}
  BY <1>2, <1>3, ChainLeast
<1>5. Generated(nxt, S, c)
  BY <1>1 DEF Owners, Owned
<1>6. \A x \in Chain(c) : nxt[x] \in S => nxt[x] \in Chain(c)
  BY <1>2, <1>3, <1>4, IdsValid
<1> QED
  BY <1>1, <1>4, <1>5, <1>6 DEF Generated

-----------------------------------------------------------------------------
(* What is stored under the keys that belong to a chain.                    *)
Contents(place, b) ==
    {item \in Keys \X Values : Stored(item[1], item[2]) /\ place[item[1]] = b}

(* It is what the container shows its callers, in the middle of a split too.*)
Shown(place) ==
    chains = [b \in heads |-> [depth |-> known_depth(b), items |-> Contents(place, b)]]

AllShown == \A place : Arranged(place) => Shown(place)

LEMMA ChainItems ==
  ASSUME NEW place, Arranged(place), NEW b \in heads
  PROVE  chains[b].items = Contents(place, b)
<1>1. PICK own, seen : Laid(own, seen, place)
  BY DEF Arranged
<1>2. /\ PackedInv /\ Owners(own) /\ Homes(own, place) /\ Serving
      /\ splitting => sp.result \notin heads
      /\ splitting => sp.result \in chain_ids
      /\ b \in chain_ids
  BY <1>1, StoreFacts DEF Arranged, Laid, chain_ids
<1>3. PICK open : open = (splitting /\ b = arg.bucket_id)
  OBVIOUS
<1>4. PICK C : C = Chain(b) \cup (IF open THEN Chain(sp.result) ELSE {})
  OBVIOUS
<1>5. chains[b].items = {<<r.key, r.value>> : r \in UNION {buckets[x].data : x \in C}}
  BY <1>3, <1>4 DEF chains, chain_records
<1>6. C = {x \in Allocated : own[x] = b \/ (open /\ own[x] = sp.result)}
  <2>1. Chain(b) = {x \in Allocated : own[x] = b}
    BY <1>2, ChainOwned
  <2>2. open => Chain(sp.result) = {x \in Allocated : own[x] = sp.result}
    BY <1>2, <1>3, ChainOwned
  <2> QED
    BY <1>4, <2>1, <2>2
<1>7. ASSUME NEW x \in Allocated, NEW r \in buckets[x].data
      PROVE  x \in C <=> place[r.key] = b
  <2>1. Home(own, x, r, place)
    BY <1>2 DEF Homes
  <2> QED
    BY <1>2, <1>3, <1>6, <2>1 DEF Home, Serving
<1>8. \A x \in Allocated : \A r \in buckets[x].data : r.key \in Keys /\ r.value \in Values
  BY <1>2, StoreFacts
<1>9. ASSUME NEW x \in C, NEW r \in buckets[x].data
      PROVE  <<r.key, r.value>> \in Contents(place, b)
  BY <1>6, <1>7, <1>8 DEF Contents, Stored, StoredIn
<1>10. ASSUME NEW item \in Contents(place, b)
       PROVE  \E x \in C : \E r \in buckets[x].data : item = <<r.key, r.value>>
  <2>1. /\ item \in Keys \X Values /\ place[item[1]] = b
        /\ \E x \in Allocated : \E r \in buckets[x].data : r.key = item[1] /\ r.value = item[2]
    BY DEF Contents, Stored, StoredIn
  <2> QED
    BY <1>7, <2>1
<1> QED
  BY <1>5, <1>9, <1>10

LEMMA ChainsShown == AllShown
<1> SUFFICES ASSUME NEW place, Arranged(place) PROVE Shown(place)
  BY DEF AllShown
<1>1. \A b \in heads : chains[b].items = Contents(place, b)
  BY ChainItems
<1>2. \A b \in heads : buckets[b].prefix_bits \in Int
  BY StoreFacts, BucketTypes DEF Arranged
<1>3. ASSUME NEW b \in heads
      PROVE  chains[b] = [depth |-> known_depth(b), items |-> chains[b].items]
  <2>1. PICK s : s = chain_records(b)
                       \cup (IF splitting /\ b = arg.bucket_id THEN chain_records(sp.result)
                                                               ELSE {})
    OBVIOUS
  <2>2. chains[b] = [depth |-> buckets[b].prefix_bits
                                 - (IF splitting /\ b = arg.bucket_id THEN 1 ELSE 0),
                     items |-> {<<r.key, r.value>> : r \in s}]
    BY <2>1 DEF chains
  <2>3. known_depth(b) = buckets[b].prefix_bits
                           - (IF splitting /\ b = arg.bucket_id THEN 1 ELSE 0)
    BY <1>2 DEF known_depth, depth_of
  <2> QED
    BY <2>2, <2>3
<1>4. chains = [b \in heads |-> chains[b]]
  BY DEF chains
<1> QED
  BY <1>1, <1>3, <1>4 DEF Shown

(* A stored key belongs to a chain the callers know.                        *)
LEMMA StoredPlaced ==
  ASSUME NEW place, Arranged(place), NEW k, NEW v, Stored(k, v)
  PROVE  place[k] \in heads /\ k \in Keys /\ v \in Values
<1>1. PICK x \in Allocated : \E r \in buckets[x].data : r.key = k /\ r.value = v
  BY DEF Stored, StoredIn
<1>2. PICK r \in buckets[x].data : r.key = k /\ r.value = v
  BY <1>1
<1>3. PICK own, seen : Laid(own, seen, place)
  BY DEF Arranged
<1>4. Home(own, x, r, place)
  BY <1>3 DEF Laid, Homes
<1>5. r.key \in Keys /\ r.value \in Values
  BY StoreFacts DEF Arranged
<1> QED
  BY <1>2, <1>4, <1>5 DEF Home, Arranged, Serving, splitting

-----------------------------------------------------------------------------
(* create_record is called for a key that is not stored, on its chain.      *)
Creating(place) ==
    pc = "create" => /\ arg.key \in Keys /\ arg.value \in Values
                     /\ place[arg.key] = arg.bucket_id
                     /\ \A v : ~Stored(arg.key, v)

(* Both chains of a split have the new depth already.                       *)
Deepened ==
    splitting => /\ depth_of(arg.bucket_id) = sp.prefix_bits
                 /\ depth_of(sp.result) = sp.prefix_bits

(* The container's invariant with callers that keep to what they rely on.   *)
StoreInv ==
    /\ \E place : Arranged(place) /\ Creating(place)
    /\ Deepened /\ (pc = "idle" => arg = NoArg)

(* While items, places and depths stay, the callers see the same.           *)
LEMMA ChainsSame ==
  ASSUME NEW place, NEW place2, Shown(place), Shown(place2)', heads' = heads,
         SameItems(buckets, Allocated, buckets', Allocated'),
         \A k, v : Stored(k, v) => place2[k] = place[k],
         \A b \in heads : known_depth(b)' = known_depth(b)
  PROVE  chains' = chains
<1>1. \A b : Contents(place2, b)' = Contents(place, b)
  BY DEF Contents, Stored, SameItems
<1> QED
  BY <1>1 DEF Shown

(* A step inside a call is not seen by the callers.                         *)
LEMMA StoreInside ==
  ASSUME StoreInv, AllShown, AllShown', PackedInv', ContainerStep
  PROVE  StoreInv' /\ UNCHANGED Store!svars
<1>1. PICK place : Arranged(place) /\ Creating(place)
  BY DEF StoreInv
<1>2. /\ heads' = heads /\ arg' = arg /\ result' = result
      /\ pc \in {"find", "remove", "create"} => pc' = pc
      /\ pc \in {"split", "free"} => pc' \in {"split", "free"}
      /\ splitting => sp'.result = sp.result /\ sp'.prefix_bits = sp.prefix_bits
  BY <1>1, StepKeeps DEF Arranged
<1>3. pc \in {"find", "remove", "create", "split", "free"}
  BY DEF ContainerStep, SplitStep, FindNext, RemoveNext, CreateNext, CreateGrow, SplitBit1Append,
         SplitBit1Grow, SplitBit0Append, SplitBit0Advance, SplitNextBucket, SplitUnlink, SplitFree
<1>4. /\ splitting' <=> splitting
      /\ pc' # "idle" /\ (pc' = "create" <=> pc = "create")
      /\ ~splitting => pc' = pc
  BY <1>2, <1>3 DEF splitting
<1>5. Rearranged(place)
  BY <1>1, StoreStep
<1>6. Serving'
  BY <1>1, <1>2, <1>3, <1>4 DEF Serving, Arranged
<1>7. Arranged(place)'
  BY <1>5, <1>6 DEF Arranged, Rearranged
<1>8. Creating(place)'
  BY <1>1, <1>2, <1>4, <1>5 DEF Creating, Rearranged, SameItems, Stored
<1>9. /\ \A b \in heads : depth_of(b)' = depth_of(b)
      /\ splitting => depth_of(sp.result)' = depth_of(sp.result)
  BY <1>1, <1>2, StepKeepsDepth DEF depth_of, Arranged
<1>10. Deepened'
  BY <1>1, <1>2, <1>3, <1>4, <1>9 DEF Deepened, StoreInv, Arranged, Serving
<1>11. chains' = chains
  <2>1. \A b \in heads : known_depth(b)' = known_depth(b)
    BY <1>2, <1>4, <1>9 DEF known_depth
  <2>2. Shown(place) /\ Shown(place)'
    BY <1>1, <1>7 DEF AllShown
  <2> QED
    BY <1>2, <1>5, <2>1, <2>2, ChainsSame DEF Rearranged
<1>12. call' = call
  BY <1>2, <1>4 DEF call
<1>13. StoreInv'
  BY <1>4, <1>7, <1>8, <1>10 DEF StoreInv
<1> QED
  BY <1>2, <1>11, <1>12, <1>13 DEF Store!svars

(* find_record, remove_record or create_record is called.                   *)
LEMMA StoreCalled ==
  ASSUME StoreInv, AllShown, AllShown', PackedInv',
         NEW name \in {"find", "remove", "create"}, NEW b \in heads, NEW k \in Keys, NEW v,
         Call(name, b, k, v), UNCHANGED <<layout_vars, heads, sp>>,
         name = "create" => v \in Values /\ \A u : ~Stored(k, u)
  PROVE  StoreInv' /\ Store!Call(name, b, k, v)
<1>1. PICK place : Arranged(place) /\ Creating(place)
  BY DEF StoreInv
<1>2. /\ pc = "idle" /\ pc' = name /\ result' = NoResult
      /\ arg' = [bucket_id |-> b, key |-> k, value |-> v]
      /\ UNCHANGED <<buckets_count, buckets, first_free_bucket_id, heads>>
  BY DEF Call, layout_vars
<1>3. Allocated' = Allocated /\ ~splitting /\ ~splitting' /\ arg = NoArg
  BY <1>2 DEF Allocated, splitting, StoreInv
<1>4. PICK place2 : place2 = [x \in Keys |-> IF name = "create" /\ x = k THEN b ELSE place[x]]
  OBVIOUS
<1>5. \A x, u : Stored(x, u) => place2[x] = place[x]
  BY <1>1, <1>4, StoredPlaced
<1>6. Arranged(place2)
  BY <1>1, <1>5, Replaced DEF Arranged
<1>7. Rearranged(place2)
  BY <1>6, StoreCall
<1>8. Serving'
  BY <1>2, <1>3 DEF Serving
<1>9. Arranged(place2)'
  BY <1>7, <1>8 DEF Arranged, Rearranged
<1>10. \A x, u : Stored(x, u)' <=> Stored(x, u)
  BY <1>7 DEF Rearranged, SameItems, Stored
<1>11. Creating(place2)'
  BY <1>2, <1>4, <1>10 DEF Creating
<1>12. StoreInv'
  BY <1>2, <1>3, <1>9, <1>11 DEF StoreInv, Deepened
<1>13. chains' = chains
  <2>1. \A c \in heads : known_depth(c)' = known_depth(c)
    BY <1>2, <1>3 DEF known_depth, depth_of
  <2>2. Shown(place) /\ Shown(place2)'
    BY <1>1, <1>9 DEF AllShown
  <2> QED
    BY <1>2, <1>5, <1>7, <2>1, <2>2, ChainsSame DEF Rearranged
<1>14. /\ call = Store!NoCall
       /\ call' = [op |-> name, bucket_id |-> b, key |-> k, value |-> v]
  BY <1>2, <1>3 DEF call, NoArg, Store!NoCall
<1> QED
  BY <1>2, <1>12, <1>13, <1>14 DEF Store!Call, Store!Nothing, NoResult

(* split is called: the old chain has the new depth, but does not show it.  *)
LEMMA StoreSplitCalled ==
  ASSUME StoreInv, AllShown, AllShown', PackedInv', NEW b \in heads,
         buckets[b].prefix_bits < HASH_BITS, SplitCall(b)
  PROVE  StoreInv' /\ Store!Call("split", b, NoValue, NoValue)
<1>0. PICK n, depth : n = new_bucket_id /\ depth = buckets[b].prefix_bits + 1
  OBVIOUS
<1>1. PICK place : Arranged(place) /\ Creating(place)
  BY DEF StoreInv
<1>2. /\ create_bucket /\ pc = "idle" /\ pc' = "split" /\ heads' = heads /\ result' = NoResult
      /\ arg' = [bucket_id |-> b, key |-> NoValue, value |-> NoValue]
      /\ buckets' = begin_reading([buckets EXCEPT ![b].prefix_bits = depth,
                                                  ![n] = fresh_bucket(depth)], b)
      /\ sp'.prefix_bits = depth /\ sp'.result = n
  BY <1>0 DEF SplitCall, Call
<1>3. ~splitting /\ splitting' /\ arg = NoArg
  BY <1>2 DEF splitting, StoreInv
<1>4. /\ Allocated \subseteq Ids /\ heads \subseteq Allocated /\ buckets \in [Ids -> Bucket]
      /\ n \in Ids /\ n \notin heads
  BY <1>0, <1>1, <1>2, StoreFacts, TakesBucket DEF Arranged, PackedInv
<1>5. buckets[b].prefix_bits \in Int /\ depth \in 1 .. HASH_BITS
  BY <1>0, <1>4, SizesAssumption DEF Bucket
<1>6. /\ depth_of(b)' = depth /\ depth_of(n)' = depth
      /\ \A c \in heads \ {b} : depth_of(c)' = depth_of(c)
  BY <1>2, <1>4 DEF begin_reading, fresh_bucket, depth_of, Bucket
<1>7. Rearranged(place)
  BY <1>1, StoreSplitCall
<1>8. Serving' /\ Deepened'
  BY <1>2, <1>3, <1>5, <1>6 DEF Serving, Deepened
<1>9. Arranged(place)'
  BY <1>7, <1>8 DEF Arranged, Rearranged
<1>10. StoreInv'
  BY <1>2, <1>8, <1>9 DEF StoreInv, Creating
<1>11. chains' = chains
  <2>1. \A c \in heads : known_depth(c)' = known_depth(c)
    <3>1. depth_of(b) = depth - 1
      BY <1>0, <1>5 DEF depth_of
    <3> QED
      BY <1>2, <1>3, <1>5, <1>6, <3>1 DEF known_depth
  <2>2. Shown(place) /\ Shown(place)'
    BY <1>1, <1>9 DEF AllShown
  <2> QED
    BY <1>2, <1>7, <2>1, <2>2, ChainsSame DEF Rearranged
<1>12. /\ call = Store!NoCall
       /\ call' = [op |-> "split", bucket_id |-> b, key |-> NoValue, value |-> NoValue]
  BY <1>2, <1>3 DEF call, NoArg, Store!NoCall
<1> QED
  BY <1>2, <1>10, <1>11, <1>12 DEF Store!Call, Store!Nothing, NoResult

(* A caller takes a bucket: a chain without records.                        *)
LEMMA StoreCreated ==
  ASSUME StoreInv, AllShown, AllShown', PackedInv', CreateBucket(1)
  PROVE  StoreInv' /\ \E b \in Ids : Store!Create(b)
<1>0. PICK n : n = new_bucket_id
  OBVIOUS
<1>1. PICK place : Arranged(place) /\ Creating(place)
  BY DEF StoreInv
<1>2. /\ create_bucket /\ pc = "idle" /\ pc' = "idle" /\ heads' = heads \cup {n}
      /\ buckets' = [buckets EXCEPT ![n] = fresh_bucket(1)]
      /\ arg' = arg /\ result' = [NoResult EXCEPT !.bucket_id = n]
  BY <1>0 DEF CreateBucket
<1>3. ~splitting /\ ~splitting' /\ arg = NoArg
  BY <1>2 DEF splitting, StoreInv
<1>4. heads \subseteq Ids /\ buckets \in [Ids -> Bucket] /\ n \in Ids /\ n \notin heads
  BY <1>0, <1>1, <1>2, StoreFacts, TakesBucket DEF Arranged, PackedInv
<1>5. depth_of(n)' = 1 /\ \A c \in heads : depth_of(c)' = depth_of(c)
  BY <1>2, <1>4 DEF fresh_bucket, depth_of
<1>6. Rearranged(place)
  BY <1>1, StoreCreateBucket
<1>7. Arranged(place)'
  BY <1>2, <1>3, <1>6 DEF Arranged, Rearranged, Serving
<1>8. StoreInv'
  BY <1>2, <1>3, <1>7 DEF StoreInv, Creating, Deepened
<1>9. /\ chains = [c \in heads |-> [depth |-> known_depth(c), items |-> Contents(place, c)]]
      /\ chains' = [c \in heads' |-> [depth |-> known_depth(c)', items |-> Contents(place, c)']]
  BY <1>1, <1>7 DEF AllShown, Shown
<1>10. \A c : Contents(place, c)' = Contents(place, c)
  BY <1>6 DEF Contents, Stored, Rearranged, SameItems
<1>11. Contents(place, n) = {}
  BY <1>1, <1>4, StoredPlaced DEF Contents
<1>12. known_depth(n)' = 1 /\ \A c \in heads : known_depth(c)' = known_depth(c)
  BY <1>3, <1>5 DEF known_depth
<1>13. chains' = Store!with_chain(n, 1, {})
  <2>1. DOMAIN chains = heads /\ DOMAIN chains' = heads \cup {n}
    BY <1>2, <1>9
  <2>2. chains'[n] = [depth |-> 1, items |-> {}]
    BY <1>2, <1>9, <1>10, <1>11, <1>12
  <2>3. \A c \in heads : chains'[c] = chains[c]
    BY <1>2, <1>9, <1>10, <1>12
  <2>4. chains' = [c \in heads \cup {n} |-> IF c = n THEN [depth |-> 1, items |-> {}]
                                                   ELSE chains[c]]
    BY <1>2, <1>4, <1>9, <2>1, <2>2, <2>3
  <2> QED
    BY <2>1, <2>4 DEF Store!with_chain
<1>14. call = Store!NoCall /\ call' = call /\ n \notin DOMAIN chains
  BY <1>2, <1>3, <1>4, <1>9 DEF call, NoArg, Store!NoCall
<1>15. Store!Create(n)
  BY <1>2, <1>13, <1>14 DEF Store!Create, Store!Nothing, NoResult
<1> QED
  BY <1>4, <1>8, <1>15

-----------------------------------------------------------------------------
(* The call's chain as the callers see it, before the call returns.         *)
LEMMA CallShown ==
  ASSUME NEW place, Arranged(place), AllShown, pc # "idle"
  PROVE  /\ arg.bucket_id \in DOMAIN chains /\ DOMAIN chains = heads
         /\ call.bucket_id = arg.bucket_id /\ call.key = arg.key /\ call.value = arg.value
         /\ Store!chain = [depth |-> known_depth(arg.bucket_id),
                           items |-> Contents(place, arg.bucket_id)]
         /\ Store!bindings = {item \in Contents(place, arg.bucket_id) : item[1] = arg.key}
<1>1. arg.bucket_id \in heads /\ Shown(place)
  BY DEF Arranged, Serving, AllShown
<1>2. call.bucket_id = arg.bucket_id /\ call.key = arg.key /\ call.value = arg.value
  BY DEF call
<1>3. Store!chain = [depth |-> known_depth(arg.bucket_id),
                     items |-> Contents(place, arg.bucket_id)]
  BY <1>1, <1>2 DEF Store!chain, Shown
<1> QED
  BY <1>1, <1>2, <1>3 DEF Store!bindings, Shown

(* A call that writes no record returns.                                    *)
LEMMA StoreReturned ==
  ASSUME StoreInv, AllShown, AllShown', PackedInv', pc \in {"find", "remove"},
         NEW r, Return(r), UNCHANGED <<layout_vars, heads>>
  PROVE  StoreInv' /\ Store!Return(pc, r) /\ chains' = chains
<1>1. PICK place : Arranged(place) /\ Creating(place)
  BY DEF StoreInv
<1>2. /\ pc' = "idle" /\ arg' = NoArg /\ result' = r /\ ~splitting /\ ~splitting'
      /\ UNCHANGED <<buckets, heads>>
  BY DEF Return, layout_vars, splitting
<1>3. Rearranged(place)
  BY <1>1, <1>2, StoreReturns
<1>4. Arranged(place)'
  BY <1>2, <1>3 DEF Arranged, Rearranged, Serving
<1>5. StoreInv'
  BY <1>2, <1>4 DEF StoreInv, Creating, Deepened
<1>6. chains' = chains
  <2>1. \A c \in heads : known_depth(c)' = known_depth(c)
    BY <1>2 DEF known_depth, depth_of
  <2>2. Shown(place) /\ Shown(place)'
    BY <1>1, <1>4 DEF AllShown
  <2> QED
    BY <1>2, <1>3, <2>1, <2>2, ChainsSame DEF Rearranged
<1>7. call.op = pc /\ call' = Store!NoCall
  BY <1>2 DEF call, NoArg, Store!NoCall
<1> QED
  BY <1>2, <1>5, <1>6, <1>7 DEF Store!Return

(* find_record and find_value return the value their key is bound to.       *)
LEMMA StoreFound ==
  ASSUME StoreInv, AllShown, AllShown', PackedInv', FindHit \/ FindMiss
  PROVE  StoreInv' /\ (Store!ReturnFindHit \/ Store!ReturnFindMiss)
<1>1. PICK place : Arranged(place) /\ Creating(place)
  BY DEF StoreInv
<1>2. pc = "find" /\ UNCHANGED <<layout_vars, heads>>
  BY DEF FindHit, FindMiss
<1>3. Store!bindings = {item \in Contents(place, arg.bucket_id) : item[1] = arg.key}
  BY <1>1, <1>2, CallShown
<1>4. CASE FindHit
  <2>1. PICK r \in first_match(cursor, arg.key) :
          Return([NoResult EXCEPT !.found = TRUE, !.value = r.value])
    BY <1>4 DEF FindHit
  <2>2. PICK w : w = [NoResult EXCEPT !.found = TRUE, !.value = r.value]
    OBVIOUS
  <2>3. StoreInv' /\ Store!Return("find", w) /\ chains' = chains
    BY <1>2, <2>1, <2>2, StoreReturned
  <2>4. Stored(arg.key, r.value) /\ place[arg.key] = arg.bucket_id
    BY <1>1, <1>2, Met
  <2>5. <<arg.key, r.value>> \in Store!bindings
    BY <1>1, <1>3, <2>4, StoredPlaced DEF Contents
  <2>6. w = [Store!Nothing EXCEPT !.found = TRUE, !.value = <<arg.key, r.value>>[2]]
    BY <2>2 DEF Store!Nothing, NoResult
  <2>7. call.op = "find"
    BY <2>3 DEF Store!Return
  <2> QED
    BY <2>3, <2>5, <2>6, <2>7 DEF Store!ReturnFindHit
<1>5. CASE FindMiss
  <2>1. /\ matches(cursor, arg.key) = {} /\ Return(NoResult)
        /\ buckets[cursor].next_bucket_id = INVALID_BUCKET_ID
    BY <1>5 DEF FindMiss
  <2>2. StoreInv' /\ Store!Return("find", NoResult) /\ chains' = chains
    BY <1>2, <2>1, StoreReturned
  <2>3. Store!bindings = {}
    BY <1>1, <1>2, <1>3, <2>1, Missed DEF Contents
  <2> QED
    BY <2>2, <2>3 DEF Store!ReturnFindMiss, Store!Nothing, NoResult
<1> QED
  BY <1>4, <1>5

-----------------------------------------------------------------------------
(* The chains after a call that changed the contents of its chain only.     *)
LEMMA ChainReplaced ==
  ASSUME NEW place, Shown(place), Shown(place)', heads' = heads, NEW b \in heads, NEW items,
         \A c \in heads : known_depth(c)' = known_depth(c),
         Contents(place, b)' = items,
         \A c \in heads \ {b} : Contents(place, c)' = Contents(place, c)
  PROVE  chains' = Store!with_chain(b, known_depth(b), items)
<1>1. DOMAIN chains = heads /\ heads \cup {b} = heads
  BY DEF Shown
<1>2. chains' = [c \in heads |-> [depth |-> known_depth(c), items |-> Contents(place, c)']]
  BY DEF Shown
<1>3. \A c \in heads : chains[c] = [depth |-> known_depth(c), items |-> Contents(place, c)]
  BY DEF Shown
<1>4. chains' = [c \in heads |-> IF c = b THEN [depth |-> known_depth(b), items |-> items]
                                        ELSE chains[c]]
  BY <1>2, <1>3
<1> QED
  BY <1>1, <1>4 DEF Store!with_chain

(* remove_record finds the record and removes it.                           *)
LEMMA StoreRemoved ==
  ASSUME StoreInv, AllShown, AllShown', PackedInv', RemoveHit
  PROVE  StoreInv' /\ Store!ReturnRemove
<1>1. PICK place : Arranged(place) /\ Creating(place)
  BY DEF StoreInv
<1>2. /\ pc = "remove" /\ pc' = "idle" /\ arg' = NoArg /\ heads' = heads
      /\ result' = [NoResult EXCEPT !.found = TRUE] /\ ~splitting /\ ~splitting'
  BY DEF RemoveHit, Return, splitting
<1>3. /\ (\E own, seen : Laid(own, seen, place))' /\ Unique'
      /\ place[arg.key] = arg.bucket_id /\ \E v : Stored(arg.key, v)
      /\ \A k, v : Stored(k, v)' <=> Stored(k, v) /\ k # arg.key
  BY <1>1, StoreRemoveHit
<1>4. Arranged(place)'
  BY <1>2, <1>3 DEF Arranged, Serving
<1>5. StoreInv'
  BY <1>2, <1>4 DEF StoreInv, Creating, Deepened
<1>6. PICK b, k : b = arg.bucket_id /\ k = arg.key
  OBVIOUS
<1>7. /\ b \in DOMAIN chains /\ DOMAIN chains = heads
      /\ call.bucket_id = b /\ call.key = k
      /\ Store!chain = [depth |-> known_depth(b), items |-> Contents(place, b)]
      /\ Store!bindings = {item \in Contents(place, b) : item[1] = k}
  BY <1>1, <1>2, <1>6, CallShown
<1>8. \A c \in heads : known_depth(c)' = known_depth(c)
  <2>1. PICK r \in first_match(cursor, arg.key) :
          buckets' = [buckets EXCEPT ![cursor] = without_record(buckets[cursor], r)]
    BY DEF RemoveHit
  <2>2. heads \subseteq Ids /\ buckets \in [Ids -> Bucket]
    BY <1>1, StoreFacts DEF Arranged
  <2>3. \A c \in Ids : depth_of(c)' = depth_of(c)
    BY <2>1, <2>2 DEF without_record, depth_of, Bucket
  <2> QED
    BY <1>2, <2>2, <2>3 DEF known_depth
<1>9. /\ Contents(place, b)' = Contents(place, b) \ Store!bindings
      /\ \A c \in heads \ {b} : Contents(place, c)' = Contents(place, c)
  <2>1. \A c : Contents(place, c)' = {item \in Contents(place, c) : item[1] # k}
    BY <1>3, <1>6 DEF Contents
  <2>2. \A c : c # b => \A item \in Contents(place, c) : item[1] # k
    BY <1>3, <1>6 DEF Contents
  <2> QED
    BY <1>7, <2>1, <2>2
<1>10. chains' = Store!with_chain(b, known_depth(b), Contents(place, b) \ Store!bindings)
  <2>1. Shown(place) /\ Shown(place)'
    BY <1>1, <1>4 DEF AllShown
  <2> QED
    BY <1>2, <1>7, <1>8, <1>9, <2>1, ChainReplaced
<1>11. Store!bindings # {}
  <2>1. PICK v : Stored(k, v)
    BY <1>3, <1>6
  <2>2. k \in Keys /\ v \in Values
    BY <1>1, <2>1, StoredPlaced
  <2>3. <<k, v>> \in Store!bindings
    BY <1>3, <1>6, <1>7, <2>1, <2>2 DEF Contents
  <2> QED
    BY <2>3
<1>12. call.op = "remove" /\ call' = Store!NoCall
  BY <1>2 DEF call, NoArg, Store!NoCall
<1>13. result' = [Store!Nothing EXCEPT !.found = (Store!bindings # {})]
  BY <1>2, <1>11 DEF NoResult, Store!Nothing
<1>14. chains' = Store!with_chain(call.bucket_id, Store!chain.depth,
                                  Store!chain.items \ Store!bindings)
  BY <1>7, <1>10
<1> QED
  BY <1>5, <1>12, <1>13, <1>14 DEF Store!ReturnRemove, Store!Return

(* remove_record does not find the key: it is not stored.                   *)
LEMMA StoreNotRemoved ==
  ASSUME StoreInv, AllShown, AllShown', PackedInv', RemoveMiss
  PROVE  StoreInv' /\ Store!ReturnRemove
<1>1. PICK place : Arranged(place) /\ Creating(place)
  BY DEF StoreInv
<1>2. /\ pc = "remove" /\ matches(cursor, arg.key) = {} /\ Return(NoResult)
      /\ buckets[cursor].next_bucket_id = INVALID_BUCKET_ID /\ UNCHANGED <<layout_vars, heads>>
  BY DEF RemoveMiss
<1>3. StoreInv' /\ Store!Return("remove", NoResult) /\ chains' = chains
  BY <1>2, StoreReturned
<1>4. PICK b : b = arg.bucket_id
  OBVIOUS
<1>5. /\ b \in DOMAIN chains /\ DOMAIN chains = heads /\ call.bucket_id = b
      /\ Store!chain = [depth |-> known_depth(b), items |-> Contents(place, b)]
      /\ Store!bindings = {item \in Contents(place, b) : item[1] = arg.key}
      /\ Store!chain = chains[call.bucket_id]
  BY <1>1, <1>2, <1>4, CallShown DEF Store!chain
<1>6. Store!bindings = {}
  BY <1>1, <1>2, <1>4, <1>5, Missed DEF Contents
<1>7. chains = Store!with_chain(b, Store!chain.depth, Store!chain.items \ Store!bindings)
  <2>1. chains[b] = [depth |-> Store!chain.depth, items |-> Store!chain.items \ Store!bindings]
    BY <1>5, <1>6
  <2>2. chains = [c \in heads |-> chains[c]]
    BY <1>5 DEF chains
  <2>3. heads \cup {b} = heads
    BY <1>5
  <2>4. chains = [c \in heads |-> IF c = b THEN [depth |-> Store!chain.depth,
                                        items |-> Store!chain.items \ Store!bindings]
                                          ELSE chains[c]]
    BY <2>1, <2>2
  <2> QED
    BY <1>5, <2>3, <2>4 DEF Store!with_chain
<1>8. NoResult = [Store!Nothing EXCEPT !.found = (Store!bindings # {})]
  <2>1. NoResult = [NoResult EXCEPT !.found = FALSE]
    <3>1. PICK w : w = [NoResult EXCEPT !.found = FALSE]
      OBVIOUS
    <3>2. DOMAIN NoResult = {"found", "value", "bucket_id"} /\ NoResult.found = FALSE
      BY DEF NoResult
    <3>3. w = [x \in {"found", "value", "bucket_id"} |-> w[x]]
          /\ NoResult = [x \in {"found", "value", "bucket_id"} |-> NoResult[x]]
      BY <3>1, <3>2 DEF NoResult
    <3>4. w["found"] = NoResult["found"] /\ w["value"] = NoResult["value"]
          /\ w["bucket_id"] = NoResult["bucket_id"]
      BY <3>1, <3>2
    <3> QED
      BY <3>1, <3>3, <3>4
  <2>2. Store!Nothing = NoResult
    BY DEF NoResult, Store!Nothing
  <2>3. (Store!bindings # {}) = FALSE
    BY <1>6
  <2> QED
    BY <2>1, <2>2, <2>3
<1> QED
  BY <1>3, <1>5, <1>7, <1>8 DEF Store!ReturnRemove

(* create_record binds the key on its chain.                                *)
LEMMA StoreWritten ==
  ASSUME StoreInv, AllShown, AllShown', PackedInv', CreateWrite
  PROVE  StoreInv' /\ Store!ReturnCreate
<1>1. PICK place : Arranged(place) /\ Creating(place)
  BY DEF StoreInv
<1>2. /\ pc = "create" /\ pc' = "idle" /\ arg' = NoArg /\ heads' = heads
      /\ result' = [NoResult EXCEPT !.value = arg.value] /\ ~splitting /\ ~splitting'
  BY DEF CreateWrite, Return, splitting
<1>3. /\ (\E own, seen : Laid(own, seen, place))' /\ Unique' /\ place[arg.key] = arg.bucket_id
      /\ \A k, v : Stored(k, v)' <=> Stored(k, v) \/ (k = arg.key /\ v = arg.value)
  BY <1>1, <1>2, StoreCreateWrite DEF Creating
<1>4. Arranged(place)'
  BY <1>2, <1>3 DEF Arranged, Serving
<1>5. StoreInv'
  BY <1>2, <1>4 DEF StoreInv, Creating, Deepened
<1>6. PICK b, k, v : b = arg.bucket_id /\ k = arg.key /\ v = arg.value
  OBVIOUS
<1>7. /\ b \in DOMAIN chains /\ DOMAIN chains = heads
      /\ call.bucket_id = b /\ call.key = k /\ call.value = v
      /\ Store!chain = [depth |-> known_depth(b), items |-> Contents(place, b)]
  BY <1>1, <1>2, <1>6, CallShown
<1>8. \A c \in heads : known_depth(c)' = known_depth(c)
  <2>1. PICK r : buckets' = [buckets EXCEPT ![cursor] = with_record(buckets[cursor],
                                               buckets[cursor].bytes_used, r)]
    BY DEF CreateWrite
  <2>2. heads \subseteq Ids /\ buckets \in [Ids -> Bucket]
    BY <1>1, StoreFacts DEF Arranged
  <2>3. \A c \in Ids : depth_of(c)' = depth_of(c)
    BY <2>1, <2>2 DEF with_record, depth_of, Bucket
  <2> QED
    BY <1>2, <2>2, <2>3 DEF known_depth
<1>9. k \in Keys /\ v \in Values
  BY <1>1, <1>2, <1>6 DEF Creating
<1>10. /\ Contents(place, b)' = Contents(place, b) \cup {<<k, v>>}
       /\ \A c \in heads \ {b} : Contents(place, c)' = Contents(place, c)
  <2>1. \A c : Contents(place, c)' = {item \in Keys \X Values : place[item[1]] = c
                 /\ (Stored(item[1], item[2]) \/ (item[1] = k /\ item[2] = v))}
    BY <1>3, <1>6 DEF Contents
  <2>2. \A item \in Keys \X Values : item[1] = k /\ item[2] = v <=> item = <<k, v>>
    OBVIOUS
  <2>3. <<k, v>> \in Keys \X Values /\ <<k, v>>[1] = k
    BY <1>9
  <2>4. place[k] = b
    BY <1>3, <1>6
  <2>5. \A c : Contents(place, c)' = IF c = b THEN Contents(place, c) \cup {<<k, v>>}
                                              ELSE Contents(place, c)
    BY <2>1, <2>2, <2>3, <2>4 DEF Contents
  <2> QED
    BY <2>5
<1>11. chains' = Store!with_chain(b, known_depth(b), Contents(place, b) \cup {<<k, v>>})
  <2>1. Shown(place) /\ Shown(place)'
    BY <1>1, <1>4 DEF AllShown
  <2> QED
    BY <1>2, <1>7, <1>8, <1>10, <2>1, ChainReplaced
<1>12. call.op = "create" /\ call' = Store!NoCall
  BY <1>2 DEF call, NoArg, Store!NoCall
<1>13. result' = [Store!Nothing EXCEPT !.value = call.value]
  BY <1>2, <1>6, <1>7 DEF NoResult, Store!Nothing
<1>14. chains' = Store!with_chain(call.bucket_id, Store!chain.depth,
                                  Store!chain.items \cup {<<call.key, call.value>>})
  BY <1>7, <1>11
<1> QED
  BY <1>5, <1>12, <1>13, <1>14 DEF Store!ReturnCreate, Store!Return

(* split returns the id of the chain that has the records with the new bit. *)
LEMMA StoreSplitReturned ==
  ASSUME StoreInv, AllShown, AllShown', PackedInv', SplitReturn
  PROVE  StoreInv' /\ Store!ReturnSplit
<1>1. PICK place : Arranged(place) /\ Creating(place)
  BY DEF StoreInv
<1>2. PICK b, n, d : b = arg.bucket_id /\ n = sp.result /\ d = sp.prefix_bits
  OBVIOUS
<1>3. /\ pc = "free" /\ pc' = "idle" /\ arg' = NoArg /\ heads' = heads \cup {n}
      /\ result' = [NoResult EXCEPT !.bucket_id = n] /\ buckets' = buckets
      /\ splitting /\ ~splitting'
  BY <1>2 DEF SplitReturn, Return, splitting, layout_vars
<1>4. /\ n \notin heads /\ n \in Ids /\ heads \subseteq Ids
      /\ buckets \in [Ids -> Bucket] /\ d \in 1 .. HASH_BITS /\ HASH_BITS \in Nat
      /\ depth_of(b) = d /\ depth_of(n) = d
  BY <1>1, <1>2, <1>3, StoreFacts, SizesAssumption DEF Arranged, Serving, StoreInv, Deepened
<1>5. PICK place2 :
        place2 = [k \in Keys |-> IF place[k] = b /\ Hash[k][d] = 1 THEN n ELSE place[k]]
  OBVIOUS
<1>6. Rearranged(place2)
  BY <1>1, <1>2, <1>5, StoreSplitReturn
<1>7. Arranged(place2)'
  BY <1>3, <1>6 DEF Arranged, Rearranged, Serving
<1>8. StoreInv'
  BY <1>3, <1>7 DEF StoreInv, Creating, Deepened
<1>9. /\ b \in heads /\ DOMAIN chains = heads /\ call.bucket_id = b
      /\ Store!chain = [depth |-> known_depth(b), items |-> Contents(place, b)]
  BY <1>1, <1>2, <1>3, CallShown
<1>10. PICK gone : gone = {item \in Contents(place, b) : Hash[item[1]][d] = 1}
  OBVIOUS
<1>11. /\ known_depth(b) + 1 = d /\ known_depth(b)' = d /\ known_depth(n)' = d
       /\ \A c \in heads \ {b} : known_depth(c)' = known_depth(c)
  BY <1>2, <1>3, <1>4 DEF known_depth, depth_of
<1>12. /\ Contents(place2, n)' = gone
       /\ Contents(place2, b)' = Contents(place, b) \ gone
       /\ \A c \in heads \ {b} : Contents(place2, c)' = Contents(place, c)
  <2>1. \A c : Contents(place2, c)' = {item \in Keys \X Values :
                  Stored(item[1], item[2]) /\ place2[item[1]] = c}
    BY <1>6 DEF Contents, Stored, Rearranged, SameItems
  <2>2. ASSUME NEW item \in Keys \X Values, Stored(item[1], item[2])
        PROVE  place[item[1]] \in heads
    BY <1>1, <2>2, StoredPlaced
  <2>3. \A item \in Keys \X Values :
          place2[item[1]] = IF place[item[1]] = b /\ Hash[item[1]][d] = 1 THEN n
                                                                  ELSE place[item[1]]
    BY <1>5
  <2>4. \A c : Contents(place, c) = {item \in Keys \X Values :
                  Stored(item[1], item[2]) /\ place[item[1]] = c}
    BY DEF Contents
  <2>5. \A item \in Keys \X Values : Stored(item[1], item[2]) =>
          /\ place2[item[1]] = n <=> place[item[1]] = b /\ Hash[item[1]][d] = 1
          /\ place2[item[1]] = b <=> place[item[1]] = b /\ ~(Hash[item[1]][d] = 1)
          /\ \A c \in heads \ {b} : place2[item[1]] = c <=> place[item[1]] = c
    BY <1>4, <1>9, <2>2, <2>3
  <2>6. gone = {item \in Keys \X Values : /\ Stored(item[1], item[2])
                                         /\ place[item[1]] = b /\ Hash[item[1]][d] = 1}
    BY <1>10, <2>4
  <2>7. Contents(place2, n)' = gone
    BY <2>1, <2>5, <2>6
  <2>8. Contents(place2, b)' = Contents(place, b) \ gone
    BY <2>1, <2>4, <2>5, <2>6
  <2>9. \A c \in heads \ {b} : Contents(place2, c)' = Contents(place, c)
    <3> SUFFICES ASSUME NEW c \in heads \ {b}
                 PROVE  Contents(place2, c)' = Contents(place, c)
      OBVIOUS
    <3>1. \A item \in Keys \X Values : Stored(item[1], item[2]) =>
            (place2[item[1]] = c <=> place[item[1]] = c)
      BY <2>5
    <3> QED
      BY <2>1, <2>4, <3>1
  <2> QED
    BY <2>7, <2>8, <2>9
<1>13. /\ chains = [c \in heads |-> [depth |-> known_depth(c), items |-> Contents(place, c)]]
       /\ chains' = [c \in heads' |-> [depth |-> known_depth(c)',
                                       items |-> Contents(place2, c)']]
  BY <1>1, <1>7 DEF AllShown, Shown
<1>14. chains' = [x \in DOMAIN chains \cup {n} |->
                    IF x = n THEN [depth |-> d, items |-> gone]
                    ELSE IF x = b THEN [depth |-> d, items |-> Contents(place, b) \ gone]
                    ELSE chains[x]]
  <2>1. chains'[n] = [depth |-> d, items |-> gone]
    BY <1>3, <1>11, <1>12, <1>13
  <2>2. chains'[b] = [depth |-> d, items |-> Contents(place, b) \ gone]
    BY <1>3, <1>9, <1>11, <1>12, <1>13
  <2>3. \A c \in heads \ {b} : chains'[c] = chains[c]
    BY <1>3, <1>11, <1>12, <1>13
  <2>4. chains' = [c \in heads \cup {n} |-> chains'[c]]
    BY <1>3, <1>13
  <2>5. DOMAIN chains = heads
    BY <1>9
  <2> QED
    BY <1>4, <1>9, <2>1, <2>2, <2>3, <2>4, <2>5
<1>15. /\ Store!chain.depth + 1 = d /\ Store!chain.items = Contents(place, b)
       /\ n \in Ids \ DOMAIN chains
  BY <1>4, <1>9, <1>11
<1>16. Store!Return("split", [Store!Nothing EXCEPT !.bucket_id = n]) /\ call.op = "split"
  BY <1>3 DEF Store!Return, Store!Nothing, Store!NoCall, call, NoArg, NoResult
<1> QED
  BY <1>8, <1>9, <1>10, <1>14, <1>15, <1>16 DEF Store!ReturnSplit

-----------------------------------------------------------------------------
(* The constructor shows no chain.                                          *)
LEMMA StoreInit == ContainerInit => Store!Init
<1> SUFFICES ASSUME ContainerInit PROVE Store!Init
  OBVIOUS
<1>1. chains = << >>
  BY DEF ContainerInit, chains
<1>2. call = Store!NoCall /\ result = Store!Nothing
  BY DEF ContainerInit, call, NoArg, NoResult, splitting, Store!NoCall, Store!Nothing
<1> QED
  BY <1>1, <1>2 DEF Store!Init

(* No record is anywhere on a new file.                                     *)
LEMMA StoreInvInit == ContainerInit => StoreInv
<1> SUFFICES ASSUME ContainerInit PROVE StoreInv
  OBVIOUS
<1>1. PICK own : own = [x \in Ids |-> INVALID_BUCKET_ID]
  OBVIOUS
<1>2. /\ Allocated = {} /\ pc = "idle" /\ ~splitting /\ heads = {} /\ arg = NoArg
      /\ first_free_bucket_id = INVALID_BUCKET_ID
  BY DEF ContainerInit, Allocated, splitting
<1>3. own \in [Ids -> Links]
  BY <1>1, LinkTypes
<1>4. Owners(own)
  BY <1>2, <1>3 DEF Owners, Owned, chain_ids
<1>5. \A place : Laid(own, {}, place)
  BY <1>2, <1>4 DEF Laid, Homes, Working, Walked, Searched
<1>6. Unique /\ Serving
  BY <1>2 DEF Unique, UniqueIn, Serving
<1>7. \A place : Arranged(place) /\ Creating(place)
  BY <1>2, <1>5, <1>6, PackedInit DEF Arranged, Creating
<1> QED
  BY <1>2, <1>7 DEF StoreInv, Deepened

(* A key no chain shows is not stored, while no call is in progress.        *)
LEMMA NotThere ==
  ASSUME StoreInv, AllShown, pc = "idle", NEW k \in Keys,
         \A c \in heads : \A r \in chain_records(c) : r.key # k
  PROVE  \A u : ~Stored(k, u)
<1> SUFFICES ASSUME NEW u, Stored(k, u) PROVE FALSE
  OBVIOUS
<1>1. PICK place : Arranged(place)
  BY DEF StoreInv
<1>2. PICK c \in heads : c = place[k]
  BY <1>1, StoredPlaced
<1>3. <<k, u>> \in Contents(place, c)
  BY <1>1, <1>2, StoredPlaced DEF Contents
<1>4. <<k, u>> \in chains[c].items
  BY <1>1, <1>3 DEF AllShown, Shown
<1>5. PICK s : s = chain_records(c)
                     \cup (IF splitting /\ c = arg.bucket_id THEN chain_records(sp.result)
                                                             ELSE {})
  OBVIOUS
<1>6. chains[c].items = {<<r.key, r.value>> : r \in s}
  BY <1>5 DEF chains
<1>7. s = chain_records(c)
  BY <1>5 DEF splitting
<1> QED
  BY <1>4, <1>6, <1>7

(* A step of the container is a step of the store, or is not seen.          *)
LEMMA StoreNext ==
  ASSUME StoreInv, AllShown, AllShown', [ContainerNext]_cvars
  PROVE  StoreInv' /\ [Store!Next]_(Store!svars)
<1>1. PackedInv /\ PackedInv'
  BY PackedStep, NextUsed DEF StoreInv, Arranged
<1>2. CASE ContainerCall
  <2>1. CASE CreateBucket(1)
    BY <1>1, <2>1, StoreCreated DEF Store!Next
  <2>2. ASSUME NEW b \in heads, NEW k \in Keys,
               \/ FindCall(b, k) \/ RemoveCall(b, k)
               \/ /\ \A c \in heads : \A r \in chain_records(c) : r.key # k
                  /\ \E v \in Values : CreateCall(b, k, v)
        PROVE  StoreInv' /\ Store!Next
    <3>1. b \in DOMAIN chains
      BY DEF chains
    <3>2. CASE FindCall(b, k)
      BY <1>1, <3>1, <3>2, StoreCalled DEF FindCall, Store!Next
    <3>3. CASE RemoveCall(b, k)
      BY <1>1, <3>1, <3>3, StoreCalled DEF RemoveCall, Store!Next
    <3>4. ASSUME \A c \in heads : \A r \in chain_records(c) : r.key # k,
                 NEW v \in Values, CreateCall(b, k, v)
          PROVE  StoreInv' /\ Store!Next
      <4>1. \A u : ~Stored(k, u)
        BY <3>4, NotThere DEF CreateCall, Call
      <4> QED
        BY <1>1, <3>1, <3>4, <4>1, StoreCalled DEF CreateCall, Store!Next
    <3> QED
      BY <2>2, <3>2, <3>3, <3>4
  <2>3. ASSUME NEW b \in heads, buckets[b].prefix_bits < HASH_BITS, SplitCall(b)
        PROVE  StoreInv' /\ Store!Next
    <3>1. b \in DOMAIN chains
      BY DEF chains
    <3> QED
      BY <1>1, <2>3, <3>1, StoreSplitCalled DEF Store!Next
  <2> QED
    BY <1>2, <2>1, <2>2, <2>3 DEF ContainerCall
<1>3. CASE ContainerStep
  BY <1>1, <1>3, StoreInside
<1>4. CASE ContainerReturn
  BY <1>1, <1>4, StoreFound, StoreRemoved, StoreNotRemoved, StoreWritten, StoreSplitReturned
     DEF ContainerReturn, Store!Next
<1>5. CASE UNCHANGED cvars
  <2>1. UNCHANGED <<buckets_count, first_free_bucket_id, buckets, heads, pc, arg, sp, result>>
    BY <1>5 DEF cvars, layout_vars, local_vars
  <2>2. Allocated' = Allocated /\ splitting' = splitting /\ call' = call
    BY <2>1 DEF Allocated, splitting, call
  <2>3. PICK place : Arranged(place) /\ Creating(place)
    BY DEF StoreInv
  <2>4. Arranged(place)'
    BY <1>1, <1>5, <2>3, StoreStill DEF Arranged, Rearranged
  <2>5. Creating(place)' /\ Deepened'
    BY <2>1, <2>2, <2>3 DEF Creating, Deepened, depth_of, Stored, StoreInv
  <2>6. StoreInv'
    BY <2>1, <2>4, <2>5 DEF StoreInv
  <2>7. chains' = chains
    BY <2>1, <2>2 DEF chains, chain_records, Chain
  <2> QED
    BY <2>1, <2>2, <2>6, <2>7 DEF Store!svars
<1> QED
  BY <1>2, <1>3, <1>4, <1>5 DEF ContainerNext

(****************************************************************************)
(* The container implements BucketStore: every call acts on the items of    *)
(* the chain it is given as on a set, and a split moves those with the new  *)
(* bit, whatever the records, the sizes and the number of buckets.          *)
(****************************************************************************)
THEOREM ContainerIsStore == ContainerSpec => ImplementsBucketStore
<1>1. ContainerInit => StoreInv /\ Store!Init
  BY StoreInit, StoreInvInit
<1>2. StoreInv /\ AllShown /\ AllShown' /\ [ContainerNext]_cvars
        => StoreInv' /\ [Store!Next]_(Store!svars)
  BY StoreNext
<1> QED
  BY <1>1, <1>2, ChainsShown, PTL DEF ContainerSpec, ImplementsBucketStore, Store!Spec

-----------------------------------------------------------------------------
(* The map's own placing of the keys: the catalogue leads hashes to chains. *)
places == [k \in Keys |-> catalogue_find(Hash[k])]

Layout(own, seen) == Laid(own, seen, places)

(* get has made sure that its key is not stored.                            *)
Absent ==
    hpc \in {"miss", "grown", "split", "placed", "create"} =>
      \A v : ~Stored(req.key, v)

(* The constructor stores nothing.                                          *)
Fresh == ~constructed => \A x \in Allocated : buckets[x].data = {}

(* What the container was asked is what the map was asked.                  *)
Passed ==
    /\ pc \in {"find", "remove", "create"} =>
         arg.key = req.key /\ arg.bucket_id = bucket_id
    /\ pc = "create" => arg.value = req.value
    /\ running => req.op = IF hpc \in {"find", "remove"} THEN hpc ELSE "get"

DictRest ==
    /\ \E own, seen : Layout(own, seen)
    /\ Unique
    /\ Absent
    /\ Fresh
    /\ Passed

DictInv == MapInv /\ DictRest

-----------------------------------------------------------------------------
(* What the invariant says of the buckets and of the call in progress.      *)
LEMMA DictFacts ==
  ASSUME MapInv
  PROVE  /\ Allocated \subseteq Ids /\ buckets \in [Ids -> Bucket]
         /\ heads \subseteq Allocated /\ chain_ids \subseteq Allocated
         /\ INVALID_BUCKET_ID \notin Ids
         /\ first_free_bucket_id \in Allocated \cup {INVALID_BUCKET_ID}
         /\ Graph(Allocated, nxt, chain_ids)
         /\ \A x \in Allocated : \A r \in buckets[x].data :
              /\ r \in AnyRecord /\ r.key \in Keys /\ r.value \in Values
              /\ Hash[r.key] \in HashValues
         /\ pc \in {"find", "remove", "create"} => cursor \in Allocated
         /\ pc # "idle" => running /\ constructed
         /\ splitting => hpc = "split" /\ arg.bucket_id \in heads
<1>1. PackedInv /\ pc \in {"idle", "find", "remove", "create", "split", "free"}
  BY DEF MapInv, PackedInv, Bounded, Inv, Live, Typed
<1>2. pc # "idle" => running /\ constructed
  BY DEF MapInv, Control, running, constructed
<1>3. splitting => hpc = "split" /\ arg.bucket_id \in heads
  BY DEF MapInv, Control, Depths, MapTypes, splitting
<1> QED
  BY <1>1, <1>2, <1>3, StoreFacts

(* The map asks the container as the container expects it.                  *)
LEMMA DictArranged ==
  ASSUME DictInv
  PROVE  /\ \E place : place = places /\ Arranged(place)
         /\ running => req.key \in Keys /\ bucket_id \in heads
                       /\ places[req.key] = bucket_id
<1>1. Serving
  <2>1. pc # "idle" => running /\ pc \in {"find", "remove", "create", "split", "free"}
    BY DictFacts DEF DictInv, MapInv, PackedInv, Bounded, Inv, Live, Typed
  <2>2. pc # "idle" => arg.bucket_id \in heads
    BY <2>1 DEF DictInv, DictRest, Passed, MapInv, Asked, Depths, splitting
  <2>3. splitting => sp.prefix_bits \in 1 .. HASH_BITS
    BY DEF DictInv, MapInv, Depths
  <2> QED
    BY <2>2, <2>3 DEF Serving
<1>2. PICK place : place = places
  OBVIOUS
<1>3. \E own, seen : Laid(own, seen, place)
  BY <1>2 DEF DictInv, DictRest, Layout
<1>4. Arranged(place)
  BY <1>1, <1>3 DEF Arranged, DictInv, DictRest, MapInv
<1>5. running => req.key \in Keys /\ bucket_id \in heads /\ places[req.key] = bucket_id
  BY DEF DictInv, MapInv, Asked, hash, places
<1> QED
  BY <1>2, <1>4, <1>5

(* The records are where the catalogue leads to after the step.             *)
LEMMA Settled ==
  ASSUME NEW place, (\E own, seen : Laid(own, seen, place))', places' = place
  PROVE  (\E own, seen : Layout(own, seen))'
<1>1. PICK own, seen : Laid(own, seen, place)'
  OBVIOUS
<1>2. Homes(own, places)'
  BY <1>1 DEF Laid, Homes, Home
<1>3. Layout(own, seen)'
  BY <1>1, <1>2 DEF Layout, Laid
<1> QED
  BY <1>3

(* A bucket has the records of one chain.                                   *)
LEMMA AtHome ==
  ASSUME DictInv, NEW own, NEW seen, Layout(own, seen),
         NEW x \in Allocated, NEW r \in buckets[x].data
  PROVE  \/ own[x] \in heads /\ catalogue_find(Hash[r.key]) = own[x]
         \/ /\ splitting /\ own[x] = sp.result
            /\ new_bit_of(r) = 1 /\ catalogue_find(Hash[r.key]) = arg.bucket_id
<1>1. Home(own, x, r, places)
  BY DEF Layout, Laid, Homes
<1>2. places[r.key] = catalogue_find(Hash[r.key])
  BY DictFacts DEF DictInv, places
<1> QED
  BY <1>1, <1>2 DEF Home

-----------------------------------------------------------------------------
(* get, find or remove is entered: a walk starts at the chain of the key.   *)
LEMMA DictEnter ==
  ASSUME DictInv, NEW k \in Keys, NEW v, NEW op \in {"find", "remove", "get"},
         NEW name \in {"find", "remove"}, Enter(op, k, v),
         Call(name, bucket_id', k, NoValue), UNCHANGED <<layout_vars, heads, sp>>
  PROVE  DictRest' /\ SameItems(buckets, Allocated, buckets', Allocated')
<1>1. /\ hpc = "idle" /\ hpc' = op /\ pc = "idle" /\ pc' = name
      /\ bucket_id' = catalogue_find(Hash[k])
      /\ req' = [op |-> op, key |-> k, value |-> v, found |-> FALSE, result |-> NoValue]
      /\ arg' = [bucket_id |-> bucket_id', key |-> k, value |-> NoValue]
      /\ UNCHANGED <<prefix_bits, buffer>>
  BY DEF Enter, Call, catalogue_vars
<1>2. constructed /\ constructed'
  BY <1>1 DEF constructed
<1>3. PICK place : place = places /\ Arranged(place)
  BY DictArranged
<1>4. PICK b : b = bucket_id'
  OBVIOUS
<1>5. b \in heads
  BY <1>1, <1>2, <1>4, MapFacts, SizesAssumption DEF DictInv
<1>6. Call(name, b, k, NoValue)
  BY <1>4
<1>7. Rearranged(place)
  BY <1>3, <1>5, <1>6, StoreCall
<1>8. places' = place
  BY <1>1, <1>3 DEF places, catalogue_find
<1>9. Absent' /\ Fresh' /\ Passed'
  BY <1>1, <1>2 DEF Absent, Fresh, Passed, running
<1> QED
  BY <1>7, <1>8, <1>9, Settled DEF DictRest, Rearranged

(* A search that comes to the end of its chain: the key is not stored.      *)
LEMMA DictMissed ==
  ASSUME DictInv, pc \in {"find", "remove"},
         matches(cursor, arg.key) = {}, buckets[cursor].next_bucket_id = INVALID_BUCKET_ID
  PROVE  \A v : ~Stored(req.key, v)
<1>1. PICK place : place = places /\ Arranged(place)
  BY DictArranged
<1>2. running /\ arg.key = req.key /\ arg.bucket_id = bucket_id
  BY DictFacts DEF DictInv, DictRest, Passed
<1> QED
  BY <1>1, <1>2, DictArranged, Missed

(* The call of the container returns, and no record was written.            *)
LEMMA DictReturns ==
  ASSUME DictInv, pc \in {"find", "remove"}, pc' = "idle",
         UNCHANGED <<layout_vars, heads, prefix_bits, buffer>>,
         \/ hpc' = "idle"
         \/ hpc' = "miss" /\ req' = req /\ req.op = "get" /\ \A v : ~Stored(req.key, v)
  PROVE  DictRest' /\ SameItems(buckets, Allocated, buckets', Allocated')
<1>1. PICK place : place = places /\ Arranged(place)
  BY DictArranged
<1>2. Rearranged(place)
  BY <1>1, StoreReturns
<1>3. places' = place
  BY <1>1 DEF places, catalogue_find
<1>4. Absent'
  BY <1>2 DEF Absent, Stored, Rearranged, SameItems
<1>5. Fresh' /\ Passed'
  BY DEF Fresh, Passed, running, constructed
<1> QED
  BY <1>2, <1>3, <1>4, <1>5, Settled DEF DictRest, Rearranged

(* get goes on between two calls of the container, or to create_record.     *)
LEMMA DictGoesOn ==
  ASSUME DictInv, MapInv', GetCatalogueSplit \/ GetCreate
  PROVE  DictRest' /\ SameItems(buckets, Allocated, buckets', Allocated')
<1>1. /\ hpc \in {"miss", "grown", "placed"} /\ hpc' \in {"grown", "create"}
      /\ pc = "idle" /\ pc' \in {"idle", "create"}
      /\ bucket_id' = bucket_id /\ req' = req
  BY DEF GetCatalogueSplit, GetCreate, past_catalogue_split, CreateCall, Call,
         cvars, local_vars, DictInv, MapInv, Control
<1>2. running /\ constructed /\ constructed'
  BY <1>1 DEF running, constructed
<1>3. PICK place : place = places /\ Arranged(place)
  BY DictArranged
<1>4. Rearranged(place)
  <2>1. CASE GetCatalogueSplit
    BY <1>3, <2>1, StoreStill DEF GetCatalogueSplit
  <2>2. CASE GetCreate
    <3>1. PICK b, k, v : b = bucket_id /\ k = req.key /\ v = req.value
      OBVIOUS
    <3>2. b \in heads /\ k \in Keys
      BY <1>2, <3>1, DictArranged
    <3>3. Call("create", b, k, v) /\ UNCHANGED <<layout_vars, heads, sp>>
      BY <2>2, <3>1 DEF GetCreate, CreateCall
    <3> QED
      BY <1>3, <3>2, <3>3, StoreCall
  <2> QED
    BY <2>1, <2>2
<1>5. \A h \in HashValues : catalogue_find(h)' = catalogue_find(h)
  <2>1. CASE GetCreate
    BY <2>1 DEF GetCreate, catalogue_vars, catalogue_find
  <2>2. CASE GetCatalogueSplit
    <3> SUFFICES ASSUME NEW h \in HashValues
                 PROVE  catalogue_find(h)' = catalogue_find(h)
      OBVIOUS
    <3>1. /\ prefix_bits' = prefix_bits + 1 /\ prefix_bits \in Nat
          /\ buffer' = [p \in Prefixes(prefix_bits + 1) |-> buffer[prefix(p, prefix_bits)]]
      BY <2>2, MapFacts DEF GetCatalogueSplit, catalogue_split, DictInv
    <3>2. prefix(h, prefix_bits + 1) \in Prefixes(prefix_bits + 1)
      <4>1. prefix_bits + 1 <= HASH_BITS /\ HASH_BITS \in Nat
        BY <3>1, SizesAssumption DEF MapInv, MapTypes, DirectoryTypeOK
      <4> QED
        BY <3>1, <4>1, PrefixTypes DEF HashValues
    <3>3. prefix(prefix(h, prefix_bits + 1), prefix_bits) = prefix(h, prefix_bits)
      BY <3>1 DEF prefix
    <3> QED
      BY <3>1, <3>2, <3>3 DEF catalogue_find
  <2> QED
    BY <2>1, <2>2
<1>6. places' = place
  BY <1>3, <1>5, SizesAssumption DEF places
<1>7. pc' = "create" => /\ arg'.bucket_id = bucket_id
                        /\ arg'.key = req.key /\ arg'.value = req.value
  BY <1>1 DEF GetCreate, CreateCall, Call, GetCatalogueSplit, cvars, local_vars
<1>8. Absent'
  BY <1>1, <1>4 DEF DictInv, DictRest, Absent, Stored, Rearranged, SameItems
<1>9. Fresh' /\ Passed'
  BY <1>1, <1>2, <1>7 DEF DictInv, DictRest, Fresh, Passed, running
<1> QED
  BY <1>4, <1>6, <1>8, <1>9, Settled DEF DictRest, Rearranged

(* The constructor makes its two chains.                                    *)
LEMMA DictConstruct ==
  ASSUME DictInv, Construct \/ Construct1
  PROVE  DictRest' /\ SameItems(buckets, Allocated, buckets', Allocated')
<1>1. /\ hpc \in {"constructor", "constructor1"} /\ hpc' \in {"constructor1", "idle"}
      /\ pc = "idle" /\ pc' = "idle" /\ CreateBucket(1)
  BY DEF Construct, Construct1, CreateBucket
<1>2. ~constructed
  BY <1>1 DEF constructed
<1>3. PICK place : place = places /\ Arranged(place)
  BY DictArranged
<1>4. Rearranged(place)
  BY <1>1, <1>3, StoreCreateBucket
<1>5. \A x \in Allocated' : buckets'[x].data = {}
  <2> SUFFICES ASSUME NEW x \in Allocated', NEW r \in buckets'[x].data PROVE FALSE
    OBVIOUS
  <2>1. StoredIn(buckets', Allocated', r.key, r.value)
    BY DEF StoredIn
  <2>2. StoredIn(buckets, Allocated, r.key, r.value)
    BY <1>4, <2>1 DEF Rearranged, SameItems
  <2> QED
    BY <1>2, <2>2 DEF StoredIn, DictInv, DictRest, Fresh
<1>6. PICK own, seen : Laid(own, seen, place)'
  BY <1>4 DEF Rearranged
<1>7. Layout(own, seen)'
  BY <1>5, <1>6 DEF Layout, Laid, Homes
<1>8. Absent' /\ Fresh' /\ Passed'
  BY <1>1, <1>5 DEF Absent, Fresh, Passed, running
<1> QED
  BY <1>4, <1>7, <1>8 DEF DictRest, Rearranged

-----------------------------------------------------------------------------
(* remove_record removes the record it found.                               *)
LEMMA DictRemoveHit ==
  ASSUME DictInv, hpc = "remove", RemoveHit, Leave(result'.found, NoValue)
  PROVE  /\ DictRest'
         /\ \E v : Stored(req.key, v)
         /\ \A k, v : Stored(k, v)' <=> Stored(k, v) /\ k # req.key
<1>1. pc = "remove" /\ pc' = "idle" /\ hpc' = "idle" /\ UNCHANGED <<prefix_bits, buffer>>
  BY DEF RemoveHit, Return, Leave, catalogue_vars
<1>2. PICK place : place = places /\ Arranged(place)
  BY DictArranged
<1>3. arg.key = req.key
  BY <1>1 DEF DictInv, DictRest, Passed
<1>4. places' = place
  BY <1>1, <1>2 DEF places, catalogue_find
<1>5. /\ (\E own, seen : Layout(own, seen))' /\ Unique'
      /\ \E v : Stored(req.key, v)
      /\ \A k, v : Stored(k, v)' <=> Stored(k, v) /\ k # req.key
  BY <1>2, <1>3, <1>4, StoreRemoveHit, Settled
<1>6. Absent' /\ Fresh' /\ Passed'
  BY <1>1 DEF Absent, Fresh, Passed, running, constructed
<1> QED
  BY <1>5, <1>6 DEF DictRest

(* create_record writes the record, and get returns.                        *)
LEMMA DictCreated ==
  ASSUME DictInv, GetCreated
  PROVE  /\ DictRest'
         /\ \A v : ~Stored(req.key, v)
         /\ \A k, v : Stored(k, v)' <=> Stored(k, v) \/ (k = req.key /\ v = req.value)
<1>1. /\ hpc = "create" /\ pc = "create" /\ pc' = "idle" /\ hpc' = "idle" /\ CreateWrite
      /\ UNCHANGED <<prefix_bits, buffer>>
  BY DEF GetCreated, CreateWrite, Return, Leave, catalogue_vars
<1>2. PICK place : place = places /\ Arranged(place)
  BY DictArranged
<1>3. running /\ arg.key = req.key /\ arg.value = req.value /\ arg.bucket_id = bucket_id
  BY <1>1 DEF DictInv, DictRest, Passed, running
<1>4. \A v : ~Stored(req.key, v)
  BY <1>1 DEF DictInv, DictRest, Absent
<1>5. places' = place
  BY <1>1, <1>2 DEF places, catalogue_find
<1>6. place[arg.key] = arg.bucket_id
  BY <1>2, <1>3, DictArranged
<1>7. /\ (\E own, seen : Layout(own, seen))' /\ Unique'
      /\ \A k, v : Stored(k, v)' <=> Stored(k, v) \/ (k = req.key /\ v = req.value)
  BY <1>1, <1>2, <1>3, <1>4, <1>5, <1>6, StoreCreateWrite, Settled
<1>8. Absent' /\ Fresh' /\ Passed'
  BY <1>1 DEF Absent, Fresh, Passed, running, constructed
<1> QED
  BY <1>4, <1>7, <1>8 DEF DictRest

(* get has the chain split: the split starts a chain of its own.            *)
LEMMA DictSplitCall ==
  ASSUME DictInv, GetSplit
  PROVE  DictRest' /\ SameItems(buckets, Allocated, buckets', Allocated')
<1>1. /\ pc = "idle" /\ pc' = "split" /\ hpc \in {"miss", "grown"} /\ hpc' = "split"
      /\ UNCHANGED <<prefix_bits, buffer, bucket_id, req>>
  BY DEF GetSplit, past_catalogue_split, SplitCall, Call, catalogue_vars
<1>2. running /\ constructed /\ constructed'
  BY <1>1 DEF running, constructed
<1>3. PICK place : place = places /\ Arranged(place)
  BY DictArranged
<1>4. PICK b : b = bucket_id
  OBVIOUS
<1>5. b \in heads /\ SplitCall(b)
  BY <1>2, <1>4, DictArranged DEF GetSplit
<1>6. Rearranged(place)
  BY <1>3, <1>5, StoreSplitCall
<1>7. places' = place
  BY <1>1, <1>3 DEF places, catalogue_find
<1>8. Absent'
  BY <1>1, <1>6 DEF DictInv, DictRest, Absent, Stored, Rearranged, SameItems
<1>9. Fresh' /\ Passed'
  BY <1>1, <1>2 DEF DictInv, DictRest, Fresh, Passed, running
<1> QED
  BY <1>6, <1>7, <1>8, <1>9, Settled DEF DictRest, Rearranged

(* split returns and the new chain takes over the entries with the new bit. *)
LEMMA DictSplitReturn ==
  ASSUME DictInv, GetSplitReturn
  PROVE  DictRest' /\ SameItems(buckets, Allocated, buckets', Allocated')
<1>0. PICK b, c, d : b = bucket_id /\ c = sp.result /\ d = sp.prefix_bits
  OBVIOUS
<1>1. /\ hpc = "split" /\ hpc' = "placed" /\ req' = req /\ prefix_bits' = prefix_bits
      /\ pc = "free" /\ pc' = "idle" /\ SplitReturn
  BY DEF GetSplitReturn, catalogue_set, SplitReturn, Return
<1>2. splitting /\ constructed'
  BY <1>1 DEF splitting, constructed
<1>3. PICK place : place = places /\ Arranged(place)
  BY DictArranged
<1>4. /\ arg.bucket_id = b /\ depth_of(b) = d /\ d \in 2 .. prefix_bits
      /\ prefix_bits \in Nat /\ HASH_BITS \in Nat /\ prefix_bits <= HASH_BITS
  BY <1>0, <1>1, <1>2, MapFacts DEF DictInv, MapInv, Control, Depths
<1>5. \A h \in HashValues : catalogue_find(h)' = IF catalogue_find(h) = b /\ h[d] = 1
                                                   THEN c ELSE catalogue_find(h)
  <2>1. \A p \in Prefixes(prefix_bits) :
          buffer'[p] = IF buffer[p] = b /\ p[d] = 1 THEN c ELSE buffer[p]
    BY <1>0, <1>4, MapGetSplitReturn DEF DictInv
  <2>2. \A h \in HashValues : /\ prefix(h, prefix_bits) \in Prefixes(prefix_bits)
                              /\ prefix(h, prefix_bits)[d] = h[d]
    BY <1>4, PrefixTypes DEF HashValues
  <2> QED
    BY <1>1, <2>1, <2>2 DEF catalogue_find
<1>6. PICK place2 : place2 = places'
  OBVIOUS
<1>7. \A k \in Keys : place2[k] = IF place[k] = arg.bucket_id /\ Hash[k][sp.prefix_bits] = 1
                                    THEN sp.result ELSE place[k]
  BY <1>0, <1>3, <1>4, <1>5, <1>6, SizesAssumption DEF places
<1>8. Rearranged(place2)
  BY <1>1, <1>3, <1>7, StoreSplitReturn
<1>9. Absent'
  BY <1>1, <1>8 DEF DictInv, DictRest, Absent, Stored, Rearranged, SameItems
<1>10. Fresh' /\ Passed'
  BY <1>1, <1>2 DEF DictInv, DictRest, Fresh, Passed, running
<1> QED
  BY <1>6, <1>8, <1>9, <1>10, Settled DEF DictRest, Rearranged

(* An iteration of a loop inside the container.                             *)
LEMMA DictInside ==
  ASSUME DictInv, Inside
  PROVE  DictRest' /\ SameItems(buckets, Allocated, buckets', Allocated')
<1>1. UNCHANGED <<prefix_bits, buffer, bucket_id, hpc, req>> /\ ContainerStep
  BY DEF Inside
<1>2. pc # "idle"
  BY <1>1 DEF ContainerStep, SplitStep, FindNext, RemoveNext, CreateNext, CreateGrow,
       SplitBit1Append, SplitBit1Grow, SplitBit0Append, SplitBit0Advance, SplitNextBucket,
       SplitUnlink, SplitFree
<1>3. /\ arg' = arg
      /\ pc \in {"find", "remove", "create"} => pc' = pc
      /\ pc \in {"split", "free"} => pc' \in {"split", "free"}
      /\ pc \in {"idle", "find", "remove", "create", "split", "free"}
  BY <1>1, StepKeeps DEF DictInv, MapInv, PackedInv, Bounded, Inv, Live, Typed
<1>4. constructed /\ constructed' /\ (running' <=> running)
  BY <1>1, <1>2, DictFacts DEF DictInv, constructed, running
<1>5. PICK place : place = places /\ Arranged(place)
  BY DictArranged
<1>6. Rearranged(place)
  BY <1>1, <1>5, StoreStep
<1>7. places' = place
  BY <1>1, <1>5 DEF places, catalogue_find
<1>8. Absent'
  BY <1>1, <1>6 DEF DictInv, DictRest, Absent, Stored, Rearranged, SameItems
<1>9. Fresh' /\ Passed'
  BY <1>1, <1>2, <1>3, <1>4 DEF DictInv, DictRest, Fresh, Passed
<1> QED
  BY <1>6, <1>7, <1>8, <1>9, Settled DEF DictRest, Rearranged

-----------------------------------------------------------------------------
(* A caller enters a method.                                                *)
LEMMA DictCalls ==
  ASSUME DictInv, NEW k \in Keys,
         Find(k) \/ Remove(k) \/ (\E v \in Offered[k] : Get(k, v))
  PROVE  DictRest' /\ SameItems(buckets, Allocated, buckets', Allocated')
<1>1. CASE Find(k)
  BY <1>1, DictEnter DEF Find, FindCall
<1>2. CASE Remove(k)
  BY <1>2, DictEnter DEF Remove, RemoveCall
<1>3. CASE \E v \in Offered[k] : Get(k, v)
  BY <1>3, DictEnter DEF Get, FindCall
<1> QED
  BY <1>1, <1>2, <1>3

(* A search that succeeds has found the record its caller asked for.        *)
LEMMA Hit ==
  ASSUME DictInv, pc \in {"find", "remove"}, NEW r \in first_match(cursor, arg.key)
  PROVE  Stored(req.key, r.value)
<1>1. cursor \in Allocated /\ arg.key = req.key
  BY DictFacts DEF DictInv, DictRest, Passed
<1>2. r \in buckets[cursor].data /\ r.key = arg.key
  BY DEF first_match, matches
<1> QED
  BY <1>1, <1>2 DEF Stored, StoredIn

(* find returns, or get with what it found.                                 *)
LEMMA DictFindReturn ==
  ASSUME DictInv, FindReturn
  PROVE  /\ DictRest' /\ SameItems(buckets, Allocated, buckets', Allocated')
         /\ hpc \in {"find", "get"} /\ hpc' = "idle"
         /\ \/ \E v : /\ Stored(req.key, v)
                      /\ req' = [NoReq EXCEPT !.found = TRUE, !.result = v]
            \/ /\ hpc = "find" /\ \A v : ~Stored(req.key, v)
               /\ req' = [NoReq EXCEPT !.found = FALSE, !.result = NoValue]
<1>1. CASE hpc \in {"find", "get"} /\ FindHit /\ Leave(TRUE, result'.value)
  <2>1. PICK r \in first_match(cursor, arg.key) :
          result' = [NoResult EXCEPT !.found = TRUE, !.value = r.value]
    BY <1>1 DEF FindHit, Return
  <2>2. result'.value = r.value
    BY <2>1 DEF NoResult
  <2>3. /\ pc = "find" /\ pc' = "idle" /\ hpc' = "idle"
        /\ UNCHANGED <<layout_vars, heads, prefix_bits, buffer>>
        /\ req' = [NoReq EXCEPT !.found = TRUE, !.result = r.value]
    BY <1>1, <2>2 DEF FindHit, Return, Leave, catalogue_vars
  <2>4. DictRest' /\ SameItems(buckets, Allocated, buckets', Allocated')
    BY <2>3, DictReturns
  <2> QED
    BY <1>1, <2>3, <2>4, Hit
<1>2. CASE hpc = "find" /\ FindMiss /\ Leave(FALSE, NoValue)
  <2>1. /\ pc = "find" /\ pc' = "idle" /\ hpc' = "idle"
        /\ UNCHANGED <<layout_vars, heads, prefix_bits, buffer>>
        /\ req' = [NoReq EXCEPT !.found = FALSE, !.result = NoValue]
        /\ matches(cursor, arg.key) = {}
        /\ buckets[cursor].next_bucket_id = INVALID_BUCKET_ID
    BY <1>2 DEF FindMiss, Return, Leave, catalogue_vars
  <2>2. DictRest' /\ SameItems(buckets, Allocated, buckets', Allocated')
    BY <2>1, DictReturns
  <2>3. \A v : ~Stored(req.key, v)
    BY <2>1, DictMissed
  <2> QED
    BY <1>2, <2>1, <2>2, <2>3
<1> QED
  BY <1>1, <1>2 DEF FindReturn

(* get goes on after its search failed.                                     *)
LEMMA DictGetMiss ==
  ASSUME DictInv, GetMiss
  PROVE  DictRest' /\ SameItems(buckets, Allocated, buckets', Allocated')
<1>1. /\ pc = "find" /\ pc' = "idle" /\ hpc = "get" /\ hpc' = "miss" /\ req' = req
      /\ UNCHANGED <<layout_vars, heads, prefix_bits, buffer>>
      /\ matches(cursor, arg.key) = {}
      /\ buckets[cursor].next_bucket_id = INVALID_BUCKET_ID
  BY DEF GetMiss, FindMiss, Return, catalogue_vars
<1>2. \A v : ~Stored(req.key, v)
  BY <1>1, DictMissed
<1>3. req.op = "get"
  BY <1>1 DEF DictInv, DictRest, Passed, running
<1> QED
  BY <1>1, <1>2, <1>3, DictReturns

(* remove returns: its key is not stored any more, all others are.          *)
LEMMA DictRemoveReturn ==
  ASSUME DictInv, RemoveReturn
  PROVE  /\ DictRest'
         /\ hpc = "remove" /\ hpc' = "idle"
         /\ \E found \in BOOLEAN :
              /\ found <=> \E v : Stored(req.key, v)
              /\ req' = [NoReq EXCEPT !.found = found, !.result = NoValue]
         /\ \A k, v : Stored(k, v)' <=> Stored(k, v) /\ k # req.key
<1>1. hpc = "remove" /\ hpc' = "idle" /\ Leave(result'.found, NoValue)
  BY DEF RemoveReturn, Leave
<1>2. CASE RemoveHit
  <2>1. result'.found = TRUE
    BY <1>2 DEF RemoveHit, Return, NoResult
  <2>2. req' = [NoReq EXCEPT !.found = TRUE, !.result = NoValue]
    BY <1>1, <2>1 DEF Leave
  <2>3. /\ DictRest' /\ \E v : Stored(req.key, v)
        /\ \A k, v : Stored(k, v)' <=> Stored(k, v) /\ k # req.key
    BY <1>1, <1>2, DictRemoveHit
  <2> QED
    BY <1>1, <2>2, <2>3
<1>3. CASE RemoveMiss
  <2>1. /\ pc = "remove" /\ pc' = "idle" /\ result' = NoResult
        /\ UNCHANGED <<layout_vars, heads, prefix_bits, buffer>>
        /\ matches(cursor, arg.key) = {}
        /\ buckets[cursor].next_bucket_id = INVALID_BUCKET_ID
    BY <1>1, <1>3 DEF RemoveMiss, Return, Leave, catalogue_vars
  <2>2. result'.found = FALSE
    BY <2>1 DEF NoResult
  <2>3. req' = [NoReq EXCEPT !.found = FALSE, !.result = NoValue]
    BY <1>1, <2>2 DEF Leave
  <2>4. DictRest' /\ SameItems(buckets, Allocated, buckets', Allocated')
    BY <1>1, <2>1, DictReturns
  <2>5. \A v : ~Stored(req.key, v)
    BY <2>1, DictMissed
  <2>6. \A k, v : Stored(k, v)' <=> Stored(k, v) /\ k # req.key
    BY <2>4, <2>5 DEF Stored, SameItems
  <2> QED
    BY <1>1, <2>3, <2>4, <2>5, <2>6
<1> QED
  BY <1>2, <1>3 DEF RemoveReturn

(* Nothing is stored before the constructor runs.                           *)
LEMMA DictInit == Init => DictInv
<1> SUFFICES ASSUME Init PROVE DictRest
  BY MapInit DEF DictInv
<1>1. /\ buckets_count = 0 /\ heads = {} /\ pc = "idle" /\ hpc = "constructor"
      /\ first_free_bucket_id = INVALID_BUCKET_ID
  BY DEF Init, ContainerInit
<1>2. Allocated = {} /\ chain_ids = {}
  BY <1>1 DEF Allocated, chain_ids, splitting
<1>3. PICK own : own = [x \in Ids |-> INVALID_BUCKET_ID]
  OBVIOUS
<1>4. own \in [Ids -> Links]
  BY <1>3 DEF Links
<1>5. Owners(own)
  BY <1>1, <1>2, <1>4 DEF Owners, Owned
<1>6. Working(own) /\ Homes(own, places) /\ Walked(own, {}) /\ Searched(own, {})
  BY <1>1, <1>2 DEF Working, Homes, Walked, Searched
<1>7. Unique /\ Absent /\ Fresh /\ Passed
  BY <1>1, <1>2 DEF Unique, UniqueIn, Absent, Fresh, Passed, running
<1> QED
  BY <1>5, <1>6, <1>7 DEF DictRest, Layout, Laid

(* Every step keeps the records where their hashes lead to.                 *)
LEMMA DictStep ==
  ASSUME DictInv, MapInv', [Next]_hvars
  PROVE  DictInv'
<1>1. CASE Next
  <2>1. RemovedKeys \subseteq Keys
    BY SizesAssumption
  <2>2. CASE Construct \/ Construct1
    BY <2>2, DictConstruct DEF DictInv
  <2>3. CASE \/ \E k \in Keys : Find(k) \/ \E v \in Offered[k] : Get(k, v)
             \/ \E k \in RemovedKeys : Remove(k)
    BY <2>1, <2>3, DictCalls DEF DictInv
  <2>4. CASE FindReturn
    BY <2>4, DictFindReturn DEF DictInv
  <2>5. CASE RemoveReturn
    BY <2>5, DictRemoveReturn DEF DictInv
  <2>6. CASE GetMiss
    BY <2>6, DictGetMiss DEF DictInv
  <2>7. CASE GetCatalogueSplit \/ GetCreate
    BY <2>7, DictGoesOn DEF DictInv
  <2>8. CASE GetSplit
    BY <2>8, DictSplitCall DEF DictInv
  <2>9. CASE GetSplitReturn
    BY <2>9, DictSplitReturn DEF DictInv
  <2>10. CASE GetCreated
    BY <2>10, DictCreated DEF DictInv
  <2>11. CASE Inside
    BY <2>11, DictInside DEF DictInv
  <2> QED
    BY <1>1, <2>2, <2>3, <2>4, <2>5, <2>6, <2>7, <2>8, <2>9, <2>10, <2>11 DEF Next
<1>2. CASE UNCHANGED hvars
  <2>1. UNCHANGED <<buckets_count, first_free_bucket_id, buckets, heads, pc, arg, cursor, sp,
                    prefix_bits, buffer, bucket_id, hpc, req>>
    BY <1>2 DEF hvars, cvars, layout_vars, local_vars
  <2>2. PICK place : place = places /\ Arranged(place)
    BY DictArranged
  <2>3. Rearranged(place)
    BY <1>2, <2>2, StoreStill DEF hvars
  <2>4. places' = place
    BY <2>1, <2>2 DEF places, catalogue_find
  <2>5. Allocated' = Allocated
    BY <2>1 DEF Allocated
  <2>6. Absent' /\ Fresh' /\ Passed'
    BY <2>1, <2>5 DEF DictInv, DictRest, Absent, Stored, Fresh, constructed, Passed, running
  <2> QED
    BY <2>3, <2>4, <2>6, Settled DEF DictInv, DictRest, Rearranged
<1> QED
  BY <1>1, <1>2

-----------------------------------------------------------------------------
(* The dictionary that the records in the buckets A make up.                *)
DictOf(bs, A) ==
    [k \in Keys |->
       LET found == {r \in UNION {bs[b].data : b \in A} : r.key = k}
       IN IF found = {} THEN NoValue ELSE (CHOOSE r \in found : TRUE).value]

(* When no key is stored twice, a key has the value stored for it.          *)
LEMMA DictValue ==
  ASSUME NEW bs, NEW A, UniqueIn(bs, A), NEW k \in Keys
  PROVE  /\ \A v : StoredIn(bs, A, k, v) => DictOf(bs, A)[k] = v
         /\ (\A v : ~StoredIn(bs, A, k, v)) => DictOf(bs, A)[k] = NoValue
<1>1. PICK found : found = {r \in UNION {bs[b].data : b \in A} : r.key = k}
  OBVIOUS
<1>2. PICK one : one = CHOOSE r \in found : TRUE
  OBVIOUS
<1>3. DictOf(bs, A)[k] = IF found = {} THEN NoValue ELSE one.value
  BY <1>1, <1>2 DEF DictOf
<1>4. found # {} => one \in found
  BY <1>2
<1>5. ASSUME NEW v, StoredIn(bs, A, k, v) PROVE DictOf(bs, A)[k] = v
  <2>0. PICK x \in A : \E r \in bs[x].data : r.key = k /\ r.value = v
    BY <1>5 DEF StoredIn
  <2>1. PICK r \in bs[x].data : r.key = k /\ r.value = v
    BY <2>0
  <2>2. r \in found
    BY <1>1, <2>1
  <2>3. one = r
    <3>1. one \in found
      BY <1>4, <2>2
    <3>2. PICK y \in A : one \in bs[y].data /\ one.key = k
      BY <1>1, <3>1
    <3> QED
      BY <2>1, <3>2 DEF UniqueIn
  <2> QED
    BY <1>3, <2>1, <2>2, <2>3
<1>6. ASSUME \A v : ~StoredIn(bs, A, k, v) PROVE DictOf(bs, A)[k] = NoValue
  <2>1. \A r \in found : StoredIn(bs, A, k, r.value)
    BY <1>1 DEF StoredIn
  <2>2. found = {}
    BY <1>6, <2>1
  <2> QED
    BY <1>3, <2>2
<1> QED
  BY <1>5, <1>6

(* The dictionary follows what is stored.                                   *)
LEMMA DictSame ==
  ASSUME NEW old, NEW A, NEW new, NEW B, UniqueIn(old, A), UniqueIn(new, B),
         SameItems(old, A, new, B)
  PROVE  DictOf(new, B) = DictOf(old, A)
<1>1. ASSUME NEW k \in Keys PROVE DictOf(new, B)[k] = DictOf(old, A)[k]
  <2>1. CASE \E v : StoredIn(old, A, k, v)
    <3>1. PICK v : StoredIn(old, A, k, v)
      BY <2>1
    <3>2. StoredIn(new, B, k, v)
      BY <3>1 DEF SameItems
    <3> QED
      BY <3>1, <3>2, DictValue
  <2>2. CASE \A v : ~StoredIn(old, A, k, v)
    <3>1. \A v : ~StoredIn(new, B, k, v)
      BY <2>2 DEF SameItems
    <3> QED
      BY <2>2, <3>1, DictValue
  <2> QED
    BY <2>1, <2>2
<1>2. /\ DictOf(new, B) = [k \in Keys |-> DictOf(new, B)[k]]
      /\ DictOf(old, A) = [k \in Keys |-> DictOf(old, A)[k]]
  BY DEF DictOf
<1> QED
  BY <1>1, <1>2

(* The map's dictionary in these terms, and what becomes of it.             *)
LEMMA DictAfter ==
  ASSUME DictInv, DictInv'
  PROVE  /\ dict = DictOf(buckets, Allocated)
         /\ SameItems(buckets, Allocated, buckets', Allocated') => dict' = dict
         /\ \A k \in Keys : /\ \A v : Stored(k, v) => dict[k] = v /\ v # NoValue
                            /\ (\A v : ~Stored(k, v)) => dict[k] = NoValue
         /\ \A k \in Keys : /\ \A v : Stored(k, v)' => dict'[k] = v
                            /\ (\A v : ~Stored(k, v)') => dict'[k] = NoValue
         /\ dict \in [Keys -> Values \cup {NoValue}]
         /\ dict' = [k \in Keys |-> dict'[k]]
<1>1. /\ dict = DictOf(buckets, Allocated)
      /\ dict' = DictOf(buckets', Allocated')
  BY DEF dict, DictOf, records
<1>2. UniqueIn(buckets, Allocated) /\ UniqueIn(buckets', Allocated')
  BY DEF DictInv, DictRest, Unique
<1>3. SameItems(buckets, Allocated, buckets', Allocated') => dict' = dict
  BY <1>1, <1>2, DictSame
<1>4. \A k, v : Stored(k, v) => v \in Values
  BY DictFacts DEF DictInv, Stored, StoredIn
<1>5. \A k \in Keys : /\ \A v : Stored(k, v) => dict[k] = v /\ v # NoValue
                      /\ (\A v : ~Stored(k, v)) => dict[k] = NoValue
  BY <1>1, <1>2, <1>4, DictValue, SizesAssumption DEF Stored
<1>6. \A k \in Keys : /\ \A v : Stored(k, v)' => dict'[k] = v
                      /\ (\A v : ~Stored(k, v)') => dict'[k] = NoValue
  BY <1>1, <1>2, DictValue DEF Stored
<1>7. dict = [k \in Keys |-> dict[k]] /\ dict' = [k \in Keys |-> dict'[k]]
  BY <1>1 DEF DictOf
<1>8. \A k \in Keys : dict[k] \in Values \cup {NoValue}
  BY <1>4, <1>5
<1>9. dict \in [Keys -> Values \cup {NoValue}]
  BY <1>7, <1>8
<1> QED
  BY <1>1, <1>3, <1>5, <1>6, <1>7, <1>9

(* The map's initial states are the dictionary's.                           *)
LEMMA DictRefinesInit == Init => KV!Init
<1> SUFFICES ASSUME Init PROVE KV!Init
  OBVIOUS
<1>1. buckets_count = 0 /\ hpc = "constructor" /\ req = NoReq
  BY DEF Init, ContainerInit
<1>2. Allocated = {}
  BY <1>1 DEF Allocated
<1>3. dict = [k \in Keys |-> NoValue]
  BY <1>2 DEF dict, records
<1>4. status = "closed"
  BY <1>1 DEF status, constructed
<1> QED
  BY <1>1, <1>3, <1>4 DEF KV!Init, NoReq, KV!NoReq

(* Every step of the map is a step of the dictionary, or none.              *)
LEMMA DictRefines ==
  ASSUME DictInv, DictInv', [Next]_hvars
  PROVE  KV!Next \/ UNCHANGED KV!kvvars
<1>0. ASSUME SameItems(buckets, Allocated, buckets', Allocated') PROVE dict' = dict
  BY <1>0, DictAfter
<1>1. CASE Construct
  <2>1. hpc = "constructor" /\ hpc' = "constructor1" /\ req' = req
    BY <1>1 DEF Construct
  <2>2. dict' = dict
    BY <1>0, <1>1, DictConstruct
  <2> QED
    BY <2>1, <2>2 DEF status, constructed, KV!kvvars
<1>2. CASE Construct1
  <2>1. hpc = "constructor1" /\ hpc' = "idle" /\ req' = req
    BY <1>2 DEF Construct1
  <2>2. dict' = dict
    BY <1>0, <1>2, DictConstruct
  <2>3. KV!Open
    BY <2>1, <2>2 DEF status, constructed, KV!Open
  <2> QED
    BY <2>3 DEF KV!Next
<1>3. ASSUME NEW k \in Keys, Find(k) \/ Remove(k) \/ (\E v \in Offered[k] : Get(k, v))
      PROVE  KV!Next
  <2>1. dict' = dict
    BY <1>0, <1>3, DictCalls
  <2>2. ASSUME NEW op \in {"find", "remove", "get"}, NEW v, Enter(op, k, v)
        PROVE  KV!Call(op, k, v)
    BY <2>1, <2>2 DEF Enter, status, constructed, KV!Call
  <2>3. CASE Find(k)
    BY <2>2, <2>3 DEF Find, KV!Next
  <2>4. CASE Remove(k)
    BY <2>2, <2>4 DEF Remove, KV!Next
  <2>5. CASE \E v \in Offered[k] : Get(k, v)
    <3>1. Offered[k] \subseteq Values
      BY OfferedAssumption
    <3> QED
      BY <2>2, <2>5, <3>1 DEF Get, KV!Next
  <2> QED
    BY <1>3, <2>3, <2>4, <2>5
<1>4. CASE FindReturn
  <2>1. /\ hpc \in {"find", "get"} /\ hpc' = "idle" /\ dict' = dict
        /\ \/ \E v : /\ Stored(req.key, v)
                     /\ req' = [NoReq EXCEPT !.found = TRUE, !.result = v]
           \/ /\ hpc = "find" /\ \A v : ~Stored(req.key, v)
              /\ req' = [NoReq EXCEPT !.found = FALSE, !.result = NoValue]
    BY <1>0, <1>4, DictFindReturn
  <2>2. req.key \in Keys /\ req.op = hpc
    BY <2>1 DEF DictInv, DictRest, Passed, MapInv, Asked, running
  <2>3. status = "busy" /\ status' = "idle"
    BY <2>1 DEF status, constructed
  <2>4. CASE \E v : /\ Stored(req.key, v)
                    /\ req' = [NoReq EXCEPT !.found = TRUE, !.result = v]
    <3>1. dict[req.key] # NoValue
      BY <2>2, <2>4, DictAfter
    <3>2. req' = [NoReq EXCEPT !.found = TRUE, !.result = dict[req.key]]
      BY <2>2, <2>4, DictAfter
    <3>3. (dict[req.key] # NoValue) = TRUE
      BY <3>1
    <3>4. KV!ReturnFind \/ KV!ReturnGetBound
      BY <2>1, <2>2, <2>3, <3>1, <3>2, <3>3
         DEF KV!ReturnFind, KV!ReturnGetBound, KV!Return, KV!bound, KV!NoReq, NoReq
    <3> QED
      BY <3>4 DEF KV!Next
  <2>5. CASE /\ hpc = "find" /\ \A v : ~Stored(req.key, v)
             /\ req' = [NoReq EXCEPT !.found = FALSE, !.result = NoValue]
    <3>1. dict[req.key] = NoValue
      BY <2>2, <2>5, DictAfter
    <3>2. (dict[req.key] # NoValue) = FALSE
      BY <3>1
    <3>3. KV!ReturnFind
      BY <2>1, <2>2, <2>3, <2>5, <3>1, <3>2
         DEF KV!ReturnFind, KV!Return, KV!bound, KV!NoReq, NoReq
    <3> QED
      BY <3>3 DEF KV!Next
  <2> QED
    BY <2>1, <2>4, <2>5
<1>5. CASE RemoveReturn
  <2>1. /\ hpc = "remove" /\ hpc' = "idle"
        /\ \E found \in BOOLEAN :
             /\ found <=> \E v : Stored(req.key, v)
             /\ req' = [NoReq EXCEPT !.found = found, !.result = NoValue]
        /\ \A k, v : Stored(k, v)' <=> Stored(k, v) /\ k # req.key
    BY <1>5, DictRemoveReturn
  <2>2. req.key \in Keys /\ req.op = "remove"
    BY <2>1 DEF DictInv, DictRest, Passed, MapInv, Asked, running
  <2>3. status = "busy" /\ status' = "idle"
    BY <2>1 DEF status, constructed
  <2>4. PICK found \in BOOLEAN :
          /\ found <=> \E v : Stored(req.key, v)
          /\ req' = [NoReq EXCEPT !.found = found, !.result = NoValue]
    BY <2>1
  <2>5. found = (dict[req.key] # NoValue)
    BY <2>2, <2>4, DictAfter
  <2>6. \A k \in Keys : dict'[k] = IF k = req.key THEN NoValue ELSE dict[k]
    <3> TAKE k \in Keys
    <3>1. CASE k = req.key
      BY <2>1, <3>1, DictAfter
    <3>2. CASE k # req.key /\ \E v : Stored(k, v)
      BY <2>1, <3>2, DictAfter
    <3>3. CASE k # req.key /\ \A v : ~Stored(k, v)
      BY <2>1, <3>3, DictAfter
    <3> QED
      BY <3>1, <3>2, <3>3
  <2>7. dict' = [dict EXCEPT ![req.key] = NoValue]
    BY <2>2, <2>6, DictAfter
  <2>8. KV!ReturnRemove
    BY <2>2, <2>3, <2>4, <2>5, <2>7 DEF KV!ReturnRemove, KV!Return, KV!bound, KV!NoReq, NoReq
  <2> QED
    BY <2>8 DEF KV!Next
<1>6. CASE GetCreated
  <2>1. /\ hpc = "create" /\ hpc' = "idle"
        /\ req' = [NoReq EXCEPT !.found = FALSE, !.result = req.value]
    BY <1>6 DEF GetCreated, Leave
  <2>2. /\ \A v : ~Stored(req.key, v)
        /\ \A k, v : Stored(k, v)' <=> Stored(k, v) \/ (k = req.key /\ v = req.value)
    BY <1>6, DictCreated
  <2>3. req.key \in Keys /\ req.op = "get"
    BY <2>1 DEF DictInv, DictRest, Passed, MapInv, Asked, running
  <2>4. status = "busy" /\ status' = "idle"
    BY <2>1 DEF status, constructed
  <2>5. dict[req.key] = NoValue
    BY <2>2, <2>3, DictAfter
  <2>6. \A k \in Keys : dict'[k] = IF k = req.key THEN req.value ELSE dict[k]
    <3> TAKE k \in Keys
    <3>1. CASE k = req.key
      BY <2>2, <3>1, DictAfter
    <3>2. CASE k # req.key /\ \E v : Stored(k, v)
      BY <2>2, <3>2, DictAfter
    <3>3. CASE k # req.key /\ \A v : ~Stored(k, v)
      BY <2>2, <3>3, DictAfter
    <3> QED
      BY <3>1, <3>2, <3>3
  <2>7. dict' = [dict EXCEPT ![req.key] = req.value]
    BY <2>3, <2>6, DictAfter
  <2>8. KV!ReturnGetNew
    BY <2>1, <2>3, <2>4, <2>5, <2>7 DEF KV!ReturnGetNew, KV!Return, KV!bound, KV!NoReq, NoReq
  <2> QED
    BY <2>8 DEF KV!Next
<1>7. CASE GetMiss \/ GetCatalogueSplit \/ GetSplit \/ GetSplitReturn \/ GetCreate
  <2>1. /\ hpc \in {"get", "miss", "grown", "split", "placed"}
        /\ hpc' \in {"miss", "grown", "split", "placed", "create"} /\ req' = req
    BY <1>7 DEF GetMiss, GetCatalogueSplit, GetSplit, GetSplitReturn, GetCreate,
       past_catalogue_split
  <2>2. dict' = dict
    BY <1>0, <1>7, DictGetMiss, DictGoesOn, DictSplitCall, DictSplitReturn DEF DictInv
  <2> QED
    BY <2>1, <2>2 DEF status, constructed, KV!kvvars
<1>8. CASE Inside
  <2>1. hpc' = hpc /\ req' = req
    BY <1>8 DEF Inside
  <2>2. dict' = dict
    BY <1>0, <1>8, DictInside
  <2> QED
    BY <2>1, <2>2 DEF status, constructed, KV!kvvars
<1>9. CASE UNCHANGED hvars
  <2>1. UNCHANGED <<buckets_count, buckets, hpc, req>>
    BY <1>9 DEF hvars, cvars, layout_vars
  <2>2. dict' = dict
    BY <1>0, <2>1 DEF SameItems, Allocated
  <2> QED
    BY <2>1, <2>2 DEF status, constructed, KV!kvvars
<1>10. RemovedKeys \subseteq Keys
  BY SizesAssumption
<1> QED
  BY <1>1, <1>2, <1>3, <1>4, <1>5, <1>6, <1>7, <1>8, <1>9, <1>10 DEF Next

-----------------------------------------------------------------------------
(* The invariant holds always.                                              *)
LEMMA DictAlways ==
  ASSUME MaxBuckets <= 2 ^ HASH_BITS
  PROVE  Spec => []DictInv
<1>1. DictInv /\ [Next]_hvars => DictInv'
  BY MapStep, DictStep DEF DictInv
<1> QED
  BY <1>1, DictInit, PTL DEF Spec

(****************************************************************************)
(* hash_map implements a dictionary: get returns the value its key is bound *)
(* to, or binds it to the one given; find and remove report exactly what is *)
(* bound; and no method touches another key, whatever chains were grown,    *)
(* split and freed since, and however deep the catalogue has become.        *)
(****************************************************************************)
THEOREM MapIsDictionary ==
  ASSUME MaxBuckets <= 2 ^ HASH_BITS
  PROVE  Spec => ImplementsKVMap
<1>1. DictInv /\ DictInv' /\ [Next]_hvars => [KV!Next]_(KV!kvvars)
  BY DictRefines
<1> QED
  BY <1>1, DictRefinesInit, DictAlways, PTL DEF Spec, ImplementsKVMap, KV!Spec

-----------------------------------------------------------------------------
(* So a record on a chain is at home there.                                 *)
LEMMA DictPlaced == DictInv => RecordsPlaced
<1> SUFFICES ASSUME DictInv PROVE RecordsPlaced
  OBVIOUS
<1>1. PICK own, seen : Layout(own, seen)
  BY DEF DictInv, DictRest
<1>2. PackedInv /\ Owners(own) /\ (splitting => sp.result \notin heads)
  BY <1>1 DEF DictInv, Layout, Laid, MapInv, PackedInv, Inv, Live, RootsDiffer
<1>3. ASSUME NEW c \in chain_ids, NEW r \in chain_records(c)
      PROVE  \E x \in Allocated : own[x] = c /\ r \in buckets[x].data
  <2>1. PICK x \in Chain(c) : r \in buckets[x].data
    BY <1>3 DEF chain_records
  <2>2. x \in Allocated /\ own[x] = c
    BY <1>2, <2>1, ChainOwned
  <2> QED
    BY <2>1, <2>2
<1>4. ASSUME NEW b \in heads, NEW r \in chain_records(b)
      PROVE  catalogue_find(Hash[r.key]) = b
  <2>1. b \in chain_ids
    BY DEF chain_ids
  <2> QED
    BY <1>1, <1>2, <1>3, <1>4, <2>1, AtHome
<1>5. ASSUME splitting, NEW r \in chain_records(sp.result)
      PROVE  new_bit_of(r) = 1 /\ catalogue_find(Hash[r.key]) = arg.bucket_id
  <2>1. sp.result \in chain_ids
    BY <1>5 DEF chain_ids
  <2> QED
    BY <1>1, <1>2, <1>3, <1>5, <2>1, AtHome
<1> QED
  BY <1>4, <1>5 DEF RecordsPlaced

(****************************************************************************)
(* Every record is on the chain that the catalogue leads its hash to, and   *)
(* while split moves records, those on the new chain have the new bit: no   *)
(* split, growth of the catalogue or freed bucket misplaces one.            *)
(****************************************************************************)
THEOREM RecordsStayPlaced ==
  ASSUME MaxBuckets <= 2 ^ HASH_BITS
  PROVE  Spec => []RecordsPlaced
  BY DictAlways, DictPlaced, PTL

-----------------------------------------------------------------------------
(* Every chain has an entry.                                                *)
LEMMA HasEntry ==
  ASSUME MapInv, constructed, NEW c \in heads
  PROVE  \E j \in 0 .. buffer_size - 1 : entry(j) = c
<1>1. heads = {buffer[p] : p \in Prefixes(prefix_bits)}
  BY InvAligned DEF DirectoryAligned
<1>2. PICK p \in Prefixes(prefix_bits) : buffer[p] = c
  BY <1>1
<1>3. PICK j \in 0 .. 2 ^ prefix_bits - 1 : p = prefix_at(j, prefix_bits)
  BY MapFacts, EveryPrefix
<1> QED
  BY <1>2, <1>3 DEF entry, buffer_size

(* The entries of a chain are in a row.                                     *)
LEMMA InARow ==
  ASSUME MapInv, constructed, NEW i \in 0 .. buffer_size - 1, NEW j \in 0 .. buffer_size - 1,
         entry(i) = entry(j), NEW x \in Nat, i <= x, x <= j
  PROVE  entry(x) = entry(i)
<1>0. PICK n \in Nat : n = prefix_bits
  BY MapFacts
<1>1. i \in Nat /\ j \in Nat
  BY <1>0, TableSize DEF buffer_size
<1>2. PICK p, q, s : p = prefix_at(i, n) /\ q = prefix_at(j, n) /\ s = prefix_at(x, n)
  OBVIOUS
<1>3. p \in Prefixes(n) /\ q \in Prefixes(n) /\ s \in Prefixes(n)
  BY <1>1, <1>2, EntryTypes
<1>4. buffer[p] = buffer[q] /\ buffer[p] \in heads
  BY <1>0, <1>2, <1>3, MapFacts DEF entry
<1>5. PICK d : d = known_depth(buffer[p])
  OBVIOUS
<1>6. d <= n /\ \A y \in Prefixes(n) : buffer[y] = buffer[p] <=> agree(p, y, d)
  BY <1>0, <1>3, <1>5, InvAligned DEF DirectoryAligned
<1>7. d \in 0 .. n
  <2>1. depth_of(buffer[p]) \in 1 .. HASH_BITS /\ HASH_BITS \in Nat
    BY <1>4, MapFacts
  <2> QED
    BY <1>5, <1>6, <2>1 DEF known_depth
<1>8. agree(p, q, d)
  BY <1>3, <1>4, <1>6
<1>9. agree(p, s, d)
  <2>1. i \in 0 .. 2 ^ n - 1 /\ j \in 0 .. 2 ^ n - 1
    BY <1>0 DEF buffer_size
  <2> QED
    BY <1>2, <1>7, <1>8, <2>1, Between
<1>10. buffer[s] = buffer[p]
  BY <1>3, <1>6, <1>9
<1> QED
  BY <1>0, <1>2, <1>10 DEF entry

(* The entries before number i.                                             *)
EntriesBefore(i) == {entry(j) : j \in 0 .. i - 1}

(* The step to the next entry leaves the chain of entry i behind, and comes *)
(* to a chain that was not met before.                                      *)
LEMMA NextChain ==
  ASSUME MapInv, constructed, NEW i \in 0 .. buffer_size - 1, NEW n, n = next_index(i)
  PROVE  /\ n \in i + 1 .. buffer_size
         /\ EntriesBefore(n) = EntriesBefore(i) \cup {entry(i)}
         /\ n # buffer_size => entry(n) \notin EntriesBefore(n)
<1>0. buffer_size \in Nat /\ i \in Nat
  BY MapFacts, TableSize DEF buffer_size
<1>1. /\ n \in i + 1 .. buffer_size
      /\ n = buffer_size \/ entry(n) # entry(n - 1)
      /\ \A m \in i + 1 .. n - 1 : entry(m) = entry(m - 1)
  BY NextIndex
<1>2. n \in Nat
  BY <1>0, <1>1
<1>3. \A m \in i .. n - 1 : entry(m) = entry(i)
  <2>1. PICK K : K = {m \in i .. n - 1 : entry(m) # entry(i)}
    OBVIOUS
  <2>2. SUFFICES ASSUME K # {} PROVE FALSE
    BY <2>1
  <2>3. K \in SUBSET Nat
    BY <1>0, <1>2, <2>1
  <2>4. PICK m \in K : \A y \in K : m <= y
    BY <2>2, <2>3, LeastNumber
  <2>5. m \in i .. n - 1 /\ entry(m) # entry(i)
    BY <2>1, <2>4
  <2>6. m # i
    BY <2>5
  <2>7. m \in i + 1 .. n - 1 /\ m - 1 \in i .. n - 1 /\ ~(m <= m - 1)
    BY ONLY <1>0, <1>2, <2>5, <2>6
  <2>8. entry(m - 1) = entry(i)
    BY <2>1, <2>4, <2>7
  <2> QED
    BY <1>1, <2>5, <2>7, <2>8
<1>4. EntriesBefore(n) = EntriesBefore(i) \cup {entry(i)}
  <2>1. \A j \in 0 .. n - 1 : j \in 0 .. i - 1 \/ j \in i .. n - 1
    BY <1>0, <1>2
  <2>2. \A j \in 0 .. i - 1 : j \in 0 .. n - 1
    BY <1>0, <1>1, <1>2
  <2>3. i \in 0 .. n - 1
    BY <1>0, <1>1, <1>2
  <2> QED
    BY <1>3, <2>1, <2>2, <2>3 DEF EntriesBefore
<1>5. ASSUME n # buffer_size PROVE entry(n) \notin EntriesBefore(n)
  <2> SUFFICES ASSUME NEW j \in 0 .. n - 1, entry(j) = entry(n) PROVE FALSE
    BY DEF EntriesBefore
  <2>1. /\ j \in 0 .. buffer_size - 1 /\ n \in 0 .. buffer_size - 1
        /\ n - 1 \in Nat /\ j <= n - 1 /\ n - 1 <= n
    BY <1>0, <1>1, <1>2, <1>5
  <2>2. entry(n - 1) = entry(j)
    BY <2>1, InARow
  <2> QED
    BY <1>1, <1>5, <2>2
<1> QED
  BY <1>1, <1>4, <1>5

-----------------------------------------------------------------------------
(****************************************************************************)
(* Where the iterator is, as long as no record moves.  L are the chains it  *)
(* is done with, W the buckets of its chain up to its bucket.               *)
(****************************************************************************)
here == entry(it.catalogue_index)

Visiting(own, L, W) ==
    /\ Owners(own)
    /\ L = EntriesBefore(it.catalogue_index) /\ here \notin L
    /\ Path(nxt, W, here, it.bucket_id)
    /\ \A x \in W : x \in Allocated /\ own[x] = here

(* The record r of bucket x has been visited, if it was there in time.      *)
Behind(own, L, W, x, r) ==
    \/ own[x] \in L
    \/ x \in W \ {it.bucket_id}
    \/ /\ x = it.bucket_id
       /\ r.offset < it.byte_offset \/ (ipc = "read" /\ r.offset = it.byte_offset)

Tally(own, L, W) ==
    \A x \in Allocated : \A r \in buckets[x].data :
      IF Behind(own, L, W, x, r) THEN r.key \in initial => visits[r.key] = 1
                                 ELSE visits[r.key] = 0

(* The byte offset is that of a record.                                     *)
OnRecord ==
    /\ it.byte_offset = buckets[it.bucket_id].bytes_used \/ at_position # {}
    /\ ipc \in {"rest", "read"} => in_use

Underway ==
    /\ ipc \in {"probe", "rest", "read", "end"}
    /\ hpc \notin {"grown", "split", "placed"}
    /\ \A k \in Keys : /\ visits[k] \in {0, 1}
                       /\ visits[k] = 1 \/ k \in initial => \E v : Stored(k, v)
    /\ ipc = "end" => \A k \in initial : visits[k] = 1
    /\ ipc # "end" => /\ OnRecord
                      /\ \E own, L, W : Visiting(own, L, W) /\ Tally(own, L, W)

VisitInv ==
    /\ DictInv /\ IteratorInv
    /\ visits \in [Keys -> Nat] /\ initial \in SUBSET Keys
    /\ ~iterating => visits = [k \in Keys |-> 0] /\ initial = {} /\ ~moved
    /\ iterating /\ ~moved => Underway

-----------------------------------------------------------------------------
(* Only one chain can have a bucket.                                        *)
LEMMA OneOwner ==
  ASSUME MapInv, NEW own, Owners(own), NEW own2, Owners(own2),
         NEW x \in Allocated, own[x] \in heads
  PROVE  own2[x] = own[x]
<1>1. own[x] \in chain_ids
  BY DEF chain_ids
<1>2. PackedInv
  BY DEF MapInv
<1>3. x \in Chain(own[x])
  BY <1>1, <1>2, ChainOwned
<1> QED
  BY <1>1, <1>2, <1>3, ChainOwned

(* A record is on a chain, unless one is being split.                       *)
LEMMA OnChain ==
  ASSUME DictInv, ~splitting, NEW own, Owners(own),
         NEW x \in Allocated, NEW r \in buckets[x].data
  PROVE  own[x] \in heads
<1>1. PICK own0, seen : Layout(own0, seen)
  BY DEF DictInv, DictRest
<1>2. own0[x] \in heads
  BY <1>1, AtHome
<1> QED
  BY <1>1, <1>2, OneOwner DEF DictInv, Layout, Laid

(* What a bucket nobody moves records in looks like from a record on.       *)
LEMMA FromRecord ==
  ASSUME DictInv, pc # "split", NEW x \in Allocated
  PROVE  /\ buckets[x].bytes_used \in Int /\ buckets[x].data \in SUBSET AnyRecord
         /\ buckets[x].bytes_used = 0 \/ \E r \in buckets[x].data : r.offset = 0
         /\ \A r \in buckets[x].data :
              /\ r.offset \in Int /\ len(r) \in Int /\ len(r) > 0
              /\ r.offset >= 0 /\ r.offset + len(r) <= buckets[x].bytes_used
              /\ \/ r.offset + len(r) = buckets[x].bytes_used
                 \/ \E q \in buckets[x].data : q.offset = r.offset + len(r)
              /\ \A q \in buckets[x].data \ {r} : \/ r.offset + len(r) <= q.offset
                                                  \/ q.offset + len(q) <= r.offset
<1>1. PackedInv /\ buckets \in [Ids -> Bucket] /\ x \in Ids
  BY DictFacts DEF DictInv, MapInv
<1>2. Tiles(buckets[x].data, 0, buckets[x].bytes_used)
  BY <1>1, NotReading DEF Whole
<1>3. /\ buckets[x].bytes_used \in Int /\ buckets[x].data \in SUBSET AnyRecord
      /\ \A r \in buckets[x].data : r.offset \in Int /\ len(r) \in Int /\ len(r) > 0
  BY <1>1, BucketTypes, LengthPositive DEF AnyRecord
<1> QED
  BY <1>2, <1>3 DEF Tiles

(* What a step of the iterator leaves alone.                                *)
LEMMA MapStill ==
  ASSUME UNCHANGED hvars
  PROVE  /\ UNCHANGED <<buckets_count, first_free_bucket_id, buckets, heads, pc, arg, cursor,
                        sp, prefix_bits, buffer, bucket_id, hpc, req>>
         /\ Allocated' = Allocated /\ nxt' = nxt /\ chain_ids' = chain_ids
         /\ (splitting' <=> splitting) /\ buffer_size' = buffer_size
         /\ \A own : Owners(own)' <=> Owners(own)
         /\ \A i : entry(i)' = entry(i) /\ EntriesBefore(i)' = EntriesBefore(i)
         /\ \A k, v : Stored(k, v)' <=> Stored(k, v)
<1>1. UNCHANGED <<buckets_count, first_free_bucket_id, buckets, heads, pc, arg, cursor,
                  sp, prefix_bits, buffer, bucket_id, hpc, req>>
  BY DEF hvars, cvars, layout_vars, local_vars
<1>2. Allocated' = Allocated /\ nxt' = nxt /\ (splitting' <=> splitting)
  BY <1>1 DEF Allocated, nxt, splitting
<1>3. chain_ids' = chain_ids /\ buffer_size' = buffer_size
  BY <1>1, <1>2 DEF chain_ids, buffer_size
<1>4. \A own : Owners(own)' <=> Owners(own)
  BY <1>1, <1>2, <1>3 DEF Owners
<1>5. \A i : entry(i)' = entry(i)
  BY <1>1 DEF entry
<1>6. \A i : EntriesBefore(i)' = EntriesBefore(i)
  BY <1>5 DEF EntriesBefore
<1>7. \A k, v : Stored(k, v)' <=> Stored(k, v)
  BY <1>1, <1>2 DEF Stored, StoredIn
<1> QED
  BY <1>1, <1>2, <1>3, <1>4, <1>5, <1>6, <1>7

(* No bucket is the next of two, and the first of a chain of none.          *)
LEMMA LinksOnce ==
  ASSUME MapInv
  PROVE  /\ \A x \in Allocated : \A c \in heads : nxt[x] # c
         /\ \A x, y \in Allocated : x # y /\ nxt[x] \in Allocated => nxt[x] # nxt[y]
         /\ \A x \in Allocated : nxt[x] \in Allocated \cup {INVALID_BUCKET_ID}
         /\ heads \subseteq Allocated /\ INVALID_BUCKET_ID \notin Allocated
  BY IdsValid, AllocatedIds DEF MapInv, PackedInv, Inv, Live, OneReference, Typed

-----------------------------------------------------------------------------
(* An iterator has come to a chain it has not met.                          *)
LEMMA AtChain ==
  ASSUME DictInv, constructed, ~splitting, NEW own, Owners(own),
         NEW i \in 0 .. buffer_size - 1, NEW c, c = entry(i),
         NEW L, L = EntriesBefore(i), c \notin L,
         UNCHANGED hvars, ipc' = "probe",
         it' = [catalogue_index |-> i, bucket_id |-> c, byte_offset |-> 0]
  PROVE  /\ Visiting(own, L, {c})'
         /\ OnRecord'
         /\ \A x \in Allocated : \A r \in buckets[x].data :
              Behind(own, L, {c}, x, r)' <=> own[x] \in L
<1>1. i \in Nat /\ MapInv
  <2>1. MapInv
    BY DEF DictInv
  <2> QED
    BY <2>1, MapFacts, TableSize DEF buffer_size
<1>2. c \in heads /\ c \in Allocated
  BY <1>1, EntryNames
<1>3. it'.catalogue_index = i /\ it'.bucket_id = c /\ it'.byte_offset = 0
  OBVIOUS
<1>4. /\ Owners(own)' /\ nxt' = nxt /\ Allocated' = Allocated /\ buckets' = buckets
      /\ here' = c /\ EntriesBefore(it.catalogue_index)' = L
  <2>1. entry(i)' = entry(i) /\ EntriesBefore(i)' = EntriesBefore(i)
    BY MapStill
  <2>2. here' = entry(i)' /\ EntriesBefore(it.catalogue_index)' = EntriesBefore(i)'
    BY <1>3 DEF here, entry, EntriesBefore
  <2> QED
    BY <2>1, <2>2, MapStill
<1>5. nxt[c] # c
  BY <1>1, <1>2, LinksOnce
<1>6. Path(nxt, {c}, c, c)
  BY <1>5, PathOne
<1>7. own[c] = c
  BY <1>1, <1>2, FirstOwned DEF MapInv, chain_ids
<1>8. Visiting(own, L, {c})'
  BY <1>2, <1>3, <1>4, <1>6, <1>7 DEF Visiting
<1>9. pc # "split"
  BY DEF splitting
<1>10. OnRecord'
  BY <1>2, <1>3, <1>4, <1>9, FromRecord DEF OnRecord, at_position
<1>11. ASSUME NEW x \in Allocated, NEW r \in buckets[x].data
       PROVE  Behind(own, L, {c}, x, r)' <=> own[x] \in L
  <2>1. r.offset \in Int /\ r.offset >= 0
    BY <1>9, FromRecord
  <2> QED
    BY <1>3, <2>1 DEF Behind
<1> QED
  BY <1>8, <1>10, <1>11

(* begin().                                                                 *)
LEMMA VisitBegin ==
  ASSUME VisitInv, Begin
  PROVE  Underway'
<1>1. /\ DictInv /\ MapInv /\ hpc = "idle" /\ ~iterating /\ UNCHANGED <<hvars, visits>>
      /\ ipc' = "probe"
      /\ it' = [catalogue_index |-> 0, bucket_id |-> entry(0), byte_offset |-> 0]
      /\ initial' = {k \in Keys : dict[k] # NoValue}
  BY DEF VisitInv, DictInv, Begin, iterating, Unset
<1>2. constructed /\ ~splitting
  BY <1>1, DictFacts DEF constructed
<1>3. PICK own, seen : Layout(own, seen)
  BY <1>1 DEF DictInv, DictRest
<1>4. Owners(own)
  BY <1>3 DEF Layout, Laid
<1>5. 0 \in 0 .. buffer_size - 1 /\ EntriesBefore(0) = {}
  BY <1>1, <1>2, FirstEntry DEF EntriesBefore
<1>6. PICK c : c = entry(0)
  OBVIOUS
<1>7. /\ Visiting(own, {}, {c})' /\ OnRecord'
      /\ \A x \in Allocated : \A r \in buckets[x].data : ~Behind(own, {}, {c}, x, r)'
  BY <1>1, <1>2, <1>4, <1>5, <1>6, AtChain
<1>8. \A k \in Keys : visits'[k] = 0
  BY <1>1 DEF VisitInv
<1>9. Tally(own, {}, {c})'
  <2>1. \A x \in Allocated : \A r \in buckets[x].data : r.key \in Keys
    BY <1>1, DictFacts
  <2> QED
    BY <1>1, <1>7, <1>8, <2>1, MapStill DEF Tally
<1>10. ASSUME NEW k \in Keys, k \in initial' PROVE \E v : Stored(k, v)'
  <2>1. UniqueIn(buckets, Allocated)
    BY <1>1 DEF DictInv, DictRest, Unique
  <2>2. dict = DictOf(buckets, Allocated)
    BY DEF dict, DictOf, records
  <2>3. \E v : Stored(k, v)
    BY <1>1, <1>10, <2>1, <2>2, DictValue DEF Stored
  <2> QED
    BY <1>1, <2>3, MapStill
<1>11. hpc' = "idle"
  BY <1>1, MapStill
<1> QED
  BY <1>1, <1>7, <1>8, <1>9, <1>10, <1>11 DEF Underway

(* A step that looks at no record.                                          *)
LEMMA GoesOn ==
  ASSUME Underway, UNCHANGED <<hvars, visits, initial>>,
         ipc' \in {"probe", "rest", "read"}, OnRecord',
         NEW own, NEW L, NEW W, NEW L2, NEW W2, Tally(own, L, W), Visiting(own, L2, W2)',
         \A x \in Allocated : \A r \in buckets[x].data :
           Behind(own, L2, W2, x, r)' <=> Behind(own, L, W, x, r)
  PROVE  Underway'
<1>1. UNCHANGED <<buckets, hpc>> /\ Allocated' = Allocated
  BY MapStill
<1>2. \A k, v : Stored(k, v)' <=> Stored(k, v)
  BY MapStill
<1>3. Tally(own, L2, W2)'
  BY <1>1 DEF Tally
<1> QED
  BY <1>1, <1>2, <1>3 DEF Underway

(* find_next_record stays at the position.                                  *)
LEMMA VisitHit ==
  ASSUME VisitInv, ~moved, ProbeHit
  PROVE  Underway'
<1>1. /\ ipc = "probe" /\ ipc' = "rest" /\ in_use /\ UNCHANGED <<hvars, it, visits, initial>>
      /\ Underway /\ DictInv /\ MapInv
  BY DEF ProbeHit, VisitInv, iterating, DictInv
<1>2. PICK own, L, W : Visiting(own, L, W) /\ Tally(own, L, W)
  BY <1>1 DEF Underway
<1>3. here' = here /\ EntriesBefore(it.catalogue_index)' = EntriesBefore(it.catalogue_index)
  <2>1. \A i : entry(i)' = entry(i)
    BY <1>1, MapStill
  <2> QED
    BY <1>1, <2>1 DEF here, EntriesBefore
<1>4. Visiting(own, L, W)'
  BY <1>1, <1>2, <1>3, MapStill DEF Visiting
<1>5. OnRecord'
  <2>1. it.bucket_id \in Allocated
    BY <1>2 DEF Visiting, Path
  <2>2. buckets[it.bucket_id].bytes_used \in Int /\ it.byte_offset \in Int
    BY <1>1, <2>1, DictFacts, BucketTypes DEF VisitInv, IteratorInv, Positions
  <2>3. at_position # {}
    BY <1>1, <2>2 DEF Underway, OnRecord, in_use
  <2>4. at_position' = at_position /\ (in_use' <=> in_use)
    BY <1>1, MapStill DEF at_position, in_use
  <2> QED
    BY <1>1, <2>3, <2>4 DEF OnRecord
<1>6. \A x, r : Behind(own, L, W, x, r)' <=> Behind(own, L, W, x, r)
  BY <1>1 DEF Behind
<1> QED
  BY <1>1, <1>2, <1>4, <1>5, <1>6, GoesOn

(* Nothing is left in the bucket: all its records are behind.               *)
LEMMA BucketDone ==
  ASSUME DictInv, pc # "split", NEW own, NEW L, NEW W, Visiting(own, L, W),
         it.byte_offset \in Int, ~in_use
  PROVE  \A x \in Allocated : \A r \in buckets[x].data :
           Behind(own, L, W, x, r) <=> own[x] \in L \/ x \in W
<1>1. it.bucket_id \in W
  BY DEF Visiting, Path
<1> SUFFICES ASSUME NEW x \in Allocated, NEW r \in buckets[x].data, x = it.bucket_id
             PROVE  r.offset < it.byte_offset
  BY <1>1 DEF Behind
<1> QED
  BY FromRecord DEF in_use

(* It goes on to the next bucket of the chain.                              *)
LEMMA VisitChain ==
  ASSUME VisitInv, ~moved, ProbeChain
  PROVE  Underway'
<1>0. PICK b, n : b = it.bucket_id /\ n = buckets[b].next_bucket_id
  OBVIOUS
<1>1. /\ ipc = "probe" /\ ipc' = "probe" /\ ~in_use /\ UNCHANGED <<hvars, visits, initial>>
      /\ n # INVALID_BUCKET_ID /\ it' = [it EXCEPT !.bucket_id = n, !.byte_offset = 0]
      /\ Underway /\ DictInv /\ MapInv /\ it \in Positions
  BY <1>0 DEF ProbeChain, VisitInv, iterating, DictInv, IteratorInv
<1>2. PICK own, L, W : Visiting(own, L, W) /\ Tally(own, L, W)
  BY <1>1 DEF Underway
<1>3. /\ it'.catalogue_index = it.catalogue_index /\ it'.bucket_id = n /\ it'.byte_offset = 0
      /\ it.byte_offset \in Int /\ it.catalogue_index \in Nat
  BY <1>1 DEF Positions
<1>4. b \in W /\ b \in Allocated /\ own[b] = here
  BY <1>0, <1>2 DEF Visiting, Path
<1>5. nxt[b] = n /\ n \in Allocated /\ own[n] = here
  <2>1. nxt[b] = n
    BY <1>0, <1>1, <1>4, DictFacts DEF nxt
  <2> QED
    BY <1>1, <1>2, <1>4, <2>1, LinksOnce DEF Visiting, Owners, Owned
<1>6. here \in heads
  <2>1. constructed
    BY <1>1 DEF VisitInv, IteratorInv, iterating
  <2> QED
    BY <1>1, <1>3, <2>1, EntryNames DEF here
<1>7. /\ Path(nxt, W \cup {n}, here, n) /\ n \notin W
  <2>1. W \in SUBSET Allocated /\ Path(nxt, W, here, b)
    BY <1>0, <1>2 DEF Visiting
  <2>2. /\ \A x \in Allocated : nxt[x] # here
        /\ \A x, y \in Allocated : x # y /\ nxt[x] \in Allocated => nxt[x] # nxt[y]
    BY <1>1, <1>6, LinksOnce
  <2>3. nxt[b] \in Allocated
    BY <1>5
  <2>4. Path(nxt, W \cup {nxt[b]}, here, nxt[b]) /\ nxt[b] \notin W
    BY ONLY <2>1, <2>2, <2>3, PathGrows
  <2> QED
    BY <1>5, <2>4
<1>8. here' = here /\ EntriesBefore(it.catalogue_index)' = EntriesBefore(it.catalogue_index)
  <2>1. \A i : entry(i)' = entry(i)
    BY <1>1, MapStill
  <2> QED
    BY <1>3, <2>1 DEF here, EntriesBefore
<1>9. Visiting(own, L, W \cup {n})'
  BY <1>1, <1>2, <1>3, <1>5, <1>7, <1>8, MapStill DEF Visiting
<1>10. pc # "split"
  BY <1>1, DictFacts DEF Underway, splitting
<1>11. OnRecord'
  BY <1>1, <1>3, <1>5, <1>10, FromRecord, MapStill DEF OnRecord, at_position
<1>12. ASSUME NEW x \in Allocated, NEW r \in buckets[x].data
       PROVE  Behind(own, L, W \cup {n}, x, r)' <=> Behind(own, L, W, x, r)
  <2>1. Behind(own, L, W, x, r) <=> own[x] \in L \/ x \in W
    BY <1>1, <1>2, <1>3, <1>10, BucketDone
  <2>2. r.offset \in Int /\ r.offset >= 0
    BY <1>1, <1>10, FromRecord
  <2> QED
    BY <1>1, <1>3, <1>7, <2>1, <2>2 DEF Behind
<1> QED
  BY <1>1, <1>2, <1>9, <1>11, <1>12, GoesOn

(* The buckets up to the last one of a chain are all of it.                 *)
LEMMA WholeChain ==
  ASSUME MapInv, NEW own, NEW L, NEW W, Visiting(own, L, W), here \in heads,
         nxt[it.bucket_id] = INVALID_BUCKET_ID, NEW x \in Allocated
  PROVE  x \in W <=> own[x] = here
<1>1. PICK S : S = {y \in Allocated : own[y] = here}
  OBVIOUS
<1>2. Generated(nxt, S, here)
  BY <1>1 DEF Visiting, Owners, Owned, chain_ids
<1>3. W \in SUBSET S /\ here \in W
  BY <1>1 DEF Visiting, Path
<1>4. \A y \in W : nxt[y] \in S => nxt[y] \in W
  <2>1. INVALID_BUCKET_ID \notin S
    BY <1>1, LinksOnce
  <2> QED
    BY <2>1 DEF Visiting, Path
<1>5. W = S
  BY <1>2, <1>3, <1>4 DEF Generated
<1> QED
  BY <1>1, <1>5

(* And to the next chain, or to the end.                                    *)
LEMMA VisitEntry ==
  ASSUME VisitInv, ~moved, ProbeEntry
  PROVE  Underway'
<1>0. PICK i, n : i = it.catalogue_index /\ n = next_index(i)
  OBVIOUS
<1>1. /\ ipc = "probe" /\ ~in_use /\ UNCHANGED <<hvars, visits, initial>>
      /\ buckets[it.bucket_id].next_bucket_id = INVALID_BUCKET_ID
      /\ Underway /\ DictInv /\ MapInv /\ it \in Positions /\ constructed
      /\ i \in 0 .. buffer_size - 1
  BY <1>0 DEF ProbeEntry, VisitInv, iterating, DictInv, IteratorInv, IteratorInBounds
<1>2. /\ n = buffer_size => ipc' = "end"
      /\ n # buffer_size =>
           /\ ipc' = "probe"
           /\ it' = [catalogue_index |-> n, bucket_id |-> entry(n), byte_offset |-> 0]
  BY <1>0, <1>1 DEF ProbeEntry
<1>3. PICK own, L, W : Visiting(own, L, W) /\ Tally(own, L, W)
  BY <1>1 DEF Underway
<1>4. L = EntriesBefore(i) /\ here = entry(i) /\ Owners(own) /\ it.bucket_id \in Allocated
  BY <1>0, <1>3 DEF Visiting, here, Path
<1>5. i \in Nat /\ here \in heads /\ it.byte_offset \in Int
  <2>1. i \in Nat
    BY <1>0, <1>1 DEF Positions
  <2> QED
    BY <1>1, <1>4, <2>1, EntryNames DEF Positions
<1>6. ~splitting /\ pc # "split"
  BY <1>1, DictFacts DEF Underway, splitting
<1>7. nxt[it.bucket_id] = INVALID_BUCKET_ID
  BY <1>1, <1>4, DictFacts DEF nxt
<1>8. \A x \in Allocated : \A r \in buckets[x].data :
        Behind(own, L, W, x, r) <=> own[x] \in L \cup {here}
  <2>1. \A x \in Allocated : x \in W <=> own[x] = here
    BY <1>1, <1>3, <1>5, <1>7, WholeChain
  <2> QED
    BY <1>1, <1>3, <1>5, <1>6, <2>1, BucketDone
<1>9. PICK L2 : L2 = EntriesBefore(n)
  OBVIOUS
<1>10. /\ n \in i + 1 .. buffer_size
       /\ L2 = L \cup {here}
       /\ n # buffer_size => entry(n) \notin L2
  BY <1>0, <1>1, <1>4, <1>9, NextChain
<1>11. CASE n = buffer_size
  <2>1. ASSUME NEW k \in initial PROVE visits[k] = 1
    <3>1. k \in Keys /\ \E v : Stored(k, v)
      BY <1>1, <2>1 DEF Underway, VisitInv
    <3>2. PICK x \in Allocated : \E r \in buckets[x].data : r.key = k
      BY <3>1 DEF Stored, StoredIn
    <3>3. PICK r \in buckets[x].data : r.key = k
      BY <3>2
    <3>4. own[x] \in heads
      BY <1>1, <1>4, <1>6, OnChain
    <3>5. PICK j \in 0 .. buffer_size - 1 : entry(j) = own[x]
      BY <1>1, <3>4, HasEntry
    <3>6. own[x] \in L2
      BY <1>9, <1>11, <3>5 DEF EntriesBefore
    <3>7. Behind(own, L, W, x, r)
      BY <1>8, <1>10, <3>6
    <3> QED
      BY <1>3, <2>1, <3>3, <3>7 DEF Tally
  <2>2. hpc' = hpc /\ \A k, v : Stored(k, v)' <=> Stored(k, v)
    BY <1>1, MapStill
  <2> QED
    BY <1>1, <1>2, <1>11, <2>1, <2>2 DEF Underway
<1>12. CASE n # buffer_size
  <2>1. PICK c : c = entry(n)
    OBVIOUS
  <2>2. n \in 0 .. buffer_size - 1
    <3>1. buffer_size \in Nat
      BY <1>1, MapFacts, TableSize DEF buffer_size
    <3> QED
      BY <1>5, <1>10, <1>12, <3>1
  <2>3. /\ Visiting(own, L2, {c})' /\ OnRecord'
        /\ \A x \in Allocated : \A r \in buckets[x].data :
             Behind(own, L2, {c}, x, r)' <=> own[x] \in L2
    BY <1>1, <1>2, <1>4, <1>6, <1>9, <1>10, <1>12, <2>1, <2>2, AtChain
  <2>4. \A x \in Allocated : \A r \in buckets[x].data :
          Behind(own, L2, {c}, x, r)' <=> Behind(own, L, W, x, r)
    BY <1>8, <1>10, <2>3
  <2> QED
    BY <1>1, <1>2, <1>3, <1>12, <2>3, <2>4, GoesOn
<1> QED
  BY <1>11, <1>12

(* The iterator, its map and its bucket while nothing has moved.            *)
LEMMA AtPosition ==
  ASSUME VisitInv, ~moved, ipc \in {"rest", "read"}
  PROVE  /\ Underway /\ DictInv /\ MapInv /\ it \in Positions
         /\ pc # "split" /\ ~splitting
         /\ it.byte_offset \in Int /\ it.bucket_id \in Allocated
         /\ in_use /\ at_position # {}
<1>1. Underway /\ DictInv /\ MapInv /\ it \in Positions /\ it.byte_offset \in Int
  BY DEF VisitInv, iterating, DictInv, IteratorInv, Positions
<1>2. it.bucket_id \in Allocated
  BY <1>1 DEF Underway, Visiting, Path
<1>3. pc # "split" /\ ~splitting
  BY <1>1, DictFacts DEF Underway, splitting
<1>4. buckets[it.bucket_id].bytes_used \in Int
  BY <1>1, <1>2, <1>3, FromRecord
<1>5. in_use /\ at_position # {}
  BY <1>1, <1>4 DEF Underway, OnRecord, in_use
<1> QED
  BY <1>1, <1>2, <1>3, <1>5

(* operator*.                                                               *)
LEMMA VisitDeref ==
  ASSUME VisitInv, ~moved, Deref
  PROVE  Underway'
<1>0. PICK b, o : b = it.bucket_id /\ o = it.byte_offset
  OBVIOUS
<1>1. /\ Underway /\ DictInv /\ MapInv /\ it \in Positions /\ pc # "split"
      /\ o \in Int /\ b \in Allocated /\ in_use /\ at_position # {}
  BY <1>0, AtPosition DEF Deref
<1>2. /\ ipc = "rest" /\ ipc' = "read" /\ UNCHANGED <<hvars, it, initial>>
      /\ visits' = [k \in Keys |->
                      IF visits[k] < 2 /\ \E r \in at_position : r.key = k
                        THEN visits[k] + 1 ELSE visits[k]]
  BY <1>1 DEF Deref
<1>3. PICK r \in at_position : TRUE
  BY <1>1
<1>4. r \in buckets[b].data /\ r.offset = o
  BY <1>0, <1>3 DEF at_position
<1>5. \A q \in buckets[b].data : q.offset = o => q = r
  <2> SUFFICES ASSUME NEW q \in buckets[b].data, q.offset = o, q # r PROVE FALSE
    OBVIOUS
  <2>1. \/ r.offset + len(r) <= q.offset \/ q.offset + len(q) <= r.offset
    BY <1>1, <1>4, FromRecord
  <2>2. len(r) \in Int /\ len(r) > 0 /\ len(q) \in Int /\ len(q) > 0
    BY <1>1, <1>4, FromRecord
  <2> QED
    BY <1>1, <1>4, <2>1, <2>2
<1>6. at_position = {r}
  BY <1>0, <1>4, <1>5 DEF at_position
<1>7. PICK own, L, W : Visiting(own, L, W) /\ Tally(own, L, W)
  BY <1>1, <1>2 DEF Underway
<1>8. ~Behind(own, L, W, b, r)
  BY <1>0, <1>1, <1>2, <1>4, <1>7 DEF Behind, Visiting, Path
<1>9. r.key \in Keys /\ visits[r.key] = 0
  BY <1>1, <1>4, <1>7, <1>8, DictFacts DEF Tally
<1>10. visits'[r.key] = 1 /\ \A k \in Keys \ {r.key} : visits'[k] = visits[k]
  BY <1>2, <1>6, <1>9
<1>11. Visiting(own, L, W)' /\ OnRecord'
  <2>1. \A j : entry(j)' = entry(j)
    BY <1>2, MapStill
  <2>2. here' = here /\ EntriesBefore(it.catalogue_index)' = EntriesBefore(it.catalogue_index)
    BY <1>2, <2>1 DEF here, EntriesBefore
  <2>3. at_position' = at_position /\ (in_use' <=> in_use)
    BY <1>2, MapStill DEF at_position, in_use
  <2> QED
    BY <1>1, <1>2, <1>7, <2>2, <2>3, MapStill DEF Visiting, OnRecord
<1>12. Tally(own, L, W)'
  <2> SUFFICES ASSUME NEW x \in Allocated, NEW q \in buckets[x].data
               PROVE  IF Behind(own, L, W, x, q)'
                        THEN q.key \in initial => visits'[q.key] = 1 ELSE visits'[q.key] = 0
    BY <1>2, MapStill DEF Tally
  <2>1. q.key \in Keys
    BY <1>1, DictFacts
  <2>2. CASE x = b /\ q = r
    <3>1. Behind(own, L, W, x, q)'
      BY <1>0, <1>2, <1>4, <2>2 DEF Behind
    <3> QED
      BY <1>10, <2>2, <3>1
  <2>3. CASE ~(x = b /\ q = r)
    <3>1. q.key # r.key
      BY <1>1, <1>4, <2>3 DEF DictInv, DictRest, Unique, UniqueIn
    <3>2. Behind(own, L, W, x, q)' <=> Behind(own, L, W, x, q)
      BY <1>0, <1>2, <1>5, <2>3 DEF Behind
    <3> QED
      BY <1>7, <1>10, <2>1, <3>1, <3>2 DEF Tally
  <2> QED
    BY <2>2, <2>3
<1>13. \E v : Stored(r.key, v)
  BY <1>1, <1>4 DEF Stored, StoredIn
<1>14. hpc' = hpc /\ \A k, v : Stored(k, v)' <=> Stored(k, v)
  BY <1>2, MapStill
<1> QED
  BY <1>1, <1>2, <1>9, <1>10, <1>11, <1>12, <1>13, <1>14 DEF Underway

(* operator++.                                                              *)
LEMMA VisitIncrement ==
  ASSUME VisitInv, ~moved, Increment
  PROVE  Underway'
<1>0. PICK b, o : b = it.bucket_id /\ o = it.byte_offset
  OBVIOUS
<1>1. /\ Underway /\ DictInv /\ MapInv /\ it \in Positions /\ pc # "split"
      /\ o \in Int /\ b \in Allocated /\ in_use /\ at_position # {}
  BY <1>0, AtPosition DEF Increment
<1>2. /\ ipc = "read" /\ ipc' = "probe" /\ UNCHANGED <<hvars, visits, initial>>
      /\ \E r \in at_position : it' = [it EXCEPT !.byte_offset = @ + len(r)]
  BY <1>1 DEF Increment
<1>3. PICK r \in at_position : it' = [it EXCEPT !.byte_offset = @ + len(r)]
  BY <1>2
<1>4. r \in buckets[b].data /\ r.offset = o
  BY <1>0, <1>3 DEF at_position
<1>5. PICK e : e = o + len(r)
  OBVIOUS
<1>6. /\ it'.catalogue_index = it.catalogue_index /\ it'.bucket_id = b /\ it'.byte_offset = e
      /\ e \in Int
  <2>1. len(r) \in Int
    BY <1>1, <1>4, FromRecord
  <2> QED
    BY <1>0, <1>1, <1>3, <1>5, <2>1 DEF Positions
<1>7. \A q \in buckets[b].data : q.offset < e <=> q.offset < o \/ q.offset = o
  <2> TAKE q \in buckets[b].data
  <2>1. /\ q.offset \in Int /\ len(q) \in Int /\ len(q) > 0
        /\ len(r) \in Int /\ len(r) > 0
    BY <1>1, <1>4, FromRecord
  <2>2. q = r \/ r.offset + len(r) <= q.offset \/ q.offset + len(q) <= r.offset
    BY <1>1, <1>4, FromRecord
  <2> QED
    BY <1>1, <1>4, <1>5, <2>1, <2>2
<1>8. PICK own, L, W : Visiting(own, L, W) /\ Tally(own, L, W)
  BY <1>1, <1>2 DEF Underway
<1>9. Visiting(own, L, W)'
  <2>1. \A j : entry(j)' = entry(j)
    BY <1>2, MapStill
  <2>2. here' = here /\ EntriesBefore(it.catalogue_index)' = EntriesBefore(it.catalogue_index)
    BY <1>6, <2>1 DEF here, EntriesBefore
  <2> QED
    BY <1>0, <1>2, <1>6, <1>8, <2>2, MapStill DEF Visiting
<1>10. OnRecord'
  <2>1. \/ e = buckets[b].bytes_used
        \/ \E q \in buckets[b].data : q.offset = e
    BY <1>1, <1>4, <1>5, FromRecord
  <2> QED
    BY <1>2, <1>6, <2>1, MapStill DEF OnRecord, at_position
<1>11. ASSUME NEW x \in Allocated, NEW q \in buckets[x].data
       PROVE  Behind(own, L, W, x, q)' <=> Behind(own, L, W, x, q)
  BY <1>0, <1>2, <1>6, <1>7 DEF Behind
<1> QED
  BY <1>2, <1>8, <1>9, <1>10, <1>11, <1>1, GoesOn

-----------------------------------------------------------------------------
(****************************************************************************)
(* What the map does meanwhile: records are added behind others, and        *)
(* buckets behind chains.  What is new was not there at begin(), and may be *)
(* visited or not.                                                          *)
(****************************************************************************)
LEMMA VisitGrows ==
  ASSUME VisitInv, ~moved, ipc \in {"rest", "read"},
         UNCHANGED <<ipc, it, visits, initial, prefix_bits, buffer>>,
         hpc' \notin {"grown", "split", "placed"},
         NEW own, NEW L, NEW W, Visiting(own, L, W), Tally(own, L, W),
         NEW own2, Owners(own2)', Allocated \subseteq Allocated',
         \A x \in Allocated : own[x] \in heads => own2[x] = own[x],
         nxt'[it.bucket_id] \notin W, \A x \in W \ {it.bucket_id} : nxt'[x] = nxt[x],
         \A x \in Allocated : buckets[x].data \subseteq buckets'[x].data,
         \A x \in Allocated : /\ buckets'[x].bytes_used \in Int
                             /\ buckets[x].bytes_used <= buckets'[x].bytes_used,
         \A x \in Allocated' : \A r \in buckets'[x].data :
           \/ x \in Allocated /\ r \in buckets[x].data
           \/ r.key \in Keys /\ \A v : ~Stored(r.key, v)
  PROVE  Underway'
<1>1. /\ Underway /\ DictInv /\ MapInv /\ it \in Positions /\ pc # "split" /\ ~splitting
      /\ it.byte_offset \in Int /\ it.bucket_id \in Allocated /\ in_use /\ at_position # {}
  BY AtPosition
<1>2. here' = here /\ EntriesBefore(it.catalogue_index)' = EntriesBefore(it.catalogue_index)
  <2>1. \A j : entry(j)' = entry(j)
    BY DEF entry
  <2> QED
    BY <2>1 DEF here, EntriesBefore
<1>3. here \in heads
  <2>1. constructed /\ it.catalogue_index \in Nat
    BY <1>1 DEF VisitInv, IteratorInv, iterating, Positions
  <2> QED
    BY <1>1, <2>1, EntryNames DEF here
<1>4. Visiting(own2, L, W)'
  <2>1. Path(nxt', W, here, it.bucket_id)
    BY DEF Visiting, Path
  <2>2. \A x \in W : x \in Allocated' /\ own2[x] = here
    BY <1>3 DEF Visiting
  <2> QED
    BY <1>2, <2>1, <2>2 DEF Visiting
<1>5. OnRecord'
  <2>1. at_position' # {}
    BY <1>1 DEF at_position
  <2>2. buckets[it.bucket_id].bytes_used \in Int
    BY <1>1, FromRecord
  <2>4. in_use'
    BY <1>1, <2>2 DEF in_use
  <2> QED
    BY <2>1, <2>4 DEF OnRecord
<1>6. \A k, v : Stored(k, v) => \E u : Stored(k, u)'
  BY DEF Stored, StoredIn
<1>7. Tally(own2, L, W)'
  <2> SUFFICES ASSUME NEW x \in Allocated', NEW r \in buckets'[x].data
               PROVE  IF Behind(own2, L, W, x, r)'
                        THEN r.key \in initial => visits[r.key] = 1 ELSE visits[r.key] = 0
    BY DEF Tally
  <2>1. CASE x \in Allocated /\ r \in buckets[x].data
    <3>1. own2[x] = own[x]
      BY <1>1, <2>1, OnChain DEF Visiting
    <3>2. Behind(own2, L, W, x, r)' <=> Behind(own, L, W, x, r)
      BY <3>1 DEF Behind
    <3> QED
      BY <2>1, <3>2 DEF Tally
  <2>2. CASE r.key \in Keys /\ \A v : ~Stored(r.key, v)
    BY <1>1, <2>2 DEF Underway
  <2> QED
    BY <2>1, <2>2
<1> QED
  BY <1>1, <1>4, <1>5, <1>6, <1>7 DEF Underway

(* A step that writes nothing to the file.                                  *)
LEMMA VisitSame ==
  ASSUME VisitInv, ~moved, ipc \in {"rest", "read"},
         UNCHANGED <<ipc, it, visits, initial, prefix_bits, buffer, layout_vars, heads>>,
         hpc' \notin {"grown", "split", "placed"}, ~splitting'
  PROVE  Underway'
<1>1. /\ Underway /\ DictInv /\ MapInv /\ ~splitting /\ pc # "split"
  BY AtPosition
<1>2. UNCHANGED <<buckets_count, first_free_bucket_id, buckets>>
  BY DEF layout_vars
<1>3. Allocated' = Allocated /\ nxt' = nxt /\ chain_ids' = chain_ids
  BY <1>1, <1>2 DEF Allocated, nxt, chain_ids
<1>4. PICK own, L, W : Visiting(own, L, W) /\ Tally(own, L, W)
  BY <1>1 DEF Underway
<1>5. Owners(own)'
  BY <1>2, <1>3, <1>4 DEF Visiting, Owners
<1>6. nxt[it.bucket_id] \notin W
  BY <1>4 DEF Visiting, Path
<1>7. \A x \in Allocated : buckets[x].bytes_used \in Int
  BY <1>1, FromRecord
<1> QED
  BY <1>2, <1>3, <1>4, <1>5, <1>6, <1>7, VisitGrows

(* create_record adds a bucket behind a chain.                              *)
LEMMA VisitCreateGrow ==
  ASSUME VisitInv, ~moved, ipc \in {"rest", "read"}, CreateGrow,
         UNCHANGED <<ipc, it, visits, initial, prefix_bits, buffer, hpc>>
  PROVE  Underway'
<1>0. PICK n, c : n = new_bucket_id /\ c = cursor
  OBVIOUS
<1>1. /\ pc = "create" /\ pc' = "create" /\ create_bucket
      /\ buckets' = append_bucket(c, buckets[c].prefix_bits)
      /\ buckets[c].next_bucket_id = INVALID_BUCKET_ID
      /\ UNCHANGED heads
      /\ Underway /\ DictInv /\ MapInv /\ ~splitting
  BY <1>0, AtPosition DEF CreateGrow
<1>2. /\ Allocated \subseteq Ids /\ buckets \in [Ids -> Bucket] /\ c \in Allocated
      /\ Graph(Allocated, nxt, chain_ids) /\ running
  BY <1>0, <1>1, DictFacts
<1>3. PICK own, L, W : Visiting(own, L, W) /\ Tally(own, L, W)
  BY <1>1 DEF Underway
<1>4. own[c] \in heads
  <2>1. PICK own0, seen : Layout(own0, seen)
    BY <1>1 DEF DictInv, DictRest
  <2>2. own0[c] = arg.bucket_id /\ arg.bucket_id \in heads
    BY <1>0, <1>1, <1>2, <2>1 DEF Layout, Laid, Working, DictInv, DictRest, Passed, MapInv, Asked
  <2> QED
    BY <1>1, <1>2, <1>3, <2>1, <2>2, OneOwner DEF Layout, Laid, Visiting
<1>5. /\ n \in Ids /\ n # INVALID_BUCKET_ID /\ Allocated' = Allocated \cup {n}
      /\ \E f : /\ f = first_free_bucket_id'
                /\ Taken(own, Allocated, nxt, chain_ids, n, f)
      /\ n \in Allocated => buckets[n].data = {}
  <2>1. Homes(own, places)
    <3>1. PICK own0, seen : Layout(own0, seen)
      BY <1>1 DEF DictInv, DictRest
    <3>2. \A x \in Allocated : own0[x] \in heads => own[x] = own0[x]
      BY <1>1, <1>3, <3>1, OneOwner DEF Layout, Laid, Visiting
    <3> QED
      BY <1>1, <3>1, <3>2 DEF Layout, Laid, Homes, Home
  <2> QED
    BY <1>0, <1>1, <1>3, <2>1, FreeToTake DEF Visiting, MapInv
<1>6. PICK f : f = first_free_bucket_id' /\ Taken(own, Allocated, nxt, chain_ids, n, f)
  BY <1>5
<1>7. n # c
  BY <1>0, <1>1, TakesBucket DEF MapInv, PackedInv
<1>8. /\ buckets'[n].data = {}
      /\ \A x \in Ids \ {n} : buckets'[x].data = buckets[x].data
      /\ \A x \in Ids \ {n} : buckets'[x].bytes_used = buckets[x].bytes_used
      /\ buckets'[n].bytes_used = 0
      /\ nxt' = [[nxt EXCEPT ![n] = INVALID_BUCKET_ID] EXCEPT ![c] = n]
  <2>1. buckets[c].prefix_bits \in 0 .. HASH_BITS
    BY <1>2, BucketTypes
  <2>2. /\ buckets'[n].next_bucket_id = INVALID_BUCKET_ID /\ buckets'[n].data = {}
        /\ buckets'[c].next_bucket_id = n
        /\ \A x \in Ids \ {n} : buckets'[x].data = buckets[x].data
        /\ \A x \in Ids \ {n, c} : buckets'[x] = buckets[x]
    BY <1>0, <1>1, <1>2, <1>5, <1>7, <2>1, AppendEmpty
  <2>3. buckets'[n].bytes_used = 0 /\ buckets'[c].bytes_used = buckets[c].bytes_used
    BY <1>0, <1>1, <1>2, <1>5, <1>7 DEF append_bucket, fresh_bucket
  <2> QED
    BY <1>5, <1>7, <2>2, <2>3 DEF nxt
<1>9. PICK own2 : own2 = [own EXCEPT ![n] = own[c]]
  OBVIOUS
<1>10. Owners(own2)'
  <2>1. Owned(own, Allocated, nxt, chain_ids, first_free_bucket_id)
    BY <1>3 DEF Visiting, Owners
  <2>2. nxt[c] = INVALID_BUCKET_ID /\ own[c] \in chain_ids
    BY <1>1, <1>2, <1>4 DEF nxt, chain_ids
  <2>3. Owned(own2, Allocated \cup {n}, nxt', chain_ids, f)
    BY <1>2, <1>6, <1>7, <1>8, <1>9, <2>1, <2>2, OwnedGrow
  <2>4. chain_ids' = chain_ids
    BY <1>1 DEF chain_ids, splitting
  <2> QED
    BY <1>5, <1>6, <2>3, <2>4 DEF Owners
<1>11. /\ INVALID_BUCKET_ID \notin heads /\ own \in [Ids -> Links]
       /\ nxt[c] = INVALID_BUCKET_ID /\ INVALID_BUCKET_ID \notin Allocated
  BY <1>1, <1>2, <1>3, DictFacts DEF nxt, Visiting, Owners, Owned
<1>12. \A x \in Allocated : own[x] \in heads => x # n
  BY <1>6, <1>11 DEF Taken
<1>13. here \in heads
  <2>1. constructed /\ it.catalogue_index \in Nat
    BY DEF VisitInv, IteratorInv, iterating, Positions
  <2> QED
    BY <1>1, <2>1, EntryNames DEF here
<1>14. n \notin W /\ \A x \in W \ {it.bucket_id} : x # c
  BY <1>3, <1>11, <1>12, <1>13 DEF Visiting, Path
<1>15. nxt'[it.bucket_id] \notin W /\ \A x \in W \ {it.bucket_id} : nxt'[x] = nxt[x]
  <2>1. W \subseteq Ids /\ it.bucket_id \in Ids /\ it.bucket_id \in W
        /\ nxt \in [Ids -> Links] /\ nxt[it.bucket_id] \notin W
    BY <1>2, <1>3 DEF Visiting, Path, Graph
  <2> QED
    BY <1>2, <1>5, <1>7, <1>8, <1>14, <2>1
<1>16. \A x \in Allocated : own[x] \in heads => own2[x] = own[x]
  BY <1>9, <1>11, <1>12
<1>17. \A x \in Allocated : /\ buckets'[x].bytes_used \in Int
                            /\ buckets[x].bytes_used <= buckets'[x].bytes_used
                            /\ buckets[x].data \subseteq buckets'[x].data
  <2> TAKE x \in Allocated
  <2>1. /\ buckets[x].bytes_used \in Int
        /\ buckets[x].data = {} => buckets[x].bytes_used = 0
    BY <1>1, FromRecord
  <2> QED
    BY <1>2, <1>5, <1>8, <2>1
<1>18. \A x \in Allocated' : \A r \in buckets'[x].data : x \in Allocated /\ r \in buckets[x].data
  BY <1>2, <1>5, <1>8
<1>19. hpc' \notin {"grown", "split", "placed"}
  BY <1>1 DEF Underway
<1> QED
  BY <1>3, <1>5, <1>10, <1>15, <1>16, <1>17, <1>18, <1>19, VisitGrows

(* get writes its record behind those of a bucket.                          *)
LEMMA VisitCreated ==
  ASSUME VisitInv, ~moved, ipc \in {"rest", "read"}, GetCreated,
         UNCHANGED <<ipc, it, visits, initial>>
  PROVE  Underway'
<1>1. /\ pc = "create" /\ pc' = "idle" /\ hpc = "create" /\ hpc' = "idle"
      /\ buckets[cursor].bytes_used + arg_length <= BUCKET_SIZE
      /\ UNCHANGED <<prefix_bits, buffer, buckets_count, first_free_bucket_id, heads, sp>>
      /\ Underway /\ DictInv /\ MapInv /\ ~splitting
  BY AtPosition DEF GetCreated, CreateWrite, Return, Leave, catalogue_vars
<1>2. PICK c, put, r : /\ c = cursor /\ put = buckets[c].bytes_used
                       /\ r = [offset |-> put, key |-> arg.key, value |-> arg.value]
  OBVIOUS
<1>3. PICK w : w = with_record(buckets[c], put, r)
  OBVIOUS
<1>4. buckets' = [buckets EXCEPT ![c] = w]
  BY <1>2, <1>3 DEF GetCreated, CreateWrite
<1>5. /\ Allocated \subseteq Ids /\ buckets \in [Ids -> Bucket]
      /\ c \in Allocated /\ Whole(buckets[c]) /\ running
      /\ ~splitting' /\ Allocated' = Allocated
      /\ put \in Int
  BY <1>1, <1>2, DictFacts, NotReading, BucketTypes
     DEF DictInv, MapInv, splitting, Allocated
<1>6. /\ arg.key = req.key /\ arg.value = req.value /\ req.key \in Keys
      /\ req.value \in Values
  BY <1>1, <1>5 DEF DictInv, DictRest, Passed, MapInv, Asked
<1>7. /\ r \in AnyRecord /\ r.key = req.key
      /\ put + len(r) <= BUCKET_SIZE /\ copied(r, put) = r
  BY <1>1, <1>2, <1>5, <1>6 DEF AnyRecord, len, arg_length, copied
<1>8. /\ w.next_bucket_id = buckets[c].next_bucket_id /\ w.data = buckets[c].data \cup {r}
      /\ w.bytes_used = put + len(r) /\ len(r) \in Int /\ len(r) > 0
  <2>1. w.next_bucket_id = buckets[c].next_bucket_id /\ w.data = buckets[c].data \cup {r}
    BY <1>2, <1>3, <1>5, <1>7, AppendRecord
  <2>2. len(r) \in Int /\ len(r) > 0
    BY <1>7, LengthPositive
  <2>3. w.bytes_used = put + len(r)
    BY <1>2, <1>3, <1>5 DEF with_record, Bucket
  <2> QED
    BY <2>1, <2>2, <2>3
<1>9. buckets'[c] = w /\ \A x \in Ids \ {c} : buckets'[x] = buckets[x]
  BY <1>4, <1>5
<1>10. nxt' = nxt /\ chain_ids' = chain_ids
  BY <1>1, <1>5, <1>8, <1>9 DEF nxt, chain_ids
<1>11. PICK own, L, W : Visiting(own, L, W) /\ Tally(own, L, W)
  BY <1>1 DEF Underway
<1>12. Owners(own)'
  BY <1>1, <1>5, <1>10, <1>11 DEF Visiting, Owners
<1>13. nxt'[it.bucket_id] \notin W
  BY <1>10, <1>11 DEF Visiting, Path
<1>14. \A v : ~Stored(req.key, v)
  BY <1>1 DEF DictInv, DictRest, Absent
<1>15. \A x \in Allocated : buckets[x].bytes_used \in Int
  BY <1>5, BucketTypes
<1>16. \A x \in Allocated : /\ buckets'[x].bytes_used \in Int
                            /\ buckets[x].bytes_used <= buckets'[x].bytes_used
                            /\ buckets[x].data \subseteq buckets'[x].data
  BY <1>2, <1>5, <1>8, <1>9, <1>15
<1>17. \A x \in Allocated' : \A e \in buckets'[x].data :
         \/ x \in Allocated /\ e \in buckets[x].data
         \/ e.key \in Keys /\ \A v : ~Stored(e.key, v)
  BY <1>5, <1>6, <1>7, <1>8, <1>9, <1>14
<1> QED
  BY <1>1, <1>5, <1>10, <1>11, <1>12, <1>13, <1>16, <1>17, VisitGrows

(* Whatever the map does without moving a record.                           *)
LEMMA VisitMapRuns ==
  ASSUME VisitInv, MapRuns, iterating, ~moved'
  PROVE  Underway'
<1>1. /\ ipc \in {"rest", "read"} /\ ~moved /\ Next
      /\ hpc' \notin {"grown", "split"}
      /\ ~(hpc = "remove" /\ hpc' = "idle" /\ req'.found)
      /\ UNCHANGED <<ipc, it, visits, initial>>
  BY DEF MapRuns, iterating
<1>2. /\ Underway /\ DictInv /\ MapInv /\ pc # "split" /\ ~splitting
      /\ constructed /\ hpc \notin {"grown", "split", "placed"}
  BY <1>1, AtPosition DEF VisitInv, IteratorInv, Underway
<1>3. CASE UNCHANGED <<prefix_bits, buffer, layout_vars, heads>> /\ ~splitting' /\ hpc' # "placed"
  BY <1>1, <1>3, VisitSame
<1>4. CASE Construct \/ Construct1
  BY <1>2, <1>4 DEF Construct, Construct1, constructed
<1>5. CASE \E k \in Keys : Find(k) \/ \E v \in Offered[k] : Get(k, v)
  BY <1>3, <1>5 DEF Find, Get, Enter, FindCall, Call, splitting, catalogue_vars
<1>6. CASE \E k \in RemovedKeys : Remove(k)
  BY <1>3, <1>6 DEF Remove, Enter, RemoveCall, Call, splitting, catalogue_vars
<1>7. CASE FindReturn
  BY <1>3, <1>7 DEF FindReturn, FindHit, FindMiss, Return, Leave, splitting, catalogue_vars
<1>8. CASE RemoveReturn
  <2>1. CASE RemoveMiss
    BY <1>3, <1>8, <2>1 DEF RemoveReturn, RemoveMiss, Return, Leave, splitting, catalogue_vars
  <2>2. CASE RemoveHit
    BY <1>1, <1>8, <2>2 DEF RemoveReturn, RemoveHit, Return, Leave, NoReq, NoResult
  <2> QED
    BY <1>8, <2>1, <2>2 DEF RemoveReturn
<1>9. CASE GetMiss
  BY <1>3, <1>9 DEF GetMiss, FindMiss, Return, splitting, catalogue_vars
<1>10. CASE GetCatalogueSplit \/ GetSplit \/ GetSplitReturn
  BY <1>1, <1>2, <1>10 DEF GetCatalogueSplit, GetSplit, GetSplitReturn
<1>11. CASE GetCreate
  BY <1>3, <1>11 DEF GetCreate, CreateCall, Call, splitting, catalogue_vars
<1>12. CASE GetCreated
  BY <1>1, <1>12, VisitCreated
<1>13. CASE Inside
  <2>1. CASE FindNext \/ RemoveNext \/ CreateNext
    BY <1>2, <1>3, <1>13, <2>1 DEF Inside, FindNext, RemoveNext, CreateNext, WalkOn, splitting
  <2>2. CASE CreateGrow
    BY <1>1, <1>13, <2>2, VisitCreateGrow DEF Inside
  <2>3. CASE SplitStep
    BY <1>2, <2>3 DEF splitting, SplitStep, SplitBit1Append, SplitBit1Grow, SplitBit0Append,
          SplitBit0Advance, SplitNextBucket, SplitUnlink, SplitFree
  <2> QED
    BY <1>13, <2>1, <2>2, <2>3 DEF Inside, ContainerStep
<1> QED
  BY <1>1, <1>4, <1>5, <1>6, <1>7, <1>8, <1>9, <1>10, <1>11, <1>12, <1>13 DEF Next

-----------------------------------------------------------------------------
(* A step of the iterator.                                                  *)
LEMMA VisitMoves ==
  ASSUME VisitInv, Move, ~Drop, ~moved
  PROVE  Underway'
<1>1. ~IncrementAdrift
  BY AtPosition DEF IncrementAdrift, adrift
<1> QED
  BY <1>1, VisitHit, VisitChain, VisitEntry, VisitDeref, VisitIncrement DEF Move

(* Its counts, whatever it reads.                                           *)
LEMMA VisitCounts ==
  ASSUME VisitInv, [IteratorNext]_ivars
  PROVE  /\ visits' \in [Keys -> Nat] /\ initial' \in SUBSET Keys
         /\ ~iterating' => visits' = [k \in Keys |-> 0] /\ initial' = {} /\ ~moved'
<1>1. /\ visits \in [Keys -> Nat] /\ initial \in SUBSET Keys
      /\ ~iterating => visits = [k \in Keys |-> 0] /\ initial = {} /\ ~moved
  BY DEF VisitInv
<1>2. CASE Begin
  BY <1>1, <1>2 DEF Begin, iterating
<1>3. CASE ProbeHit \/ ProbeChain \/ ProbeEntry \/ Increment \/ IncrementAdrift
  BY <1>1, <1>3 DEF ProbeHit, ProbeChain, ProbeEntry, Increment, IncrementAdrift, adrift,
     iterating
<1>4. CASE Deref
  <2>1. \A k \in Keys : visits[k] \in Nat /\ visits[k] + 1 \in Nat
    BY <1>1
  <2>2. visits' \in [Keys -> Nat]
    BY <1>1, <1>4, <2>1 DEF Deref
  <2> QED
    BY <1>1, <1>4, <2>2 DEF Deref, iterating
<1>5. CASE Drop
  BY <1>5 DEF Drop, iterating
<1>6. CASE MapRuns
  BY <1>1, <1>6 DEF MapRuns, iterating
<1>7. CASE UNCHANGED ivars
  BY <1>1, <1>7 DEF ivars, iterator_vars, iterating
<1> QED
  BY <1>2, <1>3, <1>4, <1>5, <1>6, <1>7 DEF IteratorNext, Move

LEMMA VisitStep ==
  ASSUME MaxBuckets <= 2 ^ HASH_BITS, VisitInv, [IteratorNext]_ivars
  PROVE  VisitInv'
<1>1. IteratorInv'
  BY IteratorStep DEF VisitInv
<1>2. DictInv'
  <2>1. [Next]_hvars
    BY DEF IteratorNext, Begin, Move, MapRuns, ProbeHit, ProbeChain, ProbeEntry, Deref,
           Increment, IncrementAdrift, Drop, ivars
  <2>2. MapInv'
    BY <1>1 DEF IteratorInv
  <2> QED
    BY <2>1, <2>2, DictStep DEF VisitInv
<1>3. ASSUME iterating', ~moved' PROVE Underway'
  <2>1. CASE Begin
    BY <2>1, VisitBegin
  <2>2. CASE Move
    <3>1. ~Drop
      BY <1>3 DEF Drop, iterating
    <3>2. ~moved
      BY <1>3, <2>2, <3>1 DEF Move, ProbeHit, ProbeChain, ProbeEntry, Deref, Increment,
         IncrementAdrift
    <3> QED
      BY <2>2, <3>1, <3>2, VisitMoves
  <2>3. CASE MapRuns
    BY <1>3, <2>3, VisitMapRuns DEF MapRuns, iterating
  <2>4. CASE UNCHANGED ivars
    <3>1. UNCHANGED <<hvars, ipc, it, visits, initial, moved>>
      BY <2>4 DEF ivars, iterator_vars
    <3>2. Underway
      BY <1>3, <3>1 DEF VisitInv, iterating
    <3>3. ipc = "end" => Underway'
      BY <3>1, <3>2, MapStill DEF Underway
    <3>4. ASSUME ipc # "end" PROVE Underway'
      <4>1. PICK own, L, W : Visiting(own, L, W) /\ Tally(own, L, W)
        BY <3>2, <3>4 DEF Underway
      <4>2. here' = here /\ EntriesBefore(it.catalogue_index)' = EntriesBefore(it.catalogue_index)
        <5>1. \A i : entry(i)' = entry(i)
          BY <3>1, MapStill
        <5> QED
          BY <3>1, <5>1 DEF here, EntriesBefore
      <4>3. Visiting(own, L, W)' /\ OnRecord'
        BY <3>1, <3>2, <3>4, <4>1, <4>2, MapStill
           DEF Visiting, Underway, OnRecord, at_position, in_use
      <4>4. \A x, r : Behind(own, L, W, x, r)' <=> Behind(own, L, W, x, r)
        BY <3>1 DEF Behind
      <4> QED
        BY <3>1, <3>2, <3>4, <4>1, <4>3, <4>4, GoesOn DEF Underway
    <3> QED
      BY <3>3, <3>4
  <2> QED
    BY <2>1, <2>2, <2>3, <2>4 DEF IteratorNext
<1> QED
  BY <1>1, <1>2, <1>3, VisitCounts DEF VisitInv

(****************************************************************************)
(* While no record moves, an iterator stays on records, and by its end has  *)
(* met every record that was there at begin() once, and none twice:         *)
(* find_next_record, * and ++ over a map that get adds to.                  *)
(****************************************************************************)
THEOREM EachVisitedOnce ==
  ASSUME MaxBuckets <= 2 ^ HASH_BITS
  PROVE  IteratorSpec => []VisitsEachOnce
<1>1. IteratorInit => VisitInv
  <2>1. IteratorInit => IteratorInv
    BY MapInit DEF IteratorInit, IteratorInv, IteratorInBounds, iterating, Unset, Positions
  <2> QED
    BY <2>1, DictInit DEF IteratorInit, VisitInv, iterating
<1>2. VisitInv /\ [IteratorNext]_ivars => VisitInv'
  BY VisitStep
<1>3. VisitInv => VisitsEachOnce
  <2> SUFFICES ASSUME VisitInv, ~moved PROVE VisitsEachOnce
    BY DEF VisitsEachOnce
  <2>1. CASE iterating
    <3>1. ipc \in {"rest", "read"} => in_use /\ at_position # {}
      BY <2>1, AtPosition
    <3> QED
      BY <2>1, <3>1 DEF VisitInv, Underway, VisitsEachOnce
  <2>2. CASE ~iterating
    BY <2>2 DEF VisitInv, VisitsEachOnce, iterating
  <2> QED
    BY <2>1, <2>2
<1> QED
  BY <1>1, <1>2, <1>3, PTL DEF IteratorSpec

=============================================================================
