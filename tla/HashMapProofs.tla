---------------------------- MODULE HashMapProofs ----------------------------
(****************************************************************************)
(* Proofs about HashMap for any keys, values, hashes, sizes and any number  *)
(* of buckets: the map uses the container only as its proofs allow, the     *)
(* catalogue names every chain by exactly the entries that share its        *)
(* prefix, the asserts of get hold, and an iterator stays within the file   *)
(* and the catalogue whatever the map does under it.                        *)
(*                                                                          *)
(* One thing nothing in the code checks: the catalogue is doubled whenever  *)
(* there are more buckets than entries, also when its entries already have  *)
(* all the bits of a hash.  The theorems say how many buckets that takes.   *)
(****************************************************************************)
EXTENDS Iterator, ContainerProofs

Requests == [op : {"none", "get", "find", "remove"},
             key : Keys \cup {NoValue}, value : Values \cup {NoValue},
             found : BOOLEAN, result : Values \cup {NoValue}]

(* The types of the map's own variables.                                    *)
MapTypes ==
    /\ DirectoryTypeOK
    /\ bucket_id \in Links
    /\ hpc \in {"constructor", "constructor1", "idle", "get", "find", "remove",
                "miss", "grown", "split", "placed", "create"}
    /\ req \in Requests

(* The call of the container that a method of the map is waiting for.       *)
Control ==
    /\ hpc \in {"constructor", "constructor1", "idle", "miss", "grown", "placed"}
         => pc = "idle"
    /\ hpc \in {"get", "find"} => pc = "find"
    /\ hpc = "remove" => pc = "remove"
    /\ hpc = "create" => pc = "create"
    /\ hpc = "split" => splitting /\ arg.bucket_id = bucket_id

running == hpc \notin {"constructor", "constructor1", "idle"}

(* The method works on the chain that the catalogue has for its key.        *)
Asked ==
    running =>
      /\ req.key \in Keys /\ bucket_id \in heads
      /\ catalogue_find(hash) = bucket_id
      /\ hpc \notin {"find", "remove"} => req.value \in Values

(* How deep the chains are; a split raises the depth first.                 *)
Depths ==
    /\ \A b \in heads : depth_of(b) \in 1 .. HASH_BITS
    /\ splitting => /\ arg.bucket_id \in heads
                    /\ depth_of(arg.bucket_id) = sp.prefix_bits
                    /\ depth_of(sp.result) = sp.prefix_bits
                    /\ sp.prefix_bits \in 2 .. prefix_bits

(* The constructor has made none of the chains, or the one for zeros.       *)
Constructed ==
    /\ hpc = "constructor" => heads = {} /\ prefix_bits = 1
    /\ hpc = "constructor1" =>
         /\ prefix_bits = 1 /\ heads = {buffer[prefix(zero_hash, 1)]}
         /\ depth_of(buffer[prefix(zero_hash, 1)]) = 1

(****************************************************************************)
(* DirectoryAligned of a table of 2^n entries that names the chains in H,   *)
(* of the given depths.                                                     *)
(****************************************************************************)
Aligned(n, table, depth, H) ==
    /\ \A p, q \in Prefixes(n) :
         /\ depth[table[p]] <= n
         /\ table[q] = table[p] <=> agree(p, q, depth[table[p]])
    /\ H = {table[p] : p \in Prefixes(n)}

(* The depths of the chains, as far as the catalogue knows.                 *)
depths == [b \in heads |-> known_depth(b)]

Named == constructed => Aligned(prefix_bits, buffer, depths, heads)

Placed == hpc = "placed" => depth_of(bucket_id) = depth_of(result.bucket_id)

MapInv ==
    /\ PackedInv
    /\ MapTypes
    /\ Control
    /\ Asked
    /\ Depths
    /\ Constructed
    /\ Named
    /\ Placed

-----------------------------------------------------------------------------
(* Copying a record leaves the depth of every bucket alone.                 *)
LEMMA MoveKeepsDepth ==
  ASSUME sp.get \in Ids, NEW bs \in [Ids -> Bucket], NEW t \in Ids, NEW put, NEW r,
         NEW new, new = move_record(bs, r, t, put)
  PROVE  \A x \in Ids : new[x].prefix_bits = bs[x].prefix_bits
<1> DEFINE out == [bs[sp.get] EXCEPT !.data = @ \ {r}]
           read == [bs EXCEPT ![sp.get] = out]
<1>1. out.prefix_bits = bs[sp.get].prefix_bits /\ DOMAIN out = DOMAIN bs[sp.get]
  BY DEF Bucket
<1>2. \A x \in Ids : /\ read[x].prefix_bits = bs[x].prefix_bits
                     /\ DOMAIN read[x] = DOMAIN bs[x]
  BY <1>1
<1>3. \A x \in Ids : "prefix_bits" \in DOMAIN bs[x]
  BY DEF Bucket
<1>4. with_record(read[t], put, r).prefix_bits = read[t].prefix_bits
  BY <1>2, <1>3 DEF with_record
<1>5. new = [read EXCEPT ![t] = with_record(read[t], put, r)] /\ DOMAIN read = Ids
  BY DEF move_record
<1> HIDE DEF read
<1> QED
  BY <1>2, <1>4, <1>5

(* What a loop iteration of the container leaves alone.                     *)
LEMMA StepKeeps ==
  ASSUME PackedInv, ContainerStep
  PROVE  /\ heads' = heads /\ arg' = arg /\ result' = result
         /\ pc \in {"find", "remove", "create"} => pc' = pc
         /\ pc \in {"split", "free"} => pc' \in {"split", "free"}
         /\ splitting => sp'.result = sp.result /\ sp'.prefix_bits = sp.prefix_bits
<1>1. sp \in SplitLocals
  BY DEF PackedInv, Bounded, Locals
<1>2. CASE FindNext \/ RemoveNext \/ CreateNext \/ CreateGrow
  BY <1>2 DEF FindNext, RemoveNext, CreateNext, CreateGrow, WalkOn
<1>3. CASE SplitUnlink \/ SplitFree
  BY <1>3 DEF SplitUnlink, SplitFree
<1>4. CASE SplitBit1Append
  BY <1>1, <1>4 DEF SplitBit1Append, SplitLocals
<1>8. CASE SplitBit0Append
  BY <1>1, <1>8 DEF SplitBit0Append, SplitLocals
<1>5. CASE SplitBit1Grow
  BY <1>1, <1>5 DEF SplitBit1Grow, SplitLocals
<1>6. CASE SplitBit0Advance
  BY <1>1, <1>6 DEF SplitBit0Advance, SplitLocals
<1>7. CASE SplitNextBucket
  BY <1>1, <1>7 DEF SplitNextBucket, SplitLocals
<1> QED
  BY <1>2, <1>3, <1>4, <1>5, <1>6, <1>7, <1>8 DEF ContainerStep, SplitStep

(* The bucket split goes on with when bit0 is full.                         *)
LEMMA Bit0Next ==
  ASSUME PackedInv, pc = "split", NEW r \in at_get_ptr, ~bytes_left_in(sp.bit0, r),
         NEW t, t = nxt[sp.bit0]
  PROVE  /\ t = buckets[sp.bit0].next_bucket_id /\ t # INVALID_BUCKET_ID
         /\ sp.bit0 \in Allocated /\ t \in Allocated
<1>1. PICK P, W, Q \in SUBSET Ids : Splits(P, W, Q)
  BY InSplit
<1>2. t = buckets[sp.bit0].next_bucket_id /\ t # INVALID_BUCKET_ID /\ t \in P
  BY <1>1, Bit0Room
<1>3. sp.bit0 \in Allocated
  BY <1>1, SplitPlaces
<1> QED
  BY <1>1, <1>2, <1>3 DEF Splits

(* No iteration changes the depth of a chain, or of the one being made.     *)
LEMMA StepKeepsDepth ==
  ASSUME PackedInv, ContainerStep
  PROVE  /\ \A b \in heads : buckets'[b].prefix_bits = buckets[b].prefix_bits
         /\ splitting => buckets'[sp.result].prefix_bits = buckets[sp.result].prefix_bits
<1> DEFINE K == heads \cup (IF splitting THEN {sp.result} ELSE {})
<1> SUFFICES \A b \in K : buckets'[b].prefix_bits = buckets[b].prefix_bits
  OBVIOUS
<1>1. /\ buckets \in [Ids -> Bucket] /\ Allocated \subseteq Ids /\ heads \subseteq Allocated
      /\ K \subseteq Allocated /\ sp \in SplitLocals /\ sp.get \in Ids /\ sp.bit0 \in Ids
      /\ sp.bit1 \in Ids
  BY AllocatedIds DEF PackedInv, Inv, Live, Typed, Bounded, Locals, SplitLocals
<1>2. create_bucket => new_bucket_id \in Ids /\ new_bucket_id \notin K
  BY TakesBucket DEF PackedInv
<1>3. CASE FindNext \/ RemoveNext \/ CreateNext
  BY <1>3 DEF FindNext, RemoveNext, CreateNext, WalkOn, layout_vars
<1>4. \A c \in Ids : \A d : create_bucket =>
        \A x \in K : append_bucket(c, d)[x].prefix_bits = buckets[x].prefix_bits
  BY <1>1, <1>2 DEF append_bucket, Bucket
<1>5. CASE CreateGrow
  <2>1. cursor \in Ids
    BY <1>1, <1>5 DEF CreateGrow, PackedInv, Inv, Live, Typed
  <2> QED
    BY <1>4, <1>5, <2>1 DEF CreateGrow
<1>6. CASE SplitBit1Append
  BY <1>1, <1>6, MoveKeepsDepth DEF SplitBit1Append
<1>7. CASE SplitBit0Append
  BY <1>1, <1>7, MoveKeepsDepth DEF SplitBit0Append
<1>8. CASE SplitNextBucket
  BY <1>1, <1>8 DEF SplitNextBucket, begin_reading, Bucket
<1>9. CASE SplitUnlink
  BY <1>1, <1>9 DEF SplitUnlink, Bucket
<1>10. CASE SplitFree
  BY <1>1, <1>10 DEF SplitFree, Bucket
<1>11. CASE SplitBit1Grow
  <2>1. PICK n, bs : n = new_bucket_id /\ bs = append_bucket(sp.bit1, sp.prefix_bits)
    OBVIOUS
  <2>2. PICK r : buckets' = move_record(bs, r, n, 0)
    BY <1>11, <2>1 DEF SplitBit1Grow
  <2>3. /\ n \in Ids /\ n # sp.bit1 /\ pc = "split" /\ n # INVALID_BUCKET_ID
        /\ sp.prefix_bits \in 0 .. HASH_BITS /\ create_bucket
    BY <1>11, <2>1, TakesBucket, InSplit DEF SplitBit1Grow, PackedInv
  <2>4. bs \in [Ids -> Bucket]
    BY <1>1, <2>1, <2>3, AppendEmpty
  <2>5. \A x \in K : bs[x].prefix_bits = buckets[x].prefix_bits
    BY <1>1, <1>4, <2>1, <2>3
  <2>6. \A x \in Ids : buckets'[x].prefix_bits = bs[x].prefix_bits
    BY <1>1, <2>2, <2>3, <2>4, MoveKeepsDepth
  <2> QED
    BY <1>1, <2>5, <2>6
<1>12. CASE SplitBit0Advance
  <2>1. pc = "split"
    BY <1>12 DEF SplitBit0Advance
  <2>2. PICK t : t = nxt[sp.bit0]
    OBVIOUS
  <2>3. PICK r \in at_get_ptr :
          /\ ~bytes_left_in(sp.bit0, r)
          /\ buckets' =
               LET linked ==
                     IF buckets[sp.bit0].next_bucket_id # INVALID_BUCKET_ID
                       THEN [buckets EXCEPT ![bit0_next].prefix_bits = sp.prefix_bits]
                       ELSE append_bucket(sp.bit0, sp.prefix_bits)
               IN move_record(linked, r, bit0_next, 0)
    BY <1>12 DEF SplitBit0Advance
  <2>4. /\ t = buckets[sp.bit0].next_bucket_id /\ t # INVALID_BUCKET_ID
        /\ sp.bit0 \in Allocated /\ t \in Allocated
    <3>1. ~bytes_left_in(sp.bit0, r)
      BY <2>3, Zenon
    <3> QED
      BY <2>1, <2>2, <3>1, Bit0Next
  <2>5. t \in Ids /\ t \notin K
    BY <1>1, <2>1, <2>2, <2>4 DEF PackedInv, Inv, Live, OneReference, splitting
  <2>6. PICK bs : bs = [buckets EXCEPT ![t].prefix_bits = sp.prefix_bits]
    OBVIOUS
  <2>7. buckets' = move_record(bs, r, t, 0)
    BY <2>3, <2>4, <2>6 DEF bit0_next
  <2>8. bs \in [Ids -> Bucket] /\ \A x \in Ids : x # t => bs[x] = buckets[x]
    <3>1. sp.prefix_bits \in 0 .. HASH_BITS /\ buckets[t] \in Bucket
      BY <1>1, <2>1, <2>5, InSplit
    <3>2. [buckets[t] EXCEPT !.prefix_bits = sp.prefix_bits] \in Bucket
      BY <3>1 DEF Bucket
    <3> QED
      BY <1>1, <2>5, <2>6, <3>2
  <2>9. \A x \in Ids : buckets'[x].prefix_bits = bs[x].prefix_bits
    BY <1>1, <2>5, <2>7, <2>8, MoveKeepsDepth
  <2> QED
    BY <1>1, <2>5, <2>8, <2>9
<1> QED
  BY <1>3, <1>5, <1>6, <1>7, <1>8, <1>9, <1>10, <1>11, <1>12 DEF ContainerStep, SplitStep

-----------------------------------------------------------------------------
(* The first bits of a longer prefix, or of a hash.                         *)
LEMMA PrefixTypes ==
  ASSUME NEW n \in Nat, NEW m \in Nat, n <= m, NEW h \in [1 .. m -> {0, 1}]
  PROVE  /\ prefix(h, n) \in Prefixes(n)
         /\ \A i \in 1 .. n : prefix(h, n)[i] = h[i]
  BY DEF prefix, Prefixes

(****************************************************************************)
(* catalogue.split: an entry becomes two that name the same chain, and      *)
(* share as many bits as before.                                            *)
(****************************************************************************)
LEMMA AlignedSplit ==
  ASSUME NEW n \in Nat, NEW H, NEW table \in [Prefixes(n) -> H], NEW depth \in [H -> Nat],
         Aligned(n, table, depth, H),
         NEW new, new = [p \in Prefixes(n + 1) |-> table[prefix(p, n)]]
  PROVE  /\ new \in [Prefixes(n + 1) -> H]
         /\ Aligned(n + 1, new, depth, H)
<1>1. \A p \in Prefixes(n + 1) : /\ prefix(p, n) \in Prefixes(n)
                                 /\ \A i \in 1 .. n : prefix(p, n)[i] = p[i]
                                 /\ new[p] = table[prefix(p, n)]
  BY DEF prefix, Prefixes
<1>2. new \in [Prefixes(n + 1) -> H]
  BY <1>1
<1>3. ASSUME NEW p \in Prefixes(n + 1), NEW q \in Prefixes(n + 1)
      PROVE  /\ depth[new[p]] <= n + 1
             /\ new[q] = new[p] <=> agree(p, q, depth[new[p]])
  <2>1. PICK d : d = depth[new[p]]
    OBVIOUS
  <2>2. d \in Nat /\ d <= n
    BY <1>1, <2>1 DEF Aligned
  <2>3. new[q] = new[p] <=> agree(prefix(p, n), prefix(q, n), d)
    BY <1>1, <2>1 DEF Aligned
  <2>4. agree(prefix(p, n), prefix(q, n), d) <=> agree(p, q, d)
    BY <1>1, <2>2 DEF agree
  <2> QED
    BY <2>1, <2>2, <2>3, <2>4
<1>4. ASSUME NEW x \in H
      PROVE  \E p \in Prefixes(n + 1) : new[p] = x
  <2>1. PICK p \in Prefixes(n) : table[p] = x
    BY DEF Aligned
  <2>2. PICK r : r = [i \in 1 .. n + 1 |-> IF i <= n THEN p[i] ELSE 0]
    OBVIOUS
  <2>3. r \in Prefixes(n + 1) /\ prefix(r, n) = p
    BY <2>2 DEF Prefixes, prefix
  <2> QED
    BY <1>1, <2>1, <2>3
<1>5. H = {new[p] : p \in Prefixes(n + 1)}
  BY <1>2, <1>4
<1> QED
  BY <1>2, <1>3, <1>5 DEF Aligned

(****************************************************************************)
(* catalogue.set after a split of chain b, with the key's hash h and the    *)
(* new depth d: the entries that named b and have the new bit name the new  *)
(* chain c.                                                                 *)
(****************************************************************************)
TakesOver(n, table, depth, H, h, b, d, c, new, deeper) ==
    /\ n \in Nat /\ n <= HASH_BITS /\ h \in HashValues
    /\ table \in [Prefixes(n) -> H] /\ depth \in [H -> Nat]
    /\ Aligned(n, table, depth, H)
    /\ b \in H /\ table[prefix(h, n)] = b /\ c \notin H
    /\ d = depth[b] + 1 /\ d <= n
    /\ new \in [Prefixes(n) -> H \cup {c}]
    /\ \A p \in Prefixes(n) :
         new[p] = IF agree(p, [h EXCEPT ![d] = 1], d) THEN c ELSE table[p]
    /\ \A x \in H \cup {c} : deeper[x] = IF x \in {b, c} THEN d ELSE depth[x]

(* The table is aligned again, and leads h to the chain of its bit d.       *)
LEMMA AlignedSet ==
  ASSUME NEW n, NEW table, NEW depth, NEW H, NEW h, NEW b, NEW d, NEW c, NEW new, NEW deeper,
         TakesOver(n, table, depth, H, h, b, d, c, new, deeper)
  PROVE  /\ Aligned(n, new, deeper, H \cup {c})
         /\ new[prefix(h, n)] = IF h[d] = 1 THEN c ELSE b
         /\ \A p \in Prefixes(n) : new[p] = IF table[p] = b /\ p[d] = 1 THEN c ELSE table[p]
<1>a. PICK m \in Nat : m = HASH_BITS
  BY SizesAssumption
<1>b. n \in Nat /\ n <= m /\ h \in [1 .. m -> {0, 1}]
  BY <1>a DEF TakesOver, HashValues
<1>c. /\ table \in [Prefixes(n) -> H] /\ depth \in [H -> Nat]
      /\ Aligned(n, table, depth, H)
      /\ b \in H /\ table[prefix(h, n)] = b /\ c \notin H
      /\ d \in Nat /\ d = depth[b] + 1 /\ d <= n
      /\ new \in [Prefixes(n) -> H \cup {c}]
      /\ \A x \in H \cup {c} : deeper[x] = IF x \in {b, c} THEN d ELSE depth[x]
  BY DEF TakesOver
<1>d. PICK g : g = [h EXCEPT ![d] = 1]
  OBVIOUS
<1>e. \A p \in Prefixes(n) : new[p] = IF agree(p, g, d) THEN c ELSE table[p]
  BY <1>d DEF TakesOver
<1>f. \A i \in 1 .. d : g[i] = IF i = d THEN 1 ELSE h[i]
  BY <1>b, <1>c, <1>d
<1> DEFINE e == depth[b]
<1>1. /\ e \in Nat /\ d = e + 1 /\ d \in 1 .. n /\ d \in 1 .. m
      /\ \A i \in 1 .. d : i # d => i \in 1 .. e
      /\ \A i \in 1 .. e : i \in 1 .. d /\ i # d /\ i \in 1 .. n
  BY <1>b, <1>c
<1>2. /\ prefix(h, n) \in Prefixes(n) /\ \A i \in 1 .. n : prefix(h, n)[i] = h[i]
  BY <1>b, PrefixTypes
<1>3. \A p \in Prefixes(n) : \A i \in 1 .. n : p[i] \in {0, 1}
  BY DEF Prefixes
<1>4. \A p \in Prefixes(n) : table[p] = b <=> agree(p, h, e)
  <2>1. \A p \in Prefixes(n) : table[p] = b <=> agree(prefix(h, n), p, e)
    BY <1>2, <1>c DEF Aligned
  <2>2. \A p \in Prefixes(n) : agree(prefix(h, n), p, e) <=> agree(p, h, e)
    BY <1>1, <1>2 DEF agree
  <2> QED
    BY <2>1, <2>2
<1>5. \A p \in Prefixes(n) :
        agree(p, g, d) <=> agree(p, h, e) /\ p[d] = 1
  <2>1. g[d] = 1 /\ \A i \in 1 .. e : g[i] = h[i]
    BY <1>1, <1>f
  <2>2. \A i : i \in 1 .. d <=> i = d \/ i \in 1 .. e
    BY <1>1
  <2> QED
    BY <2>1, <2>2 DEF agree
<1>6. \A p \in Prefixes(n) : new[p] = IF table[p] = b /\ p[d] = 1 THEN c ELSE table[p]
  BY <1>4, <1>5, <1>e
<1>8. \A x \in H : x # b => deeper[x] = depth[x]
  BY <1>c
<1>9. deeper[b] = d /\ deeper[c] = d
  BY <1>c
<1>10. ASSUME NEW p \in Prefixes(n), NEW q \in Prefixes(n)
       PROVE  /\ deeper[new[p]] <= n
              /\ new[q] = new[p] <=> agree(p, q, deeper[new[p]])
  <2>1. CASE table[p] = b
    <3>1. deeper[new[p]] = d
      BY <1>6, <1>9, <2>1
    <3>2. agree(p, q, d) <=> agree(p, q, e) /\ p[d] = q[d]
      BY <1>1 DEF agree
    <3>3. agree(p, q, e) <=> table[q] = b
      BY <1>c, <2>1 DEF Aligned
    <3>4. p[d] \in {0, 1} /\ q[d] \in {0, 1}
      BY <1>1, <1>3
    <3>5. new[q] = new[p] <=> table[q] = b /\ p[d] = q[d]
      <4>1. table[q] # c /\ b # c
        BY <1>c
      <4> QED
        BY <1>6, <2>1, <3>4, <4>1
    <3> QED
      BY <1>1, <1>c, <3>1, <3>2, <3>3, <3>5
  <2>2. CASE table[p] # b
    <3>1. new[p] = table[p] /\ table[p] \in H /\ table[q] \in H /\ deeper[new[p]] = depth[table[p]]
      BY <1>6, <1>8, <1>c, <2>2
    <3>2. new[q] = new[p] <=> table[q] = table[p]
      BY <1>6, <1>c, <2>2, <3>1
    <3> QED
      BY <1>c, <3>1, <3>2 DEF Aligned
  <2> QED
    BY <2>1, <2>2
<1>11. ASSUME NEW x \in H \cup {c}
       PROVE  \E p \in Prefixes(n) : new[p] = x
  <2>1. CASE x \in H \ {b}
    <3>1. PICK p \in Prefixes(n) : table[p] = x
      BY <1>c, <2>1 DEF Aligned
    <3> QED
      BY <1>6, <2>1, <3>1
  <2>2. ASSUME NEW v \in {0, 1}
        PROVE  \E p \in Prefixes(n) : table[p] = b /\ p[d] = v
    <3>1. PICK p : p = [prefix(h, n) EXCEPT ![d] = v]
      OBVIOUS
    <3>2. p \in Prefixes(n) /\ p[d] = v /\ \A i \in 1 .. n : i # d => p[i] = h[i]
      BY <1>1, <1>2, <3>1 DEF Prefixes
    <3>3. agree(p, h, e)
      BY <1>1, <3>2 DEF agree
    <3> QED
      BY <1>4, <3>2, <3>3
  <2>3. CASE x = b
    <3>1. PICK p \in Prefixes(n) : table[p] = b /\ p[d] = 0
      BY <2>2
    <3>2. ~(table[p] = b /\ p[d] = 1)
      BY <3>1
    <3>3. new[p] = table[p]
      BY <1>6, <3>2
    <3> QED
      BY <2>3, <3>1, <3>3
  <2>4. CASE x = c
    <3>1. PICK p \in Prefixes(n) : table[p] = b /\ p[d] = 1
      BY <2>2
    <3> QED
      BY <1>6, <2>4, <3>1
  <2> QED
    BY <2>1, <2>3, <2>4
<1>12. H \cup {c} = {new[p] : p \in Prefixes(n)}
  <2>1. \A p \in Prefixes(n) : new[p] \in H \cup {c}
    BY <1>c
  <2>2. \A x \in H \cup {c} : \E p \in Prefixes(n) : new[p] = x
    BY <1>11
  <2> HIDE DEF e
  <2> QED
    BY ONLY <2>1, <2>2
<1>13. new[prefix(h, n)] = IF h[d] = 1 THEN c ELSE b
  BY <1>1, <1>2, <1>6, <1>c
<1>14. Aligned(n, new, deeper, H \cup {c})
  BY <1>10, <1>12 DEF Aligned
<1> QED
  BY <1>6, <1>13, <1>14

-----------------------------------------------------------------------------
(* What the invariant says of the shape of the map's state.                 *)
LEMMA MapFacts ==
  ASSUME MapInv
  PROVE  /\ HASH_BITS \in Nat /\ prefix_bits \in Nat /\ prefix_bits \in 1 .. HASH_BITS
         /\ heads \subseteq Ids /\ buckets \in [Ids -> Bucket]
         /\ \A b \in heads : depth_of(b) \in 1 .. HASH_BITS
         /\ depths \in [heads -> Nat]
         /\ constructed => /\ buffer \in [Prefixes(prefix_bits) -> heads]
                           /\ \A h \in HashValues : catalogue_find(h) \in heads
<1>1. HASH_BITS \in Nat /\ prefix_bits \in Nat /\ prefix_bits \in 1 .. HASH_BITS
  BY SizesAssumption DEF MapInv, MapTypes, DirectoryTypeOK
<1>2. heads \subseteq Ids /\ buckets \in [Ids -> Bucket]
  BY AllocatedIds DEF MapInv, PackedInv, Inv, Live, Typed, Bounded
<1>3. \A b \in heads : depth_of(b) \in 1 .. HASH_BITS
  BY DEF MapInv, Depths
<1>4. depths \in [heads -> Nat]
  BY <1>1, <1>3 DEF depths, known_depth
<1>5. ASSUME constructed
      PROVE  buffer \in [Prefixes(prefix_bits) -> heads]
  <2>1. buffer \in [Prefixes(prefix_bits) -> Ids \cup {INVALID_BUCKET_ID}]
    BY DEF MapInv, MapTypes, DirectoryTypeOK
  <2>2. heads = {buffer[p] : p \in Prefixes(prefix_bits)}
    BY <1>5 DEF MapInv, Named, Aligned
  <2> QED
    BY <2>1, <2>2
<1>6. \A h \in HashValues : prefix(h, prefix_bits) \in Prefixes(prefix_bits)
  BY <1>1, PrefixTypes DEF HashValues
<1> QED
  BY <1>1, <1>2, <1>3, <1>4, <1>5, <1>6 DEF catalogue_find

(* The map asks of the container only what the container's proofs allow.    *)
LEMMA MapUses ==
  ASSUME MapInv, Next
  PROVE  [Used]_cvars
<1>1. CASE Construct \/ Construct1
  BY <1>1 DEF Construct, Construct1, Used, Called
<1>2. ASSUME NEW k \in Keys, NEW op, NEW v, Enter(op, k, v)
      PROVE  bucket_id' \in heads
  BY <1>2, MapFacts, SizesAssumption DEF Enter, constructed
<1>3. ASSUME NEW k \in Keys, Find(k) \/ (\E v \in Offered[k] : Get(k, v)) \/ Remove(k)
      PROVE  Used
  BY <1>2, <1>3 DEF Find, Get, Remove, Used, Called
<1>4. CASE FindReturn \/ RemoveReturn \/ GetMiss \/ GetSplitReturn \/ GetCreated \/ Inside
  BY <1>4 DEF FindReturn, RemoveReturn, GetMiss, GetSplitReturn, GetCreated, Inside, Used,
     ContainerReturn
<1>5. CASE GetCatalogueSplit
  BY <1>5 DEF GetCatalogueSplit
<1>6. CASE GetSplit
  <2>1. bucket_id \in heads
    BY <1>6 DEF GetSplit, past_catalogue_split, MapInv, Asked, running
  <2>2. depth_of(bucket_id) < prefix_bits /\ SplitCall(bucket_id)
    BY <1>6 DEF GetSplit, split_wanted
  <2>3. buckets[bucket_id].prefix_bits < HASH_BITS
    BY <2>1, <2>2, MapFacts DEF depth_of
  <2> QED
    BY <2>1, <2>2, <2>3 DEF Used, Called
<1>7. CASE GetCreate
  <2>1. bucket_id \in heads /\ req.key \in Keys /\ req.value \in Values
    BY <1>7 DEF GetCreate, past_catalogue_split, MapInv, Asked, running
  <2> QED
    BY <1>7, <2>1 DEF GetCreate, Used, Called
<1>8. RemovedKeys \subseteq Keys
  BY SizesAssumption
<1> QED
  BY <1>1, <1>3, <1>4, <1>5, <1>6, <1>7, <1>8 DEF Next

(****************************************************************************)
(* A step that changes no chain's depth, no entry of the catalogue and      *)
(* neither starts nor ends a split.                                         *)
(****************************************************************************)
Quiet ==
    /\ heads' = heads /\ prefix_bits' = prefix_bits /\ buffer' = buffer
    /\ \A b \in heads : depth_of(b)' = depth_of(b)
    /\ splitting' <=> splitting
    /\ splitting => /\ arg' = arg /\ sp'.result = sp.result
                    /\ sp'.prefix_bits = sp.prefix_bits
                    /\ buckets'[sp.result].prefix_bits = buckets[sp.result].prefix_bits
    /\ constructed /\ constructed'

(* A step that leaves the catalogue and the depths alone.                   *)
LEMMA QuietKeeps ==
  ASSUME MapInv, Quiet
  PROVE  Depths' /\ Constructed' /\ Named' /\ DirectoryTypeOK'
<1>1. \A b \in heads : depth_of(b)' = depth_of(b)
  BY DEF Quiet
<1>2. Depths'
  <2>1. \A b \in heads' : depth_of(b)' \in 1 .. HASH_BITS
    BY <1>1 DEF Quiet, MapInv, Depths
  <2>2. ASSUME splitting'
        PROVE  /\ arg'.bucket_id \in heads'
               /\ depth_of(arg.bucket_id)' = sp'.prefix_bits
               /\ depth_of(sp.result)' = sp'.prefix_bits
               /\ sp'.prefix_bits \in 2 .. prefix_bits'
    <3>1. /\ splitting /\ arg.bucket_id \in heads
          /\ buckets[arg.bucket_id].prefix_bits = sp.prefix_bits
          /\ buckets[sp.result].prefix_bits = sp.prefix_bits
          /\ sp.prefix_bits \in 2 .. prefix_bits
      BY <2>2 DEF Quiet, MapInv, Depths, depth_of
    <3>2. /\ arg' = arg /\ sp'.result = sp.result /\ sp'.prefix_bits = sp.prefix_bits
          /\ buckets'[sp.result].prefix_bits = buckets[sp.result].prefix_bits
          /\ heads' = heads /\ prefix_bits' = prefix_bits
      BY <3>1 DEF Quiet
    <3> QED
      BY <1>1, <3>1, <3>2 DEF depth_of
  <2> QED
    BY <2>1, <2>2 DEF Depths
<1>3. Constructed'
  BY DEF Quiet, constructed, Constructed
<1>4. depths' = depths
  <2>1. \A b \in heads : known_depth(b)' = known_depth(b)
    BY <1>1 DEF Quiet, known_depth
  <2> QED
    BY <2>1 DEF Quiet, depths
<1>5. Named' /\ DirectoryTypeOK'
  BY <1>4 DEF Quiet, MapInv, Named, MapTypes, DirectoryTypeOK
<1> QED
  BY <1>2, <1>3, <1>5

(* The parts of the invariant that are about the map alone.                 *)
MapRest ==
    /\ MapTypes
    /\ Control
    /\ Asked
    /\ Depths
    /\ Constructed
    /\ Named
    /\ Placed

(* A call of find, remove or get leads to the chain of its key.             *)
LEMMA MapEnter ==
  ASSUME MapInv, NEW op \in {"get", "find", "remove"}, NEW k \in Keys,
         NEW v \in Values \cup {NoValue}, v = NoValue => op # "get", Enter(op, k, v),
         NEW name, op = "remove" => name = "remove", op # "remove" => name = "find",
         Call(name, bucket_id', k, NoValue), UNCHANGED <<layout_vars, heads, sp>>
  PROVE  MapRest'
<1>1. /\ hpc = "idle" /\ hpc' = op /\ pc = "idle" /\ pc' = name
      /\ name \in {"find", "remove"}
      /\ bucket_id' = catalogue_find(Hash[k])
      /\ req' = [op |-> op, key |-> k, value |-> v, found |-> FALSE, result |-> NoValue]
      /\ UNCHANGED <<prefix_bits, buffer, buckets, heads, sp>>
  BY DEF Enter, Call, catalogue_vars, layout_vars
<1>2. Quiet
  BY <1>1 DEF Quiet, depth_of, splitting, constructed
<1>3. bucket_id' \in heads /\ heads \subseteq Ids
  BY <1>1, MapFacts, SizesAssumption DEF constructed
<1>4. req' \in Requests /\ req'.key = k /\ req'.value = v
  BY <1>1 DEF Requests
<1>5. MapTypes'
  BY <1>1, <1>2, <1>3, <1>4, QuietKeeps DEF MapTypes, Links
<1>6. Control'
  BY <1>1 DEF Control
<1>7. Asked'
  BY <1>1, <1>3, <1>4 DEF Asked, catalogue_find, hash
<1>8. Placed'
  BY <1>1 DEF Placed
<1> QED
  BY <1>2, <1>5, <1>6, <1>7, <1>8, QuietKeeps DEF MapRest

(* A method that returns.                                                   *)
LEMMA MapLeave ==
  ASSUME MapInv, NEW f \in BOOLEAN, NEW v \in Values \cup {NoValue}, Leave(f, v),
         hpc \in {"get", "find", "remove", "create"},
         pc' = "idle", heads' = heads,
         \A b \in heads : buckets'[b].prefix_bits = buckets[b].prefix_bits
  PROVE  MapRest'
<1>1. /\ hpc' = "idle" /\ bucket_id' = INVALID_BUCKET_ID
      /\ req' = [NoReq EXCEPT !.found = f, !.result = v]
      /\ UNCHANGED <<prefix_bits, buffer>>
  BY DEF Leave, catalogue_vars
<1>2. ~splitting /\ ~splitting'
  BY DEF MapInv, Control, splitting
<1>3. Quiet
  BY <1>1, <1>2 DEF Quiet, depth_of, constructed
<1>4. req' \in Requests
  BY <1>1 DEF Requests, NoReq
<1>5. MapTypes'
  BY <1>1, <1>3, <1>4, QuietKeeps DEF MapTypes, Links
<1>6. Control' /\ Asked' /\ Placed'
  BY <1>1 DEF Control, Asked, Placed, running
<1> QED
  BY <1>3, <1>5, <1>6, QuietKeeps DEF MapRest

(* A step of get that goes on with the same chain.                          *)
LEMMA MapGoOn ==
  ASSUME MapInv, Quiet, bucket_id' = bucket_id, req' = req, running, running',
         hpc' \in {"miss", "create"}, hpc \notin {"find", "remove"}, Control'
  PROVE  MapRest'
<1>1. MapTypes'
  BY QuietKeeps DEF MapInv, MapTypes
<1>2. Asked'
  BY DEF MapInv, Asked, Quiet, catalogue_find, hash
<1>3. Placed'
  BY DEF Placed
<1> QED
  BY <1>1, <1>2, <1>3, QuietKeeps DEF MapRest

(* The steps of find, remove and get around one call of the container.      *)
LEMMA MapCalls ==
  ASSUME MapInv,
         \/ \E k \in Keys : Find(k) \/ \E v \in Offered[k] : Get(k, v)
         \/ \E k \in RemovedKeys : Remove(k)
  PROVE  MapRest'
<1>1. ASSUME NEW k \in Keys, Find(k) PROVE MapRest'
  BY <1>1, MapEnter DEF Find, FindCall
<1>2. ASSUME NEW k \in Keys, NEW v \in Offered[k], Get(k, v) PROVE MapRest'
  <2>1. v \in Values /\ v # NoValue
    BY OfferedAssumption, SizesAssumption
  <2> QED
    BY <1>2, <2>1, MapEnter DEF Get, FindCall
<1>3. ASSUME NEW k \in RemovedKeys, Remove(k) PROVE MapRest'
  <2>1. k \in Keys
    BY SizesAssumption
  <2> QED
    BY <1>3, <2>1, MapEnter DEF Remove, RemoveCall
<1> QED
  BY <1>1, <1>2, <1>3

(* find or get returns what find_record found.                              *)
LEMMA MapFindReturn ==
  ASSUME MapInv, FindReturn
  PROVE  MapRest'
<1>1. CASE hpc \in {"find", "get"} /\ FindHit /\ Leave(TRUE, result'.value)
  <2>1. PICK r \in first_match(cursor, arg.key) :
          result' = [NoResult EXCEPT !.found = TRUE, !.value = r.value]
    BY <1>1, ZenonT(30) DEF FindHit, Return
  <2>2. cursor \in Ids /\ buckets \in [Ids -> Bucket]
    BY <1>1, MapFacts, AllocatedIds DEF FindHit, MapInv, PackedInv, Inv, Live, Typed
  <2>3. r.value \in Values
    <3>1. r \in buckets[cursor].data
      BY <2>1 DEF first_match, matches
    <3>2. buckets[cursor].data \subseteq Record
      BY <2>2 DEF Bucket
    <3> QED
      BY <3>1, <3>2 DEF Record
  <2>4. result'.value \in Values
    BY <2>1, <2>3 DEF NoResult
  <2> QED
    BY <1>1, <2>4, MapLeave DEF FindHit, Return, layout_vars
<1>2. CASE hpc = "find" /\ FindMiss /\ Leave(FALSE, NoValue)
  BY <1>2, MapLeave DEF FindMiss, Return, layout_vars
<1> QED
  BY <1>1, <1>2 DEF FindReturn

(* remove returns.                                                          *)
LEMMA MapRemoveReturn ==
  ASSUME MapInv, RemoveReturn
  PROVE  MapRest'
<1>1. hpc = "remove" /\ Leave(result'.found, NoValue)
  BY DEF RemoveReturn
<1>2. CASE RemoveMiss
  <2>1. result'.found \in BOOLEAN
    BY <1>2 DEF RemoveMiss, Return, NoResult
  <2> QED
    BY <1>1, <1>2, <2>1, MapLeave DEF RemoveMiss, Return, layout_vars
<1>3. CASE RemoveHit
  <2>1. result'.found \in BOOLEAN
    BY <1>3 DEF RemoveHit, Return, NoResult
  <2>2. PICK r : buckets' = [buckets EXCEPT ![cursor] = without_record(@, r)]
    BY <1>3 DEF RemoveHit
  <2>3. \A b \in heads : buckets'[b].prefix_bits = buckets[b].prefix_bits
    BY <2>2, MapFacts DEF without_record, Bucket
  <2> QED
    BY <1>1, <1>3, <2>1, <2>3, MapLeave DEF RemoveHit, Return
<1> QED
  BY <1>2, <1>3 DEF RemoveReturn

(* get returns after create_record.                                         *)
LEMMA MapGetCreated ==
  ASSUME MapInv, GetCreated
  PROVE  MapRest'
<1>1. /\ hpc = "create" /\ Leave(FALSE, req.value) /\ pc' = "idle" /\ heads' = heads
  BY DEF GetCreated, CreateWrite, Return
<1>2. req.value \in Values
  BY <1>1 DEF MapInv, Asked, running
<1>3. PICK put, r : buckets' = [buckets EXCEPT ![cursor] = with_record(@, put, r)]
  BY DEF GetCreated, CreateWrite
<1>4. \A b \in heads : buckets'[b].prefix_bits = buckets[b].prefix_bits
  BY <1>3, MapFacts DEF with_record, Bucket
<1> QED
  BY <1>1, <1>2, <1>4, MapLeave

(* get misses, or goes on to create_record.                                 *)
LEMMA MapGetGoesOn ==
  ASSUME MapInv, GetMiss \/ GetCreate
  PROVE  MapRest'
<1>1. CASE GetMiss
  <2>1. /\ hpc = "get" /\ hpc' = "miss" /\ pc = "find" /\ pc' = "idle"
        /\ UNCHANGED <<bucket_id, req, prefix_bits, buffer, buckets, heads>>
    BY <1>1 DEF GetMiss, FindMiss, Return, layout_vars, catalogue_vars
  <2>2. Quiet
    BY <2>1 DEF Quiet, depth_of, splitting, constructed
  <2> QED
    BY <2>1, <2>2, MapGoOn DEF running, Control
<1>2. CASE GetCreate
  <2>1. /\ hpc \in {"miss", "grown", "placed"} /\ hpc' = "create"
        /\ pc = "idle" /\ pc' = "create"
        /\ UNCHANGED <<bucket_id, req, prefix_bits, buffer, buckets, heads>>
    BY <1>2 DEF GetCreate, CreateCall, Call, layout_vars, catalogue_vars,
       past_catalogue_split
  <2>2. Quiet
    BY <2>1 DEF Quiet, depth_of, splitting, constructed
  <2> QED
    BY <2>1, <2>2, MapGoOn DEF running, Control
<1> QED
  BY <1>1, <1>2

(* An iteration of a loop of the container does not concern the map.        *)
LEMMA MapInside ==
  ASSUME MapInv, Inside
  PROVE  MapRest'
<1>1. /\ ContainerStep /\ PackedInv
      /\ UNCHANGED <<prefix_bits, buffer, bucket_id, hpc, req>>
  BY DEF Inside, MapInv
<1>2. /\ heads' = heads /\ arg' = arg /\ result' = result
      /\ pc \in {"find", "remove", "create"} => pc' = pc
      /\ pc \in {"split", "free"} => pc' \in {"split", "free"}
      /\ splitting => sp'.result = sp.result /\ sp'.prefix_bits = sp.prefix_bits
  BY <1>1, StepKeeps, Zenon
<1>d. /\ \A b \in heads : buckets'[b].prefix_bits = buckets[b].prefix_bits
      /\ splitting => buckets'[sp.result].prefix_bits = buckets[sp.result].prefix_bits
  BY <1>1, StepKeepsDepth, Zenon
<1>3. pc \in {"find", "remove", "create", "split", "free"}
  <2>1. CASE FindNext \/ RemoveNext \/ CreateNext \/ CreateGrow
    BY <2>1 DEF FindNext, RemoveNext, CreateNext, CreateGrow
  <2>2. CASE SplitStep
    <3>1. pc = "split" \/ pc = "free"
      BY <2>2, ZenonT(30) DEF SplitStep, SplitBit1Append, SplitBit1Grow, SplitBit0Append,
         SplitBit0Advance, SplitNextBucket, SplitUnlink, SplitFree
    <3> QED
      BY <3>1
  <2> QED
    BY <1>1, <2>1, <2>2 DEF ContainerStep
<1>4. hpc \in {"get", "find", "remove", "create", "split"}
  BY <1>3 DEF MapInv, Control, MapTypes
<1>5. Quiet
  <2>1. splitting' <=> splitting
    BY <1>2, <1>3 DEF splitting
  <2>2. constructed /\ constructed'
    BY <1>1, <1>4 DEF constructed
  <2>3. \A b \in heads : depth_of(b)' = depth_of(b)
    BY <1>d DEF depth_of
  <2> QED
    BY <1>1, <1>2, <1>d, <2>1, <2>2, <2>3 DEF Quiet
<1>6. MapTypes'
  BY <1>1, <1>5, QuietKeeps DEF MapInv, MapTypes
<1>7. Control'
  BY <1>1, <1>2, <1>3 DEF MapInv, Control, splitting
<1>8. Asked'
  BY <1>1, <1>2 DEF MapInv, Asked, running, catalogue_find, hash
<1>9. Placed'
  BY <1>1, <1>4 DEF Placed
<1> QED
  BY <1>5, <1>6, <1>7, <1>8, <1>9, QuietKeeps DEF MapRest

-----------------------------------------------------------------------------
(* What create_bucket, called with depth 1, does to the chains.             *)
LEMMA NewHead ==
  ASSUME MapInv, CreateBucket(1), NEW n, n = new_bucket_id
  PROVE  /\ n \in Ids /\ n \notin heads /\ heads' = heads \cup {n}
         /\ ~splitting /\ ~splitting' /\ pc' = "idle"
         /\ depth_of(n)' = 1 /\ \A b \in heads : depth_of(b)' = depth_of(b)
<1>1. create_bucket /\ Inv({})
  BY DEF CreateBucket, MapInv, PackedInv
<1>2. n \in Ids /\ n \notin heads
  BY <1>1, TakesBucket
<1>3. /\ pc = "idle" /\ pc' = pc /\ heads' = heads \cup {n}
      /\ buckets' = [buckets EXCEPT ![n] = fresh_bucket(1)]
  BY DEF CreateBucket
<1>4. buckets'[n].prefix_bits = 1 /\ \A b \in heads : buckets'[b] = buckets[b]
  BY <1>2, <1>3, MapFacts DEF fresh_bucket
<1> QED
  BY <1>2, <1>3, <1>4 DEF depth_of, splitting

(* The constructor's first bucket, for the hashes that start with 0.        *)
LEMMA MapConstruct ==
  ASSUME MapInv, Construct
  PROVE  MapRest'
<1>1. PICK n : n = new_bucket_id
  OBVIOUS
<1>2. PICK z : z = prefix(zero_hash, 1)
  OBVIOUS
<1>3. /\ hpc = "constructor" /\ hpc' = "constructor1"
      /\ UNCHANGED <<bucket_id, req, prefix_bits>> /\ CreateBucket(1)
      /\ buffer' = [buffer EXCEPT ![prefix(zero_hash, prefix_bits)] = n]
  BY <1>1 DEF Construct, catalogue_assign
<1>4. heads = {} /\ prefix_bits = 1
  BY <1>3 DEF MapInv, Constructed
<1>5. /\ n \in Ids /\ heads' = {n} /\ ~splitting' /\ pc' = "idle" /\ depth_of(n)' = 1
  BY <1>1, <1>3, <1>4, NewHead
<1>6. z \in Prefixes(1)
  BY <1>2, SizesAssumption DEF Prefixes, prefix, zero_hash
<1>7. buffer' \in [Prefixes(1) -> Links] /\ buffer'[z] = n
  <2>1. buffer \in [Prefixes(1) -> Links]
    BY <1>4 DEF MapInv, MapTypes, DirectoryTypeOK, Links
  <2> QED
    BY <1>2, <1>3, <1>4, <1>5, <1>6, <2>1 DEF Links
<1>8. MapTypes'
  BY <1>3, <1>4, <1>7 DEF MapInv, MapTypes, DirectoryTypeOK, Links
<1>9. Depths'
  BY <1>5, SizesAssumption DEF Depths
<1>10. Constructed'
  BY <1>2, <1>3, <1>4, <1>5, <1>7 DEF Constructed
<1>11. Control' /\ Asked' /\ Named' /\ Placed'
  BY <1>3, <1>5 DEF Control, Asked, running, Named, constructed, Placed
<1> QED
  BY <1>8, <1>9, <1>10, <1>11 DEF MapRest

(* Its second, for the others: the catalogue of two entries is aligned.     *)
LEMMA MapConstruct1 ==
  ASSUME MapInv, Construct1
  PROVE  MapRest'
<1>1. PICK n : n = new_bucket_id
  OBVIOUS
<1>2. PICK z, o : z = prefix(zero_hash, 1) /\ o = prefix(ones_hash, 1)
  OBVIOUS
<1>3. /\ hpc = "constructor1" /\ hpc' = "idle"
      /\ UNCHANGED <<bucket_id, req, prefix_bits>> /\ CreateBucket(1)
      /\ buffer' = [buffer EXCEPT ![prefix(ones_hash, prefix_bits)] = n]
  BY <1>1 DEF Construct1, catalogue_assign
<1>4. /\ prefix_bits = 1 /\ heads = {buffer[z]}
      /\ depth_of(buffer[z]) = 1
  BY <1>2, <1>3 DEF MapInv, Constructed
<1>5. /\ n \in Ids /\ n # buffer[z] /\ heads' = {buffer[z], n} /\ ~splitting' /\ pc' = "idle"
      /\ depth_of(n)' = 1 /\ \A b \in heads : depth_of(b)' = depth_of(b)
  BY <1>1, <1>3, <1>4, NewHead
<1>6. /\ z \in Prefixes(1) /\ o \in Prefixes(1) /\ z[1] = 0 /\ o[1] = 1
  BY <1>2, SizesAssumption DEF Prefixes, prefix, zero_hash, ones_hash
<1>7. /\ buffer' \in [Prefixes(1) -> Links] /\ buffer'[o] = n /\ buffer'[z] = buffer[z]
  <2>1. buffer \in [Prefixes(1) -> Links]
    BY <1>4 DEF MapInv, MapTypes, DirectoryTypeOK, Links
  <2> QED
    BY <1>2, <1>3, <1>4, <1>5, <1>6, <2>1 DEF Links
<1>8. \A p \in Prefixes(1) : p = z \/ p = o
  BY <1>6 DEF Prefixes
<1>9. MapTypes'
  BY <1>3, <1>4, <1>7 DEF MapInv, MapTypes, DirectoryTypeOK, Links
<1>10. \A b \in heads' : depth_of(b)' = 1
  BY <1>4, <1>5
<1>11. Depths'
  BY <1>5, <1>10, SizesAssumption DEF Depths
<1>12. \A b \in heads' : depths'[b] = 1
  BY <1>5, <1>10 DEF depths, known_depth
<1>13. Aligned(1, buffer', depths', heads')
  <2>1. \A p, q \in Prefixes(1) : agree(p, q, 1) <=> p[1] = q[1]
    BY DEF agree
  <2>2. \A p, q \in Prefixes(1) :
          /\ depths'[buffer'[p]] = 1
          /\ buffer'[q] = buffer'[p] <=> p[1] = q[1]
    BY <1>5, <1>6, <1>7, <1>8, <1>12
  <2>3. heads' = {buffer'[p] : p \in Prefixes(1)}
    BY <1>5, <1>6, <1>7, <1>8
  <2> QED
    BY <2>1, <2>2, <2>3 DEF Aligned
<1>14. Named' /\ Constructed'
  BY <1>3, <1>4, <1>13 DEF Named, Constructed
<1>15. Control' /\ Asked' /\ Placed'
  BY <1>3, <1>5 DEF Control, Asked, running, Placed
<1> QED
  BY <1>9, <1>11, <1>14, <1>15 DEF MapRest

(* Doubling the catalogue, while a hash has more bits than its prefixes.    *)
LEMMA MapGetCatalogueSplit ==
  ASSUME MapInv, GetCatalogueSplit, MaxBuckets <= 2 ^ HASH_BITS
  PROVE  MapRest'
<1>1. /\ hpc = "miss" /\ hpc' = "grown" /\ buckets_count > 2 ^ prefix_bits
      /\ UNCHANGED <<bucket_id, req, buckets, heads, pc, arg, sp>>
      /\ prefix_bits' = prefix_bits + 1
      /\ buffer' = [p \in Prefixes(prefix_bits + 1) |-> buffer[prefix(p, prefix_bits)]]
  BY DEF GetCatalogueSplit, catalogue_too_small, catalogue_split, cvars, layout_vars,
     local_vars
<1>2. /\ constructed /\ constructed' /\ ~splitting /\ ~splitting'
  BY <1>1 DEF MapInv, Control, constructed, splitting
<1>3. prefix_bits' \in 1 .. HASH_BITS
  <2>1. buckets_count <= MaxBuckets /\ buckets_count \in Int
    BY SizesAssumption DEF MapInv, PackedInv, Inv, Live, Typed
  <2>2. prefix_bits # HASH_BITS
    BY <1>1, <2>1, SizesAssumption
  <2> QED
    BY <1>1, <2>2, MapFacts
<1>4. depths' = depths /\ \A b \in heads : depth_of(b)' = depth_of(b)
  <2>1. \A b \in heads : known_depth(b)' = known_depth(b)
    BY <1>1, <1>2 DEF known_depth, depth_of
  <2> QED
    BY <1>1, <2>1 DEF depths, depth_of
<1>5. /\ buffer' \in [Prefixes(prefix_bits') -> heads]
      /\ Aligned(prefix_bits', buffer', depths', heads')
  <2>1. Aligned(prefix_bits, buffer, depths, heads)
    BY <1>2 DEF MapInv, Named
  <2> QED
    BY <1>1, <1>2, <1>4, <2>1, MapFacts, AlignedSplit
<1>6. MapTypes'
  BY <1>1, <1>3, <1>5, MapFacts DEF MapInv, MapTypes, DirectoryTypeOK
<1>7. Control' /\ Placed' /\ Constructed' /\ Named'
  BY <1>1, <1>5 DEF MapInv, Control, Placed, Constructed, Named
<1>8. Depths'
  BY <1>1, <1>2, <1>4 DEF MapInv, Depths
<1>9. Asked'
  <2>1. /\ req.key \in Keys /\ bucket_id \in heads /\ req.value \in Values
        /\ buffer[prefix(hash, prefix_bits)] = bucket_id
    BY <1>1 DEF MapInv, Asked, running, catalogue_find
  <2>2. hash \in HashValues /\ hash' = hash
    BY <1>1, <2>1, SizesAssumption DEF hash
  <2>3. prefix(hash, prefix_bits + 1) \in Prefixes(prefix_bits + 1)
    BY <1>1, <1>3, <2>2, MapFacts, PrefixTypes DEF HashValues
  <2>4. prefix(prefix(hash, prefix_bits + 1), prefix_bits) = prefix(hash, prefix_bits)
    BY <2>2, MapFacts DEF prefix
  <2> QED
    BY <1>1, <2>1, <2>2, <2>3, <2>4 DEF Asked, catalogue_find
<1> QED
  BY <1>6, <1>7, <1>8, <1>9 DEF MapRest

(* The start of a split: the catalogue still has the chain's old depth.     *)
LEMMA MapGetSplit ==
  ASSUME MapInv, GetSplit
  PROVE  MapRest'
<1>1. PICK b, n, d : b = bucket_id /\ n = new_bucket_id /\ d = buckets[b].prefix_bits + 1
  OBVIOUS
<1>2. /\ hpc \in {"miss", "grown"} /\ hpc' = "split" /\ SplitCall(b)
      /\ depth_of(b) < prefix_bits
      /\ UNCHANGED <<bucket_id, req, prefix_bits, buffer>>
  BY <1>1 DEF GetSplit, past_catalogue_split, split_wanted, catalogue_vars
<1>3. /\ constructed /\ constructed' /\ pc = "idle" /\ ~splitting
  BY <1>2 DEF MapInv, Control, constructed, splitting
<1>4. /\ b \in heads /\ req.key \in Keys /\ req.value \in Values
      /\ catalogue_find(hash) = b
  BY <1>1, <1>2 DEF MapInv, Asked, running
<1>5. /\ create_bucket /\ pc' = "split" /\ heads' = heads
      /\ arg' = [bucket_id |-> b, key |-> NoValue, value |-> NoValue]
      /\ buckets' = begin_reading([buckets EXCEPT ![b].prefix_bits = d,
                                                  ![n] = fresh_bucket(d)], b)
  BY <1>1, <1>2 DEF SplitCall, Call
<1>6. sp'.prefix_bits = d /\ sp'.result = n
  BY <1>1, <1>2 DEF SplitCall
<1>7. n \in Ids /\ n \notin heads /\ n # b
  BY <1>1, <1>4, <1>5, TakesBucket DEF MapInv, PackedInv
<1>8. /\ d \in 2 .. prefix_bits /\ d \in Int
  BY <1>1, <1>2, <1>4, MapFacts DEF depth_of
<1>9. /\ buckets'[b].prefix_bits = d /\ buckets'[n].prefix_bits = d
      /\ \A x \in heads \ {b} : buckets'[x] = buckets[x]
  <2>1. PICK bs : bs = [buckets EXCEPT ![b].prefix_bits = d, ![n] = fresh_bucket(d)]
    OBVIOUS
  <2>2. /\ bs[b] = [buckets[b] EXCEPT !.prefix_bits = d] /\ bs[n] = fresh_bucket(d)
        /\ \A x \in heads \ {b} : bs[x] = buckets[x]
        /\ DOMAIN bs = Ids
    BY <1>4, <1>7, <2>1, MapFacts
  <2>3. bs[b].prefix_bits = d /\ bs[n].prefix_bits = d
    BY <1>4, <2>2, MapFacts DEF fresh_bucket, Bucket
  <2>4. buckets' = [bs EXCEPT ![b].bytes_used = 0]
    BY <1>5, <2>1 DEF begin_reading
  <2> QED
    BY <1>4, <1>7, <2>2, <2>3, <2>4, MapFacts
<1>10. splitting'
  BY <1>5 DEF splitting
<1>11. depths' = depths
  <2>1. \A x \in heads : known_depth(x)' = known_depth(x)
    <3>1. known_depth(b)' = known_depth(b)
      <4>1. buckets[b].prefix_bits \in Int
        BY <1>4, MapFacts DEF depth_of
      <4>2. known_depth(b) = buckets[b].prefix_bits
        BY <1>3 DEF known_depth, depth_of
      <4>3. arg'.bucket_id = b
        BY <1>5
      <4>4. known_depth(b)' = d - 1
        BY <1>9, <1>10, <4>3 DEF known_depth, depth_of
      <4> QED
        BY <1>1, <4>1, <4>2, <4>4
    <3>2. \A x \in heads \ {b} : known_depth(x)' = known_depth(x)
      BY <1>3, <1>5, <1>9, <1>10 DEF known_depth, depth_of
    <3> QED
      BY <3>1, <3>2
  <2> QED
    BY <1>5, <2>1 DEF depths
<1>12. MapTypes'
  BY <1>2 DEF MapInv, MapTypes, DirectoryTypeOK
<1>13. Control' /\ Placed' /\ Constructed'
  BY <1>1, <1>2, <1>5, <1>10 DEF Control, Placed, Constructed
<1>14. Named'
  BY <1>2, <1>3, <1>5, <1>11 DEF MapInv, Named
<1>15. Asked'
  BY <1>1, <1>2, <1>4, <1>5 DEF Asked, catalogue_find, hash
<1>16. Depths'
  <2>1. \A x \in heads' : depth_of(x)' \in 1 .. HASH_BITS
    <3>1. depth_of(b)' \in 1 .. HASH_BITS
      BY <1>8, <1>9, MapFacts DEF depth_of
    <3>2. \A x \in heads \ {b} : depth_of(x)' \in 1 .. HASH_BITS
      BY <1>9, MapFacts DEF depth_of
    <3> QED
      BY <1>5, <3>1, <3>2
  <2>2. /\ arg'.bucket_id \in heads' /\ depth_of(arg.bucket_id)' = sp'.prefix_bits
        /\ depth_of(sp.result)' = sp'.prefix_bits
        /\ sp'.prefix_bits \in 2 .. prefix_bits'
    BY <1>2, <1>4, <1>5, <1>6, <1>8, <1>9 DEF depth_of
  <2> QED
    BY <2>1, <2>2 DEF Depths
<1> QED
  BY <1>12, <1>13, <1>14, <1>15, <1>16 DEF MapRest

(****************************************************************************)
(* Its end: set gives the new chain the entries of the old one that have    *)
(* the new bit, and get goes on with the chain its key now belongs to.      *)
(****************************************************************************)
LEMMA MapGetSplitReturn ==
  ASSUME MapInv, GetSplitReturn
  PROVE  /\ MapRest'
         /\ \A p \in Prefixes(prefix_bits) :
              buffer'[p] = IF buffer[p] = bucket_id /\ p[depth_of(bucket_id)] = 1
                             THEN sp.result ELSE buffer[p]
<1>1. PICK b, c, d : b = bucket_id /\ c = sp.result /\ d = depth_of(bucket_id)
  OBVIOUS
<1>2. /\ hpc = "split" /\ hpc' = "placed" /\ SplitReturn /\ req' = req
      /\ prefix_bits' = prefix_bits
      /\ buffer' = [p \in Prefixes(prefix_bits) |->
                      IF agree(p, [hash EXCEPT ![d] = 1], d) THEN c ELSE buffer[p]]
      /\ bucket_id' = IF hash[d] = 1 THEN c ELSE b
  BY <1>1 DEF GetSplitReturn, catalogue_set, new_chain_hash, chain_after_split
<1>3. /\ pc' = "idle" /\ heads' = heads \cup {c} /\ buckets' = buckets
      /\ result' = [NoResult EXCEPT !.bucket_id = c]
  BY <1>1, <1>2 DEF SplitReturn, Return, layout_vars
<1>4. /\ constructed /\ constructed' /\ splitting /\ ~splitting' /\ arg.bucket_id = b
  BY <1>1, <1>2, <1>3 DEF MapInv, Control, constructed, splitting
<1>5. /\ b \in heads /\ req.key \in Keys /\ req.value \in Values
      /\ buffer[prefix(hash, prefix_bits)] = b
  BY <1>1, <1>2 DEF MapInv, Asked, running, catalogue_find
<1>6. c \in Ids /\ c \notin heads
  BY <1>1, <1>4, AllocatedIds DEF MapInv, PackedInv, Inv, Live, Typed, RootsDiffer
<1>7. /\ d \in Nat /\ d >= 2 /\ d <= prefix_bits
      /\ depth_of(b) = d /\ depth_of(c) = d
  BY <1>1, <1>4, MapFacts DEF MapInv, Depths
<1>8. depths[b] + 1 = d
  BY <1>4, <1>5, <1>7 DEF depths, known_depth
<1>9. depths' = [x \in heads \cup {c} |-> IF x \in {b, c} THEN d ELSE depths[x]]
  <2>1. \A x \in heads \cup {c} : depth_of(x)' = depth_of(x)
    BY <1>3 DEF depth_of
  <2>2. \A x \in heads \cup {c} :
          known_depth(x)' = IF x \in {b, c} THEN d ELSE depths[x]
    BY <1>4, <1>7, <2>1 DEF known_depth, depths
  <2> QED
    BY <1>3, <2>2 DEF depths
<1>10. hash \in [1 .. HASH_BITS -> {0, 1}] /\ hash' = hash
  BY <1>2, <1>5, SizesAssumption DEF hash, HashValues
<1>11. /\ prefix_bits \in Nat /\ HASH_BITS \in Nat /\ prefix_bits <= HASH_BITS
       /\ buffer \in [Prefixes(prefix_bits) -> heads] /\ depths \in [heads -> Nat]
       /\ Aligned(prefix_bits, buffer, depths, heads)
       /\ heads \subseteq Ids
  BY <1>4, MapFacts DEF MapInv, Named
<1>12. /\ buffer' \in [Prefixes(prefix_bits) -> heads \cup {c}]
       /\ Aligned(prefix_bits, buffer', depths', heads \cup {c})
       /\ buffer'[prefix(hash, prefix_bits)] = IF hash[d] = 1 THEN c ELSE b
       /\ \A p \in Prefixes(prefix_bits) :
            buffer'[p] = IF buffer[p] = b /\ p[d] = 1 THEN c ELSE buffer[p]
  <2>1. PICK n, table, depth, H, h, new, deeper :
          /\ n = prefix_bits /\ table = buffer /\ depth = depths /\ H = heads
          /\ h = hash /\ new = buffer' /\ deeper = depths'
    OBVIOUS
  <2>2. /\ n \in Nat /\ n <= HASH_BITS /\ table \in [Prefixes(n) -> H]
        /\ depth \in [H -> Nat] /\ Aligned(n, table, depth, H)
    BY <1>11, <2>1
  <2>3. /\ h \in HashValues /\ b \in H /\ table[prefix(h, n)] = b
        /\ d = depth[b] + 1 /\ d <= n /\ c \notin H
    BY <1>5, <1>6, <1>7, <1>8, <1>10, <2>1 DEF HashValues
  <2>4. /\ new \in [Prefixes(n) -> H \cup {c}]
        /\ \A p \in Prefixes(n) :
             new[p] = IF agree(p, [h EXCEPT ![d] = 1], d) THEN c ELSE table[p]
    <3>1. new = [p \in Prefixes(n) |->
                   IF agree(p, [h EXCEPT ![d] = 1], d) THEN c ELSE table[p]]
      BY <1>2, <2>1
    <3> QED
      BY <2>2, <3>1
  <2>5. \A x \in H \cup {c} : deeper[x] = IF x \in {b, c} THEN d ELSE depth[x]
    BY <1>9, <2>1
  <2>6. TakesOver(n, table, depth, H, h, b, d, c, new, deeper)
    BY ONLY <2>2, <2>3, <2>4, <2>5 DEF TakesOver
  <2>7. /\ Aligned(n, new, deeper, H \cup {c})
        /\ new[prefix(h, n)] = IF h[d] = 1 THEN c ELSE b
        /\ \A p \in Prefixes(n) : new[p] = IF table[p] = b /\ p[d] = 1 THEN c ELSE table[p]
    BY ONLY <2>6, AlignedSet
  <2> QED
    BY <2>1, <2>4, <2>7
<1>13. bucket_id' \in {b, c}
  BY <1>2
<1>14. MapTypes'
  BY <1>2, <1>5, <1>6, <1>11, <1>12, <1>13 DEF MapInv, MapTypes, DirectoryTypeOK, Links
<1>15. Control' /\ Constructed' /\ Named'
  BY <1>2, <1>3, <1>12 DEF Control, Constructed, Named
<1>16. Depths'
  <2>1. \A x \in heads' : depth_of(x)' \in 1 .. HASH_BITS
    BY <1>3, <1>7, <1>11, MapFacts DEF depth_of
  <2> QED
    BY <1>4, <2>1 DEF Depths
<1>17. Asked'
  BY <1>2, <1>3, <1>5, <1>10, <1>12, <1>13 DEF Asked, catalogue_find
<1>18. Placed'
  <2>1. result'.bucket_id = c
    BY <1>3 DEF NoResult
  <2> QED
    BY <1>3, <1>7, <1>13, <2>1 DEF Placed, depth_of
<1> QED
  BY <1>1, <1>12, <1>14, <1>15, <1>16, <1>17, <1>18 DEF MapRest

-----------------------------------------------------------------------------
(* The invariant holds when the constructor starts, and always.             *)
LEMMA MapInit == Init => MapInv
<1> SUFFICES ASSUME Init PROVE MapInv
  OBVIOUS
<1>1. PackedInv
  BY PackedInit DEF Init
<1>2. /\ heads = {} /\ pc = "idle" /\ hpc = "constructor" /\ req = NoReq
      /\ bucket_id = INVALID_BUCKET_ID /\ prefix_bits = 1
      /\ buffer = [p \in Prefixes(1) |-> INVALID_BUCKET_ID]
  BY DEF Init, ContainerInit, DirectoryInit
<1>3. DirectoryTypeOK
  BY <1>2, SizesAssumption DEF DirectoryTypeOK
<1>4. req \in Requests
  BY <1>2 DEF Requests, NoReq
<1>5. MapTypes
  BY <1>2, <1>3, <1>4 DEF MapTypes, Links
<1>6. Control /\ Asked /\ Depths /\ Constructed /\ Named /\ Placed
  BY <1>2 DEF Control, Asked, running, Depths, splitting, Constructed, Named, constructed,
     Placed
<1> QED
  BY <1>1, <1>5, <1>6 DEF MapInv

(* Every step of the map preserves the invariant.                           *)
LEMMA MapStep ==
  MaxBuckets <= 2 ^ HASH_BITS /\ MapInv /\ [Next]_hvars => MapInv'
<1> SUFFICES ASSUME MaxBuckets <= 2 ^ HASH_BITS, MapInv, [Next]_hvars
             PROVE  MapInv'
  OBVIOUS
<1>1. CASE Next
  <2>1. PackedInv'
    BY <1>1, MapUses, PackedStep DEF MapInv
  <2>2. MapRest'
    BY <1>1, MapConstruct, MapConstruct1, MapCalls, MapFindReturn, MapRemoveReturn,
       MapGetGoesOn, MapGetCatalogueSplit, MapGetSplit, MapGetSplitReturn, MapGetCreated,
       MapInside DEF Next
  <2> QED
    BY <2>1, <2>2 DEF MapInv, MapRest
<1>2. CASE UNCHANGED hvars
  <2>1. UNCHANGED cvars
    BY <1>2 DEF hvars
  <2>2. UNCHANGED <<buckets, heads, pc, arg, sp, result, prefix_bits, buffer, bucket_id,
                    hpc, req>>
    BY <1>2 DEF hvars, cvars, layout_vars, local_vars
  <2>3. PackedInv'
    BY <2>1, PackedStep DEF MapInv
  <2>4. MapTypes' /\ Control' /\ Constructed' /\ Placed'
    BY <2>2 DEF MapInv, MapTypes, DirectoryTypeOK, Control, splitting, Constructed,
       depth_of, Placed
  <2>5. Asked'
    BY <2>2 DEF MapInv, Asked, running, catalogue_find, hash
  <2>6. Depths'
    BY <2>2 DEF MapInv, Depths, splitting, depth_of
  <2>7. Named'
    BY <2>2 DEF MapInv, Named, constructed, depths, known_depth, splitting, depth_of
  <2> QED
    BY <2>3, <2>4, <2>5, <2>6, <2>7 DEF MapInv
<1> QED
  BY <1>1, <1>2

(* Every step of every method keeps it.                                     *)
LEMMA MapAlways ==
  ASSUME MaxBuckets <= 2 ^ HASH_BITS
  PROVE  Spec => []MapInv
<1>1. MapInv /\ [Next]_hvars => MapInv'
  BY MapStep
<1> QED
  BY <1>1, MapInit, PTL DEF Spec

(* Alignment in terms of the catalogue's own entries.                       *)
LEMMA InvAligned == MapInv => DirectoryAligned
<1> SUFFICES ASSUME MapInv, constructed
             PROVE  /\ \A p, q \in Prefixes(prefix_bits) :
                         /\ known_depth(buffer[p]) <= prefix_bits
                         /\ buffer[q] = buffer[p] <=> agree(p, q, known_depth(buffer[p]))
                    /\ heads = {buffer[p] : p \in Prefixes(prefix_bits)}
  BY DEF DirectoryAligned
<1>1. Aligned(prefix_bits, buffer, depths, heads)
  BY DEF MapInv, Named
<1>2. \A p \in Prefixes(prefix_bits) : depths[buffer[p]] = known_depth(buffer[p])
  BY MapFacts DEF depths
<1> QED
  BY <1>1, <1>2 DEF Aligned

-----------------------------------------------------------------------------
(****************************************************************************)
(* Every variable of the map, the catalogue and the container keeps its     *)
(* type; in particular the catalogue never has more bits than a hash, as    *)
(* long as the file has no more buckets than there are hashes.              *)
(****************************************************************************)
THEOREM MapTypeCorrect ==
  ASSUME MaxBuckets <= 2 ^ HASH_BITS
  PROVE  Spec => []TypeOK
<1>1. MapInv => TypeOK
  BY InvTypes DEF MapInv, MapTypes, TypeOK, Links, Requests
<1> QED
  BY <1>1, MapAlways, PTL

(****************************************************************************)
(* The catalogue is aligned: the entries that name a chain of depth d are   *)
(* exactly the extensions of one prefix of d bits, whatever order of        *)
(* catalogue splits, bucket splits and catalogue_.set calls get made.       *)
(****************************************************************************)
THEOREM CatalogueAligned ==
  ASSUME MaxBuckets <= 2 ^ HASH_BITS
  PROVE  Spec => []DirectoryAligned
  BY MapAlways, InvAligned, PTL

(****************************************************************************)
(* The two asserts of get after container_.split: the catalogue leads the   *)
(* key's hash to the chain that get goes on with, and both chains are of    *)
(* the same depth.                                                          *)
(****************************************************************************)
THEOREM GetAssertsHold ==
  ASSUME MaxBuckets <= 2 ^ HASH_BITS
  PROVE  Spec => []GetAsserts
<1>1. MapInv => GetAsserts
  BY DEF MapInv, Asked, running, Placed, GetAsserts
<1> QED
  BY <1>1, MapAlways, PTL

(****************************************************************************)
(* The map keeps to the rules of the container, so that what is proved of   *)
(* the container holds inside the map: no bucket is shared or lost, the     *)
(* records of every bucket are packed, and every bucket lies in the mapping.*)
(****************************************************************************)
THEOREM ContainerInMap ==
  ASSUME MaxBuckets <= 2 ^ HASH_BITS
  PROVE  Spec => [](NoSharing /\ NoLeak /\ Packed /\ SplitAsserts /\ InMapping)
<1>1. MapInv => NoSharing /\ NoLeak /\ Packed /\ SplitAsserts /\ InMapping
  BY InvNoSharing, InvNoLeak, InvPacked, InvSplitAsserts DEF MapInv, PackedInv, Mapped
<1> QED
  BY <1>1, MapAlways, PTL

-----------------------------------------------------------------------------
(* The size of the catalogue's table, for any number of bits.               *)
LEMMA TableSize ==
  ASSUME NEW n \in Nat
  PROVE  /\ 2 ^ n \in Nat /\ 2 ^ n >= 1
         /\ 2 ^ (n + 1) \in Nat /\ 2 ^ n <= 2 ^ (n + 1)
<1> DEFINE bits(m) == 1 .. m
<1>1. \A m \in Nat : IsFiniteSet(bits(m)) /\ Cardinality(bits(m)) = m
  <2> TAKE m \in Nat
  <2>1. 1 \in Int /\ m \in Int /\ (1 > m => m = 0) /\ m - 1 + 1 = m
    OBVIOUS
  <2> QED
    BY <2>1, FS_Interval
<1>2. \A m \in Nat : IsFiniteSet(SUBSET bits(m)) /\ Cardinality(SUBSET bits(m)) = 2 ^ m
  BY <1>1, FS_SUBSET
<1>3. \A m \in Nat : 2 ^ m \in Nat /\ 2 ^ m # 0
  <2> TAKE m \in Nat
  <2>1. {} \in SUBSET bits(m)
    OBVIOUS
  <2> QED
    BY <1>2, <2>1, FS_CardinalityType, FS_EmptySet
<1>4. SUBSET bits(n) \subseteq SUBSET bits(n + 1)
  OBVIOUS
<1>5. Cardinality(SUBSET bits(n)) <= Cardinality(SUBSET bits(n + 1))
  <2>1. PICK A, B : A = SUBSET bits(n) /\ B = SUBSET bits(n + 1)
    OBVIOUS
  <2>2. n + 1 \in Nat
    OBVIOUS
  <2>3. IsFiniteSet(B) /\ A \in SUBSET B
    BY <1>2, <1>4, <2>1, <2>2
  <2>4. Cardinality(A) <= Cardinality(B)
    BY <2>3, FS_Subset
  <2> QED
    BY <2>1, <2>4
<1>6. 2 ^ n <= 2 ^ (n + 1)
  <2>1. n + 1 \in Nat
    OBVIOUS
  <2>2. Cardinality(SUBSET bits(n)) = 2 ^ n /\ Cardinality(SUBSET bits(n + 1)) = 2 ^ (n + 1)
    BY ONLY <1>2, <2>1, n \in Nat
  <2> HIDE DEF bits
  <2> QED
    BY ONLY <1>5, <2>2
<1> QED
  BY <1>3, <1>6

(* Every index below the size of the table is that of an entry.             *)
LEMMA EntryTypes ==
  ASSUME NEW i \in Nat, NEW n \in Nat
  PROVE  prefix_at(i, n) \in Prefixes(n)
<1>1. \A j \in 1 .. n : (i \div 2 ^ (n - j)) % 2 \in {0, 1}
  <2> TAKE j \in 1 .. n
  <2>1. PICK d \in Nat : d = 2 ^ (n - j) /\ d >= 1
    BY TableSize
  <2>2. i \div d \in Int
    BY <2>1
  <2> QED
    BY <2>1, <2>2
<1> QED
  BY <1>1 DEF prefix_at, Prefixes

(* An entry names a bucket of the file.                                     *)
LEMMA EntryNames ==
  ASSUME MapInv, constructed, NEW i \in Nat
  PROVE  entry(i) \in heads /\ entry(i) \in Allocated
<1>1. prefix_at(i, prefix_bits) \in Prefixes(prefix_bits)
  BY MapFacts, EntryTypes
<1> QED
  BY <1>1, MapFacts DEF entry, MapInv, PackedInv, Inv, Live, Typed

(* The step to the next entry does not go past the end of the table, and    *)
(* not past an entry that differs from the one before it.                   *)
LEMMA NextIndex ==
  ASSUME MapInv, NEW i \in 0 .. buffer_size - 1, NEW next, next = next_index(i)
  PROVE  /\ next \in i + 1 .. buffer_size
         /\ next = buffer_size \/ entry(next) # entry(next - 1)
         /\ \A m \in i + 1 .. next - 1 : entry(m) = entry(m - 1)
<1>1. PICK n \in Nat : n = buffer_size
  BY MapFacts, TableSize DEF buffer_size
<1> DEFINE differs(j) == j = n \/ entry(j) # entry(j - 1)
<1>2. PICK T : T = {j \in i + 1 .. n : differs(j)}
  OBVIOUS
<1>3. T \in SUBSET Nat /\ n \in T
  BY <1>1, <1>2
<1>4. PICK j \in T : \A y \in T : j <= y
  BY <1>3, LeastNumber
<1>5. j \in i + 1 .. n /\ differs(j)
  BY <1>2, <1>4
<1>6. ASSUME NEW m \in i + 1 .. j - 1 PROVE entry(m) = entry(m - 1)
  <2>1. m \in i + 1 .. n /\ ~(j <= m)
    BY <1>1, <1>5
  <2>2. m \notin T
    BY <1>4, <2>1
  <2> QED
    BY <1>2, <2>1, <2>2
<1> QED
  BY <1>1, <1>5, <1>6 DEF next_index

-----------------------------------------------------------------------------
(* A table of one bit more has twice as many entries.                       *)
LEMMA Doubling ==
  ASSUME NEW n \in Nat
  PROVE  2 ^ (n + 1) = 2 * 2 ^ n
<1> DEFINE A == SUBSET (1 .. n)
           B == {T \in SUBSET (1 .. n + 1) : n + 1 \in T}
           f == [T \in A |-> T \cup {n + 1}]
<1>1. \A m \in Nat : IsFiniteSet(1 .. m) /\ Cardinality(1 .. m) = m
  <2> TAKE m \in Nat
  <2>1. 1 \in Int /\ m \in Int /\ (1 > m => m = 0) /\ m - 1 + 1 = m
    OBVIOUS
  <2> QED
    BY <2>1, FS_Interval
<1>2. n + 1 \in Nat
  OBVIOUS
<1>3. IsFiniteSet(A) /\ Cardinality(A) = 2 ^ n
  BY <1>1, FS_SUBSET
<1>4. Cardinality(SUBSET (1 .. n + 1)) = 2 ^ (n + 1)
  BY <1>1, <1>2, FS_SUBSET
<1>5. SUBSET (1 .. n + 1) = A \cup B
  <2>1. \A T \in SUBSET (1 .. n + 1) : n + 1 \notin T => T \in SUBSET (1 .. n)
    OBVIOUS
  <2>2. SUBSET (1 .. n) \subseteq SUBSET (1 .. n + 1)
    OBVIOUS
  <2> QED
    BY <2>1, <2>2
<1>6. A \cap B = {}
  OBVIOUS
<1>7. f \in Bijection(A, B)
  <2>1. \A T \in A : T \cup {n + 1} \in B /\ n + 1 \notin T
    OBVIOUS
  <2>2. f \in [A -> B]
    BY <2>1
  <2>3. \A S, T \in A : f[S] = f[T] => S = T
    BY <2>1
  <2>4. \A U \in B : \E T \in A : f[T] = U
    <3> TAKE U \in B
    <3>1. U \ {n + 1} \in A /\ (U \ {n + 1}) \cup {n + 1} = U
      OBVIOUS
    <3>2. f[U \ {n + 1}] = U
      BY <3>1
    <3> QED
      BY <3>1, <3>2
  <2> HIDE DEF f, A, B
  <2> QED
    BY <2>2, <2>3, <2>4 DEF Bijection, Injection, Surjection, IsInjective
<1>8. ExistsBijection(A, B)
  BY <1>7 DEF ExistsBijection
<1>9. IsFiniteSet(B) /\ Cardinality(B) = Cardinality(A)
  BY <1>3, <1>8, FS_Bijection
<1>10. Cardinality(A \cup B) = Cardinality(A) + Cardinality(B) - Cardinality(A \cap B)
  BY <1>3, <1>9, FS_Union
<1>11. 2 ^ n \in Nat
  BY TableSize
<1>12. Cardinality(A \cap B) = 0
  BY <1>6, FS_EmptySet
<1>13. Cardinality(A \cup B) = 2 ^ (n + 1)
  BY <1>4, <1>5
<1> HIDE DEF A, B
<1>14. 2 ^ (n + 1) = 2 ^ n + 2 ^ n - 0
  BY ONLY <1>3, <1>9, <1>10, <1>12, <1>13
<1> QED
  BY ONLY <1>11, <1>14

(* A table of no bits has one.                                             *)
LEMMA OneEntry == 2 ^ 0 = 1
<1>1. 1 \in Int /\ 0 \in Int /\ 1 > 0 /\ 1 .. 0 = {}
  OBVIOUS
<1>2. IsFiniteSet(1 .. 0) /\ Cardinality(1 .. 0) = 0
  BY <1>1, FS_EmptySet
<1>3. Cardinality(SUBSET (1 .. 0)) = 2 ^ 0
  BY <1>2, FS_SUBSET
<1>4. SUBSET (1 .. 0) = {{}}
  BY <1>1
<1> QED
  BY <1>3, <1>4, FS_Singleton

(* Dividing by m, and again by 2.                                           *)
LEMMA Halving ==
  ASSUME NEW a \in Nat, NEW m \in Nat, m >= 1
  PROVE  /\ a \div m \in Nat /\ a \div (2 * m) \in Nat
         /\ a \div m = 2 * (a \div (2 * m)) + ((a \div m) % 2)
<1>1. PICK q \in Nat : q = a \div m
  OBVIOUS
<1>2. m * q <= a /\ a < m * q + m
  BY <1>1
<1>3. PICK r \in Nat : r = q \div 2
  OBVIOUS
<1>4. PICK s \in {0, 1} : s = q % 2 /\ q = 2 * r + s
  BY <1>3
<1>5. 2 * m * r <= a /\ a < 2 * m * r + 2 * m
  <2>1. m * q = 2 * m * r + m * s
    BY <1>4
  <2>2. m * s \in {0, m}
    BY <1>4
  <2>3. m * q \in Nat /\ 2 * m * r \in Nat
    OBVIOUS
  <2> QED
    BY <1>2, <2>1, <2>2, <2>3
<1>6. a \div (2 * m) = r
  BY <1>5
<1> QED
  BY <1>1, <1>4, <1>6

(* Division is monotone.                                                   *)
LEMMA DivMonotone ==
  ASSUME NEW a \in Nat, NEW b \in Nat, a <= b, NEW m \in Nat, m >= 1
  PROVE  a \div m <= b \div m
  OBVIOUS

(* A further digit behind those of a.                                       *)
LEMMA OneMoreDigit ==
  ASSUME NEW a \in Nat, NEW s \in {0, 1}, NEW m \in Nat, m >= 1
  PROVE  (2 * a + s) \div (2 * m) = a \div m
<1>1. PICK q \in Nat : q = a \div m
  OBVIOUS
<1>2. m * q <= a /\ a < m * q + m
  BY <1>1
<1>3. 2 * m * q <= 2 * a + s /\ 2 * a + s < 2 * m * q + 2 * m
  BY <1>2
<1> QED
  BY <1>1, <1>3

(* Entries with the same first d bits have the same number up to there.     *)
LEMMA SameTop ==
  ASSUME NEW n \in Nat, NEW i \in 0 .. 2 ^ n - 1, NEW j \in 0 .. 2 ^ n - 1, NEW d \in 0 .. n,
         agree(prefix_at(i, n), prefix_at(j, n), d)
  PROVE  \A k \in 0 .. d : i \div 2 ^ (n - k) = j \div 2 ^ (n - k)
<1> DEFINE same(k) == i \div 2 ^ (n - k) = j \div 2 ^ (n - k)
<1>1. PICK K : K = {k \in 0 .. d : ~same(k)}
  OBVIOUS
<1>2. SUFFICES ASSUME K # {} PROVE FALSE
  BY <1>1
<1>3. K \in SUBSET Nat
  BY <1>1
<1>4. PICK k \in K : \A y \in K : k <= y
  BY <1>2, <1>3, LeastNumber
<1>5. k \in 0 .. d /\ ~same(k)
  BY <1>1, <1>4
<1>6. k # 0
  <2>1. PICK m \in Nat : m = 2 ^ n
    BY TableSize
  <2>2. i \in Nat /\ i < m /\ j \in Nat /\ j < m
    BY <2>1
  <2>3. i \div m = 0 /\ j \div m = 0
    BY <2>2
  <2>4. k = 0 => 2 ^ (n - k) = m
    BY <2>1
  <2> QED
    BY <1>5, <2>3, <2>4
<1>7. k - 1 \in 0 .. d /\ ~(k <= k - 1) /\ k \in 1 .. n /\ n - k \in Nat
  BY <1>5, <1>6
<1>8. same(k - 1)
  BY <1>1, <1>4, <1>7
<1>9. PICK m \in Nat : m = 2 ^ (n - k) /\ m >= 1
  BY <1>7, TableSize
<1>10. 2 ^ (n - (k - 1)) = 2 * m
  <2>1. n - (k - 1) = (n - k) + 1
    BY <1>7
  <2> QED
    BY <1>7, <1>9, <2>1, Doubling
<1>11. (i \div m) % 2 = (j \div m) % 2
  <2>1. prefix_at(i, n)[k] = prefix_at(j, n)[k]
    BY <1>5, <1>7 DEF agree
  <2> QED
    BY <1>7, <1>9, <2>1 DEF prefix_at
<1>12. i \div (2 * m) = j \div (2 * m)
  BY <1>8, <1>10
<1>13. i \in Nat /\ j \in Nat
  BY TableSize
<1>14. i \div m = j \div m
  <2>1. i \div m = 2 * (i \div (2 * m)) + ((i \div m) % 2)
    BY <1>9, <1>13, Halving
  <2>2. j \div m = 2 * (j \div (2 * m)) + ((j \div m) % 2)
    BY <1>9, <1>13, Halving
  <2> QED
    BY ONLY <1>11, <1>12, <2>1, <2>2
<1> QED
  BY <1>5, <1>9, <1>14

(* And so have the entries between them: those of a chain are in a row.     *)
LEMMA Between ==
  ASSUME NEW n \in Nat, NEW i \in 0 .. 2 ^ n - 1, NEW j \in 0 .. 2 ^ n - 1, NEW d \in 0 .. n,
         agree(prefix_at(i, n), prefix_at(j, n), d),
         NEW x \in Nat, i <= x, x <= j
  PROVE  agree(prefix_at(i, n), prefix_at(x, n), d)
<1>1. i \in Nat /\ j \in Nat
  BY TableSize
<1> SUFFICES ASSUME NEW k \in 1 .. d
             PROVE  prefix_at(i, n)[k] = prefix_at(x, n)[k]
  BY DEF agree
<1>2. PICK m \in Nat : m = 2 ^ (n - k) /\ m >= 1
  BY TableSize
<1>3. i \div m = j \div m
  <2>1. \A y \in 0 .. d : i \div 2 ^ (n - y) = j \div 2 ^ (n - y)
    BY SameTop
  <2>2. k \in 0 .. d
    OBVIOUS
  <2> QED
    BY <1>2, <2>1, <2>2
<1>4. i \div m <= x \div m /\ x \div m <= j \div m
  BY <1>1, <1>2, DivMonotone
<1>5. i \div m \in Nat /\ x \div m \in Nat /\ j \div m \in Nat
  BY <1>1, <1>2, Halving
<1>6. i \div m = x \div m
  BY <1>3, <1>4, <1>5
<1> QED
  BY <1>2, <1>6 DEF prefix_at

(* Every prefix has an entry.                                               *)
LEMMA EveryPrefix ==
  ASSUME NEW n \in Nat, NEW p \in Prefixes(n)
  PROVE  \E i \in 0 .. 2 ^ n - 1 : p = prefix_at(i, n)
<1> DEFINE found(i, k) == \A j \in 1 .. k : (i \div 2 ^ (k - j)) % 2 = p[j]
           good(k) == \E i \in 0 .. 2 ^ k - 1 : found(i, k)
<1>0. p \in [1 .. n -> {0, 1}]
  BY DEF Prefixes
<1>1. PICK K : K = {k \in 0 .. n : ~good(k)}
  OBVIOUS
<1>2. K = {}
  <2> SUFFICES ASSUME K # {} PROVE FALSE
    OBVIOUS
  <2>1. K \in SUBSET Nat
    BY <1>1
  <2>2. PICK k \in K : \A y \in K : k <= y
    BY <2>1, LeastNumber
  <2>3. k \in 0 .. n /\ ~good(k)
    BY <1>1, <2>2
  <2>4. good(0)
    <3>1. 0 \in 0 .. 2 ^ 0 - 1
      BY OneEntry
    <3>2. found(0, 0)
      OBVIOUS
    <3> QED
      BY <3>1, <3>2
  <2>5. k # 0
    <3> HIDE DEF good
    <3> QED
      BY <2>3, <2>4
  <2>6. k - 1 \in 0 .. n /\ ~(k <= k - 1) /\ k \in 1 .. n /\ k - 1 \in Nat
    <3>1. k \in 0 .. n
      BY <2>3
    <3> QED
      BY ONLY <2>5, <3>1, n \in Nat
  <2>7. PICK i \in 0 .. 2 ^ (k - 1) - 1 : found(i, k - 1)
    BY <1>1, <2>2, <2>6
  <2>8. PICK s \in {0, 1} : s = p[k]
    BY <1>0, <2>6
  <2>9. PICK x \in Nat : x = 2 * i + s
    BY <2>6, TableSize
  <2>10. x \in 0 .. 2 ^ k - 1
    <3>1. k = (k - 1) + 1
      BY <2>6
    <3>2. 2 ^ k = 2 * 2 ^ (k - 1)
      BY <2>6, <3>1, Doubling
    <3>3. 2 ^ (k - 1) \in Nat
      BY <2>6, TableSize
    <3> QED
      BY <2>9, <3>2, <3>3
  <2>11. ASSUME NEW j \in 1 .. k PROVE (x \div 2 ^ (k - j)) % 2 = p[j]
    <3>1. CASE j = k
      <4>1. 2 ^ (k - j) = 1
        <5>1. k - j = 0
          BY <3>1
        <5> QED
          BY <5>1, OneEntry
      <4>2. x \div 1 = x /\ x % 2 = s
        BY <2>9, TableSize, <2>6
      <4> QED
        BY <2>8, <3>1, <4>1, <4>2
    <3>2. CASE j # k
      <4>1. j \in 1 .. k - 1 /\ k - 1 - j \in Nat
        BY <2>6, <3>2
      <4>2. PICK m \in Nat : m = 2 ^ (k - 1 - j) /\ m >= 1
        BY <4>1, TableSize
      <4>3. 2 ^ (k - j) = 2 * m
        <5>1. k - j = (k - 1 - j) + 1
          BY <2>6
        <5> QED
          BY <4>1, <4>2, <5>1, Doubling
      <4>4. i \in Nat
        BY <2>6, TableSize
      <4>5. x \div (2 * m) = i \div m
        BY <2>9, <4>2, <4>4, OneMoreDigit
      <4>6. (i \div 2 ^ (k - 1 - j)) % 2 = p[j]
        BY <2>7, <4>1
      <4> QED
        BY <4>2, <4>3, <4>5, <4>6
    <3> QED
      BY <3>1, <3>2
  <2>12. good(k)
    BY <2>10, <2>11
  <2> QED
    BY <2>3, <2>12
<1>3. n \in 0 .. n
  OBVIOUS
<1>4. PICK i \in 0 .. 2 ^ n - 1 : found(i, n)
  BY <1>1, <1>2, <1>3
<1>5. prefix_at(i, n) = p
  BY <1>0, <1>4 DEF prefix_at
<1> QED
  BY <1>4, <1>5

-----------------------------------------------------------------------------
(* The file and the catalogue only grow.                                    *)
LEMMA MapGrows ==
  ASSUME MapInv, Next
  PROVE  /\ buckets_count' \in {buckets_count, buckets_count + 1}
         /\ prefix_bits' \in {prefix_bits, prefix_bits + 1}
         /\ constructed => constructed'
<1>1. create_bucket => buckets_count' \in {buckets_count, buckets_count + 1}
  BY DEF create_bucket
<1>2. Called => buckets_count' \in {buckets_count, buckets_count + 1}
  BY <1>1 DEF Called, CreateBucket, FindCall, RemoveCall, CreateCall, SplitCall, layout_vars
<1>3. ContainerStep => buckets_count' \in {buckets_count, buckets_count + 1}
  BY <1>1 DEF ContainerStep, FindNext, RemoveNext, CreateNext, WalkOn, CreateGrow, SplitStep,
     SplitBit1Append, SplitBit1Grow, SplitBit0Append, SplitBit0Advance, SplitNextBucket,
     SplitUnlink, SplitFree, layout_vars
<1>4. ContainerReturn => buckets_count' = buckets_count
  BY DEF ContainerReturn, FindHit, FindMiss, RemoveHit, RemoveMiss, CreateWrite, SplitReturn,
     layout_vars
<1>5. buckets_count' \in {buckets_count, buckets_count + 1}
  BY <1>2, <1>3, <1>4, MapUses DEF Used, cvars, layout_vars
<1>6. prefix_bits' \in {prefix_bits, prefix_bits + 1} /\ (constructed => constructed')
  BY DEF Next, Construct, Construct1, Find, Get, Remove, Enter, Leave, FindReturn,
     RemoveReturn, GetMiss, GetCatalogueSplit, GetSplit, GetSplitReturn, GetCreate, GetCreated,
     Inside, catalogue_vars, catalogue_assign, catalogue_set, catalogue_split, constructed
<1> QED
  BY <1>5, <1>6

(****************************************************************************)
(* The invariant of the iterator: there is one only after the constructor,  *)
(* and it has numbers.                                                      *)
(****************************************************************************)
Positions == [catalogue_index : Nat, bucket_id : Nat, byte_offset : Int]

IteratorInv ==
    /\ MapInv
    /\ it \in Positions
    /\ iterating => constructed
    /\ IteratorInBounds

(* What is in bounds stays so while the map runs.                           *)
LEMMA StaysInBounds ==
  ASSUME IteratorInv, MapInv', UNCHANGED <<ipc, it>>,
         buckets_count' \in {buckets_count, buckets_count + 1},
         prefix_bits' \in {prefix_bits, prefix_bits + 1},
         constructed => constructed'
  PROVE  IteratorInv'
<1>1. MapInv /\ buckets_count \in Nat /\ prefix_bits \in Nat
  BY MapFacts DEF IteratorInv, MapInv, PackedInv, Inv, Live, Typed
<1>2. Allocated \subseteq Allocated'
  <2>1. CASE buckets_count' = buckets_count
    BY <2>1 DEF Allocated
  <2>2. CASE buckets_count' = buckets_count + 1
    <3>1. buckets_count' - 1 = buckets_count
      BY <1>1, <2>2
    <3>2. Allocated = 0 .. buckets_count - 1 /\ Allocated' = 0 .. buckets_count
      BY <3>1 DEF Allocated
    <3>3. 0 .. buckets_count - 1 \subseteq 0 .. buckets_count
      BY <1>1
    <3> QED
      BY <3>2, <3>3
  <2> QED
    BY <2>1, <2>2
<1>3. 2 ^ prefix_bits \in Nat /\ 2 ^ prefix_bits' \in Nat /\ 2 ^ prefix_bits <= 2 ^ prefix_bits'
  <2>1. CASE prefix_bits' = prefix_bits
    <3>1. PICK d, e : d = 2 ^ prefix_bits /\ e = 2 ^ prefix_bits'
      OBVIOUS
    <3>2. d \in Nat /\ e = d
      BY <1>1, <2>1, <3>1, TableSize
    <3> QED
      BY <3>1, <3>2
  <2>2. CASE prefix_bits' = prefix_bits + 1
    <3>1. 2 ^ prefix_bits' = 2 ^ (prefix_bits + 1)
      BY <2>2
    <3> QED
      BY <1>1, <3>1, TableSize
  <2> QED
    BY <2>1, <2>2
<1>4. iterating' <=> iterating
  BY DEF iterating
<1>5. IteratorInBounds'
  BY <1>2, <1>3, <1>4 DEF IteratorInv, IteratorInBounds, Positions, buffer_size
<1> QED
  BY <1>4, <1>5 DEF IteratorInv

(* So does a step of the iterator that leaves the map alone.                *)
LEMMA Looks ==
  ASSUME IteratorInv, UNCHANGED hvars, it' \in Positions, iterating' => constructed,
         iterating' => /\ it'.bucket_id \in Allocated
                       /\ it'.catalogue_index \in 0 .. buffer_size - 1,
         MaxBuckets <= 2 ^ HASH_BITS
  PROVE  IteratorInv'
<1>1. MapInv'
  BY MapStep DEF IteratorInv
<1>2. UNCHANGED <<buckets_count, prefix_bits, hpc>>
  BY DEF hvars, cvars, layout_vars
<1>3. Allocated' = Allocated /\ buffer_size' = buffer_size /\ (constructed' <=> constructed)
  BY <1>2 DEF Allocated, buffer_size, constructed
<1> QED
  BY <1>1, <1>3 DEF IteratorInv, IteratorInBounds

(* Where the iterator is when it starts, and where it is when it has ended. *)
LEMMA FirstEntry ==
  ASSUME MapInv, constructed
  PROVE  0 \in Allocated /\ 0 \in 0 .. buffer_size - 1 /\ Unset \in Positions
<1>1. entry(0) \in Allocated /\ buckets_count \in Nat
  BY EntryNames, AllocatedIds DEF MapInv, PackedInv
<1>2. 0 \in Allocated
  BY <1>1 DEF Allocated
<1>3. 2 ^ prefix_bits \in Nat /\ 2 ^ prefix_bits >= 1
  BY MapFacts, TableSize
<1> QED
  BY <1>2, <1>3 DEF buffer_size, Unset, Positions

(* A position is what it is made of.                                        *)
LEMMA PositionAt ==
  ASSUME NEW c \in Nat, NEW b \in Nat, NEW o \in Int,
         NEW p, p = [catalogue_index |-> c, bucket_id |-> b, byte_offset |-> o]
  PROVE  p \in Positions /\ p.bucket_id = b /\ p.catalogue_index = c
  BY DEF Positions

(* Each step of the iterator.                                               *)
LEMMA IteratorMoves ==
  ASSUME MaxBuckets <= 2 ^ HASH_BITS, IteratorInv, Begin \/ Move
  PROVE  IteratorInv'
<1>1. /\ MapInv /\ it \in Positions /\ UNCHANGED hvars /\ Allocated \subseteq Nat
      /\ it.bucket_id \in Nat /\ it.catalogue_index \in Nat /\ it.byte_offset \in Int
  BY DEF IteratorInv, Positions, Begin, Move, ProbeHit, ProbeChain, ProbeEntry, Deref, Increment,
     IncrementAdrift, Drop, Allocated
<1>2. iterating => /\ constructed /\ it.bucket_id \in Allocated
                   /\ it.catalogue_index \in 0 .. buffer_size - 1
  BY DEF IteratorInv, IteratorInBounds
<1>3. CASE Begin
  <2>1. constructed
    BY <1>3 DEF Begin, constructed
  <2>2. entry(0) \in Allocated /\ 0 \in 0 .. buffer_size - 1
    BY <1>1, <2>1, EntryNames, FirstEntry
  <2>3. it' = [catalogue_index |-> 0, bucket_id |-> entry(0), byte_offset |-> 0]
    BY <1>3 DEF Begin, Unset
  <2>4. it' \in Positions /\ it'.bucket_id = entry(0) /\ it'.catalogue_index = 0
    <3>1. PICK e : e = entry(0)
      OBVIOUS
    <3>2. e \in Nat /\ it' = [catalogue_index |-> 0, bucket_id |-> e, byte_offset |-> 0]
      BY <1>1, <2>2, <2>3, <3>1
    <3>3. 0 \in Nat /\ 0 \in Int
      OBVIOUS
    <3>4. it' \in Positions /\ it'.bucket_id = e /\ it'.catalogue_index = 0
      BY ONLY <3>2, <3>3, PositionAt
    <3> QED
      BY <3>1, <3>4
  <2> QED
    BY <1>1, <2>1, <2>2, <2>4, Looks
<1>4. CASE ProbeHit \/ Deref
  <2>1. it' = it /\ iterating
    BY <1>4 DEF ProbeHit, Deref, iterating
  <2> QED
    BY <1>1, <1>2, <2>1, Looks
<1>5. CASE ProbeChain
  <2>1. PICK next : next = buckets[it.bucket_id].next_bucket_id
    OBVIOUS
  <2>2. /\ iterating /\ next # INVALID_BUCKET_ID
        /\ it' = [it EXCEPT !.bucket_id = next, !.byte_offset = 0]
    BY <1>5, <2>1 DEF ProbeChain, iterating
  <2>5. it' = [catalogue_index |-> it.catalogue_index, bucket_id |-> next, byte_offset |-> 0]
    BY <1>1, <2>2 DEF Positions
  <2>3. next \in Allocated
    BY <1>1, <1>2, <2>1, <2>2, AllocatedIds DEF MapInv, PackedInv, Inv, Live, OneReference, nxt
  <2>4. it' \in Positions /\ it'.bucket_id = next /\ it'.catalogue_index = it.catalogue_index
    BY <1>1, <2>3, <2>5, PositionAt
  <2> QED
    BY <1>1, <1>2, <2>2, <2>3, <2>4, Looks
<1>6. CASE ProbeEntry
  <2>1. PICK i : i = next_index(it.catalogue_index)
    OBVIOUS
  <2>2. iterating
    BY <1>6 DEF ProbeEntry, iterating
  <2>3. i \in it.catalogue_index + 1 .. buffer_size
    BY <1>1, <1>2, <2>1, <2>2, NextIndex
  <2>4. buffer_size \in Nat /\ i \in Nat
    BY <1>1, <2>3, MapFacts, TableSize DEF buffer_size
  <2>5. CASE i = buffer_size
    <3>1. it' = Unset
      BY <1>6, <2>1, <2>5 DEF ProbeEntry
    <3>2. it' \in Positions /\ it'.bucket_id = 0 /\ it'.catalogue_index = 0
      BY <3>1 DEF Unset, Positions
    <3> QED
      BY <1>1, <1>2, <2>2, <3>2, FirstEntry, Looks
  <2>6. CASE i # buffer_size
    <3>1. it' = [catalogue_index |-> i, bucket_id |-> entry(i), byte_offset |-> 0]
      BY <1>6, <2>1, <2>6 DEF ProbeEntry
    <3>2. entry(i) \in Allocated
      BY <1>1, <1>2, <2>2, <2>4, EntryNames
    <3>3. it' \in Positions /\ it'.bucket_id = entry(i) /\ it'.catalogue_index = i
      <4>1. PICK e : e = entry(i)
        OBVIOUS
      <4>2. e \in Nat /\ it' = [catalogue_index |-> i, bucket_id |-> e, byte_offset |-> 0]
        BY <1>1, <3>1, <3>2, <4>1
      <4>3. 0 \in Int
        OBVIOUS
      <4>4. it' \in Positions /\ it'.bucket_id = e /\ it'.catalogue_index = i
        BY ONLY <2>4, <4>2, <4>3, PositionAt
      <4> QED
        BY <4>1, <4>4
    <3>4. i \in 0 .. buffer_size - 1
      BY <1>1, <2>3, <2>4, <2>6
    <3> QED
      BY <1>1, <1>2, <2>2, <3>2, <3>3, <3>4, Looks
  <2> QED
    BY <2>5, <2>6
<1>7. CASE Increment
  <2>1. iterating
    BY <1>7 DEF Increment, iterating
  <2>2. it.bucket_id \in Ids /\ buckets[it.bucket_id].data \subseteq AnyRecord
    BY <1>1, <1>2, <2>1, AllocatedIds DEF MapInv, PackedInv, Inv, Live, Typed, AnyBucket
  <2>3. \A r \in at_position : len(r) \in Int
    BY <2>2, LengthInt DEF at_position
  <2>4. CASE UNCHANGED it
    BY <1>1, <1>2, <2>1, <2>4, Looks
  <2>5. CASE ~UNCHANGED it
    <3>1. PICK r \in at_position : it' = [it EXCEPT !.byte_offset = @ + len(r)]
      BY <1>7, <2>5 DEF Increment
    <3>2. /\ it' \in Positions /\ it'.bucket_id = it.bucket_id
          /\ it'.catalogue_index = it.catalogue_index
      BY <1>1, <2>3, <3>1 DEF Positions
    <3> QED
      BY <1>1, <1>2, <2>1, <3>2, Looks
  <2> QED
    BY <2>4, <2>5
<1>8. CASE IncrementAdrift
  <2>1. iterating
    BY <1>8 DEF IncrementAdrift, adrift, iterating
  <2>2. PICK o \in Parsed \cup {it.byte_offset} : it' = [it EXCEPT !.byte_offset = o]
    BY <1>8 DEF IncrementAdrift
  <2>3. o \in Int
    BY <1>1, <2>2, ParsedAssumption, SizesAssumption
  <2>4. /\ it' \in Positions /\ it'.bucket_id = it.bucket_id
        /\ it'.catalogue_index = it.catalogue_index
    BY <1>1, <2>2, <2>3 DEF Positions
  <2> QED
    BY <1>1, <1>2, <2>1, <2>4, Looks
<1>9. CASE Drop
  <2>1. it' \in Positions /\ ~iterating'
    BY <1>9 DEF Drop, Unset, Positions, iterating
  <2> QED
    BY <1>1, <2>1, Looks
<1> QED
  BY <1>3, <1>4, <1>5, <1>6, <1>7, <1>8, <1>9 DEF Move

(* Every step, of the map or of the iterator.                               *)
LEMMA IteratorStep ==
  ASSUME MaxBuckets <= 2 ^ HASH_BITS, IteratorInv, [IteratorNext]_ivars
  PROVE  IteratorInv'
<1>1. MapInv
  BY DEF IteratorInv
<1>2. CASE MapRuns
  <2>1. Next /\ UNCHANGED <<ipc, it>>
    BY <1>2 DEF MapRuns
  <2>2. MapInv'
    BY <1>1, <2>1, MapStep
  <2> QED
    BY <1>1, <2>1, <2>2, MapGrows, StaysInBounds
<1>3. CASE UNCHANGED ivars
  <2>1. UNCHANGED hvars /\ UNCHANGED <<ipc, it>>
    BY <1>3 DEF ivars, iterator_vars
  <2>2. iterating' <=> iterating
    BY <2>1 DEF iterating
  <2> QED
    BY <2>1, <2>2, Looks DEF IteratorInv, IteratorInBounds
<1> QED
  BY <1>2, <1>3, IteratorMoves DEF IteratorNext

-----------------------------------------------------------------------------
(****************************************************************************)
(* Whatever get, find and remove do between two steps of an iterator -      *)
(* splits, freed and reused buckets, a doubled catalogue - the iterator     *)
(* reads a bucket of the file and an entry of the catalogue.                *)
(****************************************************************************)
THEOREM IteratorStaysInBounds ==
  ASSUME MaxBuckets <= 2 ^ HASH_BITS
  PROVE  IteratorSpec => []IteratorInBounds
<1>1. IteratorInit => IteratorInv
  BY MapInit DEF IteratorInit, IteratorInv, IteratorInBounds, iterating, Unset, Positions
<1>2. IteratorInv /\ [IteratorNext]_ivars => IteratorInv'
  BY IteratorStep
<1>3. IteratorInv => IteratorInBounds
  BY DEF IteratorInv
<1> QED
  BY <1>1, <1>2, <1>3, PTL DEF IteratorSpec
=============================================================================
