----------------------------- MODULE BucketStore -----------------------------
(****************************************************************************)
(* What container promises hash_map: bucket ids that stand for disjoint     *)
(* sets of records, each with a depth.  find, remove and create act on one  *)
(* of the sets; split raises its depth by one and moves the records whose   *)
(* hash has that bit to a new id.  Chains, free list, packing and the file  *)
(* are the container's own business.                                        *)
(****************************************************************************)
EXTENDS Integers

CONSTANTS Keys, Values, NoValue, Ids, NoId, Hash

VARIABLES
    chains,   \* id |-> [depth, items], items a set of <<key, value>>
    call,     \* the call in progress: op, bucket_id, key, value
    result    \* what the last call returned: found, value, bucket_id

svars == <<chains, call, result>>

NoCall == [op |-> "idle", bucket_id |-> NoId, key |-> NoValue, value |-> NoValue]
Nothing == [found |-> FALSE, value |-> NoValue, bucket_id |-> NoId]

Init == chains = << >> /\ call = NoCall /\ result = Nothing

with_chain(b, depth, items) ==
    [x \in DOMAIN chains \cup {b} |->
       IF x = b THEN [depth |-> depth, items |-> items] ELSE chains[x]]

Create(b) ==
    /\ call = NoCall /\ b \notin DOMAIN chains
    /\ chains' = with_chain(b, 1, {})
    /\ result' = [Nothing EXCEPT !.bucket_id = b]
    /\ UNCHANGED call

Call(op, b, k, v) ==
    /\ call = NoCall
    /\ call' = [op |-> op, bucket_id |-> b, key |-> k, value |-> v]
    /\ result' = Nothing
    /\ UNCHANGED chains

Return(op, r) == call.op = op /\ call' = NoCall /\ result' = r

chain == chains[call.bucket_id]

bindings == {item \in chain.items : item[1] = call.key}

ReturnFindMiss ==
    Return("find", Nothing) /\ bindings = {} /\ UNCHANGED chains

ReturnFindHit ==
    /\ call.op = "find"
    /\ \E item \in bindings :
         Return("find", [Nothing EXCEPT !.found = TRUE, !.value = item[2]])
    /\ UNCHANGED chains

ReturnRemove ==
    /\ Return("remove", [Nothing EXCEPT !.found = (bindings # {})])
    /\ chains' = with_chain(call.bucket_id, chain.depth, chain.items \ bindings)

ReturnCreate ==
    /\ Return("create", [Nothing EXCEPT !.value = call.value])
    /\ chains' = with_chain(call.bucket_id, chain.depth,
                            chain.items \cup {<<call.key, call.value>>})

ReturnSplit ==
    call.op = "split" /\ \E b \in Ids \ DOMAIN chains :
      LET depth == chain.depth + 1
          moved == {item \in chain.items : Hash[item[1]][depth] = 1}
      IN /\ Return("split", [Nothing EXCEPT !.bucket_id = b])
         /\ chains' = [x \in DOMAIN chains \cup {b} |->
                         IF x = b THEN [depth |-> depth, items |-> moved]
                         ELSE IF x = call.bucket_id
                         THEN [depth |-> depth, items |-> chain.items \ moved]
                         ELSE chains[x]]

Next ==
    \/ \E b \in Ids : Create(b)
    \/ \E b \in DOMAIN chains :
         \/ Call("split", b, NoValue, NoValue)
         \/ \E k \in Keys :
              \/ Call("find", b, k, NoValue) \/ Call("remove", b, k, NoValue)
              \/ \E v \in Values : Call("create", b, k, v)
    \/ ReturnFindMiss \/ ReturnFindHit \/ ReturnRemove \/ ReturnCreate \/ ReturnSplit

Spec == Init /\ [][Next]_svars
=============================================================================
