----------------------------- MODULE ShardedMap -----------------------------
(****************************************************************************)
(* The request handlers of http_server (http_server.cpp) and the            *)
(* sharded_hash_map (sharded_hash_map.h) they share: worker threads, each   *)
(* with one request at a time, and a reader-writer lock for every shard.    *)
(*                                                                          *)
(* A shard's hash_map is the dictionary module KVMap states, except that    *)
(* what it does while a writer is inside is not one step: a thread is       *)
(* inside the map from one action to another (pc "find" ... "inside").      *)
(* hash_map::find returns a view of bytes in the mapping, not a copy.       *)
(****************************************************************************)
EXTENDS Integers, FiniteSets

CONSTANTS
    Threads,        \* the worker threads
    Keys, Values, NoValue,
    NumShards,      \* num_shards_
    ShardOf,        \* ShardOf[k] = shard_index(k) = fnv1a(k) % num_shards_
    NoThread

Shards == 0 .. NumShards - 1

ASSUME ShardsAssumption ==
    /\ NumShards \in Nat \ {0}
    /\ ShardOf \in [Keys -> Shards]
    /\ NoValue \notin Values /\ NoThread \notin Threads

VARIABLES
    dict,           \* dict[k]: the value stored for k, NoValue if none
    writer,         \* writer[s]: who holds shard s's mutex exclusively
    readers,        \* readers[s]: who hold it shared
    th,             \* th[t]: the request thread t is serving
    since           \* history, since[t]: keys present all along and at
                    \* some time since t's keys request arrived

vars == <<dict, writer, readers, th, since>>

present == {k \in Keys : dict[k] # NoValue}

Ops == {"get", "set", "delete", "keys"}

Idle == [pc |-> "idle", op |-> "none", key |-> NoValue, value |-> NoValue,
         shard |-> 0, seen |-> {}, status |-> "none", body |-> NoValue]

Init ==
    /\ dict = [k \in Keys |-> NoValue]
    /\ writer = [s \in Shards |-> NoThread]
    /\ readers = [s \in Shards |-> {}]
    /\ th = [t \in Threads |-> Idle]
    /\ since = [t \in Threads |-> [always |-> {}, ever |-> {}]]

at(t, pc) == th[t].pc = pc

(* Mutant: set takes the lock shared.                                       *)
shared_op_and_set(op) == op \in {"get", "keys", "set"}

shared_op(op) == op \in {"get", "keys"}

(* since, when the contents become d.                                       *)
observe(d) ==
    LET now == {k \in Keys : d[k] # NoValue}
    IN since' = [t \in Threads |->
                   IF th[t].op # "keys" THEN since[t]
                   ELSE [always |-> since[t].always \cap now,
                         ever |-> since[t].ever \cup now]]

-----------------------------------------------------------------------------
(* Thread t goes on with r.                                                 *)
goes_on(t, r) == th' = [th EXCEPT ![t] = r]

(* handle_request routes a request to its handler; keys starts at shard 0.  *)
Request(t, op, k, v) ==
    /\ at(t, "idle")
    /\ goes_on(t, [pc |-> "lock", op |-> op, key |-> k, value |-> v,
                   shard |-> IF op = "keys" THEN 0 ELSE ShardOf[k],
                   seen |-> {}, status |-> "none", body |-> NoValue])
    /\ since' = IF op = "keys"
                  THEN [since EXCEPT ![t] = [always |-> present, ever |-> present]]
                  ELSE since
    /\ UNCHANGED <<dict, writer, readers>>

(* std::shared_lock of get and keys, std::unique_lock of set and remove.    *)
LockShared(t) ==
    /\ at(t, "lock") /\ shared_op(th[t].op)
    /\ writer[th[t].shard] = NoThread
    /\ readers' = [readers EXCEPT ![th[t].shard] = @ \cup {t}]
    /\ goes_on(t, [th[t] EXCEPT !.pc = IF th[t].op = "keys" THEN "iterate" ELSE "find"])
    /\ UNCHANGED <<dict, writer, since>>

LockUnique(t) ==
    /\ at(t, "lock") /\ ~shared_op(th[t].op)
    /\ writer[th[t].shard] = NoThread /\ readers[th[t].shard] = {}
    /\ writer' = [writer EXCEPT ![th[t].shard] = t]
    /\ goes_on(t, [th[t] EXCEPT !.pc = IF th[t].op = "set" THEN "find" ELSE "remove"])
    /\ UNCHANGED <<dict, readers, since>>

(* The destructor of the lock guard ...                                     *)
release(t) ==
    /\ at(t, "unlock")
    /\ writer' = [writer EXCEPT ![th[t].shard] = IF @ = t THEN NoThread ELSE @]
    /\ readers' = [readers EXCEPT ![th[t].shard] = @ \ {t}]
    /\ UNCHANGED <<dict, since>>

(* Mutants: the loop over the shards ends too late, or too early.           *)
more_shards_past_end(t) == th[t].op = "keys" /\ th[t].shard + 1 <= NumShards
more_shards_but_last(t) == th[t].op = "keys" /\ th[t].shard + 2 < NumShards

more_shards(t) == th[t].op = "keys" /\ th[t].shard + 1 < NumShards

(* ... at the end of the handler, or of a round of the loop of keys.        *)
Unlock(t) ==
    /\ release(t) /\ ~more_shards(t)
    /\ goes_on(t, [th[t] EXCEPT !.pc = "respond"])

UnlockNextShard(t) ==
    /\ release(t) /\ more_shards(t)
    /\ goes_on(t, [[th[t] EXCEPT !.pc = "lock"] EXCEPT !.shard = @ + 1])

(* The handler's response reaches the client and the thread is free again.  *)
Respond(t) ==
    /\ at(t, "respond")
    /\ goes_on(t, Idle)
    /\ since' = [since EXCEPT ![t] = [always |-> {}, ever |-> {}]]
    /\ UNCHANGED <<dict, writer, readers>>

-----------------------------------------------------------------------------
(* The request is decided, the lock still held.                             *)
answered(t, status, body) ==
    [th[t] EXCEPT !.pc = "unlock", !.status = status, !.body = body]

stored(t) == dict[th[t].key]

(* get: find, then the bytes its view names are copied to a std::string.    *)
GetFind(t) ==
    /\ at(t, "find") /\ th[t].op = "get"
    /\ goes_on(t, IF stored(t) # NoValue THEN [th[t] EXCEPT !.pc = "copy"]
                                         ELSE answered(t, "not_found", NoValue))
    /\ UNCHANGED <<dict, writer, readers, since>>

GetCopy(t) ==
    /\ at(t, "copy")
    /\ goes_on(t, answered(t, "ok", stored(t)))
    /\ UNCHANGED <<dict, writer, readers, since>>

(* set: a key that exists is a conflict, otherwise map.get inserts it.      *)
SetFind(t) ==
    /\ at(t, "find") /\ th[t].op = "set"
    /\ goes_on(t, IF stored(t) # NoValue THEN answered(t, "conflict", NoValue)
                                         ELSE [th[t] EXCEPT !.pc = "insert"])
    /\ UNCHANGED <<dict, writer, readers, since>>

SetInsert(t) ==
    /\ at(t, "insert")
    /\ dict' = [dict EXCEPT ![th[t].key] = IF @ = NoValue THEN th[t].value ELSE @]
    /\ observe(dict')
    /\ goes_on(t, answered(t, "ok", NoValue))
    /\ UNCHANGED <<writer, readers>>

DeleteRemove(t) ==
    /\ at(t, "remove")
    /\ dict' = [dict EXCEPT ![th[t].key] = NoValue]
    /\ observe(dict')
    /\ goes_on(t, answered(t, IF stored(t) # NoValue THEN "ok" ELSE "not_found", NoValue))
    /\ UNCHANGED <<writer, readers>>

-----------------------------------------------------------------------------
(* keys: the iterator visits the records of the shard in some order.        *)
unvisited(t) == {k \in present \ th[t].seen : ShardOf[k] = th[t].shard}

KeysVisit(t) ==
    /\ at(t, "iterate")
    /\ \E k \in unvisited(t) : goes_on(t, [th[t] EXCEPT !.seen = @ \cup {k}])
    /\ UNCHANGED <<dict, writer, readers, since>>

KeysEnd(t) ==
    /\ at(t, "iterate") /\ unvisited(t) = {}
    /\ goes_on(t, answered(t, "ok", NoValue))
    /\ UNCHANGED <<dict, writer, readers, since>>

Step(t) ==
    \/ LockShared(t) \/ LockUnique(t) \/ Unlock(t)
    \/ UnlockNextShard(t) \/ Respond(t)
    \/ GetFind(t) \/ GetCopy(t) \/ SetFind(t) \/ SetInsert(t)
    \/ DeleteRemove(t) \/ KeysVisit(t) \/ KeysEnd(t)

Next ==
    \E t \in Threads :
      \/ \E k \in Keys :
           \/ Request(t, "get", k, NoValue) \/ Request(t, "delete", k, NoValue)
           \/ \E v \in Values : Request(t, "set", k, v)
      \/ Request(t, "keys", NoValue, NoValue)
      \/ Step(t)

Spec == Init /\ [][Next]_vars

-----------------------------------------------------------------------------
ThreadState ==
    [pc : {"idle", "lock", "find", "copy", "insert", "remove", "iterate",
           "unlock", "respond"},
     op : Ops \cup {"none"}, key : Keys \cup {NoValue},
     value : Values \cup {NoValue}, shard : Shards, seen : SUBSET Keys,
     status : {"none", "ok", "not_found", "conflict"}, body : Values \cup {NoValue}]

TypeOK ==
    /\ dict \in [Keys -> Values \cup {NoValue}]
    /\ writer \in [Shards -> Threads \cup {NoThread}]
    /\ readers \in [Shards -> SUBSET Threads]
    /\ th \in [Threads -> ThreadState]
    /\ since \in [Threads -> [always : SUBSET Keys, ever : SUBSET Keys]]

inside(t) == th[t].pc \in {"find", "copy", "insert", "remove", "iterate"}

modifying(t) == th[t].pc \in {"insert", "remove"}

(****************************************************************************)
(* No thread touches a shard's map, or bytes a view of it names, while      *)
(* another is changing it (hash_map is not thread-safe, and a change may    *)
(* remap the file).                                                         *)
(****************************************************************************)
NoRace ==
    \A t, u \in Threads :
      t # u /\ inside(t) /\ modifying(u) => th[t].shard # th[u].shard

(****************************************************************************)
(* keys() locks the shards one after the other: what it returns is no       *)
(* snapshot, but it has every key that was there all the time and no key    *)
(* that never was.                                                          *)
(****************************************************************************)
KeysCoherent ==
    \A t \in Threads :
      at(t, "respond") /\ th[t].op = "keys" =>
        /\ since[t].always \subseteq th[t].seen
        /\ th[t].seen \subseteq since[t].ever

-----------------------------------------------------------------------------
(****************************************************************************)
(* Each request but keys takes effect at one instant between its arrival    *)
(* and its response: the specification AtomicStore.                         *)
(****************************************************************************)
answer_pending(r) == r.pc \notin {"idle", "unlock", "respond"}

request_of(r) ==
    IF r.op = "keys" \/ r.pc = "idle"
      THEN [pc |-> "idle", op |-> "none", key |-> NoValue, value |-> NoValue,
            status |-> "none", body |-> NoValue]
      ELSE [pc |-> IF answer_pending(r) THEN "pending" ELSE "done",
            op |-> r.op, key |-> r.key, value |-> r.value,
            status |-> r.status, body |-> r.body]

client == [t \in Threads |-> request_of(th[t])]

Atomic == INSTANCE AtomicStore WITH req <- client

(****************************************************************************)
(* The handlers, interleaved, are linearizable: of two concurrent sets of a *)
(* key one gets 200 and the other 409, a get returns a value that was set   *)
(* and not deleted, a delete answers 200 once for each set.                 *)
(****************************************************************************)
Linearizable == Atomic!Spec
=============================================================================
