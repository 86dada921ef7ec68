-------------------------- MODULE ShardedMapProofs --------------------------
(****************************************************************************)
(* Proofs about ShardedMap for any number of threads, shards, keys and      *)
(* values: a thread inside a shard's map holds the shard's lock in the mode *)
(* its request needs, hence no race, hence the handlers are linearizable.   *)
(****************************************************************************)
EXTENDS ShardedMap, TLAPS

(* The locks do what a reader-writer lock does.                             *)
LocksExclusive ==
    \A s \in Shards : writer[s] # NoThread => readers[s] = {}

in_critical_section(r) ==
    r.pc \in {"find", "copy", "insert", "remove", "iterate", "unlock"}

(* A thread inside the map, or about to leave it, holds the lock in the     *)
(* mode of its request, and only set and delete change the map.             *)
Holds(t, r) ==
    /\ in_critical_section(r) =>
         IF shared_op(r.op) THEN t \in readers[r.shard] ELSE writer[r.shard] = t
    /\ r.pc \in {"insert", "remove"} => ~shared_op(r.op)

(* What the request knows of the store, as long as it holds the lock.       *)
Knows(r) ==
    /\ r.pc = "copy" => r.op = "get" /\ dict[r.key] # NoValue
    /\ r.pc = "insert" => r.op = "set" /\ dict[r.key] = NoValue
    /\ r.pc = "remove" => r.op = "delete"
    /\ r.pc = "iterate" => r.op = "keys"
    /\ r.pc = "find" => r.op \in {"get", "set"}

(* A request names what its handler needs.                                  *)
WellFormed(r) ==
    /\ r.pc = "idle" <=> r.op = "none"
    /\ r.op \in {"get", "set", "delete"} =>
         r.key \in Keys /\ r.shard = ShardOf[r.key]
    /\ r.op = "set" => r.value \in Values
    /\ r.pc \notin {"unlock", "respond"} /\ r.op # "keys" =>
         r.status = "none" /\ r.body = NoValue
    /\ r.op # "keys" => r.seen = {}

Inv ==
    /\ TypeOK
    /\ LocksExclusive
    /\ \A t \in Threads : Holds(t, th[t])
    /\ \A t \in Threads : WellFormed(th[t])
    /\ \A t \in Threads : Knows(th[t])

-----------------------------------------------------------------------------
(* A thread that goes on with a well-typed state leaves the others alone.   *)
LEMMA GoesOn ==
  ASSUME TypeOK, NEW t \in Threads, NEW r \in ThreadState, goes_on(t, r)
  PROVE  /\ th' \in [Threads -> ThreadState]
         /\ th'[t] = r
         /\ \A u \in Threads \ {t} : th'[u] = th[u]
  BY DEF TypeOK, goes_on

(* The states the handlers go on with are well typed.                       *)
LEMMA NextStates ==
  ASSUME TypeOK, NEW t \in Threads
  PROVE  /\ th[t] \in ThreadState
         /\ Idle \in ThreadState
         /\ \A s \in {"ok", "not_found", "conflict"}, v \in Values \cup {NoValue} :
              answered(t, s, v) \in ThreadState
         /\ \A p \in {"lock", "find", "copy", "insert", "remove", "iterate",
                      "unlock", "respond"} :
              [th[t] EXCEPT !.pc = p] \in ThreadState
         /\ \A k \in Keys : [th[t] EXCEPT !.seen = @ \cup {k}] \in ThreadState
<1>1. th[t] \in ThreadState
  BY DEF TypeOK
<1>2. Idle \in ThreadState
  BY ShardsAssumption DEF Idle, ThreadState, Shards
<1>3. ASSUME NEW s \in {"ok", "not_found", "conflict"}, NEW v \in Values \cup {NoValue}
      PROVE  answered(t, s, v) \in ThreadState
  BY <1>1, <1>3 DEF answered, ThreadState
<1>4. ASSUME NEW p \in {"lock", "find", "copy", "insert", "remove", "iterate",
                        "unlock", "respond"}
      PROVE  [th[t] EXCEPT !.pc = p] \in ThreadState
  BY <1>1, <1>4 DEF ThreadState
<1>5. ASSUME NEW k \in Keys
      PROVE  [th[t] EXCEPT !.seen = @ \cup {k}] \in ThreadState
  BY <1>1, <1>5 DEF ThreadState
<1> QED
  BY <1>1, <1>2, <1>3, <1>4, <1>5

(* The initial state satisfies the inductive invariant.                     *)
LEMMA InvInit == Init => Inv
<1> SUFFICES ASSUME Init PROVE Inv
  OBVIOUS
<1>1. Idle \in ThreadState
  BY ShardsAssumption DEF Idle, ThreadState, Shards
<1>2. TypeOK
  BY <1>1, ShardsAssumption DEF Init, TypeOK
<1>3. \A t \in Threads : th[t] = Idle
  BY DEF Init
<1>4. LocksExclusive
  BY DEF Init, LocksExclusive
<1>5. \A t \in Threads : Holds(t, th[t]) /\ Knows(th[t])
  BY <1>3 DEF Holds, Knows, Idle, in_critical_section
<1>6. \A t \in Threads : WellFormed(th[t])
  BY <1>3 DEF WellFormed, Idle
<1> QED
  BY <1>2, <1>4, <1>5, <1>6 DEF Inv

-----------------------------------------------------------------------------
(****************************************************************************)
(* A step of a thread that leaves the store and the locks alone preserves   *)
(* the invariant if the thread's new state satisfies its part of it.        *)
(****************************************************************************)
LEMMA LocalStep ==
  ASSUME Inv, NEW t \in Threads, NEW r \in ThreadState, goes_on(t, r),
         UNCHANGED <<dict, writer, readers>>,
         since' \in [Threads -> [always : SUBSET Keys, ever : SUBSET Keys]],
         Holds(t, r), WellFormed(r), Knows(r)
  PROVE  Inv'
<1>1. /\ th' \in [Threads -> ThreadState]
      /\ th'[t] = r
      /\ \A u \in Threads \ {t} : th'[u] = th[u]
  BY GoesOn DEF Inv
<1>2. TypeOK'
  BY <1>1 DEF Inv, TypeOK
<1>3. LocksExclusive'
  BY DEF Inv, LocksExclusive
<1>4. ASSUME NEW u \in Threads
      PROVE  Holds(u, th[u])' /\ WellFormed(th[u])' /\ Knows(th[u])'
  <2>1. CASE u = t
    BY <1>1, <2>1 DEF Holds, WellFormed, Knows
  <2>2. CASE u # t
    BY <1>1, <2>2 DEF Inv, Holds, WellFormed, Knows
  <2> QED
    BY <2>1, <2>2
<1> QED
  BY <1>2, <1>3, <1>4 DEF Inv

(****************************************************************************)
(* A thread that changes the store holds its shard exclusively, so what     *)
(* another thread in its critical section knows is about another key.       *)
(****************************************************************************)
LEMMA StoreStep ==
  ASSUME Inv, NEW t \in Threads, NEW r \in ThreadState, goes_on(t, r),
         th[t].pc \in {"insert", "remove"},
         NEW v \in Values \cup {NoValue}, dict' = [dict EXCEPT ![th[t].key] = v],
         UNCHANGED <<writer, readers>>,
         since' \in [Threads -> [always : SUBSET Keys, ever : SUBSET Keys]],
         Holds(t, r), WellFormed(r), r.pc = "unlock"
  PROVE  Inv'
<1>1. /\ th' \in [Threads -> ThreadState]
      /\ th'[t] = r
      /\ \A u \in Threads \ {t} : th'[u] = th[u]
  BY GoesOn DEF Inv
<1>2. th[t].key \in Keys /\ th[t].shard = ShardOf[th[t].key]
  BY DEF Inv, WellFormed, Knows
<1>3. TypeOK'
  BY <1>1, <1>2 DEF Inv, TypeOK
<1>4. LocksExclusive'
  BY DEF Inv, LocksExclusive
<1>5. writer[th[t].shard] = t
  BY DEF Inv, Holds, in_critical_section
<1>6. ASSUME NEW u \in Threads
      PROVE  Holds(u, th[u])' /\ WellFormed(th[u])'
  <2>1. CASE u = t
    BY <1>1, <2>1 DEF Holds, WellFormed
  <2>2. CASE u # t
    BY <1>1, <2>2 DEF Inv, Holds, WellFormed
  <2> QED
    BY <2>1, <2>2
<1>7. ASSUME NEW u \in Threads
      PROVE  Knows(th[u])'
  <2>1. CASE u = t
    BY <1>1, <2>1 DEF Knows
  <2>2. CASE u # t /\ th[u].pc \in {"copy", "insert"}
    <3>1. th[u].key \in Keys /\ th[u].shard = ShardOf[th[u].key]
      BY <2>2 DEF Inv, WellFormed, Knows
    <3>2. IF shared_op(th[u].op) THEN u \in readers[th[u].shard]
                                 ELSE writer[th[u].shard] = u
      BY <2>2 DEF Inv, Holds, in_critical_section
    <3>3. writer[th[t].shard] # NoThread /\ th[t].shard \in Shards
      BY <1>2, <1>5, ShardsAssumption DEF Inv, TypeOK
    <3>4. readers[th[t].shard] = {}
      BY <3>3 DEF Inv, LocksExclusive
    <3>5. th[u].key # th[t].key
      BY <1>2, <1>5, <2>2, <3>1, <3>2, <3>4
    <3>6. dict'[th[u].key] = dict[th[u].key]
      BY <3>1, <3>5, <1>2 DEF Inv, TypeOK
    <3> QED
      BY <1>1, <2>2, <3>6 DEF Inv, Knows
  <2>3. CASE u # t /\ th[u].pc \notin {"copy", "insert"}
    BY <1>1, <2>3 DEF Inv, Knows
  <2> QED
    BY <2>1, <2>2, <2>3
<1> QED
  BY <1>3, <1>4, <1>6, <1>7 DEF Inv

(****************************************************************************)
(* Taking or releasing a lock preserves the invariant if no other thread    *)
(* loses one.                                                               *)
(****************************************************************************)
LEMMA LockStep ==
  ASSUME Inv, NEW t \in Threads, NEW r \in ThreadState, goes_on(t, r),
         UNCHANGED <<dict, since>>,
         writer' \in [Shards -> Threads \cup {NoThread}],
         readers' \in [Shards -> SUBSET Threads],
         \A s \in Shards : writer'[s] # NoThread => readers'[s] = {},
         \A s \in Shards, u \in Threads \ {t} :
           (u \in readers[s] => u \in readers'[s]) /\ (writer[s] = u => writer'[s] = u),
         in_critical_section(r) =>
           IF shared_op(r.op) THEN t \in readers'[r.shard] ELSE writer'[r.shard] = t,
         r.pc \in {"insert", "remove"} => ~shared_op(r.op),
         WellFormed(r), Knows(r)
  PROVE  Inv'
<1>1. /\ th' \in [Threads -> ThreadState]
      /\ th'[t] = r
      /\ \A u \in Threads \ {t} : th'[u] = th[u]
  BY GoesOn DEF Inv
<1>2. TypeOK'
  BY <1>1 DEF Inv, TypeOK
<1>3. LocksExclusive'
  BY DEF LocksExclusive
<1>4. ASSUME NEW u \in Threads
      PROVE  WellFormed(th[u])' /\ Knows(th[u])'
  <2>1. CASE u = t
    BY <1>1, <2>1 DEF WellFormed, Knows
  <2>2. CASE u # t
    BY <1>1, <2>2 DEF Inv, WellFormed, Knows
  <2> QED
    BY <2>1, <2>2
<1>5. ASSUME NEW u \in Threads
      PROVE  Holds(u, th[u])'
  <2>1. CASE u = t
    BY <1>1, <2>1 DEF Holds
  <2>2. CASE u # t
    <3>1. Holds(u, th[u]) /\ th[u].shard \in Shards
      BY DEF Inv, TypeOK, ThreadState
    <3> QED
      BY <1>1, <2>2, <3>1 DEF Holds
  <2> QED
    BY <2>1, <2>2
<1> QED
  BY <1>2, <1>3, <1>4, <1>5 DEF Inv

-----------------------------------------------------------------------------
(* The history variable stays well typed when the store changes.            *)
LEMMA ObserveType ==
  ASSUME TypeOK, NEW d, observe(d)
  PROVE  since' \in [Threads -> [always : SUBSET Keys, ever : SUBSET Keys]]
<1>1. ASSUME NEW t \in Threads
      PROVE  [always |-> since[t].always \cap {k \in Keys : d[k] # NoValue},
              ever |-> since[t].ever \cup {k \in Keys : d[k] # NoValue}]
                 \in [always : SUBSET Keys, ever : SUBSET Keys]
  <2>1. since[t].always \in SUBSET Keys /\ since[t].ever \in SUBSET Keys
    BY DEF TypeOK
  <2> QED
    BY <2>1
<1>2. \A t \in Threads : since[t] \in [always : SUBSET Keys, ever : SUBSET Keys]
  BY DEF TypeOK
<1> QED
  BY <1>1, <1>2 DEF observe

(* Every step of a thread preserves the inductive invariant.                *)
LEMMA InvStep ==
  ASSUME Inv, NEW t \in Threads, Step(t)
  PROVE  Inv'
<1> USE DEF at
<1>0. /\ TypeOK /\ th[t] \in ThreadState /\ Idle \in ThreadState
      /\ since \in [Threads -> [always : SUBSET Keys, ever : SUBSET Keys]]
      /\ Holds(t, th[t]) /\ WellFormed(th[t]) /\ Knows(th[t])
      /\ th[t].shard \in Shards
  <2>1. TypeOK
    BY DEF Inv
  <2>2. th[t] \in ThreadState /\ Idle \in ThreadState
    BY <2>1, NextStates
  <2> QED
    BY <2>1, <2>2 DEF Inv, TypeOK, ThreadState
<1>1. CASE LockShared(t)
  <2> DEFINE r == [th[t] EXCEPT !.pc = IF th[t].op = "keys" THEN "iterate" ELSE "find"]
  <2>1. /\ r \in ThreadState
        /\ r.pc = (IF th[t].op = "keys" THEN "iterate" ELSE "find")
        /\ r.op = th[t].op /\ r.key = th[t].key /\ r.value = th[t].value
        /\ r.shard = th[t].shard /\ r.seen = th[t].seen
        /\ r.status = th[t].status /\ r.body = th[t].body
    BY <1>0 DEF ThreadState
  <2>2. WellFormed(r) /\ Knows(r)
    BY <1>0, <1>1, <2>1 DEF WellFormed, Knows, LockShared, shared_op
  <2>3. readers' \in [Shards -> SUBSET Threads] /\ t \in readers'[r.shard]
    BY <1>0, <1>1, <2>1 DEF LockShared, TypeOK
  <2>4. /\ \A s \in Shards : writer'[s] # NoThread => readers'[s] = {}
        /\ \A s \in Shards, u \in Threads \ {t} :
             (u \in readers[s] => u \in readers'[s]) /\ (writer[s] = u => writer'[s] = u)
    BY <1>0, <1>1 DEF LockShared, TypeOK, Inv, LocksExclusive
  <2>5. shared_op(r.op) /\ goes_on(t, r) /\ UNCHANGED <<dict, since, writer>>
    BY <1>1, <2>1 DEF LockShared
  <2>6. writer' \in [Shards -> Threads \cup {NoThread}] /\ r.pc \notin {"insert", "remove"}
    BY <1>0, <2>1, <2>5 DEF TypeOK
  <2> HIDE DEF r
  <2> QED
    BY <2>1, <2>2, <2>3, <2>4, <2>5, <2>6, LockStep
<1>2. CASE LockUnique(t)
  <2> DEFINE r == [th[t] EXCEPT !.pc = IF th[t].op = "set" THEN "find" ELSE "remove"]
  <2>1. /\ r \in ThreadState
        /\ r.pc = (IF th[t].op = "set" THEN "find" ELSE "remove")
        /\ r.op = th[t].op /\ r.key = th[t].key /\ r.value = th[t].value
        /\ r.shard = th[t].shard /\ r.seen = th[t].seen
        /\ r.status = th[t].status /\ r.body = th[t].body
    BY <1>0 DEF ThreadState
  <2>2. th[t].op \in {"set", "delete"}
    BY <1>0, <1>2 DEF LockUnique, shared_op, ThreadState, Ops, WellFormed
  <2>3. WellFormed(r) /\ Knows(r)
    BY <1>0, <1>2, <2>1, <2>2 DEF WellFormed, Knows, LockUnique
  <2>4. writer' \in [Shards -> Threads \cup {NoThread}] /\ writer'[r.shard] = t
    BY <1>0, <1>2, <2>1 DEF LockUnique, TypeOK
  <2>5. /\ \A s \in Shards : writer'[s] # NoThread => readers'[s] = {}
        /\ \A s \in Shards, u \in Threads \ {t} :
             (u \in readers[s] => u \in readers'[s]) /\ (writer[s] = u => writer'[s] = u)
    BY <1>0, <1>2, ShardsAssumption DEF LockUnique, TypeOK, Inv, LocksExclusive
  <2>6. /\ ~shared_op(r.op) /\ goes_on(t, r) /\ UNCHANGED <<dict, since, readers>>
        /\ readers' \in [Shards -> SUBSET Threads]
    BY <1>0, <1>2, <2>1 DEF LockUnique, TypeOK
  <2> HIDE DEF r
  <2> QED
    BY <2>1, <2>3, <2>4, <2>5, <2>6, LockStep
<1>3. ASSUME release(t)
      PROVE  /\ UNCHANGED <<dict, since>>
             /\ writer' \in [Shards -> Threads \cup {NoThread}]
             /\ readers' \in [Shards -> SUBSET Threads]
             /\ \A s \in Shards : writer'[s] # NoThread => readers'[s] = {}
             /\ \A s \in Shards, u \in Threads \ {t} :
                  (u \in readers[s] => u \in readers'[s]) /\ (writer[s] = u => writer'[s] = u)
  <2>1. /\ writer' = [writer EXCEPT ![th[t].shard] = IF @ = t THEN NoThread ELSE @]
        /\ readers' = [readers EXCEPT ![th[t].shard] = @ \ {t}]
        /\ UNCHANGED <<dict, since>>
    BY <1>3 DEF release
  <2>2. \A s \in Shards : writer'[s] # NoThread => writer[s] = writer'[s]
    BY <1>0, <2>1 DEF TypeOK
  <2>3. \A s \in Shards : readers'[s] \in SUBSET readers[s]
    BY <1>0, <2>1 DEF TypeOK
  <2>4. \A s \in Shards : writer'[s] # NoThread => readers'[s] = {}
    BY <2>2, <2>3 DEF Inv, LocksExclusive
  <2> QED
    BY <1>0, <2>1, <2>4 DEF TypeOK
<1>4. CASE Unlock(t)
  <2> DEFINE r == [th[t] EXCEPT !.pc = "respond"]
  <2>1. /\ r \in ThreadState /\ r.pc = "respond"
        /\ r.op = th[t].op /\ r.key = th[t].key /\ r.value = th[t].value
        /\ r.shard = th[t].shard /\ r.seen = th[t].seen
        /\ r.status = th[t].status /\ r.body = th[t].body
    BY <1>0 DEF ThreadState
  <2>2. WellFormed(r) /\ Knows(r)
    BY <1>0, <1>4, <2>1 DEF WellFormed, Knows, Unlock, release
  <2>3. release(t) /\ goes_on(t, r)
    BY <1>4 DEF Unlock
  <2>4. ~in_critical_section(r)
    BY <2>1 DEF in_critical_section
  <2> HIDE DEF r
  <2> QED
    BY <1>3, <2>1, <2>2, <2>3, <2>4, LockStep
<1>5. CASE UnlockNextShard(t)
  <2> DEFINE r == [[th[t] EXCEPT !.pc = "lock"] EXCEPT !.shard = @ + 1]
  <2>1. th[t].op = "keys" /\ th[t].shard + 1 \in Shards
    BY <1>0, <1>5, ShardsAssumption DEF UnlockNextShard, more_shards, Shards
  <2>2. /\ r \in ThreadState /\ r.pc = "lock" /\ r.op = "keys"
    BY <1>0, <2>1 DEF ThreadState
  <2>3. WellFormed(r) /\ Knows(r) /\ ~in_critical_section(r)
    BY <2>2 DEF WellFormed, Knows, in_critical_section
  <2>4. release(t) /\ goes_on(t, r)
    BY <1>5 DEF UnlockNextShard
  <2> HIDE DEF r
  <2> QED
    BY <1>3, <2>2, <2>3, <2>4, LockStep
<1>6. CASE Respond(t)
  <2>1. goes_on(t, Idle) /\ UNCHANGED <<dict, writer, readers>>
    BY <1>6 DEF Respond
  <2>2. since' \in [Threads -> [always : SUBSET Keys, ever : SUBSET Keys]]
    BY <1>0, <1>6 DEF Respond
  <2>3. Holds(t, Idle) /\ WellFormed(Idle) /\ Knows(Idle)
    BY DEF Holds, WellFormed, Knows, Idle, in_critical_section
  <2> QED
    BY <1>0, <2>1, <2>2, <2>3, LocalStep
<1>7. ASSUME NEW s \in {"ok", "not_found", "conflict"}, NEW v \in Values \cup {NoValue},
             in_critical_section(th[t])
      PROVE  LET r == answered(t, s, v)
             IN /\ r \in ThreadState /\ r.pc = "unlock"
                /\ Holds(t, r) /\ WellFormed(r) /\ Knows(r)
  <2> DEFINE r == answered(t, s, v)
  <2>1. /\ r \in ThreadState /\ r.pc = "unlock"
        /\ r.op = th[t].op /\ r.key = th[t].key /\ r.value = th[t].value
        /\ r.shard = th[t].shard /\ r.seen = th[t].seen
    <3>1. r \in ThreadState
      BY <1>0, NextStates
    <3> QED
      BY <1>0, <3>1 DEF answered, ThreadState
  <2>2. WellFormed(r) /\ Knows(r)
    BY <1>0, <1>7, <2>1 DEF WellFormed, Knows, in_critical_section
  <2>3. Holds(t, r)
    BY <1>0, <1>7, <2>1 DEF Holds, in_critical_section
  <2> QED
    BY <2>1, <2>2, <2>3
<1>8. ASSUME NEW p \in {"copy", "insert"}, th[t].pc = "find",
             p = "copy" => th[t].op = "get" /\ stored(t) # NoValue,
             p = "insert" => th[t].op = "set" /\ stored(t) = NoValue
      PROVE  LET r == [th[t] EXCEPT !.pc = p]
             IN  r \in ThreadState /\ Holds(t, r) /\ WellFormed(r) /\ Knows(r)
  <2> DEFINE r == [th[t] EXCEPT !.pc = p]
  <2>1. /\ r \in ThreadState /\ r.pc = p
        /\ r.op = th[t].op /\ r.key = th[t].key /\ r.value = th[t].value
        /\ r.shard = th[t].shard /\ r.seen = th[t].seen
        /\ r.status = th[t].status /\ r.body = th[t].body
    BY <1>0 DEF ThreadState
  <2>2. WellFormed(r) /\ Knows(r)
    BY <1>0, <1>8, <2>1 DEF WellFormed, Knows, stored
  <2>3. Holds(t, r)
    BY <1>0, <1>8, <2>1 DEF Holds, in_critical_section, shared_op
  <2> QED
    BY <2>1, <2>2, <2>3
<1>9. CASE GetFind(t)
  <2>1. th[t].pc = "find" /\ in_critical_section(th[t]) /\ UNCHANGED <<dict, writer, readers, since>>
    BY <1>9 DEF GetFind, in_critical_section
  <2>2. CASE stored(t) # NoValue
    BY <1>0, <1>8, <1>9, <2>1, <2>2, LocalStep DEF GetFind
  <2>3. CASE stored(t) = NoValue
    BY <1>0, <1>7, <1>9, <2>1, <2>3, LocalStep DEF GetFind
  <2> QED
    BY <2>2, <2>3
<1>10. CASE GetCopy(t)
  <2>1. in_critical_section(th[t]) /\ UNCHANGED <<dict, writer, readers, since>>
    BY <1>10 DEF GetCopy, in_critical_section
  <2>2. stored(t) \in Values \cup {NoValue} /\ goes_on(t, answered(t, "ok", stored(t)))
    BY <1>0, <1>10 DEF GetCopy, stored, Knows, WellFormed, TypeOK
  <2> QED
    BY <1>0, <1>7, <2>1, <2>2, LocalStep
<1>11. CASE SetFind(t)
  <2>1. th[t].pc = "find" /\ in_critical_section(th[t]) /\ UNCHANGED <<dict, writer, readers, since>>
    BY <1>11 DEF SetFind, in_critical_section
  <2>2. CASE stored(t) # NoValue
    BY <1>0, <1>7, <1>11, <2>1, <2>2, LocalStep DEF SetFind
  <2>3. CASE stored(t) = NoValue
    BY <1>0, <1>8, <1>11, <2>1, <2>3, LocalStep DEF SetFind
  <2> QED
    BY <2>2, <2>3
<1>12. CASE SetInsert(t)
  <2>1. /\ in_critical_section(th[t]) /\ th[t].pc \in {"insert", "remove"}
        /\ UNCHANGED <<writer, readers>>
        /\ goes_on(t, answered(t, "ok", NoValue))
    BY <1>12 DEF SetInsert, in_critical_section
  <2>2. th[t].value \in Values \cup {NoValue}
    BY <1>0 DEF ThreadState
  <2>3. dict' = [dict EXCEPT ![th[t].key] = th[t].value]
    BY <1>0, <1>12 DEF SetInsert, Knows, WellFormed, TypeOK
  <2>4. since' \in [Threads -> [always : SUBSET Keys, ever : SUBSET Keys]]
    BY <1>0, <1>12, ObserveType DEF SetInsert
  <2> QED
    BY <1>7, <2>1, <2>2, <2>3, <2>4, StoreStep
<1>13. CASE DeleteRemove(t)
  <2> DEFINE status == IF stored(t) # NoValue THEN "ok" ELSE "not_found"
  <2>1. /\ in_critical_section(th[t]) /\ th[t].pc \in {"insert", "remove"}
        /\ UNCHANGED <<writer, readers>> /\ dict' = [dict EXCEPT ![th[t].key] = NoValue]
        /\ goes_on(t, answered(t, status, NoValue))
    BY <1>13 DEF DeleteRemove, in_critical_section
  <2>2. since' \in [Threads -> [always : SUBSET Keys, ever : SUBSET Keys]]
    BY <1>0, <1>13, ObserveType DEF DeleteRemove
  <2>3. status \in {"ok", "not_found", "conflict"}
    OBVIOUS
  <2> HIDE DEF status
  <2> QED
    BY <1>7, <2>1, <2>2, <2>3, StoreStep
<1>14. CASE KeysVisit(t)
  <2>1. PICK k \in unvisited(t) : goes_on(t, [th[t] EXCEPT !.seen = @ \cup {k}])
    BY <1>14 DEF KeysVisit
  <2> DEFINE r == [th[t] EXCEPT !.seen = @ \cup {k}]
  <2>2. k \in Keys
    BY DEF unvisited, present
  <2>3. /\ r \in ThreadState /\ r.pc = th[t].pc
        /\ r.op = th[t].op /\ r.key = th[t].key /\ r.value = th[t].value
        /\ r.shard = th[t].shard /\ r.status = th[t].status /\ r.body = th[t].body
    BY <1>0, <2>2 DEF ThreadState
  <2>4. r.op = "keys"
    BY <1>0, <1>14, <2>3 DEF KeysVisit, Knows
  <2>5. Holds(t, r) /\ WellFormed(r) /\ Knows(r)
    BY <1>0, <2>3, <2>4 DEF Holds, WellFormed, Knows, in_critical_section
  <2>6. goes_on(t, r) /\ UNCHANGED <<dict, writer, readers, since>>
    BY <1>14, <2>1 DEF KeysVisit
  <2> HIDE DEF r
  <2> QED
    BY <1>0, <2>3, <2>5, <2>6, LocalStep
<1>15. CASE KeysEnd(t)
  <2>1. /\ in_critical_section(th[t]) /\ UNCHANGED <<dict, writer, readers, since>>
        /\ goes_on(t, answered(t, "ok", NoValue))
    BY <1>15 DEF KeysEnd, in_critical_section
  <2> QED
    BY <1>0, <1>7, <2>1, LocalStep
<1> QED
  BY <1>1, <1>2, <1>4, <1>5, <1>6, <1>9, <1>10, <1>11, <1>12, <1>13, <1>14, <1>15
     DEF Step

(* A new request preserves the inductive invariant.                         *)
LEMMA InvRequest ==
  ASSUME Inv, NEW t \in Threads, NEW op \in Ops,
         NEW k \in Keys \cup {NoValue}, NEW v \in Values \cup {NoValue},
         op # "keys" => k \in Keys, op = "set" => v \in Values,
         Request(t, op, k, v)
  PROVE  Inv'
<1> DEFINE r == [pc |-> "lock", op |-> op, key |-> k, value |-> v,
                 shard |-> IF op = "keys" THEN 0 ELSE ShardOf[k],
                 seen |-> {}, status |-> "none", body |-> NoValue]
<1>1. (IF op = "keys" THEN 0 ELSE ShardOf[k]) \in Shards
  BY ShardsAssumption DEF Shards
<1>3. r \in ThreadState
  BY <1>1 DEF ThreadState
<1>4. Holds(t, r) /\ WellFormed(r) /\ Knows(r)
  BY DEF Holds, WellFormed, Knows, in_critical_section, Ops
<1>5. goes_on(t, r) /\ UNCHANGED <<dict, writer, readers>>
  BY DEF Request
<1>6. since' \in [Threads -> [always : SUBSET Keys, ever : SUBSET Keys]]
  BY DEF Request, Inv, TypeOK, present
<1> HIDE DEF r
<1> QED
  BY <1>3, <1>4, <1>5, <1>6, LocalStep

(* The invariant is inductive.                                              *)
LEMMA InvNext == Inv /\ [Next]_vars => Inv'
<1> SUFFICES ASSUME Inv, [Next]_vars PROVE Inv'
  OBVIOUS
<1>1. CASE UNCHANGED vars
  BY <1>1 DEF vars, Inv, TypeOK, LocksExclusive, Holds, WellFormed, Knows
<1>2. CASE Next
  <2>1. PICK t \in Threads :
          \/ \E k \in Keys :
               \/ Request(t, "get", k, NoValue) \/ Request(t, "delete", k, NoValue)
               \/ \E v \in Values : Request(t, "set", k, v)
          \/ Request(t, "keys", NoValue, NoValue)
          \/ Step(t)
    BY <1>2 DEF Next
  <2> QED
    BY <2>1, InvRequest, InvStep DEF Ops
<1> QED
  BY <1>1, <1>2

(****************************************************************************)
(* The state of the handlers, of the locks and of the store stays well      *)
(* typed, for any number of threads, shards, keys and values.               *)
(****************************************************************************)
THEOREM TypeCorrect == Spec => []TypeOK
<1>1. Inv => TypeOK
  BY DEF Inv
<1> QED
  BY <1>1, InvInit, InvNext, PTL DEF Spec

(****************************************************************************)
(* No thread is inside the hash_map of a shard, or copies bytes out of it,  *)
(* while another changes it.                                                *)
(****************************************************************************)
THEOREM RaceFree == Spec => []NoRace
<1>1. Inv => NoRace
  <2> SUFFICES ASSUME Inv, NEW t \in Threads, NEW u \in Threads, t # u,
                      inside(t), modifying(u), th[t].shard = th[u].shard
               PROVE  FALSE
    BY DEF NoRace
  <2>1. Holds(t, th[t]) /\ Holds(u, th[u]) /\ th[u].shard \in Shards
    BY DEF Inv, TypeOK, ThreadState
  <2>2. writer[th[u].shard] = u
    BY <2>1 DEF Holds, modifying, in_critical_section
  <2>3. readers[th[u].shard] = {}
    BY <2>1, <2>2, ShardsAssumption DEF Inv, LocksExclusive
  <2>4. writer[th[t].shard] = t \/ t \in readers[th[t].shard]
    BY <2>1 DEF Holds, inside, in_critical_section
  <2> QED
    BY <2>2, <2>3, <2>4
<1> QED
  BY <1>1, InvInit, InvNext, PTL DEF Spec

-----------------------------------------------------------------------------
(* A step of a thread changes what the abstract store sees of that thread.  *)
LEMMA ClientStep ==
  ASSUME TypeOK, NEW t \in Threads, NEW r, goes_on(t, r)
  PROVE  client' = [client EXCEPT ![t] = request_of(r)]
  BY ZenonT(30) DEF client, request_of, answer_pending, goes_on, TypeOK

(* A step that keeps the request's answer and the store is a stutter.       *)
LEMMA Stutter ==
  ASSUME TypeOK, NEW t \in Threads, NEW r, goes_on(t, r),
         request_of(r) = request_of(th[t]), UNCHANGED dict
  PROVE  UNCHANGED <<dict, client>>
<1>1. client' = [client EXCEPT ![t] = client[t]]
  BY ClientStep DEF client
<1>2. client' = client
  BY <1>1 DEF client
<1> QED
  BY <1>2

(* A thread's critical section answers the request it was given.            *)
LEMMA Answering ==
  ASSUME TypeOK, NEW t \in Threads, NEW status, NEW body,
         goes_on(t, answered(t, status, body)), WellFormed(th[t]),
         th[t].op \in {"get", "set", "delete"},
         th[t].pc \in {"find", "copy", "insert", "remove"}
  PROVE  /\ Atomic!Answer(t, th[t].op, status, body)
         /\ client[t].key = th[t].key /\ client[t].value = th[t].value
         /\ Atomic!stored(t) = stored(t)
<1>1. client[t] = [pc |-> "pending", op |-> th[t].op, key |-> th[t].key,
                   value |-> th[t].value, status |-> th[t].status, body |-> th[t].body]
  BY DEF client, request_of, answer_pending
<1>2. th[t] \in ThreadState
  BY DEF TypeOK
<1>3. /\ answered(t, status, body).op = th[t].op
      /\ answered(t, status, body).pc = "unlock"
      /\ answered(t, status, body).key = th[t].key
      /\ answered(t, status, body).value = th[t].value
      /\ answered(t, status, body).status = status
      /\ answered(t, status, body).body = body
  BY <1>2 DEF answered, ThreadState
<1>4. request_of(answered(t, status, body)) =
        [pc |-> "done", op |-> th[t].op, key |-> th[t].key,
         value |-> th[t].value, status |-> status, body |-> body]
  BY <1>3 DEF request_of, answer_pending
<1>5. client' = [client EXCEPT ![t] = request_of(answered(t, status, body))]
  BY ClientStep
<1> QED
  BY <1>1, <1>4, <1>5 DEF Atomic!Answer, Atomic!request, Atomic!stored, stored

(* Every step of a thread is a step of the abstract store, or none.         *)
LEMMA StepRefines ==
  ASSUME Inv, NEW t \in Threads, Step(t)
  PROVE  Atomic!Next \/ UNCHANGED <<dict, client>>
<1> USE DEF at
<1>0. TypeOK /\ th[t] \in ThreadState /\ WellFormed(th[t]) /\ Knows(th[t])
  BY DEF Inv, TypeOK
<1>1. ASSUME NEW p \in {"lock", "find", "copy", "insert", "remove", "iterate"},
             th[t].pc \in {"lock", "find"}
      PROVE  request_of([th[t] EXCEPT !.pc = p]) = request_of(th[t])
  <2> DEFINE r == [th[t] EXCEPT !.pc = p]
  <2>1. /\ r.pc = p /\ r.op = th[t].op /\ r.key = th[t].key /\ r.value = th[t].value
        /\ r.status = th[t].status /\ r.body = th[t].body
    BY <1>0 DEF ThreadState
  <2> HIDE DEF r
  <2>2. request_of(r) = request_of(th[t])
    BY <1>1, <2>1 DEF request_of, answer_pending
  <2> QED
    BY <2>2 DEF r
<1>2. CASE LockShared(t) \/ LockUnique(t)
  <2>1. PICK p \in {"find", "remove", "iterate"} : goes_on(t, [th[t] EXCEPT !.pc = p])
    BY <1>2 DEF LockShared, LockUnique
  <2>2. th[t].pc = "lock" /\ UNCHANGED dict
    BY <1>2 DEF LockShared, LockUnique
  <2>3. request_of([th[t] EXCEPT !.pc = p]) = request_of(th[t])
    BY <1>1, <2>2
  <2> QED
    BY <1>0, <2>1, <2>2, <2>3, Stutter
<1>3. CASE Unlock(t)
  <2> DEFINE r == [th[t] EXCEPT !.pc = "respond"]
  <2>1. /\ r.pc = "respond" /\ r.op = th[t].op /\ r.key = th[t].key /\ r.value = th[t].value
        /\ r.status = th[t].status /\ r.body = th[t].body
    BY <1>0 DEF ThreadState
  <2>2. th[t].pc = "unlock" /\ goes_on(t, r) /\ UNCHANGED dict
    BY <1>3 DEF Unlock, release
  <2> HIDE DEF r
  <2>3. request_of(r) = request_of(th[t])
    BY <2>1, <2>2 DEF request_of, answer_pending
  <2> QED
    BY <1>0, <2>2, <2>3, Stutter
<1>4. CASE UnlockNextShard(t)
  <2> DEFINE r == [[th[t] EXCEPT !.pc = "lock"] EXCEPT !.shard = @ + 1]
  <2>1. th[t].op = "keys" /\ goes_on(t, r) /\ UNCHANGED dict
    BY <1>4 DEF UnlockNextShard, more_shards, release
  <2>2. r.op = th[t].op
    BY <1>0 DEF ThreadState
  <2> HIDE DEF r
  <2>3. request_of(r) = request_of(th[t])
    BY <2>1, <2>2 DEF request_of
  <2> QED
    BY <1>0, <2>1, <2>3, Stutter
<1>5. CASE Respond(t)
  <2>1. goes_on(t, Idle) /\ UNCHANGED dict /\ th[t].pc = "respond"
    BY <1>5 DEF Respond
  <2>2. request_of(Idle) = Atomic!NoRequest
    BY DEF request_of, Idle, Atomic!NoRequest, Atomic!request
  <2>3. CASE th[t].op = "keys"
    <3>1. request_of(Idle) = request_of(th[t])
      BY <2>3 DEF request_of, Idle
    <3> QED
      BY <1>0, <2>1, <3>1, Stutter
  <2>4. CASE th[t].op # "keys"
    <3>1. client[t].pc = "done"
      BY <2>1, <2>4 DEF client, request_of, answer_pending
    <3>2. Atomic!End(t)
      BY <1>0, <2>1, <2>2, <3>1, ClientStep DEF Atomic!End
    <3> QED
      BY <3>2 DEF Atomic!Next
  <2> QED
    BY <2>3, <2>4
<1>6. CASE GetFind(t)
  <2>1. th[t].op = "get" /\ th[t].pc = "find" /\ UNCHANGED dict
    BY <1>6 DEF GetFind
  <2>2. CASE stored(t) # NoValue
    <3>1. goes_on(t, [th[t] EXCEPT !.pc = "copy"])
      BY <1>6, <2>2 DEF GetFind
    <3>2. request_of([th[t] EXCEPT !.pc = "copy"]) = request_of(th[t])
      BY <1>1, <2>1
    <3> QED
      BY <1>0, <2>1, <3>1, <3>2, Stutter
  <2>3. CASE stored(t) = NoValue
    <3>1. goes_on(t, answered(t, "not_found", NoValue))
      BY <1>6, <2>3 DEF GetFind
    <3>2. Atomic!Get(t)
      BY <1>0, <2>1, <2>3, <3>1, Answering DEF Atomic!Get, Atomic!Answer
    <3> QED
      BY <3>2 DEF Atomic!Next
  <2> QED
    BY <2>2, <2>3
<1>7. CASE GetCopy(t)
  <2>1. /\ th[t].op = "get" /\ th[t].pc = "copy" /\ UNCHANGED dict
        /\ goes_on(t, answered(t, "ok", stored(t))) /\ stored(t) # NoValue
    BY <1>0, <1>7 DEF GetCopy, Knows, stored
  <2>2. Atomic!Get(t)
    BY <1>0, <2>1, Answering DEF Atomic!Get, Atomic!Answer
  <2> QED
    BY <2>2 DEF Atomic!Next
<1>8. CASE SetFind(t)
  <2>1. th[t].op = "set" /\ th[t].pc = "find" /\ UNCHANGED dict
    BY <1>8 DEF SetFind
  <2>2. CASE stored(t) = NoValue
    <3>1. goes_on(t, [th[t] EXCEPT !.pc = "insert"])
      BY <1>8, <2>2 DEF SetFind
    <3>2. request_of([th[t] EXCEPT !.pc = "insert"]) = request_of(th[t])
      BY <1>1, <2>1
    <3> QED
      BY <1>0, <2>1, <3>1, <3>2, Stutter
  <2>3. CASE stored(t) # NoValue
    <3>1. goes_on(t, answered(t, "conflict", NoValue))
      BY <1>8, <2>3 DEF SetFind
    <3>2. Atomic!SetConflict(t)
      BY <1>0, <2>1, <2>3, <3>1, Answering DEF Atomic!SetConflict
    <3> QED
      BY <3>2 DEF Atomic!Next
  <2> QED
    BY <2>2, <2>3
<1>9. CASE SetInsert(t)
  <2>1. /\ th[t].op = "set" /\ th[t].pc = "insert"
        /\ goes_on(t, answered(t, "ok", NoValue)) /\ stored(t) = NoValue
    BY <1>0, <1>9 DEF SetInsert, Knows, stored
  <2>2. dict' = [dict EXCEPT ![th[t].key] = th[t].value]
    BY <1>0, <1>9 DEF SetInsert, Knows, WellFormed, TypeOK
  <2>3. Atomic!SetNew(t)
    BY <1>0, <2>1, <2>2, Answering DEF Atomic!SetNew
  <2> QED
    BY <2>3 DEF Atomic!Next
<1>10. CASE DeleteRemove(t)
  <2>1. /\ th[t].op = "delete" /\ th[t].pc = "remove"
        /\ goes_on(t, answered(t, IF stored(t) = NoValue THEN "not_found" ELSE "ok", NoValue))
        /\ dict' = [dict EXCEPT ![th[t].key] = NoValue]
    BY <1>0, <1>10 DEF DeleteRemove, Knows
  <2>2. Atomic!Delete(t)
    <3> DEFINE status == IF stored(t) = NoValue THEN "not_found" ELSE "ok"
    <3>1. goes_on(t, answered(t, status, NoValue))
      BY <2>1
    <3> HIDE DEF status
    <3>2. /\ Atomic!Answer(t, "delete", status, NoValue)
          /\ client[t].key = th[t].key /\ Atomic!stored(t) = stored(t)
      BY <1>0, <2>1, <3>1, Answering
    <3>3. client[t].pc = "pending"
      BY <3>2 DEF Atomic!Answer
    <3> QED
      BY <2>1, <3>2, <3>3 DEF Atomic!Delete, status
  <2> QED
    BY <2>2 DEF Atomic!Next
<1>11. CASE KeysVisit(t)
  <2>1. PICK k : goes_on(t, [th[t] EXCEPT !.seen = @ \cup {k}])
    BY <1>11 DEF KeysVisit
  <2> DEFINE r == [th[t] EXCEPT !.seen = @ \cup {k}]
  <2>2. th[t].op = "keys" /\ UNCHANGED dict
    BY <1>0, <1>11 DEF KeysVisit, Knows
  <2>3. r.op = th[t].op
    BY <1>0 DEF ThreadState
  <2> HIDE DEF r
  <2>4. request_of(r) = request_of(th[t])
    BY <2>2, <2>3 DEF request_of
  <2> QED
    BY <1>0, <2>1, <2>2, <2>4, Stutter DEF r
<1>12. CASE KeysEnd(t)
  <2>1. th[t].op = "keys" /\ UNCHANGED dict /\ goes_on(t, answered(t, "ok", NoValue))
    BY <1>0, <1>12 DEF KeysEnd, Knows
  <2>2. answered(t, "ok", NoValue).op = th[t].op
    BY <1>0 DEF answered, ThreadState
  <2>3. request_of(answered(t, "ok", NoValue)) = request_of(th[t])
    BY <2>1, <2>2 DEF request_of
  <2> QED
    BY <1>0, <2>1, <2>3, Stutter
<1> QED
  BY <1>2, <1>3, <1>4, <1>5, <1>6, <1>7, <1>8, <1>9, <1>10, <1>11, <1>12 DEF Step

(* A request arrives at the abstract store, unless it is for the keys.      *)
LEMMA RequestRefines ==
  ASSUME Inv, NEW t \in Threads, NEW op \in Ops, NEW k, NEW v, Request(t, op, k, v)
  PROVE  IF op = "keys" THEN UNCHANGED <<dict, client>> ELSE Atomic!Begin(t, op, k, v)
<1> DEFINE r == [pc |-> "lock", op |-> op, key |-> k, value |-> v,
                 shard |-> IF op = "keys" THEN 0 ELSE ShardOf[k],
                 seen |-> {}, status |-> "none", body |-> NoValue]
<1>1. TypeOK /\ th[t].pc = "idle" /\ goes_on(t, r) /\ UNCHANGED dict
  BY DEF Request, at, Inv
<1>2. request_of(th[t]) = Atomic!NoRequest
  BY <1>1 DEF request_of, Atomic!NoRequest, Atomic!request
<1>3. CASE op = "keys"
  <2>1. request_of(r) = request_of(th[t])
    BY <1>2, <1>3 DEF request_of, Atomic!NoRequest, Atomic!request
  <2> QED
    BY <1>1, <1>3, <2>1, Stutter
<1>4. CASE op # "keys"
  <2>1. request_of(r) = Atomic!request("pending", op, k, v, "none", NoValue)
    BY <1>4 DEF request_of, answer_pending, Atomic!request
  <2>2. client[t] = Atomic!NoRequest
    BY <1>2 DEF client
  <2> HIDE DEF r
  <2> QED
    BY <1>1, <1>4, <2>1, <2>2, ClientStep DEF Atomic!Begin
<1> QED
  BY <1>3, <1>4

(****************************************************************************)
(* The handlers, interleaved in any way, answer get, set and delete as the  *)
(* atomic store does: the concurrent server is linearizable.                *)
(****************************************************************************)
THEOREM LinearizableHandlers == Spec => Linearizable
<1>1. Init => Atomic!Init
  <2> SUFFICES ASSUME Init PROVE Atomic!Init
    OBVIOUS
  <2>1. \A t \in Threads : request_of(th[t]) = Atomic!NoRequest
    BY DEF Init, Idle, request_of, Atomic!NoRequest, Atomic!request
  <2> QED
    BY <2>1 DEF Init, client, Atomic!Init
<1>2. Inv /\ [Next]_vars => [Atomic!Next]_<<dict, client>>
  <2> SUFFICES ASSUME Inv, [Next]_vars PROVE Atomic!Next \/ UNCHANGED <<dict, client>>
    OBVIOUS
  <2>1. CASE UNCHANGED vars
    BY <2>1 DEF vars, client, request_of, answer_pending
  <2>2. CASE Next
    <3>1. PICK t \in Threads :
            \/ \E k \in Keys :
                 \/ Request(t, "get", k, NoValue) \/ Request(t, "delete", k, NoValue)
                 \/ \E v \in Values : Request(t, "set", k, v)
            \/ Request(t, "keys", NoValue, NoValue)
            \/ Step(t)
      BY <2>2 DEF Next
    <3> QED
      BY <3>1, RequestRefines, StepRefines DEF Ops, Atomic!Next
  <2> QED
    BY <2>1, <2>2
<1> QED
  BY <1>1, <1>2, InvInit, InvNext, PTL DEF Spec, Linearizable, Atomic!Spec
-----------------------------------------------------------------------------
(* What a keys request in state r, with history s, has found so far: every  *)
(* key it must report is in the store, and in its list once the key's shard *)
(* has been read; the list has only keys that were there.                   *)
Coherent(r, s) ==
    r.op = "keys" =>
      /\ s.always \subseteq present /\ present \subseteq s.ever
      /\ r.seen \subseteq s.ever
      /\ \A k \in s.always : ShardOf[k] < r.shard => k \in r.seen
      /\ r.pc = "unlock" => \A k \in s.always : ShardOf[k] = r.shard => k \in r.seen
      /\ r.pc = "respond" => s.always \subseteq r.seen

AllCoherent == \A t \in Threads : Coherent(th[t], since[t])

(* A step that leaves the store alone preserves coherence if the thread's   *)
(* new state is coherent.                                                   *)
LEMMA CoherentLocal ==
  ASSUME TypeOK, AllCoherent, NEW t \in Threads, NEW r \in ThreadState,
         goes_on(t, r), UNCHANGED dict,
         \A u \in Threads \ {t} : since'[u] = since[u],
         Coherent(r, since'[t])
  PROVE  AllCoherent'
<1>1. /\ th'[t] = r
      /\ \A u \in Threads \ {t} : th'[u] = th[u]
  BY GoesOn
<1>2. present' = present
  BY DEF present
<1>3. ASSUME NEW u \in Threads
      PROVE  Coherent(th'[u], since'[u])
  <2>1. CASE u = t
    BY <1>1, <2>1
  <2>2. CASE u # t
    BY <1>1, <2>2 DEF AllCoherent
  <2> QED
    BY <2>1, <2>2
<1>4. ASSUME NEW u \in Threads
      PROVE  Coherent(th[u], since[u])'
  BY <1>2, <1>3 DEF Coherent
<1> QED
  BY <1>4 DEF AllCoherent

(* A step that changes the store takes from every keys request the keys     *)
(* that went away, and adds the ones that came.                             *)
LEMMA CoherentStore ==
  ASSUME Inv, AllCoherent, NEW t \in Threads, NEW r \in ThreadState,
         goes_on(t, r), r.op # "keys", th[t].op # "keys", observe(dict')
  PROVE  AllCoherent'
<1>1. /\ th'[t] = r
      /\ \A u \in Threads \ {t} : th'[u] = th[u]
  BY GoesOn DEF Inv
<1>2. ASSUME NEW u \in Threads, th'[u].op = "keys"
      PROVE  Coherent(th[u], since[u])'
  <2>1. th'[u] = th[u] /\ th[u].op = "keys"
    BY <1>1, <1>2
  <2>2. since'[u] = [always |-> since[u].always \cap present',
                     ever |-> since[u].ever \cup present']
    BY <2>1 DEF observe, present
  <2>3. /\ since'[u].always = since[u].always \cap present'
        /\ since'[u].ever = since[u].ever \cup present'
    BY <2>2
  <2>4. Coherent(th[u], since[u])
    BY DEF AllCoherent
  <2> QED
    BY <2>1, <2>3, <2>4 DEF Coherent
<1>3. \A u \in Threads : Coherent(th[u], since[u])'
  BY <1>2 DEF Coherent
<1> QED
  BY <1>3 DEF AllCoherent

(* Every step of a thread preserves coherence.                              *)
LEMMA CoherentStep ==
  ASSUME Inv, AllCoherent, NEW t \in Threads, Step(t)
  PROVE  AllCoherent'
<1> USE DEF at
<1>0. /\ TypeOK /\ th[t] \in ThreadState /\ WellFormed(th[t]) /\ Knows(th[t])
      /\ Coherent(th[t], since[t]) /\ th[t].shard \in Shards
      /\ since[t].always \in SUBSET Keys /\ since[t].ever \in SUBSET Keys
  BY DEF Inv, TypeOK, AllCoherent, ThreadState
<1>1. ASSUME NEW p \in {"lock", "find", "copy", "insert", "remove", "iterate"},
             goes_on(t, [th[t] EXCEPT !.pc = p]), UNCHANGED <<dict, since>>
      PROVE  AllCoherent'
  <2> DEFINE r == [th[t] EXCEPT !.pc = p]
  <2>1. /\ r \in ThreadState /\ r.pc = p /\ r.op = th[t].op
        /\ r.shard = th[t].shard /\ r.seen = th[t].seen
    BY <1>0 DEF ThreadState
  <2> HIDE DEF r
  <2>2. Coherent(r, since[t])
    BY <1>0, <2>1 DEF Coherent
  <2>3. goes_on(t, r)
    BY <1>1 DEF r
  <2> QED
    BY <1>0, <1>1, <2>1, <2>2, <2>3, CoherentLocal
<1>2. ASSUME NEW s \in {"ok", "not_found", "conflict"}, NEW v \in Values \cup {NoValue}
      PROVE  /\ answered(t, s, v) \in ThreadState /\ answered(t, s, v).pc = "unlock"
             /\ answered(t, s, v).op = th[t].op /\ answered(t, s, v).shard = th[t].shard
             /\ answered(t, s, v).seen = th[t].seen
  BY <1>0, <1>2, ZenonT(30) DEF answered, ThreadState
<1>3. ASSUME NEW s \in {"ok", "not_found", "conflict"}, NEW v \in Values \cup {NoValue},
             goes_on(t, answered(t, s, v)), UNCHANGED <<dict, since>>, th[t].op # "keys"
      PROVE  AllCoherent'
  <2>1. Coherent(answered(t, s, v), since[t])
    BY <1>2, <1>3 DEF Coherent
  <2> QED
    BY <1>0, <1>2, <1>3, <2>1, CoherentLocal
<1>4. CASE LockShared(t) \/ LockUnique(t)
  <2>1. PICK p \in {"find", "remove", "iterate"} : goes_on(t, [th[t] EXCEPT !.pc = p])
    BY <1>4 DEF LockShared, LockUnique
  <2>2. UNCHANGED <<dict, since>>
    BY <1>4 DEF LockShared, LockUnique
  <2> QED
    BY <1>1, <2>1, <2>2
<1>5. CASE Unlock(t)
  <2> DEFINE r == [th[t] EXCEPT !.pc = "respond"]
  <2>1. /\ r \in ThreadState /\ r.pc = "respond" /\ r.op = th[t].op
        /\ r.shard = th[t].shard /\ r.seen = th[t].seen
    BY <1>0 DEF ThreadState
  <2>2. /\ th[t].pc = "unlock" /\ goes_on(t, r) /\ UNCHANGED <<dict, since>>
        /\ th[t].op = "keys" => ~(th[t].shard + 1 < NumShards)
    BY <1>5 DEF Unlock, release, more_shards
  <2> HIDE DEF r
  <2>3. ASSUME NEW k \in since[t].always, th[t].op = "keys"
        PROVE  k \in th[t].seen
    <3>1. ShardOf[k] \in Shards
      BY <1>0, ShardsAssumption
    <3>2. ShardOf[k] < th[t].shard \/ ShardOf[k] = th[t].shard
      BY <1>0, <2>2, <2>3, <3>1, ShardsAssumption DEF Shards
    <3> QED
      BY <1>0, <2>2, <2>3, <3>2 DEF Coherent
  <2>4. Coherent(r, since[t])
    BY <1>0, <2>1, <2>3 DEF Coherent
  <2> QED
    BY <1>0, <2>1, <2>2, <2>4, CoherentLocal
<1>6. CASE UnlockNextShard(t)
  <2> DEFINE r == [[th[t] EXCEPT !.pc = "lock"] EXCEPT !.shard = @ + 1]
  <2>1. /\ th[t].pc = "unlock" /\ goes_on(t, r) /\ UNCHANGED <<dict, since>>
        /\ th[t].op = "keys" /\ th[t].shard + 1 < NumShards
    BY <1>6 DEF UnlockNextShard, release, more_shards
  <2>2. th[t].shard + 1 \in Shards
    BY <1>0, <2>1, ShardsAssumption DEF Shards
  <2>3. /\ r \in ThreadState /\ r.pc = "lock" /\ r.op = th[t].op
        /\ r.shard = th[t].shard + 1 /\ r.seen = th[t].seen
    BY <1>0, <2>2 DEF ThreadState
  <2> HIDE DEF r
  <2>4. ASSUME NEW k \in since[t].always, ShardOf[k] < th[t].shard + 1
        PROVE  k \in th[t].seen
    <3>1. ShardOf[k] \in Shards
      BY <1>0, ShardsAssumption
    <3>2. ShardOf[k] < th[t].shard \/ ShardOf[k] = th[t].shard
      BY <1>0, <2>4, <3>1, ShardsAssumption DEF Shards
    <3> QED
      BY <1>0, <2>1, <3>2 DEF Coherent
  <2>5. Coherent(r, since[t])
    BY <1>0, <2>3, <2>4 DEF Coherent
  <2> QED
    BY <1>0, <2>1, <2>3, <2>5, CoherentLocal
<1>7. CASE Respond(t)
  <2>1. /\ goes_on(t, Idle) /\ UNCHANGED dict
        /\ \A u \in Threads \ {t} : since'[u] = since[u]
    BY <1>0, <1>7 DEF Respond, TypeOK
  <2>2. Idle \in ThreadState /\ Coherent(Idle, since'[t])
    BY <1>0, NextStates DEF Idle, Coherent
  <2> QED
    BY <1>0, <2>1, <2>2, CoherentLocal
<1>8. CASE GetFind(t)
  <2>1. /\ th[t].op = "get" /\ UNCHANGED <<dict, since>>
        /\ \/ goes_on(t, [th[t] EXCEPT !.pc = "copy"])
           \/ goes_on(t, answered(t, "not_found", NoValue))
    BY <1>8 DEF GetFind
  <2> QED
    BY <1>1, <1>3, <2>1
<1>9. CASE GetCopy(t)
  <2>1. /\ th[t].op = "get" /\ UNCHANGED <<dict, since>>
        /\ goes_on(t, answered(t, "ok", stored(t))) /\ stored(t) \in Values \cup {NoValue}
    BY <1>0, <1>9 DEF GetCopy, Knows, WellFormed, TypeOK, stored
  <2> QED
    BY <1>3, <2>1
<1>10. CASE SetFind(t)
  <2>1. /\ th[t].op = "set" /\ UNCHANGED <<dict, since>>
        /\ \/ goes_on(t, [th[t] EXCEPT !.pc = "insert"])
           \/ goes_on(t, answered(t, "conflict", NoValue))
    BY <1>10 DEF SetFind
  <2> QED
    BY <1>1, <1>3, <2>1
<1>11. CASE SetInsert(t)
  <2>1. /\ th[t].op = "set" /\ observe(dict')
        /\ goes_on(t, answered(t, "ok", NoValue))
    BY <1>0, <1>11 DEF SetInsert, Knows
  <2> QED
    BY <1>2, <2>1, CoherentStore
<1>12. CASE DeleteRemove(t)
  <2>1. /\ th[t].op = "delete" /\ observe(dict')
        /\ \/ goes_on(t, answered(t, "ok", NoValue))
           \/ goes_on(t, answered(t, "not_found", NoValue))
    BY <1>0, <1>12 DEF DeleteRemove, Knows
  <2> QED
    BY <1>2, <2>1, CoherentStore
<1>13. CASE KeysVisit(t)
  <2>1. PICK k \in unvisited(t) : goes_on(t, [th[t] EXCEPT !.seen = @ \cup {k}])
    BY <1>13 DEF KeysVisit
  <2> DEFINE r == [th[t] EXCEPT !.seen = @ \cup {k}]
  <2>2. th[t].op = "keys" /\ th[t].pc = "iterate" /\ UNCHANGED <<dict, since>>
    BY <1>0, <1>13 DEF KeysVisit, Knows
  <2>3. k \in present /\ k \in Keys
    BY <2>1 DEF unvisited, present
  <2>4. /\ r \in ThreadState /\ r.pc = th[t].pc /\ r.op = th[t].op
        /\ r.shard = th[t].shard /\ r.seen = th[t].seen \cup {k}
    BY <1>0, <2>3 DEF ThreadState
  <2>5. goes_on(t, r)
    BY <2>1
  <2> HIDE DEF r
  <2>6. Coherent(r, since[t])
    BY <1>0, <2>2, <2>3, <2>4 DEF Coherent
  <2> QED
    BY <1>0, <2>2, <2>4, <2>5, <2>6, CoherentLocal
<1>14. CASE KeysEnd(t)
  <2>1. /\ th[t].op = "keys" /\ unvisited(t) = {} /\ UNCHANGED <<dict, since>>
        /\ goes_on(t, answered(t, "ok", NoValue))
    BY <1>0, <1>14 DEF KeysEnd, Knows
  <2>2. \A k \in since[t].always : ShardOf[k] = th[t].shard => k \in th[t].seen
    BY <1>0, <2>1 DEF Coherent, unvisited
  <2>3. Coherent(answered(t, "ok", NoValue), since[t])
    BY <1>0, <1>2, <2>2 DEF Coherent
  <2> QED
    BY <1>0, <1>2, <2>1, <2>3, CoherentLocal
<1> QED
  BY <1>4, <1>5, <1>6, <1>7, <1>8, <1>9, <1>10, <1>11, <1>12, <1>13, <1>14 DEF Step

(* A keys request starts with what the store holds; no other has a list.    *)
LEMMA CoherentRequest ==
  ASSUME Inv, AllCoherent, NEW t \in Threads, NEW op \in Ops,
         NEW k \in Keys \cup {NoValue}, NEW v \in Values \cup {NoValue},
         op # "keys" => k \in Keys, Request(t, op, k, v)
  PROVE  AllCoherent'
<1> DEFINE r == [pc |-> "lock", op |-> op, key |-> k, value |-> v,
                 shard |-> IF op = "keys" THEN 0 ELSE ShardOf[k],
                 seen |-> {}, status |-> "none", body |-> NoValue]
<1>1. (IF op = "keys" THEN 0 ELSE ShardOf[k]) \in Shards
  BY ShardsAssumption DEF Shards
<1>2. r \in ThreadState
  BY <1>1 DEF ThreadState
<1>3. TypeOK /\ goes_on(t, r) /\ UNCHANGED dict
  BY DEF Request, Inv
<1>4. \A u \in Threads \ {t} : since'[u] = since[u]
  BY DEF Request, Inv, TypeOK
<1>5. Coherent(r, since'[t])
  <2>1. CASE op # "keys"
    BY <2>1 DEF Coherent
  <2>2. CASE op = "keys"
    <3>1. since'[t] = [always |-> present, ever |-> present]
      BY <1>3, <2>2 DEF Request, TypeOK
    <3>2. since'[t].always = present /\ since'[t].ever = present
      BY <3>1
    <3>3. \A j \in present : ~(ShardOf[j] < 0)
      BY ShardsAssumption DEF present, Shards
    <3> QED
      BY <2>2, <3>2, <3>3 DEF Coherent
  <2> QED
    BY <2>1, <2>2
<1> HIDE DEF r
<1> QED
  BY <1>2, <1>3, <1>4, <1>5, CoherentLocal

(****************************************************************************)
(* keys, reading one shard after the other while other requests change the  *)
(* store, returns every key that was there all the time and no key that     *)
(* never was, for any number of shards and threads.                         *)
(****************************************************************************)
THEOREM KeysAreCoherent == Spec => []KeysCoherent
<1>1. Init => AllCoherent
  BY DEF Init, Idle, AllCoherent, Coherent
<1>2. Inv /\ AllCoherent /\ [Next]_vars => AllCoherent'
  <2> SUFFICES ASSUME Inv, AllCoherent, [Next]_vars PROVE AllCoherent'
    OBVIOUS
  <2>1. CASE UNCHANGED vars
    BY <2>1 DEF vars, AllCoherent, Coherent, present
  <2>2. CASE Next
    <3>1. PICK t \in Threads :
            \/ \E k \in Keys :
                 \/ Request(t, "get", k, NoValue) \/ Request(t, "delete", k, NoValue)
                 \/ \E v \in Values : Request(t, "set", k, v)
            \/ Request(t, "keys", NoValue, NoValue)
            \/ Step(t)
      BY <2>2 DEF Next
    <3> QED
      BY <3>1, CoherentRequest, CoherentStep DEF Ops
  <2> QED
    BY <2>1, <2>2
<1>3. AllCoherent => KeysCoherent
  BY DEF AllCoherent, Coherent, KeysCoherent, at
<1> QED
  BY <1>1, <1>2, <1>3, InvInit, InvNext, PTL DEF Spec
=============================================================================
