------------------------------ MODULE Bindings ------------------------------
(****************************************************************************)
(* The Python module (bindings.cpp): DiskHash objects that own a hash_map   *)
(* and the iterators made from them.  Methods run under the interpreter's   *)
(* lock, one at a time; objects live as long as the program refers to them. *)
(* hash_map is the dictionary module HashMap is shown to implement.         *)
(****************************************************************************)
EXTENDS Integers, FiniteSets

CONSTANTS
    Keys, Values, NoValue,
    Objects,     \* the program's variables for DiskHash objects
    Iterators,   \* and for iterators
    MaxMaps      \* bound: how many hash_map objects are ever made

VARIABLES
    dict,        \* what the files hold
    created,     \* hash_map objects made so far: 1 .. created
    alive,       \* those not yet destroyed
    db,          \* the DiskHash a variable holds: map_ and read_only_
    its,         \* the iterator a variable holds: its map, the keys to come
    outcome      \* of the last call: how it ended, its key, what it used

vars == <<dict, created, alive, db, its, outcome>>

nullptr == 0
NoObject == [held |-> FALSE, map_ |-> nullptr, read_only |-> FALSE]
NoIterator == [map |-> nullptr, todo |-> {}]
NoOutcome == [call |-> "none", ended |-> "ok", key |-> NoValue, value |-> NoValue,
              used |-> nullptr]

Init ==
    /\ dict = [k \in Keys |-> NoValue]
    /\ created = 0 /\ alive = {}
    /\ db = [o \in Objects |-> NoObject]
    /\ its = [i \in Iterators |-> NoIterator]
    /\ outcome = NoOutcome

Ends(call, how, k, v, map) ==
    outcome' = [call |-> call, ended |-> how, key |-> k, value |-> v, used |-> map]

(* The program opens the files once at a time.                              *)
Open(o, read_only) ==
    /\ ~db[o].held /\ alive = {} /\ created < MaxMaps
    /\ created' = created + 1 /\ alive' = {created + 1}
    /\ db' = [db EXCEPT ![o] = [held |-> TRUE, map_ |-> created + 1,
                                read_only |-> read_only]]
    /\ Ends("open", "ok", NoValue, NoValue, created + 1)
    /\ UNCHANGED <<dict, its>>

ensure_open(o) == db[o].map_ # nullptr

(* The method raises and does nothing: closed, or read_only_ when it writes.*)
Refuse(o, call) ==
    /\ db[o].held
    /\ \/ ~ensure_open(o)
       \/ call \in {"put", "remove"} /\ db[o].read_only
    /\ Ends(call, "RuntimeError", NoValue, NoValue, nullptr)
    /\ UNCHANGED <<dict, created, alive, db, its>>

Accepts(o) == db[o].held /\ ensure_open(o)

(* get, get_default, contains and bytes_allocated.                          *)
Get(o, k) ==
    /\ Accepts(o)
    /\ Ends("get", IF dict[k] = NoValue THEN "KeyError" ELSE "ok", k, dict[k], db[o].map_)
    /\ UNCHANGED <<dict, created, alive, db, its>>

Put(o, k, v) ==
    /\ Accepts(o) /\ ~db[o].read_only
    /\ IF dict[k] # NoValue
         THEN Ends("put", "KeyError", k, v, db[o].map_) /\ UNCHANGED dict
         ELSE Ends("put", "ok", k, v, db[o].map_) /\ dict' = [dict EXCEPT ![k] = v]
    /\ UNCHANGED <<created, alive, db, its>>

Remove(o, k) ==
    /\ Accepts(o) /\ ~db[o].read_only
    /\ dict' = [dict EXCEPT ![k] = NoValue]
    /\ Ends("remove", IF dict[k] = NoValue THEN "KeyError" ELSE "ok", k, NoValue, db[o].map_)
    /\ UNCHANGED <<created, alive, db, its>>

(* close, and exit of a with statement: the map is destroyed.               *)
Close(o) ==
    /\ db[o].held
    /\ alive' = alive \ {db[o].map_}
    /\ db' = [db EXCEPT ![o].map_ = nullptr]
    /\ Ends("close", "ok", NoValue, NoValue, db[o].map_)
    /\ UNCHANGED <<dict, created, its>>

(* The last reference goes: unique_ptr destroys a map that is still open.   *)
Collect(o) ==
    /\ db[o].held
    /\ alive' = alive \ {db[o].map_}
    /\ db' = [db EXCEPT ![o] = NoObject]
    /\ Ends("collect", "ok", NoValue, NoValue, nullptr)
    /\ UNCHANGED <<dict, created, its>>

(* __iter__ takes map_ptr(); the iterator keeps the pointer.                *)
Iter(o, i) ==
    /\ Accepts(o)
    /\ its' = [its EXCEPT ![i] = [map |-> db[o].map_,
                                  todo |-> {k \in Keys : dict[k] # NoValue}]]
    /\ Ends("iter", "ok", NoValue, NoValue, db[o].map_)
    /\ UNCHANGED <<dict, created, alive, db>>

to_come(i) == {k \in its[i].todo : dict[k] # NoValue}

(* __next__ at the end; no access to the map.                               *)
StopIteration(i) ==
    /\ its[i].map # nullptr /\ to_come(i) = {}
    /\ Ends("next", "StopIteration", NoValue, NoValue, nullptr)
    /\ UNCHANGED <<dict, created, alive, db, its>>

(* __next__ copies the record the iterator is at and advances; both go      *)
(* through the pointer.  A record removed meanwhile is skipped here; what   *)
(* the iterator really finds then is module Iterator's subject.             *)
IterNext(i) ==
    \E k \in to_come(i) :
      /\ its' = [its EXCEPT ![i].todo = @ \ {k}]
      /\ Ends("next", "ok", k, dict[k], its[i].map)
      /\ UNCHANGED <<dict, created, alive, db>>

Next ==
    \/ \E o \in Objects :
         \/ \E read_only \in BOOLEAN : Open(o, read_only)
         \/ \E call \in {"get", "put", "remove", "iter"} : Refuse(o, call)
         \/ \E k \in Keys :
              Get(o, k) \/ Remove(o, k) \/ \E v \in Values : Put(o, k, v)
         \/ Close(o) \/ Collect(o)
         \/ \E i \in Iterators : Iter(o, i)
    \/ \E i \in Iterators : IterNext(i) \/ StopIteration(i)

Spec == Init /\ [][Next]_vars

-----------------------------------------------------------------------------
(* bindings.cpp: "hash map is closed".  No call uses a map that was closed. *)
UsesOpenMaps == outcome.used # nullptr /\ outcome.call # "close" => outcome.used \in alive
=============================================================================
