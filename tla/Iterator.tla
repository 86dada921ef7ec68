------------------------------ MODULE Iterator ------------------------------
(****************************************************************************)
(* hash_map::const_iterator (hash_map.h) over the map of module HashMap,    *)
(* used by the thread that also calls get, find and remove.  The iterator   *)
(* is three numbers: an index into the catalogue, a bucket and a byte       *)
(* offset in it.  Nothing tells it that the map has changed.                *)
(*                                                                          *)
(* Bytes that are not the start of a record are read as one all the same:   *)
(* the lengths parsed there are arbitrary, and the loop goes on at the      *)
(* offset they lead to.  vbe::read (vbe.h) shifts an int and sign-extends   *)
(* it, so a length can be as good as negative: the offset may go back, or   *)
(* stay the same.                                                           *)
(****************************************************************************)
EXTENDS HashMap

CONSTANTS
    MaxCalls,   \* bound: methods called while one iteration goes on
    Parsed      \* bound: offsets that lengths parsed within a record lead to

(* Offsets past the end of a bucket are all alike: BUCKET_SIZE.             *)
ASSUME ParsedAssumption == Parsed \subseteq 0 .. BUCKET_SIZE

VARIABLES
    ipc,       \* "none"; "probe" in find_next_record; "rest" after begin or
               \* ++; "read" after *; "end" (map_ is null)
    it,        \* catalogue_index_, bucket_id_, byte_offset_
    visits,    \* history: how often * gave the record of a key, up to 2
    initial,   \* history: the keys in the map at begin()
    moved,     \* history: a record moved or was removed since begin()
    calls      \* methods called since begin()

iterator_vars == <<ipc, it, visits, initial, moved, calls>>
ivars == <<hvars, iterator_vars>>

Unset == [catalogue_index |-> 0, bucket_id |-> 0, byte_offset |-> 0]

IteratorInit ==
    /\ Init
    /\ ipc = "none" /\ it = Unset
    /\ visits = [k \in Keys |-> 0] /\ initial = {}
    /\ moved = FALSE /\ calls = 0

-----------------------------------------------------------------------------
(* catalogue_.begin()[i].                                                   *)
buffer_size == 2 ^ prefix_bits

entry(i) == buffer[prefix_at(i, prefix_bits)]

(* read_record: is there anything at the position, and is it a record?      *)
in_use == it.byte_offset < buckets[it.bucket_id].bytes_used

at_position == {r \in buckets[it.bucket_id].data : r.offset = it.byte_offset}

(* ++ is going to parse bytes that are not the start of a record.           *)
adrift == hpc = "idle" /\ ipc = "read" /\ in_use /\ at_position = {}

(* begin(): the first entry, then find_next_record.                         *)
Begin ==
    /\ hpc = "idle" /\ ipc = "none"
    /\ ipc' = "probe"
    /\ it' = [Unset EXCEPT !.bucket_id = entry(0)]
    /\ initial' = {k \in Keys : dict[k] # NoValue}
    /\ UNCHANGED <<hvars, visits, moved, calls>>

-----------------------------------------------------------------------------
(* find_next_record, an iteration of its loop at a time.                    *)
ProbeHit ==
    /\ ipc = "probe" /\ in_use
    /\ ipc' = "rest"
    /\ UNCHANGED <<hvars, it, visits, initial, moved, calls>>

(* Mutant: the offset in the last bucket is kept.                           *)
ProbeChain_same_offset ==
    LET next == buckets[it.bucket_id].next_bucket_id
    IN /\ ipc = "probe" /\ ~in_use
       /\ next # INVALID_BUCKET_ID
       /\ it' = [it EXCEPT !.bucket_id = next]
       /\ UNCHANGED <<hvars, ipc, visits, initial, moved, calls>>

(* Mutant: the end of the chain is not noticed.                             *)
ProbeChain_past_end ==
    LET next == buckets[it.bucket_id].next_bucket_id
    IN /\ ipc = "probe" /\ ~in_use
       /\ it' = [it EXCEPT !.bucket_id = next, !.byte_offset = 0]
       /\ UNCHANGED <<hvars, ipc, visits, initial, moved, calls>>

ProbeChain ==
    LET next == buckets[it.bucket_id].next_bucket_id
    IN /\ ipc = "probe" /\ ~in_use
       /\ next # INVALID_BUCKET_ID
       /\ it' = [it EXCEPT !.bucket_id = next, !.byte_offset = 0]
       /\ UNCHANGED <<hvars, ipc, visits, initial, moved, calls>>

(* Mutant: the index stays where it is.                                     *)
next_index_same(i) == i

(* The next entry that is not equal to the one before it.                   *)
next_index(i) ==
    CHOOSE j \in i + 1 .. buffer_size :
      /\ j = buffer_size \/ entry(j) # entry(j - 1)
      /\ \A m \in i + 1 .. j - 1 : entry(m) = entry(m - 1)

ProbeEntry ==
    LET i == next_index(it.catalogue_index)
    IN /\ ipc = "probe" /\ ~in_use
       /\ buckets[it.bucket_id].next_bucket_id = INVALID_BUCKET_ID
       /\ IF i = buffer_size
            THEN ipc' = "end" /\ it' = Unset
            ELSE /\ it' = [catalogue_index |-> i, bucket_id |-> entry(i),
                           byte_offset |-> 0]
                 /\ UNCHANGED ipc
       /\ UNCHANGED <<hvars, visits, initial, moved, calls>>

-----------------------------------------------------------------------------
(* operator*: behind the last record it gives an empty key and value, and   *)
(* within one whatever the bytes there are taken for.                       *)
Deref ==
    /\ hpc = "idle" /\ ipc = "rest"
    /\ ipc' = "read"
    /\ visits' = [k \in Keys |->
                  IF in_use /\ visits[k] < 2 /\ \E r \in at_position : r.key = k
                    THEN visits[k] + 1 ELSE visits[k]]
    /\ UNCHANGED <<hvars, it, initial, moved, calls>>

(* operator++: past the record at the position, then find_next_record.      *)
Increment ==
    /\ hpc = "idle" /\ ipc = "read" /\ ~adrift
    /\ ipc' = "probe"
    /\ IF in_use
         THEN \E r \in at_position : it' = [it EXCEPT !.byte_offset = @ + len(r)]
         ELSE UNCHANGED it
    /\ UNCHANGED <<hvars, visits, initial, moved, calls>>

(* The same where no record starts.  The five bytes F6 FF FF FF 7F read as  *)
(* the length -10; before them are the 4 of a hash, after them a 0: added   *)
(* up, the offset is where it was.                                          *)
IncrementAdrift ==
    /\ adrift
    /\ ipc' = "probe"
    /\ \E o \in Parsed \cup {it.byte_offset} : it' = [it EXCEPT !.byte_offset = o]
    /\ UNCHANGED <<hvars, visits, initial, moved, calls>>

(* The iterator goes out of scope.                                          *)
Drop ==
    /\ ipc = "end"
    /\ ipc' = "none" /\ it' = Unset
    /\ visits' = [k \in Keys |-> 0] /\ initial' = {}
    /\ moved' = FALSE /\ calls' = 0
    /\ UNCHANGED hvars

Move ==
    \/ ProbeHit \/ ProbeChain \/ ProbeEntry
    \/ Deref \/ Increment \/ IncrementAdrift \/ Drop

-----------------------------------------------------------------------------
iterating == ipc # "none"

(* Steps of the map between two steps of the iterator.                      *)
MapRuns ==
    /\ ipc \in {"none", "rest", "read"}
    /\ Next
    /\ calls' = IF iterating /\ hpc = "idle" THEN calls + 1 ELSE calls
    /\ calls' <= MaxCalls
    /\ moved' = \/ moved
                \/ /\ iterating
                   /\ \/ hpc' \in {"grown", "split"}
                      \/ hpc = "remove" /\ hpc' = "idle" /\ req'.found
    /\ UNCHANGED <<ipc, it, visits, initial>>

IteratorNext == Begin \/ Move \/ MapRuns

IteratorSpec == IteratorInit /\ [][IteratorNext]_ivars

(* The loop over the map goes on, and so does a method it calls.            *)
IteratorFairSpec ==
    /\ IteratorSpec
    /\ WF_ivars(Move)
    /\ WF_ivars(hpc # "idle" /\ MapRuns)

-----------------------------------------------------------------------------
(****************************************************************************)
(* Whatever the map did since the last step of the iterator - splits,       *)
(* freed and reused buckets, a doubled catalogue - the iterator looks at a  *)
(* bucket of the file and at an entry of the catalogue (read_record,        *)
(* next_bucket and buffer() check nothing).                                 *)
(****************************************************************************)
IteratorInBounds ==
    iterating =>
      it.bucket_id \in Allocated /\ it.catalogue_index \in 0 .. buffer_size - 1

(****************************************************************************)
(* As long as no record moves - lookups and inserts that only append, also  *)
(* into new overflow buckets, are allowed - the iterator rests on records,  *)
(* meets every record that was there at begin() once, and none twice.       *)
(****************************************************************************)
VisitsEachOnce ==
    ~moved =>
      /\ ipc \in {"rest", "read"} => in_use /\ at_position # {}
      /\ \A k \in Keys : visits[k] <= 1
      /\ ipc = "end" => \A k \in initial : visits[k] = 1

(****************************************************************************)
(* The loop over the map ends, whatever splits, removals, reused buckets    *)
(* and doubled catalogues there are meanwhile (by a bounded number of       *)
(* calls), unless ++ comes to parse bytes that are not the start of a       *)
(* record.  The tests (test_hash_map.cpp: "should terminate") ask for more, *)
(* without the exception: that is not so, for an iterator adrift can stay   *)
(* at one offset for ever.                                                  *)
(****************************************************************************)
EndsUnlessAdrift == iterating ~> (~iterating \/ adrift)
=============================================================================
