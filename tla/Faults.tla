------------------------------- MODULE Faults -------------------------------
(****************************************************************************)
(* Faults of the process that uses a hash map (module HashMap).  The files  *)
(* are mapped MAP_SHARED: what a killed process wrote stays, in the order   *)
(* in which it wrote, and the next process opens the files as they are.     *)
(* file_map::resize throws when the disk is full; the exception leaves get  *)
(* in the middle and a caller that catches it goes on with the map.         *)
(*                                                                          *)
(* A fault leaves behind the writes the method had done so far.  HashMap's  *)
(* actions are one loop iteration each; here are the states within them     *)
(* that a fault can leave and that differ from those between them.          *)
(****************************************************************************)
EXTENDS HashMap

CONSTANTS
    MaxFaults,   \* bound: faults in a behaviour
    MaxCalls     \* bound: methods called after a chain was hit

VARIABLES
    expected,    \* history: the bindings of each key that callers can expect
    at_risk,     \* history: keys of the chains that a fault hit half-changed
    half_made,   \* a constructor was killed before it was done, a removal
                 \* within a bucket, or catalogue's split within its header: no
                 \* method can be called safely
    faults,      \* how many there were
    calls        \* methods called since a chain was hit

fvars == <<hvars, expected, at_risk, half_made, faults, calls>>

FaultsInit ==
    /\ Init
    /\ expected = [k \in Keys |-> {NoValue}]
    /\ at_risk = {} /\ half_made = FALSE /\ faults = 0 /\ calls = 0

(* A step of HashMap.  A caller whose call returns learns the binding of    *)
(* the key it asked for.                                                    *)
Run ==
    /\ ~half_made /\ Next
    /\ expected' =
         IF hpc \notin {"constructor", "constructor1", "idle"} /\ hpc' = "idle"
           THEN [expected EXCEPT ![req.key] = {req'.result}] ELSE expected
    /\ calls' = IF at_risk # {} /\ hpc = "idle" THEN calls + 1 ELSE calls
    /\ calls' <= MaxCalls
    /\ UNCHANGED <<at_risk, half_made, faults>>

-----------------------------------------------------------------------------
(* The method in progress is gone.  A restarted process has mapped one      *)
(* bucket (file_map's constructor), one that caught an exception what it    *)
(* had; hash_map's constructor makes buckets only if there are none.        *)
Abandon ==
    /\ pc' = "idle" /\ arg' = NoArg /\ cursor' = INVALID_BUCKET_ID
    /\ sp' = NoSplit /\ result' = NoResult
    /\ bucket_id' = INVALID_BUCKET_ID /\ req' = NoReq
    /\ hpc' = IF buckets_count = 0 THEN "constructor" ELSE "idle"
    /\ UNCHANGED calls

(* The binding that the call in progress makes of s.                        *)
outcome(s) ==
    CASE req.op = "get" /\ s = NoValue -> req.value
      [] req.op = "remove" -> NoValue
      [] OTHER -> s

(* The caller of a call that was killed does not know if it was done.       *)
in_doubt ==
    [k \in Keys |->
       IF k = req.key THEN expected[k] \cup {outcome(s) : s \in expected[k]}
                      ELSE expected[k]]

Killed ==
    /\ faults < MaxFaults /\ faults' = faults + 1
    /\ expected' = in_doubt
    /\ Abandon /\ length' = sizeof_layout

(* The caller of a call that threw knows that nothing was inserted.         *)
Thrown ==
    /\ \/ faults < MaxFaults /\ faults' = faults + 1
       \/ new_bucket_id \notin Ids /\ UNCHANGED faults
    /\ Abandon /\ UNCHANGED <<length, expected>>

Harmless == UNCHANGED <<at_risk, half_made>>

(* Bytes that bytes_used does not count are not read any more.              *)
counted ==
    [b \in Ids |-> [buckets[b] EXCEPT
                      !.data = {r \in buckets[b].data : r.offset < buckets[b].bytes_used}]]

keys_of(b) == {k \in Keys : catalogue_find(Hash[k]) = b}

Endangers(K) == at_risk' = at_risk \cup K /\ UNCHANGED half_made

-----------------------------------------------------------------------------
(* Between two steps.  While a chain is being split its unread records are  *)
(* not counted in bytes_used, and nothing refers to the new chain yet.      *)
Kill ==
    /\ ~half_made /\ hpc # "constructor1"
    /\ Killed
    /\ IF splitting THEN Endangers(keys_of(arg.bucket_id)) ELSE Harmless
    /\ buckets' = counted
    /\ UNCHANGED <<buckets_count, first_free_bucket_id, heads, catalogue_vars>>

(* Between the two buckets of the constructor: an entry stays invalid.  Or  *)
(* before them, when catalogue's has written the signature and not the rest.*)
KillInConstructor ==
    /\ hpc \in {"constructor", "constructor1"}
    /\ Killed
    /\ half_made' = TRUE
    /\ UNCHANGED <<buckets_count, first_free_bucket_id, buckets, heads,
                   catalogue_vars, at_risk>>

(* create_record and remove_record are done (bytes_used is what counts) and *)
(* the caller has not been told.                                            *)
KillBeforeReturn ==
    /\ LET put == buckets[cursor].bytes_used
           r == [offset |-> put, key |-> arg.key, value |-> arg.value]
       IN \/ /\ hpc = "create" /\ put + arg_length <= BUCKET_SIZE
             /\ buckets' = [buckets EXCEPT ![cursor] = with_record(@, put, r)]
          \/ /\ hpc = "remove"
             /\ \E m \in first_match(cursor, arg.key) :
                  buckets' = [buckets EXCEPT ![cursor] = without_record(@, m)]
    /\ Killed /\ Harmless
    /\ UNCHANGED <<buckets_count, first_free_bucket_id, heads, catalogue_vars>>

create_needs_bucket ==
    /\ pc = "create"
    /\ buckets[cursor].bytes_used + arg_length > BUCKET_SIZE
    /\ buckets[cursor].next_bucket_id = INVALID_BUCKET_ID

(* create_bucket has taken a bucket; nothing refers to it yet.              *)
bucket_taken ==
    /\ new_bucket_id \in Ids
    /\ IF first_free_bucket_id = INVALID_BUCKET_ID
         THEN buckets_count' = buckets_count + 1 /\ UNCHANGED first_free_bucket_id
         ELSE /\ first_free_bucket_id' = buckets[first_free_bucket_id].next_bucket_id
              /\ UNCHANGED buckets_count

(* create_bucket: the file has to grow, and resize throws.  It always does  *)
(* when the file has reached MaxBuckets: the disk is full.                  *)
resize_fails ==
    /\ first_free_bucket_id = INVALID_BUCKET_ID
    /\ bytes_needed > length \/ new_bucket_id \notin Ids

(* create_bucket is not allowed to end.                                     *)
bucket_fault ==
    \/ bucket_taken /\ Killed
    \/ resize_fails /\ Thrown /\ UNCHANGED <<buckets_count, first_free_bucket_id>>

(* Mutant: the bucket is linked to the chain before it is initialised.      *)
unlinked_bucket_linked_first ==
    IF new_bucket_id \in Ids
      THEN [buckets EXCEPT ![cursor].next_bucket_id = new_bucket_id] ELSE buckets

(* What create_bucket leaves of the buckets if it is not allowed to end.    *)
unlinked_bucket == buckets

(* create_record: a bucket is taken and not linked to the chain yet, or     *)
(* there is none to be had.                                                 *)
FaultInCreate ==
    /\ create_needs_bucket
    /\ bucket_fault /\ Harmless
    /\ buckets' = unlinked_bucket
    /\ UNCHANGED <<heads, catalogue_vars>>

(* split has raised prefix_bits, and has no bucket yet or one that nothing  *)
(* refers to: the records are where they were, but the chain claims a depth *)
(* that the catalogue does not know.                                        *)
FaultInSplitCall ==
    /\ past_catalogue_split /\ split_wanted
    /\ buckets' = [buckets EXCEPT ![bucket_id].prefix_bits = @ + 1]
    /\ \/ bucket_fault
       \/ Killed /\ UNCHANGED <<buckets_count, first_free_bucket_id>>
    /\ Endangers(keys_of(bucket_id))
    /\ UNCHANGED <<heads, catalogue_vars>>

(* split has filled a bucket of the new chain, and does not get another.    *)
FaultInSplit ==
    /\ pc = "split" /\ sp.get_ptr # sp.get_last
    /\ \E r \in at_get_ptr : new_bit_of(r) = 1 /\ ~bytes_left_in(sp.bit1, r)
    /\ bucket_fault /\ Endangers(keys_of(arg.bucket_id))
    /\ buckets' = counted
    /\ UNCHANGED <<heads, catalogue_vars>>

(* Mutant: the entries are written from the start of the table.             *)
set_so_far_from_start(h, offset, value, n) ==
    [p \in Prefixes(prefix_bits) |->
       IF \E i \in 0 .. n - 1 : p = prefix_at(i, prefix_bits) THEN value ELSE buffer[p]]

(* catalogue::set after n of the entries it writes.                         *)
set_so_far(h, offset, value, n) ==
    LET first == CHOOSE i \in 0 .. 2 ^ prefix_bits - 1 :
                   LET p == prefix_at(i, prefix_bits)
                   IN agree(p, h, offset) /\ \A j \in offset + 1 .. prefix_bits : p[j] = 0
    IN [p \in Prefixes(prefix_bits) |->
          IF \E i \in first .. first + n - 1 : p = prefix_at(i, prefix_bits)
            THEN value ELSE buffer[p]]

KillInSet ==
    LET depth == depth_of(bucket_id)
    IN /\ hpc = "split" /\ pc = "free" /\ cursor = INVALID_BUCKET_ID
       /\ \E n \in 1 .. 2 ^ (prefix_bits - depth) - 1 :
            buffer' = set_so_far(new_chain_hash(depth), depth, sp.result, n)
       /\ heads' = heads \cup {sp.result}
       /\ Killed /\ Endangers(keys_of(bucket_id))
       /\ UNCHANGED <<buckets_count, first_free_bucket_id, buckets, prefix_bits>>

(* catalogue::split between the stores of the header: mask and shift do not *)
(* fit each other, or prefix_bits.                                          *)
KillInHeader ==
    /\ hpc = "miss" /\ catalogue_too_small
    /\ Killed
    /\ at_risk' = Keys /\ half_made' = TRUE
    /\ UNCHANGED <<buckets_count, first_free_bucket_id, buckets, heads,
                   catalogue_vars>>

(* catalogue::split after the header and n entries, counted from the end;   *)
(* the bytes the file grew by are 0.  n = 0: resize threw, or a kill.       *)
spread_so_far(n) ==
    LET late == {prefix_at(i, prefix_bits) : i \in 2 ^ prefix_bits - n .. 2 ^ prefix_bits - 1}
    IN [p \in Prefixes(prefix_bits + 1) |->
          IF prefix(p, prefix_bits) \in late THEN buffer[prefix(p, prefix_bits)]
          ELSE IF p[1] = 0 THEN buffer[[j \in 1 .. prefix_bits |-> p[j + 1]]] ELSE 0]

FaultInCatalogueSplit ==
    /\ hpc = "miss" /\ catalogue_too_small
    /\ prefix_bits' = prefix_bits + 1
    /\ \/ \E n \in 0 .. 2 ^ prefix_bits - 1 : buffer' = spread_so_far(n) /\ Killed
       \/ buffer' = spread_so_far(0) /\ Thrown
    /\ Endangers(Keys)
    /\ UNCHANGED <<buckets_count, first_free_bucket_id, buckets, heads>>

(* remove_record is moving the records behind the removed one: the bucket   *)
(* is no sequence of records from there on.                                 *)
KillInRemove ==
    /\ pc = "remove"
    /\ \E r \in first_match(cursor, arg.key) :
         /\ r.offset + len(r) < buckets[cursor].bytes_used
         /\ buckets' = [buckets EXCEPT ![cursor].data =
                          {e \in buckets[cursor].data : e.offset < r.offset}]
    /\ Killed
    /\ at_risk' = at_risk \cup keys_of(arg.bucket_id) /\ half_made' = TRUE
    /\ UNCHANGED <<buckets_count, first_free_bucket_id, heads, catalogue_vars>>

(* No method is called any more; nothing repairs the files.                 *)
Rest == (half_made \/ (hpc = "idle" /\ calls = MaxCalls)) /\ UNCHANGED fvars

Fault ==
    \/ Kill \/ KillInConstructor \/ KillBeforeReturn \/ KillInSet \/ KillInRemove
    \/ FaultInCreate \/ FaultInSplitCall \/ FaultInSplit
    \/ KillInHeader \/ FaultInCatalogueSplit

FaultsNext == Run \/ Fault \/ Rest

FaultsSpec == FaultsInit /\ [][FaultsNext]_fvars

-----------------------------------------------------------------------------
(* The value a lookup finds in the files.                                   *)
on_file(k) ==
    LET found == {r \in chain_records(catalogue_find(Hash[k])) : r.key = k}
    IN IF found = {} THEN NoValue ELSE (CHOOSE r \in found : TRUE).value

(****************************************************************************)
(* A fault is confined to the chain it hit and to the call it hit: what     *)
(* callers were told of every other key is what a lookup finds, now and     *)
(* after any later calls, also in the process that opened the files again.  *)
(* A call that was killed, at whatever moment up to its return, is done or  *)
(* not done; one that a full disk kept from inserting is not done, and      *)
(* leaves the map as it was (create_record counts its bytes last,           *)
(* create_bucket resizes first).                                            *)
(****************************************************************************)
FaultsConfined ==
    hpc = "idle" => \A k \in Keys \ at_risk : on_file(k) \in expected[k]

(****************************************************************************)
(* After any fault, and whatever is done to the map afterwards, an entry of *)
(* the catalogue names a bucket of the file, and different chains and the   *)
(* free list share no bucket: buckets may be lost, never used twice.        *)
(****************************************************************************)
ChainsDisjoint ==
    LET entries == {buffer[p] : p \in Prefixes(prefix_bits)}
        roots == (entries \cup {first_free_bucket_id}) \ {INVALID_BUCKET_ID}
    IN hpc = "idle" /\ ~half_made =>
         /\ entries \subseteq Allocated /\ first_free_bucket_id \notin entries
         /\ \A b \in roots : Chain(b) \subseteq Allocated
         /\ \A b, c \in roots : b # c => Chain(b) \cap Chain(c) = {}
=============================================================================
