------------------------------- MODULE Reopen -------------------------------
(****************************************************************************)
(* A hash map that is closed and opened again by a later process: HashMap   *)
(* with the part of file_map (linux/file_map.cpp) its container uses.  The  *)
(* file keeps its contents; the mapping is made anew by the constructors.   *)
(*                                                                          *)
(* `length' is the length_ of the container's file_map, as in Container.    *)
(****************************************************************************)
EXTENDS HashMap

PAGE == 4096              \* mmap maps whole pages

VARIABLES
    file_size,            \* st_size of the container's file
    is_open               \* a process has the map open

rvars == <<hvars, file_size, is_open>>

(* file_map's constructor: a shorter file is extended by a byte at          *)
(* `needed'; the mapping has the length asked for, however long the file.   *)
file_map_open(needed) ==
    /\ file_size' = IF needed > file_size THEN needed + 1 ELSE file_size
    /\ length' = needed

(* resize: a byte is written at the new length, then mremap.                *)
file_map_resize ==
    file_size' = IF length' > length /\ length' + 1 > file_size
                   THEN length' + 1 ELSE file_size

ReopenInit == Init /\ file_size = sizeof_layout + 1 /\ is_open = TRUE

(* A step of the process that has the map open.                             *)
Use == is_open /\ Next /\ file_map_resize /\ UNCHANGED is_open

(* hash_map::close between two methods: both files are unmapped and closed. *)
Close ==
    /\ is_open /\ hpc = "idle"
    /\ is_open' = FALSE
    /\ UNCHANGED <<hvars, file_size>>

(* The constructors on existing files: the signatures match, buckets_count  *)
(* is not 0, so nothing but the mapping is made.                            *)
Open ==
    /\ ~is_open
    /\ is_open' = TRUE
    /\ file_map_open(sizeof_layout)
    /\ UNCHANGED <<buckets_count, first_free_bucket_id, buckets, heads,
                   local_vars, catalogue_vars, bucket_id, hpc, req>>

ReopenNext == Use \/ Close \/ Open

ReopenSpec == ReopenInit /\ [][ReopenNext]_rvars

-----------------------------------------------------------------------------
bucket_start(b) == 20 + b * sizeof_bucket

mapped_bytes == ((length + PAGE - 1) \div PAGE) * PAGE

(****************************************************************************)
(* README.md: "Data is persisted across process restarts".  A lookup reads  *)
(* the header and the records of the buckets it walks through; they must be *)
(* inside the mapping of the process that runs it.                          *)
(****************************************************************************)
PersistedDataReadable ==
    pc = "find" =>
      bucket_start(cursor) + 24 + buckets[cursor].bytes_used <= mapped_bytes
=============================================================================
