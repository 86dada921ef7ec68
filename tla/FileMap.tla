------------------------------- MODULE FileMap -------------------------------
(****************************************************************************)
(* diskhash::file_map (linux/, macos/ and windows/file_map.cpp): a file     *)
(* mapped into memory, that grows.  One step per system call; every call    *)
(* may fail, and the paths the code has for that are modelled.  The object  *)
(* lives in a process whose other threads open files and map memory too, so *)
(* an address or a descriptor that was released may be somebody else's the  *)
(* next time it is used.                                                    *)
(****************************************************************************)
EXTENDS Integers

CONSTANTS
    Platforms,   \* a subset of {"linux", "macos", "windows"}
    Lengths,     \* the lengths callers ask for
    Handles,     \* descriptors (HANDLEs on Windows) of the process
    Addresses    \* where the kernel can place a mapping

ASSUME PlatformsAssumption == Platforms \subseteq {"linux", "macos", "windows"}

ASSUME LengthsAssumption == Lengths \subseteq Nat

INVALID_HANDLE == -1   \* fd -1, INVALID_HANDLE_VALUE
NULL == 0              \* no address; the handle of a failed CreateFileMapping
NO_FILE == -1          \* file_size of a file that does not exist

ASSUME NamesAssumption ==
    Handles \cap {INVALID_HANDLE, NULL} = {} /\ NULL \notin Addresses

VARIABLES
    platform,
    file_size,     \* of the file, in bytes
    handles,       \* who has each descriptor: "free", "map" or "other"
    memory,        \* who has mapped what at each address, and how many bytes
    obj,           \* the file_map: "none", "constructing" or "open"
    fm,            \* its members
    pc,            \* the system call to come, "idle" between methods
    method,        \* the method in progress, and its length argument
    arg,
    new_handle,    \* resize's local mapping_handle (Windows)
    trespassed,    \* history: something of another thread was released
    close_failed,  \* history: closing a descriptor reported an error
    leaked,        \* history: a release failed and cannot be repeated
    map_lost       \* history: resize unmapped the file and could not map it

object_vars == <<obj, fm, pc, method, arg, new_handle>>
kernel_vars == <<file_size, handles, memory>>
history_vars == <<trespassed, close_failed, leaked, map_lost>>
vars == <<platform, kernel_vars, object_vars, history_vars>>

posix == platform # "windows"

Free == [owner |-> "free", length |-> 0]

NoMap == [file |-> INVALID_HANDLE, mapping |-> INVALID_HANDLE,
          start |-> NULL, length |-> 0, read_only |-> FALSE]

Init ==
    /\ platform \in Platforms
    /\ file_size \in {NO_FILE} \cup Lengths
    /\ handles = [h \in Handles |-> "free"]
    /\ memory = [a \in Addresses |-> Free]
    /\ obj = "none" /\ fm = NoMap /\ pc = "idle" /\ method = "none"
    /\ arg = 0 /\ new_handle = NULL
    /\ trespassed = FALSE /\ close_failed = FALSE /\ leaked = FALSE /\ map_lost = FALSE

-----------------------------------------------------------------------------
(* What the kernel does for the object and for the other threads.           *)
GrowFile(n) == file_size' = IF n > file_size THEN n ELSE file_size

MapAt(a, n) == memory' = [memory EXCEPT ![a] = [owner |-> "map", length |-> n]]

(* munmap and UnmapViewOfFile take away whatever is mapped there.           *)
Unmap(a) ==
    /\ memory' = [memory EXCEPT ![a] = Free]
    /\ trespassed' = (trespassed \/ memory[a].owner = "other")

(* Closing the number of an open descriptor, whoever opened it.             *)
CloseHandle(h) ==
    /\ handles' = [handles EXCEPT ![h] = "free"]
    /\ trespassed' = (trespassed \/ handles[h] = "other")

OtherThreads ==
    /\ \/ \E h \in Handles : handles[h] # "map" /\ UNCHANGED memory
            /\ handles' = [handles EXCEPT ![h] = IF @ = "free" THEN "other" ELSE "free"]
       \/ \E a \in Addresses : memory[a].owner # "map" /\ UNCHANGED handles
            /\ memory' = [memory EXCEPT ![a].owner = IF @ = "free" THEN "other" ELSE "free"]
    /\ UNCHANGED <<platform, file_size, object_vars, history_vars>>

-----------------------------------------------------------------------------
(* A method begins, goes on to its next system call, returns or throws.     *)
Begin(m, n, first) ==
    /\ pc = "idle" /\ method' = m /\ arg' = n /\ pc' = first

GoOn(next) == pc' = next /\ UNCHANGED <<platform, obj, method, arg>>

(* The object is gone if its constructor throws or its destructor ends (the *)
(* destructor catches what close throws).                                   *)
Leave(o) ==
    /\ pc' = "idle" /\ obj' = o /\ method' = "none" /\ arg' = 0
    /\ UNCHANGED platform

Throw == Leave(IF method \in {"constructor", "destructor"} THEN "none" ELSE "open")

Return == Leave(IF method = "destructor" THEN "none" ELSE "open")

(* Mutant: the constructor's error paths do not close the file.             *)
CloseAndThrow_open == Throw /\ UNCHANGED <<handles, trespassed>>

(* ::close(fd_) or CloseHandle(file_handle_) before a constructor throws.   *)
CloseAndThrow == Throw /\ CloseHandle(fm.file)

Fail ==
    /\ IF method = "constructor" THEN CloseAndThrow
       ELSE Throw /\ UNCHANGED <<handles, trespassed>>
    /\ map_lost' = (map_lost \/ (method = "resize" /\ pc = "mmap"))
    /\ UNCHANGED <<file_size, memory, fm, new_handle, close_failed, leaked>>

-----------------------------------------------------------------------------
Construct(read_only, n) ==
    /\ obj = "none" /\ Begin("constructor", n, "open")
    /\ obj' = "constructing" /\ fm' = [NoMap EXCEPT !.read_only = read_only]
    /\ UNCHANGED <<platform, kernel_vars, new_handle, history_vars>>

(* open with O_CREAT, or CreateFile with OPEN_EXISTING, then CREATE_NEW.    *)
OpenFile ==
    /\ pc = "open"
    /\ \E h \in Handles :
         /\ handles[h] = "free" /\ (file_size # NO_FILE \/ ~fm.read_only)
         /\ handles' = [handles EXCEPT ![h] = "map"]
         /\ fm' = [fm EXCEPT !.file = h]
    /\ GrowFile(0)
    /\ GoOn(IF posix THEN "fstat" ELSE "create_mapping")
    /\ UNCHANGED <<memory, new_handle, history_vars>>

OpenFails == pc = "open" /\ Throw /\ UNCHANGED <<kernel_vars, fm, new_handle, history_vars>>

Fstat ==
    /\ pc = "fstat"
    /\ fm' = [fm EXCEPT !.length = IF arg = 0 THEN file_size ELSE arg]
    /\ GoOn(IF arg > file_size THEN "lseek" ELSE "mmap")
    /\ UNCHANGED <<kernel_vars, new_handle, history_vars>>

(* Mutant: the file is not extended.                                        *)
WriteByte_unwritten(n) == UNCHANGED file_size

(* write(fd_, "", 1) at offset n.                                           *)
WriteByte(n) == GrowFile(n + 1)

(* lseek and write, in the constructor and in resize.                       *)
SeekAndWrite ==
    /\ pc = "lseek" /\ ~fm.read_only
    /\ WriteByte(arg)
    /\ GoOn(IF method = "constructor" THEN "mmap"
            ELSE IF platform = "linux" THEN "mremap" ELSE "munmap")
    /\ UNCHANGED <<handles, memory, fm, new_handle, history_vars>>

(* mmap of the constructor; the kernel maps no empty range.                 *)
Mmap ==
    /\ pc = "mmap" /\ method = "constructor" /\ fm.length > 0
    /\ \E a \in Addresses :
         memory[a].owner = "free" /\ MapAt(a, fm.length) /\ fm' = [fm EXCEPT !.start = a]
    /\ Return
    /\ UNCHANGED <<file_size, handles, new_handle, history_vars>>

-----------------------------------------------------------------------------
Resize(n) ==
    /\ obj = "open" /\ fm.start # NULL
    /\ \/ posix /\ n > fm.length /\ Begin("resize", n, "lseek")
       \/ platform = "linux" /\ n < fm.length /\ Begin("resize", n, "mremap")
       \/ platform = "macos" /\ n < fm.length /\ Begin("resize", n, "munmap")
       \/ platform = "windows" /\ Begin("resize", n, "create_mapping")
    /\ UNCHANGED <<platform, kernel_vars, obj, fm, new_handle, history_vars>>

(* Linux: the mapping is moved, or stays where and as it was.               *)
Mremap ==
    /\ pc = "mremap" /\ arg > 0
    /\ \E a \in Addresses :
         /\ a = fm.start \/ memory[a].owner = "free"
         /\ memory' = [memory EXCEPT ![fm.start] = Free,
                                     ![a] = [owner |-> "map", length |-> arg]]
         /\ fm' = [fm EXCEPT !.start = a, !.length = arg]
    /\ Return
    /\ UNCHANGED <<file_size, handles, new_handle, history_vars>>

(* macOS: start_ and length_ are assigned when the new mapping is there.    *)
MunmapOld ==
    /\ pc = "munmap" /\ method = "resize"
    /\ Unmap(fm.start)
    /\ GoOn("mmap")
    /\ UNCHANGED <<file_size, handles, fm, new_handle, close_failed, leaked, map_lost>>

MmapAgain ==
    /\ pc = "mmap" /\ method = "resize" /\ arg > 0
    /\ \E a \in Addresses :
         /\ memory[a].owner = "free" /\ MapAt(a, arg)
         /\ fm' = [fm EXCEPT !.start = a, !.length = arg]
    /\ Return
    /\ UNCHANGED <<file_size, handles, new_handle, history_vars>>

(* Windows: a mapping object may extend the file.  It is NULL if that       *)
(* fails, which the comparison with INVALID_HANDLE_VALUE lets through.      *)
CreateFileMapping ==
    /\ pc = "create_mapping"
    /\ \/ /\ new_handle' = NULL /\ UNCHANGED <<file_size, handles>>
       \/ /\ IF arg = 0 THEN file_size > 0 ELSE ~fm.read_only \/ arg <= file_size
          /\ GrowFile(arg)
          /\ \E h \in Handles :
               /\ handles[h] = "free" /\ new_handle' = h
               /\ handles' = [handles EXCEPT ![h] = "map"]
    /\ GoOn("map_view")
    /\ UNCHANGED <<memory, fm, history_vars>>

(* The old view and mapping object go after the new ones are there; an      *)
(* INVALID_HANDLE_VALUE is closed too, which does nothing.  A failure of    *)
(* either release is not looked at.                                         *)
MapViewOfFile ==
    /\ pc = "map_view" /\ new_handle # NULL
    /\ \E a \in Addresses, unmapped \in BOOLEAN :
         /\ memory[a].owner = "free" /\ (fm.start = NULL => unmapped)
         /\ memory' = [b \in Addresses |->
              IF b = a THEN [owner |-> "map", length |-> IF arg = 0 THEN file_size ELSE arg]
              ELSE IF b = fm.start /\ unmapped THEN Free ELSE memory[b]]
         /\ leaked' = (leaked \/ ~unmapped)
         /\ fm' = [fm EXCEPT !.mapping = new_handle, !.start = a, !.length = arg]
    /\ handles' = [h \in Handles |-> IF h = fm.mapping THEN "free" ELSE handles[h]]
    /\ new_handle' = NULL
    /\ Return
    /\ UNCHANGED <<file_size, trespassed, close_failed, map_lost>>

(* The new mapping object is closed and, in the constructor, the file.      *)
MapViewFails ==
    /\ pc = "map_view"
    /\ handles' = [h \in Handles |->
                     IF h = new_handle \/ (h = fm.file /\ method = "constructor")
                       THEN "free" ELSE handles[h]]
    /\ new_handle' = NULL
    /\ Throw
    /\ UNCHANGED <<file_size, memory, fm, history_vars>>

-----------------------------------------------------------------------------
(* close, also called by a destructor that finds something to close.        *)
first_release ==
    IF fm.start # NULL THEN "munmap"
    ELSE IF fm.mapping # INVALID_HANDLE THEN "close_mapping"
    ELSE IF fm.file # INVALID_HANDLE THEN "close_file" ELSE "done"

Close ==
    /\ obj = "open" /\ Begin("close", 0, first_release)
    /\ UNCHANGED <<platform, kernel_vars, obj, fm, new_handle, history_vars>>

Destroy ==
    /\ obj = "open" /\ Begin("destructor", 0, first_release)
    /\ UNCHANGED <<platform, kernel_vars, obj, fm, new_handle, history_vars>>

closing == method \in {"close", "destructor"}

(* Mutant: start_ is not set to 0.                                          *)
after_munmap_kept == fm

after_munmap == [fm EXCEPT !.start = NULL]

CloseView ==
    /\ pc = "munmap" /\ closing
    /\ Unmap(fm.start) /\ fm' = after_munmap
    /\ GoOn(IF fm.mapping # INVALID_HANDLE THEN "close_mapping"
            ELSE IF fm.file # INVALID_HANDLE THEN "close_file" ELSE "done")
    /\ UNCHANGED <<file_size, handles, new_handle, close_failed, leaked, map_lost>>

CloseMapping ==
    /\ pc = "close_mapping"
    /\ CloseHandle(fm.mapping) /\ fm' = [fm EXCEPT !.mapping = INVALID_HANDLE]
    /\ GoOn(IF fm.file # INVALID_HANDLE THEN "close_file" ELSE "done")
    /\ UNCHANGED <<file_size, memory, new_handle, close_failed, leaked, map_lost>>

CloseFile ==
    /\ pc = "close_file" /\ handles[fm.file] # "free"
    /\ CloseHandle(fm.file) /\ fm' = [fm EXCEPT !.file = INVALID_HANDLE]
    /\ GoOn("done")
    /\ UNCHANGED <<file_size, memory, new_handle, close_failed, leaked, map_lost>>

(* ::close may report an error of an earlier write and have released the    *)
(* descriptor all the same; fd_ keeps its number.                           *)
CloseFileFails ==
    /\ pc = "close_file"
    /\ close_failed' = TRUE
    /\ \/ posix /\ CloseHandle(fm.file) /\ UNCHANGED leaked
       \/ /\ leaked' = (leaked \/ method = "destructor")
          /\ UNCHANGED <<handles, trespassed>>
    /\ Throw
    /\ UNCHANGED <<file_size, memory, fm, new_handle, map_lost>>

(* munmap, UnmapViewOfFile or CloseHandle of the mapping reports an error:  *)
(* a destructor leaves without the other releases.                          *)
ReleaseFails ==
    /\ pc \in {"munmap", "close_mapping"} /\ closing
    /\ leaked' = (leaked \/ method = "destructor")
    /\ Throw
    /\ UNCHANGED <<kernel_vars, fm, new_handle, trespassed, close_failed, map_lost>>

Done == pc = "done" /\ Return /\ UNCHANGED <<kernel_vars, fm, new_handle, history_vars>>

(* Any of the other calls fails.                                            *)
CallFails ==
    /\ pc \in {"fstat", "lseek", "mmap", "mremap"} \/ (pc = "munmap" /\ method = "resize")
    /\ Fail

Next ==
    \/ \E n \in Lengths : Resize(n) \/ \E read_only \in BOOLEAN : Construct(read_only, n)
    \/ OpenFile \/ OpenFails \/ Fstat \/ SeekAndWrite \/ Mmap
    \/ Mremap \/ MunmapOld \/ MmapAgain
    \/ CreateFileMapping \/ MapViewOfFile \/ MapViewFails
    \/ Close \/ Destroy \/ CloseView \/ CloseMapping \/ CloseFile \/ Done
    \/ CallFails \/ CloseFileFails \/ ReleaseFails
    \/ OtherThreads

Spec == Init /\ [][Next]_vars

-----------------------------------------------------------------------------
between_methods == obj = "open" /\ pc = "idle"

(****************************************************************************)
(* Between two methods, one that threw included, the length() bytes at      *)
(* start() are mapped by this object and are in the file: a container or a  *)
(* catalogue can go on with the layout_ it has when resize threw.  Not on   *)
(* macOS, once resize has unmapped the file and its mmap failed.            *)
(****************************************************************************)
MappingIntact ==
    between_methods /\ fm.start # NULL /\ ~(platform = "macos" /\ map_lost) =>
      /\ memory[fm.start].owner = "map"
      /\ fm.length <= memory[fm.start].length /\ fm.length <= file_size

(****************************************************************************)
(* The object unmaps and closes only what it has, in the error paths and in *)
(* a destructor after an explicit close too; except that a ::close that     *)
(* reported an error is repeated by the destructor, and that on macOS the   *)
(* range that a failed resize unmapped is unmapped again.                   *)
(****************************************************************************)
ReleasesItsOwn == trespassed => close_failed \/ (platform = "macos" /\ map_lost)

(****************************************************************************)
(* A constructor that threw and a destructor leave no descriptor, mapping   *)
(* object or mapping behind, unless the system refused to release one.      *)
(****************************************************************************)
NothingLeaks ==
    obj = "none" /\ ~leaked =>
      /\ \A h \in Handles : handles[h] # "map"
      /\ \A a \in Addresses : memory[a].owner # "map"
=============================================================================
