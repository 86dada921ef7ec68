---------------------------- MODULE FileMapProofs ----------------------------
(****************************************************************************)
(* Proofs about FileMap for any lengths, descriptors and addresses, on the  *)
(* three platforms: what the object's members name, at every place of every *)
(* method, is what the object has.                                          *)
(****************************************************************************)
EXTENDS FileMap, TLAPS

Members ==
    [file : Handles \cup {INVALID_HANDLE}, mapping : Handles \cup {INVALID_HANDLE},
     start : Addresses \cup {NULL}, length : Int, read_only : BOOLEAN]

Regions == [owner : {"free", "map", "other"}, length : Int]

Typed ==
    /\ platform \in {"linux", "macos", "windows"}
    /\ file_size \in Int /\ file_size >= NO_FILE
    /\ handles \in [Handles -> {"free", "map", "other"}]
    /\ memory \in [Addresses -> Regions]
    /\ obj \in {"none", "constructing", "open"} /\ fm \in Members
    /\ pc \in {"idle", "open", "fstat", "lseek", "mmap", "mremap", "munmap",
               "create_mapping", "map_view", "close_mapping", "close_file", "done"}
    /\ method \in {"none", "constructor", "resize", "close", "destructor"}
    /\ arg \in Nat /\ new_handle \in Handles \cup {NULL}

(* Which methods make which system call, on which platform.                 *)
Control ==
    /\ pc = "idle" <=> method = "none"
    /\ obj = "none" => method = "none"
    /\ obj = "constructing" <=> method = "constructor"
    /\ pc \in {"open", "fstat"} => method = "constructor"
    /\ pc \in {"fstat", "lseek", "mmap"} => platform # "windows"
    /\ pc \in {"lseek", "mmap"} => method \in {"constructor", "resize"}
    /\ pc \in {"create_mapping", "map_view"} =>
         method \in {"constructor", "resize"} /\ platform = "windows"
    /\ pc = "mremap" => method = "resize" /\ platform = "linux"
    /\ pc \in {"mmap", "munmap"} /\ method = "resize" => platform = "macos"
    /\ pc = "munmap" => method \in {"resize", "close", "destructor"}
    /\ pc \in {"close_mapping", "close_file", "done"} => method \in {"close", "destructor"}

(* Which members are set at each place.                                     *)
Held ==
    /\ method = "constructor" =>
         /\ fm.start = NULL /\ fm.mapping = INVALID_HANDLE
         /\ fm.file = INVALID_HANDLE <=> pc = "open"
    /\ method = "resize" => fm.start # NULL
    /\ obj # "none" /\ platform # "windows" => fm.mapping = INVALID_HANDLE
    /\ pc = "munmap" => fm.start # NULL
    /\ pc \in {"close_mapping", "close_file", "done"} => fm.start = NULL
    /\ pc = "close_mapping" => fm.mapping # INVALID_HANDLE
    /\ pc \in {"close_file", "done"} => fm.mapping = INVALID_HANDLE
    /\ pc = "close_file" => fm.file # INVALID_HANDLE
    /\ pc = "done" => fm.file = INVALID_HANDLE
    /\ new_handle # NULL => pc = "map_view"

(* The file has grown before more of it is mapped.                          *)
Sizes ==
    /\ obj # "none" /\ fm.start # NULL => fm.length <= file_size
    /\ pc = "fstat" => file_size >= 0
    /\ method = "constructor" /\ pc = "lseek" => fm.length = arg
    /\ method = "constructor" /\ pc = "mmap" => fm.length <= file_size
    /\ method = "resize" /\ pc \in {"mremap", "munmap", "mmap"} => arg <= file_size
    /\ new_handle # NULL => arg <= file_size

(* The descriptors that the members name are the object's, and differ.      *)
OwnHandles ==
    obj # "none" /\ ~close_failed =>
      /\ fm.file # INVALID_HANDLE => handles[fm.file] = "map" /\ fm.file # fm.mapping
      /\ fm.mapping # INVALID_HANDLE => handles[fm.mapping] = "map"
      /\ new_handle # NULL =>
           handles[new_handle] = "map" /\ new_handle \notin {fm.file, fm.mapping}

lost == platform = "macos" /\ map_lost

remapping == pc = "mmap" /\ method = "resize"

(* The bytes that start_ and length_ name are the object's, except between  *)
(* the munmap and the mmap of macOS.                                        *)
OwnMemory ==
    obj # "none" /\ fm.start # NULL /\ ~lost /\ ~remapping =>
      memory[fm.start].owner = "map" /\ fm.length <= memory[fm.start].length

(* The object has nothing but what its members name.                        *)
NoMore ==
    ~leaked =>
      /\ \A h \in Handles : handles[h] = "map" =>
           obj # "none" /\ h \in {fm.file, fm.mapping, new_handle}
      /\ \A a \in Addresses : memory[a].owner = "map" =>
           obj # "none" /\ a = fm.start /\ ~remapping

Inv ==
    /\ Typed /\ Control /\ Held /\ Sizes
    /\ OwnHandles /\ OwnMemory /\ NoMore /\ ReleasesItsOwn

-----------------------------------------------------------------------------
(* The initial state satisfies the inductive invariant.                     *)
LEMMA InvInit == Init => Inv
<1> SUFFICES ASSUME Init PROVE Inv
  OBVIOUS
<1>1. /\ NoMap.file = INVALID_HANDLE /\ NoMap.mapping = INVALID_HANDLE
      /\ NoMap.start = NULL /\ NoMap \in Members
  BY DEF NoMap, Members
<1>2. Free \in Regions /\ Free.owner = "free"
  BY DEF Free, Regions
<1>3. Typed
  BY <1>1, <1>2, PlatformsAssumption, LengthsAssumption DEF Init, Typed, NO_FILE
<1>4. Control /\ Held /\ Sizes
  BY <1>1 DEF Init, Control, Held, Sizes
<1>5. OwnHandles /\ OwnMemory
  BY DEF Init, OwnHandles, OwnMemory
<1>6. NoMore
  BY <1>2 DEF Init, NoMore
<1>7. ReleasesItsOwn
  BY DEF Init, ReleasesItsOwn
<1> QED
  BY <1>3, <1>4, <1>5, <1>6, <1>7 DEF Inv

(* The other threads take and release only what the object does not have.   *)
LEMMA InvOther ==
  ASSUME Inv, OtherThreads
  PROVE  Inv'
<1>1. UNCHANGED <<platform, file_size, obj, fm, pc, method, arg, new_handle,
                  trespassed, close_failed, leaked, map_lost>>
  BY DEF OtherThreads, object_vars, history_vars
<1>2. CASE \E h \in Handles : handles[h] # "map" /\ UNCHANGED memory
             /\ handles' = [handles EXCEPT ![h] = IF @ = "free" THEN "other" ELSE "free"]
  <2>1. PICK h \in Handles : handles[h] # "map" /\ UNCHANGED memory
             /\ handles' = [handles EXCEPT ![h] = IF @ = "free" THEN "other" ELSE "free"]
    BY <1>2
  <2>2. \A g \in Handles : handles'[g] = "map" <=> handles[g] = "map"
    BY <2>1 DEF Inv, Typed
  <2>3. handles' \in [Handles -> {"free", "map", "other"}]
    BY <2>1 DEF Inv, Typed
  <2>4. Typed'
    BY <1>1, <2>1, <2>3 DEF Inv, Typed
  <2>5. Control' /\ Held' /\ Sizes' /\ ReleasesItsOwn'
    BY <1>1 DEF Inv, Control, Held, Sizes, ReleasesItsOwn
  <2>6. OwnHandles'
    BY <1>1, <2>2 DEF Inv, OwnHandles, Typed, Members
  <2>7. OwnMemory' /\ NoMore'
    BY <1>1, <2>1, <2>2 DEF Inv, OwnMemory, NoMore, lost, remapping
  <2> QED
    BY <2>4, <2>5, <2>6, <2>7 DEF Inv
<1>3. CASE \E a \in Addresses : memory[a].owner # "map" /\ UNCHANGED handles
             /\ memory' = [memory EXCEPT ![a].owner = IF @ = "free" THEN "other" ELSE "free"]
  <2>1. PICK a \in Addresses : memory[a].owner # "map" /\ UNCHANGED handles
             /\ memory' = [memory EXCEPT ![a].owner = IF @ = "free" THEN "other" ELSE "free"]
    BY <1>3
  <2>2. /\ memory' \in [Addresses -> Regions]
        /\ \A b \in Addresses : /\ memory'[b].owner = "map" <=> memory[b].owner = "map"
                                /\ memory'[b].length = memory[b].length
    BY <2>1 DEF Inv, Typed, Regions
  <2>3. Typed'
    BY <1>1, <2>1, <2>2 DEF Inv, Typed
  <2>4. Control' /\ Held' /\ Sizes' /\ ReleasesItsOwn' /\ OwnHandles'
    BY <1>1, <2>1 DEF Inv, Control, Held, Sizes, ReleasesItsOwn, OwnHandles
  <2>5. OwnMemory'
    BY <1>1, <2>2 DEF Inv, OwnMemory, lost, remapping, Typed, Members
  <2>6. NoMore'
    BY <1>1, <2>1, <2>2 DEF Inv, NoMore, remapping
  <2> QED
    BY <2>3, <2>4, <2>5, <2>6 DEF Inv
<1> QED
  BY <1>2, <1>3 DEF OtherThreads

-----------------------------------------------------------------------------
(* The members, and what assigning one of them leaves.                      *)
LEMMA Fields ==
  ASSUME fm \in Members
  PROVE  /\ fm.file \in Handles \cup {INVALID_HANDLE}
         /\ fm.mapping \in Handles \cup {INVALID_HANDLE}
         /\ fm.start \in Addresses \cup {NULL} /\ fm.length \in Int
         /\ INVALID_HANDLE \notin Handles /\ NULL \notin Handles /\ NULL \notin Addresses
  BY NamesAssumption DEF Members

(* A method that begins preserves the invariant.                            *)
LEMMA InvBegin ==
  ASSUME Inv,
         \/ Close \/ Destroy
         \/ \E n \in Lengths : Resize(n) \/ \E read_only \in BOOLEAN : Construct(read_only, n)
  PROVE  Inv'
<1>1. ASSUME NEW n \in Lengths, NEW read_only \in BOOLEAN, Construct(read_only, n)
      PROVE  Inv'
  <2>1. /\ obj = "none" /\ pc = "idle" /\ method' = "constructor" /\ arg' = n /\ pc' = "open"
        /\ obj' = "constructing" /\ fm' = [NoMap EXCEPT !.read_only = read_only]
        /\ UNCHANGED <<platform, file_size, handles, memory, new_handle,
                       trespassed, close_failed, leaked, map_lost>>
    BY <1>1 DEF Construct, Begin, kernel_vars, history_vars
  <2>2. /\ fm' \in Members /\ fm'.file = INVALID_HANDLE
        /\ fm'.mapping = INVALID_HANDLE /\ fm'.start = NULL
    BY <2>1 DEF NoMap, Members
  <2>3. Typed'
    BY <2>1, <2>2, LengthsAssumption DEF Inv, Typed
  <2>4. Control' /\ Held' /\ Sizes'
    BY <2>1, <2>2 DEF Inv, Control, Held, Sizes
  <2>5. OwnHandles' /\ OwnMemory'
    BY <2>1, <2>2 DEF Inv, OwnHandles, OwnMemory, Held
  <2>6. NoMore' /\ ReleasesItsOwn'
    BY <2>1 DEF Inv, NoMore, ReleasesItsOwn, remapping
  <2> QED
    BY <2>3, <2>4, <2>5, <2>6 DEF Inv
<1>2. ASSUME NEW n \in Lengths, Resize(n)
      PROVE  Inv'
  <2>1. /\ obj = "open" /\ fm.start # NULL /\ pc = "idle" /\ method' = "resize" /\ arg' = n
        /\ \/ platform # "windows" /\ n > fm.length /\ pc' = "lseek"
           \/ platform = "linux" /\ n < fm.length /\ pc' = "mremap"
           \/ platform = "macos" /\ n < fm.length /\ pc' = "munmap"
           \/ platform = "windows" /\ pc' = "create_mapping"
        /\ UNCHANGED <<platform, file_size, handles, memory, obj, fm, new_handle,
                       trespassed, close_failed, leaked, map_lost>>
    BY <1>2 DEF Resize, Begin, posix, kernel_vars, history_vars
  <2>2. n \in Nat /\ Typed'
    BY <2>1, LengthsAssumption DEF Inv, Typed
  <2>3. Control' /\ Held'
    BY <2>1 DEF Inv, Control, Held
  <2>4. Sizes'
    BY <2>1, <2>2, Fields DEF Inv, Sizes, Held, Typed
  <2>5. OwnHandles' /\ NoMore' /\ ReleasesItsOwn'
    BY <2>1 DEF Inv, OwnHandles, NoMore, ReleasesItsOwn, remapping
  <2>6. OwnMemory'
    BY <2>1 DEF Inv, OwnMemory, lost, remapping
  <2> QED
    BY <2>2, <2>3, <2>4, <2>5, <2>6 DEF Inv
<1>3. CASE Close \/ Destroy
  <2>1. /\ obj = "open" /\ pc = "idle" /\ method' \in {"close", "destructor"} /\ arg' = 0
        /\ pc' = first_release
        /\ UNCHANGED <<platform, file_size, handles, memory, obj, fm, new_handle,
                       trespassed, close_failed, leaked, map_lost>>
    BY <1>3 DEF Close, Destroy, Begin, kernel_vars, history_vars
  <2>2. /\ pc' \in {"munmap", "close_mapping", "close_file", "done"}
        /\ pc' = "munmap" <=> fm.start # NULL
        /\ pc' = "close_mapping" => fm.mapping # INVALID_HANDLE
        /\ pc' \in {"close_file", "done"} => fm.mapping = INVALID_HANDLE
        /\ pc' = "close_file" => fm.file # INVALID_HANDLE
        /\ pc' = "done" => fm.file = INVALID_HANDLE
    BY <2>1 DEF first_release
  <2>3. Typed'
    BY <2>1, <2>2 DEF Inv, Typed
  <2>4. Control' /\ Held' /\ Sizes'
    BY <2>1, <2>2 DEF Inv, Control, Held, Sizes
  <2>5. OwnHandles' /\ NoMore' /\ ReleasesItsOwn'
    BY <2>1 DEF Inv, OwnHandles, NoMore, ReleasesItsOwn, remapping
  <2>6. OwnMemory'
    BY <2>1, <2>2 DEF Inv, OwnMemory, lost, remapping
  <2> QED
    BY <2>3, <2>4, <2>5, <2>6 DEF Inv
<1> QED
  BY <1>1, <1>2, <1>3

(* The system calls of a constructor before its mmap, and the growth of the *)
(* file, preserve the invariant.                                            *)
LEMMA InvGrow ==
  ASSUME Inv, OpenFile \/ Fstat \/ SeekAndWrite
  PROVE  Inv'
<1>0. fm \in Members /\ file_size \in Int /\ arg \in Nat /\ file_size >= NO_FILE
  BY DEF Inv, Typed
<1>1. CASE OpenFile
  <2>1. PICK h \in Handles :
          /\ handles[h] = "free" /\ handles' = [handles EXCEPT ![h] = "map"]
          /\ fm' = [fm EXCEPT !.file = h]
    BY <1>1 DEF OpenFile
  <2>2. /\ pc = "open" /\ file_size' = IF 0 > file_size THEN 0 ELSE file_size
        /\ pc' = IF platform # "windows" THEN "fstat" ELSE "create_mapping"
        /\ UNCHANGED <<platform, obj, method, arg, memory, new_handle,
                       trespassed, close_failed, leaked, map_lost>>
    BY <1>1 DEF OpenFile, GrowFile, GoOn, posix, history_vars
  <2>3. /\ fm' \in Members /\ fm'.file = h /\ fm'.mapping = fm.mapping
        /\ fm'.start = fm.start /\ fm'.length = fm.length
    BY <1>0, <2>1 DEF Members
  <2>4. /\ handles' \in [Handles -> {"free", "map", "other"}] /\ handles'[h] = "map"
        /\ \A g \in Handles \ {h} : handles'[g] = handles[g]
    BY <2>1 DEF Inv, Typed
  <2>5. /\ method = "constructor" /\ obj = "constructing" /\ new_handle = NULL
        /\ fm.start = NULL /\ fm.mapping = INVALID_HANDLE /\ fm.file = INVALID_HANDLE
    BY <2>2 DEF Inv, Control, Held
  <2>6. Typed'
    BY <2>2, <2>3, <2>4 DEF Inv, Typed, NO_FILE
  <2>7. Control'
    BY <2>2, <2>5 DEF Inv, Typed, Control
  <2>8. Held'
    BY <1>0, <2>2, <2>3, <2>5, Fields DEF Inv, Held
  <2>9. Sizes'
    BY <1>0, <2>2, <2>3, <2>5 DEF Inv, Sizes
  <2>10. OwnHandles' /\ OwnMemory'
    BY <1>0, <2>2, <2>3, <2>4, <2>5, Fields DEF OwnHandles, OwnMemory
  <2>11. NoMore' /\ ReleasesItsOwn'
    BY <2>2, <2>3, <2>4, <2>5 DEF Inv, NoMore, ReleasesItsOwn, remapping
  <2> QED
    BY <2>6, <2>7, <2>8, <2>9, <2>10, <2>11 DEF Inv
<1>2. CASE Fstat
  <2>1. /\ pc = "fstat" /\ fm' = [fm EXCEPT !.length = IF arg = 0 THEN file_size ELSE arg]
        /\ pc' = IF arg > file_size THEN "lseek" ELSE "mmap"
        /\ UNCHANGED <<platform, obj, method, arg, file_size, handles, memory, new_handle,
                       trespassed, close_failed, leaked, map_lost>>
    BY <1>2 DEF Fstat, GoOn, kernel_vars, history_vars
  <2>2. /\ fm' \in Members /\ fm'.file = fm.file /\ fm'.mapping = fm.mapping
        /\ fm'.start = fm.start /\ fm'.length = IF arg = 0 THEN file_size ELSE arg
    BY <1>0, <2>1 DEF Members
  <2>3. /\ method = "constructor" /\ obj = "constructing" /\ new_handle = NULL
        /\ fm.start = NULL /\ file_size >= 0 /\ platform # "windows"
    BY <2>1 DEF Inv, Control, Held, Sizes
  <2>4. Typed'
    BY <2>1, <2>2 DEF Inv, Typed
  <2>5. Control'
    BY <2>1, <2>3 DEF Inv, Typed, Control
  <2>6. Held'
    BY <2>1, <2>2, <2>3 DEF Inv, Held
  <2>7. Sizes'
    BY <1>0, <2>1, <2>2, <2>3 DEF Sizes
  <2>8. OwnHandles' /\ OwnMemory'
    BY <2>1, <2>2, <2>3 DEF Inv, OwnHandles, OwnMemory
  <2>9. NoMore' /\ ReleasesItsOwn'
    BY <2>1, <2>2, <2>3 DEF Inv, NoMore, ReleasesItsOwn, remapping
  <2> QED
    BY <2>4, <2>5, <2>6, <2>7, <2>8, <2>9 DEF Inv
<1>3. CASE SeekAndWrite
  <2>1. /\ pc = "lseek" /\ file_size' = IF arg + 1 > file_size THEN arg + 1 ELSE file_size
        /\ pc' = IF method = "constructor" THEN "mmap"
                 ELSE IF platform = "linux" THEN "mremap" ELSE "munmap"
        /\ UNCHANGED <<platform, obj, method, arg, handles, memory, fm, new_handle,
                       trespassed, close_failed, leaked, map_lost>>
    BY <1>3 DEF SeekAndWrite, WriteByte, GrowFile, GoOn, history_vars
  <2>2. method \in {"constructor", "resize"} /\ new_handle = NULL /\ platform # "windows"
    BY <2>1 DEF Inv, Control, Held
  <2>3. file_size' \in Int /\ file_size' >= file_size /\ file_size' >= arg
    BY <1>0, <2>1
  <2>4. Typed'
    BY <2>1, <2>3 DEF Inv, Typed, NO_FILE
  <2>5. Control'
    BY <2>1, <2>2 DEF Inv, Typed, Control
  <2>6. Held'
    BY <2>1, <2>2 DEF Inv, Held
  <2>7. Sizes'
    BY <1>0, <2>1, <2>2, <2>3, Fields DEF Inv, Sizes, Held
  <2>8. OwnHandles' /\ NoMore' /\ ReleasesItsOwn'
    BY <2>1 DEF Inv, OwnHandles, NoMore, ReleasesItsOwn, remapping
  <2>9. OwnMemory'
    BY <2>1, <2>2 DEF Inv, OwnMemory, lost, remapping, Held
  <2> QED
    BY <2>4, <2>5, <2>6, <2>7, <2>8, <2>9 DEF Inv
<1> QED
  BY <1>1, <1>2, <1>3

-----------------------------------------------------------------------------
(* The mmap of a constructor, and mremap and mmap in resize, preserve the   *)
(* invariant.                                                               *)
LEMMA InvMap ==
  ASSUME Inv, Mmap \/ Mremap \/ MmapAgain
  PROVE  Inv'
<1>0. /\ fm \in Members /\ memory \in [Addresses -> Regions] /\ arg \in Int
      /\ fm.start \in Addresses \cup {NULL} /\ fm.length \in Int /\ NULL \notin Addresses
  BY Fields DEF Inv, Typed
<1>1. PICK a \in Addresses :
        /\ \/ pc = "mmap" /\ method = "constructor" /\ memory[a].owner = "free"
              /\ MapAt(a, fm.length) /\ fm' = [fm EXCEPT !.start = a]
           \/ pc = "mremap" /\ (a = fm.start \/ memory[a].owner = "free")
              /\ memory' = [memory EXCEPT ![fm.start] = Free,
                                          ![a] = [owner |-> "map", length |-> arg]]
              /\ fm' = [fm EXCEPT !.start = a, !.length = arg]
           \/ pc = "mmap" /\ method = "resize" /\ memory[a].owner = "free"
              /\ MapAt(a, arg) /\ fm' = [fm EXCEPT !.start = a, !.length = arg]
  BY DEF Mmap, Mremap, MmapAgain
<1>2. /\ pc' = "idle" /\ obj' = "open" /\ method' = "none" /\ arg' = 0
      /\ UNCHANGED <<platform, file_size, handles, new_handle,
                     trespassed, close_failed, leaked, map_lost>>
  BY DEF Mmap, Mremap, MmapAgain, Return, Leave, Inv, Control, history_vars
<1>3. /\ method \in {"constructor", "resize"} /\ new_handle = NULL /\ obj # "none"
      /\ method = "constructor" => fm.start = NULL
      /\ method = "resize" => fm.start \in Addresses
      /\ pc = "mremap" => method = "resize"
      /\ platform # "windows" /\ fm.mapping = INVALID_HANDLE
  BY <1>0, <1>1 DEF Inv, Control, Held
<1>4. PICK n \in Int :
        /\ n <= file_size
        /\ n = IF method = "constructor" THEN fm.length ELSE arg
  BY <1>0, <1>1, <1>3 DEF Inv, Sizes
<1>5. /\ fm' \in Members /\ fm'.file = fm.file /\ fm'.mapping = fm.mapping
      /\ fm'.start = a /\ fm'.length = n
  BY <1>0, <1>1, <1>3, <1>4 DEF Members
<1>6. [owner |-> "map", length |-> n] \in Regions /\ Free \in Regions /\ Free.owner = "free"
  BY <1>4 DEF Regions, Free
<1>7. memory' \in [Addresses -> Regions] /\ memory'[a] = [owner |-> "map", length |-> n]
  BY <1>0, <1>1, <1>3, <1>4, <1>6 DEF MapAt
<1>8. \A b \in Addresses \ {a} : memory'[b].owner = "map" => memory[b].owner = "map"
  BY <1>0, <1>1, <1>3, <1>6 DEF MapAt
<1>9. ~leaked => \A b \in Addresses \ {a} : memory'[b].owner # "map"
  <2> SUFFICES ASSUME ~leaked, NEW b \in Addresses, b # a, memory'[b].owner = "map"
               PROVE  FALSE
    OBVIOUS
  <2>1. memory[b].owner = "map" /\ b = fm.start /\ ~remapping
    BY <1>8 DEF Inv, NoMore
  <2> QED
    BY <1>0, <1>1, <1>3, <1>6, <2>1 DEF remapping
<1>10. Typed'
  BY <1>2, <1>5, <1>7 DEF Inv, Typed
<1>11. Control' /\ Held'
  BY <1>2, <1>3, <1>5 DEF Control, Held
<1>12. Sizes'
  BY <1>2, <1>3, <1>4, <1>5 DEF Sizes
<1>13. OwnHandles'
  BY <1>2, <1>3, <1>5 DEF Inv, OwnHandles
<1>14. OwnMemory'
  BY <1>4, <1>5, <1>7 DEF OwnMemory
<1>15. NoMore' /\ ReleasesItsOwn'
  BY <1>2, <1>3, <1>5, <1>9 DEF Inv, NoMore, ReleasesItsOwn, remapping
<1> QED
  BY <1>10, <1>11, <1>12, <1>13, <1>14, <1>15 DEF Inv

(* The munmap of resize on macOS preserves the invariant.                   *)
LEMMA InvMunmapOld ==
  ASSUME Inv, MunmapOld
  PROVE  Inv'
<1>1. /\ pc = "munmap" /\ method = "resize" /\ pc' = "mmap"
      /\ memory' = [memory EXCEPT ![fm.start] = Free]
      /\ trespassed' = (trespassed \/ memory[fm.start].owner = "other")
      /\ UNCHANGED <<platform, obj, method, arg, file_size, handles, fm, new_handle,
                     close_failed, leaked, map_lost>>
  BY DEF MunmapOld, Unmap, GoOn
<1>2. /\ fm.start \in Addresses /\ platform = "macos" /\ obj # "none" /\ new_handle = NULL
      /\ obj # "constructing" /\ fm.start # NULL
  BY <1>1, Fields DEF Inv, Typed, Control, Held
<1>3. /\ memory' \in [Addresses -> Regions] /\ memory'[fm.start].owner = "free"
      /\ \A b \in Addresses \ {fm.start} : memory'[b] = memory[b]
  BY <1>1, <1>2 DEF Inv, Typed, Free, Regions
<1>4. Typed'
  BY <1>1, <1>3 DEF Inv, Typed
<1>5. Control' /\ Held' /\ Sizes'
  BY <1>1, <1>2 DEF Inv, Control, Held, Sizes
<1>6. OwnHandles' /\ OwnMemory'
  BY <1>1 DEF Inv, OwnHandles, OwnMemory, remapping
<1>7. NoMore'
  BY <1>1, <1>2, <1>3 DEF Inv, NoMore
<1>8. ReleasesItsOwn'
  BY <1>1, <1>2 DEF Inv, ReleasesItsOwn, OwnMemory, lost, remapping
<1> QED
  BY <1>4, <1>5, <1>6, <1>7, <1>8 DEF Inv

(* The system calls of Windows that map the file preserve the invariant.    *)
LEMMA InvWindows ==
  ASSUME Inv, CreateFileMapping \/ MapViewOfFile \/ MapViewFails
  PROVE  Inv'
<1>0. /\ fm \in Members /\ memory \in [Addresses -> Regions] /\ arg \in Nat
      /\ file_size \in Int /\ file_size >= NO_FILE
      /\ handles \in [Handles -> {"free", "map", "other"}]
      /\ fm.file \in Handles \cup {INVALID_HANDLE}
      /\ fm.mapping \in Handles \cup {INVALID_HANDLE}
      /\ fm.start \in Addresses \cup {NULL} /\ fm.length \in Int
      /\ NULL \notin Addresses /\ NULL \notin Handles /\ INVALID_HANDLE \notin Handles
      /\ new_handle \in Handles \cup {NULL}
  BY Fields DEF Inv, Typed
<1>1. CASE CreateFileMapping
  <2>1. /\ pc = "create_mapping" /\ pc' = "map_view"
        /\ UNCHANGED <<platform, obj, method, arg, memory, fm,
                       trespassed, close_failed, leaked, map_lost>>
    BY <1>1 DEF CreateFileMapping, GoOn, history_vars
  <2>2. method \in {"constructor", "resize"} /\ platform = "windows" /\ new_handle = NULL
        /\ obj # "none"
    BY <2>1 DEF Inv, Control, Held
  <2>3. Control'
    BY <2>1, <2>2 DEF Inv, Control
  <2>4. Held'
    BY <2>1, <2>2 DEF Inv, Held
  <2>5. OwnMemory' /\ ReleasesItsOwn'
    BY <2>1 DEF Inv, OwnMemory, ReleasesItsOwn, lost, remapping
  <2>6. CASE new_handle' = NULL /\ UNCHANGED <<file_size, handles>>
    <3>1. Typed'
      BY <2>1, <2>6 DEF Inv, Typed
    <3>2. Sizes' /\ OwnHandles' /\ NoMore'
      BY <2>1, <2>2, <2>6 DEF Inv, Sizes, OwnHandles, NoMore, remapping
    <3> QED
      BY <2>3, <2>4, <2>5, <3>1, <3>2 DEF Inv
  <2>7. CASE \E h \in Handles : /\ handles[h] = "free" /\ new_handle' = h
                                /\ handles' = [handles EXCEPT ![h] = "map"]
                                /\ GrowFile(arg)
    <3>1. PICK h \in Handles : /\ handles[h] = "free" /\ new_handle' = h
                               /\ handles' = [handles EXCEPT ![h] = "map"]
                               /\ GrowFile(arg)
      BY <2>7
    <3>2. file_size' \in Int /\ file_size' >= file_size /\ file_size' >= arg
      BY <1>0, <3>1 DEF GrowFile
    <3>3. /\ handles' \in [Handles -> {"free", "map", "other"}] /\ handles'[h] = "map"
          /\ \A g \in Handles \ {h} : handles'[g] = handles[g]
      BY <1>0, <3>1
    <3>4. Typed'
      BY <1>0, <2>1, <3>1, <3>2, <3>3 DEF Inv, Typed, NO_FILE
    <3>5. Sizes'
      BY <1>0, <2>1, <2>2, <3>1, <3>2 DEF Inv, Sizes, Held
    <3>6. OwnHandles'
      BY <1>0, <2>1, <2>2, <3>1, <3>3 DEF Inv, OwnHandles
    <3>7. NoMore'
      BY <1>0, <2>1, <2>2, <3>1, <3>3 DEF Inv, NoMore, remapping
    <3> QED
      BY <2>3, <2>4, <2>5, <3>4, <3>5, <3>6, <3>7 DEF Inv
  <2> QED
    BY <1>1, <2>6, <2>7 DEF CreateFileMapping
<1>2. CASE MapViewOfFile
  <2>1. PICK a \in Addresses, unmapped \in BOOLEAN :
         /\ memory[a].owner = "free" /\ (fm.start = NULL => unmapped)
         /\ memory' = [b \in Addresses |->
              IF b = a THEN [owner |-> "map", length |-> IF arg = 0 THEN file_size ELSE arg]
              ELSE IF b = fm.start /\ unmapped THEN Free ELSE memory[b]]
         /\ leaked' = (leaked \/ ~unmapped)
         /\ fm' = [fm EXCEPT !.mapping = new_handle, !.start = a, !.length = arg]
    BY <1>2 DEF MapViewOfFile
  <2>2. /\ pc = "map_view" /\ new_handle # NULL /\ new_handle' = NULL
        /\ handles' = [h \in Handles |-> IF h = fm.mapping THEN "free" ELSE handles[h]]
        /\ pc' = "idle" /\ method' = "none" /\ arg' = 0 /\ obj' = "open"
        /\ UNCHANGED <<platform, file_size, trespassed, close_failed, map_lost>>
    BY <1>2 DEF MapViewOfFile, Return, Leave, Inv, Control
  <2>3. /\ fm' \in Members /\ fm'.file = fm.file /\ fm'.mapping = new_handle
        /\ fm'.start = a /\ fm'.length = arg
    <3>1. fm \in Members /\ new_handle \in Handles /\ arg \in Int
      BY <1>0, <2>2
    <3>2. fm' = [fm EXCEPT !.mapping = new_handle, !.start = a, !.length = arg]
      BY <2>1
    <3> QED
      BY <3>1, <3>2 DEF Members
  <2>4. arg <= file_size /\ obj # "none" /\ platform = "windows"
    BY <2>2 DEF Inv, Sizes, Control
  <2>5. Free \in Regions /\ Free.owner = "free"
    BY DEF Free, Regions
  <2>6. memory' \in [Addresses -> Regions] /\ memory'[a].owner = "map"
        /\ arg <= memory'[a].length
    BY <1>0, <2>1, <2>4, <2>5 DEF Regions
  <2>7. handles' \in [Handles -> {"free", "map", "other"}]
    BY <1>0, <2>2
  <2>8. Typed'
    BY <2>2, <2>3, <2>6, <2>7 DEF Inv, Typed
  <2>9. Control' /\ Held'
    BY <2>2, <2>4 DEF Control, Held
  <2>10. Sizes'
    BY <2>2, <2>3, <2>4 DEF Sizes
  <2>11. OwnHandles'
    BY <1>0, <2>2, <2>3, <2>4 DEF Inv, OwnHandles
  <2>12. OwnMemory'
    BY <2>3, <2>6 DEF OwnMemory
  <2>13. NoMore'
    <3> SUFFICES ASSUME ~leaked' PROVE NoMore'
      BY DEF NoMore
    <3>1. ~leaked /\ unmapped
      BY <2>1
    <3>2. \A h \in Handles : handles'[h] = "map" => h \in {fm'.file, fm'.mapping, new_handle'}
      BY <1>0, <2>2, <2>3, <3>1 DEF Inv, NoMore
    <3>3. \A b \in Addresses : memory'[b].owner = "map" => b = fm'.start
      BY <2>1, <2>3, <2>5, <3>1 DEF Inv, NoMore
    <3> QED
      BY <2>2, <3>2, <3>3 DEF NoMore, remapping
  <2>14. ReleasesItsOwn'
    BY <2>2 DEF Inv, ReleasesItsOwn
  <2> QED
    BY <2>8, <2>9, <2>10, <2>11, <2>12, <2>13, <2>14 DEF Inv
<1>3. CASE MapViewFails
  <2>1. /\ pc = "map_view" /\ new_handle' = NULL
        /\ handles' = [h \in Handles |->
                         IF h = new_handle \/ (h = fm.file /\ method = "constructor")
                           THEN "free" ELSE handles[h]]
        /\ pc' = "idle" /\ method' = "none" /\ arg' = 0
        /\ obj' = IF method \in {"constructor", "destructor"} THEN "none" ELSE "open"
        /\ UNCHANGED <<platform, file_size, memory, fm,
                       trespassed, close_failed, leaked, map_lost>>
    BY <1>3 DEF MapViewFails, Throw, Leave, history_vars
  <2>2. /\ method \in {"constructor", "resize"} /\ platform = "windows" /\ obj # "none"
        /\ method = "constructor" => fm.start = NULL /\ fm.mapping = INVALID_HANDLE
    BY <2>1 DEF Inv, Control, Held
  <2>3. handles' \in [Handles -> {"free", "map", "other"}]
    BY <1>0, <2>1
  <2>4. Typed'
    BY <2>1, <2>3 DEF Inv, Typed
  <2>5. Control' /\ Held' /\ Sizes'
    BY <2>1, <2>2 DEF Inv, Control, Held, Sizes
  <2>6. OwnHandles'
    BY <1>0, <2>1, <2>2 DEF Inv, OwnHandles
  <2>7. OwnMemory' /\ ReleasesItsOwn'
    BY <2>1, <2>2 DEF Inv, OwnMemory, ReleasesItsOwn, lost, remapping
  <2>8. NoMore'
    BY <1>0, <2>1, <2>2 DEF Inv, NoMore, remapping
  <2> QED
    BY <2>4, <2>5, <2>6, <2>7, <2>8 DEF Inv
<1> QED
  BY <1>1, <1>2, <1>3

-----------------------------------------------------------------------------
(* The releases of close and of the destructor preserve the invariant.      *)
LEMMA InvRelease ==
  ASSUME Inv, CloseView \/ CloseMapping \/ CloseFile \/ Done
  PROVE  Inv'
<1>0. /\ fm \in Members /\ memory \in [Addresses -> Regions]
      /\ handles \in [Handles -> {"free", "map", "other"}]
      /\ fm.file \in Handles \cup {INVALID_HANDLE}
      /\ fm.mapping \in Handles \cup {INVALID_HANDLE}
      /\ fm.start \in Addresses \cup {NULL}
      /\ NULL \notin Addresses /\ NULL \notin Handles /\ INVALID_HANDLE \notin Handles
  BY Fields DEF Inv, Typed
<1>1. CASE CloseView
  <2>1. /\ pc = "munmap" /\ method \in {"close", "destructor"}
        /\ memory' = [memory EXCEPT ![fm.start] = Free]
        /\ trespassed' = (trespassed \/ memory[fm.start].owner = "other")
        /\ fm' = [fm EXCEPT !.start = NULL]
        /\ pc' = IF fm.mapping # INVALID_HANDLE THEN "close_mapping"
                 ELSE IF fm.file # INVALID_HANDLE THEN "close_file" ELSE "done"
        /\ UNCHANGED <<platform, obj, method, arg, file_size, handles, new_handle,
                       close_failed, leaked, map_lost>>
    BY <1>1 DEF CloseView, closing, Unmap, after_munmap, GoOn
  <2>2. /\ fm' \in Members /\ fm'.file = fm.file /\ fm'.mapping = fm.mapping
        /\ fm'.start = NULL /\ fm'.length = fm.length
    BY <1>0, <2>1 DEF Members
  <2>3. /\ fm.start \in Addresses /\ fm.start # NULL /\ obj = "open" /\ new_handle = NULL
    BY <1>0, <2>1 DEF Inv, Typed, Control, Held
  <2>4. /\ memory' \in [Addresses -> Regions] /\ memory'[fm.start].owner = "free"
        /\ \A b \in Addresses \ {fm.start} : memory'[b] = memory[b]
    BY <1>0, <2>1, <2>3 DEF Free, Regions
  <2>5. Typed'
    BY <2>1, <2>2, <2>4 DEF Inv, Typed
  <2>6. Control'
    BY <2>1, <2>3 DEF Inv, Control
  <2>7. Held'
    BY <2>1, <2>2, <2>3 DEF Inv, Held
  <2>8. Sizes' /\ OwnMemory'
    BY <2>1, <2>2, <2>3 DEF Sizes, OwnMemory
  <2>9. OwnHandles'
    BY <2>1, <2>2 DEF Inv, OwnHandles
  <2>10. NoMore'
    BY <2>1, <2>2, <2>3, <2>4 DEF Inv, NoMore, remapping
  <2>11. ReleasesItsOwn'
    BY <2>1, <2>3 DEF Inv, ReleasesItsOwn, OwnMemory, lost, remapping
  <2> QED
    BY <2>5, <2>6, <2>7, <2>8, <2>9, <2>10, <2>11 DEF Inv
<1>2. CASE CloseMapping
  <2>1. /\ pc = "close_mapping" /\ handles' = [handles EXCEPT ![fm.mapping] = "free"]
        /\ trespassed' = (trespassed \/ handles[fm.mapping] = "other")
        /\ fm' = [fm EXCEPT !.mapping = INVALID_HANDLE]
        /\ pc' = IF fm.file # INVALID_HANDLE THEN "close_file" ELSE "done"
        /\ UNCHANGED <<platform, obj, method, arg, file_size, memory, new_handle,
                       close_failed, leaked, map_lost>>
    BY <1>2 DEF CloseMapping, CloseHandle, GoOn
  <2>2. /\ fm' \in Members /\ fm'.file = fm.file /\ fm'.mapping = INVALID_HANDLE
        /\ fm'.start = fm.start /\ fm'.length = fm.length
    BY <1>0, <2>1 DEF Members
  <2>3. /\ method \in {"close", "destructor"} /\ obj = "open" /\ new_handle = NULL
        /\ fm.mapping \in Handles /\ fm.start = NULL
    BY <1>0, <2>1 DEF Inv, Typed, Control, Held
  <2>4. /\ handles' \in [Handles -> {"free", "map", "other"}]
        /\ handles'[fm.mapping] = "free"
        /\ \A h \in Handles \ {fm.mapping} : handles'[h] = handles[h]
    BY <1>0, <2>1, <2>3
  <2>5. Typed'
    BY <2>1, <2>2, <2>4 DEF Inv, Typed
  <2>6. Control' /\ Held'
    BY <2>1, <2>2, <2>3 DEF Inv, Control, Held
  <2>7. Sizes' /\ OwnMemory'
    BY <2>1, <2>2, <2>3 DEF Sizes, OwnMemory
  <2>8. OwnHandles'
    BY <1>0, <2>1, <2>2, <2>3, <2>4 DEF Inv, OwnHandles
  <2>9. NoMore'
    BY <2>1, <2>2, <2>3, <2>4 DEF Inv, NoMore, remapping
  <2>10. ReleasesItsOwn'
    BY <1>0, <2>1, <2>3 DEF Inv, ReleasesItsOwn, OwnHandles
  <2> QED
    BY <2>5, <2>6, <2>7, <2>8, <2>9, <2>10 DEF Inv
<1>3. CASE CloseFile
  <2>1. /\ pc = "close_file" /\ handles' = [handles EXCEPT ![fm.file] = "free"]
        /\ trespassed' = (trespassed \/ handles[fm.file] = "other")
        /\ fm' = [fm EXCEPT !.file = INVALID_HANDLE] /\ pc' = "done"
        /\ UNCHANGED <<platform, obj, method, arg, file_size, memory, new_handle,
                       close_failed, leaked, map_lost>>
    BY <1>3 DEF CloseFile, CloseHandle, GoOn
  <2>2. /\ fm' \in Members /\ fm'.file = INVALID_HANDLE /\ fm'.mapping = fm.mapping
        /\ fm'.start = fm.start /\ fm'.length = fm.length
    BY <1>0, <2>1 DEF Members
  <2>3. /\ method \in {"close", "destructor"} /\ obj = "open" /\ new_handle = NULL
        /\ fm.file \in Handles /\ fm.start = NULL /\ fm.mapping = INVALID_HANDLE
    BY <1>0, <2>1 DEF Inv, Typed, Control, Held
  <2>4. /\ handles' \in [Handles -> {"free", "map", "other"}] /\ handles'[fm.file] = "free"
        /\ \A h \in Handles \ {fm.file} : handles'[h] = handles[h]
    BY <1>0, <2>1, <2>3
  <2>5. Typed'
    BY <2>1, <2>2, <2>4 DEF Inv, Typed
  <2>6. Control' /\ Held'
    BY <2>1, <2>2, <2>3 DEF Inv, Control, Held
  <2>7. Sizes' /\ OwnMemory'
    BY <2>1, <2>2, <2>3 DEF Sizes, OwnMemory
  <2>8. OwnHandles'
    BY <2>1, <2>2, <2>3 DEF OwnHandles
  <2>9. NoMore'
    BY <1>0, <2>1, <2>2, <2>3, <2>4 DEF Inv, NoMore, remapping
  <2>10. ReleasesItsOwn'
    BY <1>0, <2>1, <2>3 DEF Inv, ReleasesItsOwn, OwnHandles
  <2> QED
    BY <2>5, <2>6, <2>7, <2>8, <2>9, <2>10 DEF Inv
<1>4. CASE Done
  <2>1. /\ pc = "done" /\ pc' = "idle" /\ method' = "none" /\ arg' = 0
        /\ obj' \in {"none", "open"}
        /\ UNCHANGED <<platform, file_size, handles, memory, fm, new_handle,
                       trespassed, close_failed, leaked, map_lost>>
    BY <1>4 DEF Done, Return, Leave, kernel_vars, history_vars
  <2>2. /\ fm.start = NULL /\ fm.mapping = INVALID_HANDLE /\ fm.file = INVALID_HANDLE
        /\ new_handle = NULL
    BY <2>1 DEF Inv, Held
  <2>3. Typed'
    BY <2>1 DEF Inv, Typed
  <2>4. Control' /\ Held' /\ Sizes' /\ OwnHandles' /\ OwnMemory'
    BY <2>1, <2>2 DEF Control, Held, Sizes, OwnHandles, OwnMemory
  <2>5. NoMore' /\ ReleasesItsOwn'
    BY <1>0, <2>1, <2>2 DEF Inv, NoMore, ReleasesItsOwn, remapping
  <2> QED
    BY <2>3, <2>4, <2>5 DEF Inv
<1> QED
  BY <1>1, <1>2, <1>3, <1>4

(* A system call that fails preserves the invariant: what the object no     *)
(* longer has it no longer names, or it is on record that it lost it.       *)
LEMMA InvFails ==
  ASSUME Inv, OpenFails \/ CallFails \/ CloseFileFails \/ ReleaseFails
  PROVE  Inv'
<1>0. /\ handles \in [Handles -> {"free", "map", "other"}]
      /\ fm.file \in Handles \cup {INVALID_HANDLE}
      /\ fm.start \in Addresses \cup {NULL}
      /\ NULL \notin Addresses /\ NULL \notin Handles /\ INVALID_HANDLE \notin Handles
  BY Fields DEF Inv, Typed
<1>1. /\ pc' = "idle" /\ method' = "none" /\ arg' = 0
      /\ obj' = IF method \in {"constructor", "destructor"} THEN "none" ELSE "open"
      /\ UNCHANGED <<platform, file_size, memory, fm, new_handle>>
  BY DEF OpenFails, CallFails, Fail, CloseAndThrow, CloseFileFails, ReleaseFails,
         Throw, Leave, kernel_vars
<1>2. /\ obj # "none" /\ new_handle = NULL
      /\ obj = "constructing" <=> method = "constructor"
  BY DEF Inv, Control, Held, OpenFails, CallFails, CloseFileFails, ReleaseFails
<1>3. Control' /\ Held' /\ Sizes'
  BY <1>1, <1>2 DEF Inv, Control, Held, Sizes
<1>4. ASSUME handles' \in [Handles -> {"free", "map", "other"}]
      PROVE  Typed'
  BY <1>1, <1>4 DEF Inv, Typed
<1>5. CASE OpenFails
  <2>1. pc = "open" /\ UNCHANGED <<handles, trespassed, close_failed, leaked, map_lost>>
    BY <1>5 DEF OpenFails, kernel_vars, history_vars
  <2>2. /\ method = "constructor" /\ fm.file = INVALID_HANDLE /\ fm.start = NULL
        /\ fm.mapping = INVALID_HANDLE
    BY <2>1 DEF Inv, Control, Held
  <2>3. OwnHandles' /\ OwnMemory'
    BY <1>1, <2>2 DEF OwnHandles, OwnMemory
  <2>4. NoMore' /\ ReleasesItsOwn'
    BY <1>0, <1>1, <1>2, <2>1, <2>2 DEF Inv, NoMore, ReleasesItsOwn, remapping
  <2> QED
    BY <1>0, <1>3, <1>4, <2>1, <2>3, <2>4 DEF Inv
<1>6. CASE CallFails /\ method = "constructor"
  <2>1. /\ pc \in {"fstat", "lseek", "mmap", "mremap"}
        /\ handles' = [handles EXCEPT ![fm.file] = "free"]
        /\ trespassed' = (trespassed \/ handles[fm.file] = "other")
        /\ UNCHANGED <<close_failed, leaked>> /\ (map_lost => map_lost')
    BY <1>6 DEF CallFails, Fail, CloseAndThrow, CloseHandle, Inv, Control
  <2>2. /\ fm.file \in Handles /\ fm.start = NULL /\ fm.mapping = INVALID_HANDLE
    BY <1>0, <1>6, <2>1 DEF Inv, Held
  <2>3. /\ handles' \in [Handles -> {"free", "map", "other"}] /\ handles'[fm.file] = "free"
        /\ \A h \in Handles \ {fm.file} : handles'[h] = handles[h]
    BY <1>0, <2>1, <2>2
  <2>4. OwnHandles' /\ OwnMemory'
    BY <1>1, <1>6 DEF OwnHandles, OwnMemory
  <2>5. NoMore'
    BY <1>0, <1>1, <1>2, <2>1, <2>2, <2>3 DEF Inv, NoMore
  <2>6. ReleasesItsOwn'
    BY <1>0, <1>1, <1>2, <2>1, <2>2 DEF Inv, ReleasesItsOwn, OwnHandles
  <2> QED
    BY <1>3, <1>4, <2>3, <2>4, <2>5, <2>6 DEF Inv
<1>7. CASE CallFails /\ method # "constructor"
  <2>1. /\ UNCHANGED <<handles, trespassed, close_failed, leaked>>
        /\ map_lost' = (map_lost \/ (method = "resize" /\ pc = "mmap"))
    BY <1>7 DEF CallFails, Fail
  <2>2. method = "resize"
    BY <1>7 DEF CallFails, Inv, Control
  <2>3. pc = "mmap" => platform = "macos"
    BY <2>2 DEF Inv, Control
  <2>4. OwnHandles' /\ ReleasesItsOwn'
    BY <1>1, <1>2, <2>1, <2>2, <2>3 DEF Inv, OwnHandles, ReleasesItsOwn
  <2>5. OwnMemory'
    BY <1>1, <1>2, <2>1, <2>2, <2>3 DEF Inv, OwnMemory, lost, remapping
  <2>6. NoMore'
    BY <1>1, <1>2, <2>1, <2>2 DEF Inv, NoMore, remapping
  <2> QED
    BY <1>0, <1>3, <1>4, <2>1, <2>4, <2>5, <2>6 DEF Inv
<1>8. CASE CloseFileFails
  <2>1. /\ pc = "close_file" /\ close_failed' = TRUE /\ UNCHANGED map_lost
        /\ \/ /\ handles' = [handles EXCEPT ![fm.file] = "free"] /\ UNCHANGED leaked
           \/ /\ leaked' = (leaked \/ method = "destructor") /\ UNCHANGED handles
    BY <1>8 DEF CloseFileFails, CloseHandle
  <2>2. /\ fm.file \in Handles /\ fm.start = NULL /\ fm.mapping = INVALID_HANDLE
        /\ method \in {"close", "destructor"}
    BY <1>0, <2>1 DEF Inv, Held, Control
  <2>3. handles' \in [Handles -> {"free", "map", "other"}]
    BY <1>0, <2>1
  <2>4. OwnHandles' /\ OwnMemory' /\ ReleasesItsOwn'
    BY <1>1, <2>1, <2>2 DEF OwnHandles, OwnMemory, ReleasesItsOwn
  <2>5. NoMore'
    <3> SUFFICES ASSUME ~leaked' PROVE NoMore'
      BY DEF NoMore
    <3>1. ~leaked /\ \A h \in Handles : handles'[h] = "map" => handles[h] = "map"
      <4>1. ~leaked
        BY <2>1
      <4>2. \A h \in Handles : handles'[h] = "map" => handles[h] = "map"
        BY <1>0, <2>1, <2>2
      <4> QED
        BY <4>1, <4>2
    <3>2. \A a \in Addresses : memory'[a].owner # "map"
      BY <1>0, <1>1, <2>2, <3>1 DEF Inv, NoMore
    <3>3. \A h \in Handles : handles'[h] = "map" => h = fm.file /\ obj' # "none"
      BY <1>0, <1>1, <1>2, <2>1, <2>2, <3>1 DEF Inv, NoMore
    <3> QED
      BY <1>1, <3>2, <3>3 DEF NoMore
  <2> QED
    BY <1>3, <1>4, <2>3, <2>4, <2>5 DEF Inv
<1>9. CASE ReleaseFails
  <2>1. /\ pc \in {"munmap", "close_mapping"} /\ method \in {"close", "destructor"}
        /\ leaked' = (leaked \/ method = "destructor")
        /\ UNCHANGED <<handles, trespassed, close_failed, map_lost>>
    BY <1>9 DEF ReleaseFails, closing, kernel_vars
  <2>2. OwnHandles' /\ ReleasesItsOwn'
    BY <1>1, <1>2, <2>1 DEF Inv, OwnHandles, ReleasesItsOwn
  <2>3. OwnMemory'
    BY <1>1, <1>2, <2>1 DEF Inv, OwnMemory, lost, remapping
  <2>4. NoMore'
    BY <1>1, <2>1 DEF Inv, NoMore, remapping
  <2> QED
    BY <1>0, <1>3, <1>4, <2>1, <2>2, <2>3, <2>4 DEF Inv
<1> QED
  BY <1>5, <1>6, <1>7, <1>8, <1>9

(* The invariant is inductive.                                              *)
LEMMA InvNext == Inv /\ [Next]_vars => Inv'
<1> SUFFICES ASSUME Inv, [Next]_vars PROVE Inv'
  OBVIOUS
<1>1. CASE UNCHANGED vars
  BY <1>1 DEF vars, kernel_vars, object_vars, history_vars, Inv, Typed, Control, Held,
              Sizes, OwnHandles, OwnMemory, NoMore, ReleasesItsOwn, lost, remapping
<1>2. CASE Next
  BY <1>2, InvBegin, InvGrow, InvMap, InvMunmapOld, InvWindows, InvRelease, InvFails,
     InvOther DEF Next
<1> QED
  BY <1>1, <1>2

(****************************************************************************)
(* Between two methods the length_ bytes at start_ are mapped by the object *)
(* and are in the file, whichever system calls failed, except on macOS once *)
(* resize has unmapped the file and could not map it again.                 *)
(****************************************************************************)
THEOREM MappingStaysIntact == Spec => []MappingIntact
<1>1. Inv => MappingIntact
  BY DEF Inv, MappingIntact, between_methods, OwnMemory, Sizes, lost, remapping
<1> QED
  BY <1>1, InvInit, InvNext, PTL DEF Spec

(****************************************************************************)
(* The object never unmaps or closes what is another thread's, unless a     *)
(* ::close reported an error or macOS lost the mapping in resize.           *)
(****************************************************************************)
THEOREM ReleasesOnlyItsOwn == Spec => []ReleasesItsOwn
<1>1. Inv => ReleasesItsOwn
  BY DEF Inv
<1> QED
  BY <1>1, InvInit, InvNext, PTL DEF Spec

(****************************************************************************)
(* A constructor that threw and a destructor leave no descriptor, mapping   *)
(* object or mapping behind, unless the system refused to release one.      *)
(****************************************************************************)
THEOREM LeavesNothing == Spec => []NothingLeaks
<1>1. Inv => NothingLeaks
  BY DEF Inv, NoMore, NothingLeaks
<1> QED
  BY <1>1, InvInit, InvNext, PTL DEF Spec
=============================================================================
