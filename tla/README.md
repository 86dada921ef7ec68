# TLA+ models of diskhash

diskhash is a hash table in two memory-mapped files (extendible hashing), with a
multi-threaded HTTP server in front of a sharded set of such tables and a Python
client.  This directory holds TLA+ modules that model it, TLC configurations
that check them on small instances, and proofs that TLAPS checks.

`PROJECT.json` lists components, runs, mutants, the map from definitions to
source lines, findings, hazards and theorems.  To repeat a run:
`tlc -config MCContainer.cfg MCContainer`; a proof: `tlapm ShardedMapProofs.tla`.
An operator whose comment begins with "Mutant:" is a broken form of the
definition after it; no specification uses it.  Each property of each passing
run fails when one of them is put in place of its original.

## The system

| part | source | state | operations | used by |
|---|---|---|---|---|
| file_map | `src/{linux,macos,windows}/file_map.cpp` | descriptor, address and length of a mapping | open (extends a short file), resize, close | catalogue, container |
| catalogue | `src/catalogue.{h,cpp}` | table of `2^prefix_bits` bucket ids, its mask and shift | find, set (a block of entries), split (double) | hash_map |
| container | `src/container.{h,cpp}` | array of buckets: depth, fill level, next bucket, packed records; free list | create_bucket, create_record, find_record, remove_record, split | hash_map |
| hash_map | `src/hash_map.h` | the two above | get (find or insert), find, remove, close, iterator | bindings, wrapped_hash_map, shards |
| sharded_hash_map | `src/server/sharded_hash_map.h` | a hash_map and a shared mutex per shard | get, set, remove, keys, close | http_server |
| http_server | `src/server/http_server.cpp` | acceptor, io_context, worker threads, `running_` | run, stop, wait, accept, session loop, request handlers | main |
| main | `src/server/main.cpp` | `g_server` | start, signal handler, wait | |
| pure code | `vbe.h`, `fnv.h`, url and base64url codecs | none | encode, decode, hash | container, handlers |
| bindings | `bindings.cpp` | an owned hash_map per DiskHash, a plain pointer to it per iterator | get, put, remove, close, iterate | Python programs |
| client | `python/diskhash/client.py` | a session that keeps a connection | get, set, delete, keys, health with a timeout | Python programs |
| wrapped_hash_map | `wrapped_hash_map.h` | none of its own | typed adapter | C++ programs |

What is hard in it:

* `container::split` rewrites a chain **in place** while reading it, grows a
  second chain, may remap the file in the middle of it and returns emptied
  buckets to a free list that shares the `next_bucket_id` field with the chains.
  Correct means: no record lost, doubled or overwritten, no bucket on two lists.
* The directory and the chains have to agree about depths: a chain of depth `d`
  is named by exactly the entries that share one prefix of `d` bits.
* The files outlive the process; the mapping does not.  They are changed in
  place, so a process that is killed, or a resize that throws, leaves whatever
  was written so far.
* An iterator keeps positions in a structure that changes under it, and a Python
  iterator a pointer to a map that may be closed.
* Request handlers of several threads share the shards; `get` hands out a copy
  of bytes that another thread may move.
* Shutdown: a signal handler, an acceptor, worker threads in blocking reads and
  a store that has to stay open until all of them are gone.
* A client that gave up waiting does not know what became of its request.

## Modules

| module | models | checked by |
|---|---|---|
| `Container` | container, one action per loop iteration | run `container` |
| `BucketStore` | what container promises hash_map (abstract) | refinement in `container` |
| `Directory` | what catalogue promises hash_map (abstract, prefixes instead of masks) | refinement in `catalogue` |
| `Catalogue` | catalogue with its mask arithmetic and in-place loops | run `catalogue` |
| `HashMap` | hash_map: extends `Container`, instantiates `Directory` | run `hash_map` |
| `KVMap` | the dictionary hash_map promises (abstract) | refinement in `hash_map` |
| `Reopen` | `HashMap` with the file and mapping lengths of file_map | run `reopen` |
| `Iterator` | const_iterator: extends `HashMap` | run `iterator` |
| `Faults` | kills and exceptions in the middle of a method: extends `HashMap` | run `faults` |
| `FileMap` | the three file_maps, a system call at a time | run `file_map` |
| `Vbe` | the variable-byte encoding of sizes (operators) | an assumption of `MCContainer` |
| `ShardedMap` | request handlers and sharded_hash_map | run `sharded_map` |
| `AtomicStore` | the HTTP API as an atomic store (abstract) | refinement in `sharded_map` |
| `Server` | main, http_server's life cycle and sessions | runs `server`, `server_silent` |
| `Codec` | parameters, url and base64url codecs, routing (operators) | run `client` |
| `Client` | the Python client's calls, timeouts and connections: extends `Codec` | run `client` |
| `Bindings` | DiskHash objects and iterators in Python | run `bindings_iter` |
| `MC*` | values of the constants | |
| `ContainerProofs` | proofs about `Container`: the links between buckets, then the bytes in them | TLAPS |
| `FaultsProofs` | proofs about `Faults` | TLAPS |
| `HashMapProofs`, `DictionaryProofs` | proofs about `HashMap`: the catalogue and `Iterator`, then that the container is a `BucketStore`, the map a dictionary, and that an iterator meets each of its records | TLAPS |
| `FileMapProofs`, `ShardedMapProofs`, `ServerProofs`, `ClientProofs` | proofs about the module each is named after | TLAPS |

### Container

`buckets[b]` is `bucket_t`, with its data as a set of records that carry the byte
offset they are stored at; the bytes of keys and values are not represented, the
lengths are (`bytes_required`, with the variable-byte length of the sizes).
`overwrite` removes what the copied bytes cover, so a wrong write position
destroys records in the model as it does in the file.  `first_free_bucket_id`,
`buckets_count` and `length` are the fields of the same names.  `pc`, `arg`,
`cursor` and `sp` are the locals of the call in progress; there is one at a time.
A call starts with one action (`FindCall`, `CreateCall`, `RemoveCall`,
`SplitCall`) and goes on with one action for every iteration of its loop, so the
invariants are checked in the middle of calls too.

`split` drops a record from where it was read when it copies it: nothing reads
those bytes again, because the bucket's `bytes_used` was reset before.  Its
branch that extends the bit0 chain is in the model; `Bit0HasRoom` shows that it
is dead code (`StayersHaveRoom`: for any sizes).

The runs call the operations in any order, with the three things callers have
to keep: bucket ids come from the container, a key is stored once, a chain is
split only while hash bits are left.

* `NoSharing`, `NoLeak`: every bucket is on exactly one list at every moment
  (`NoLeak` and `InMapping` are checked in run `hash_map`, where splits free
  several buckets).
* `Packed`: records fill a bucket from byte 0 to `bytes_used` without gap or
  overlap; the bucket being split holds besides exactly what is still unread.
* `SplitAsserts`: the asserts in split (write position = fill level, a freed
  bucket is empty).
* `InMapping`: no bucket lies past the mapping.
* `ImplementsBucketStore`: each call does what `BucketStore` says; a split moves
  exactly the records with the new bit.
* `CallsReturn`: every call returns, under weak fairness of the thread's steps:
  a sequential call runs until it returns.

Bounds, with the build's `BUCKET_SIZE`: three keys (one fills a bucket, two
together fill one exactly), two of them removed and stored again, three chains,
eight buckets.  The first split of a chain moves every key to two buckets, so the
new chain grows in the middle of the split; the result is split again; chains
have empty middle buckets, and buckets are freed and reused.

`Vbe` has the encoding of the two sizes in a record.  That `write`, `read` and
`length` agree with each other and with the `vbe_length` by which `Container`
counts bytes is an assumption of `MCContainer`, which TLC evaluates for the sizes
around every power of two below 2^28 and any byte behind the encoding.  `read`
shifts an `int`, so it would misread a `size_t` of 2^31 or more; records are
smaller than a bucket, so the container never writes one.

### Catalogue and Directory

`Catalogue` keeps hashes as numbers, `prefix_mask`, `prefix_shift` and the
table, and has one action per iteration of the loops of `set` and `split`.
`ImplementsDirectory` maps it to `Directory`, where an entry is indexed by the
prefix itself; a call takes effect when it starts, and an entry its loop has
still to write is read from where the loop will take it.  `FindsItsPrefix`: the
mask and shift lead each hash to its prefix.  `LoopsInBounds`: the loops stay in
the table.  Bounds: three hash bits, so the directory doubles twice up to the
full width, and one block id besides the invalid one (two values suffice to tell
entries apart: the code never compares them).

### HashMap

A method is a sequence of calls of the two components; `hpc` is its position.
`Construct` and `Construct1` are the constructor on new files.  `get` is
`Get`, `GetMiss`, `GetCatalogueSplit`, `GetSplit`, `GetSplitReturn`,
`GetCreate`, `GetCreated` with the container's actions (`Inside`) between them.

* `DirectoryAligned`: the agreement of depths described above, `known_depth`
  taking into account that split raises a chain's depth before the directory
  learns of it.  The iterator's skipping of equal neighbours rests on it too.
* `RecordsPlaced`: each record is on the chain its hash leads to, in the middle
  of a split as well.
* `GetAsserts`: the two asserts in get.
* `ImplementsKVMap`: the map is a dictionary; find, get and remove answer for
  the binding at the moment they return.
* `MethodsReturn`: every method returns.

Bounds: seven keys, four below one entry of the new directory (two with the same
hash), so one chain is split again and again and an overflow chain remains that
no split can shorten; three below the other, whose chain is split when the
directory may already be deeper than it is.  Two keys are removed
(`RemovedKeys`), one is offered with two values (`Offered`), twelve buckets.

`container::find_record` compares hash and key; equal keys have equal hashes, so
the model compares keys.  A record has to fit a bucket (`RecordsFit`): the code
has no check, and `create_record` would extend the chain for ever.

### Reopen

`Close` and `Open` between processes.  `file_map_open` is file_map's
constructor: the mapping gets the length asked for, `sizeof(layout_t)`, even if
the file is longer.  **Finding**: after a restart only the first bucket, rounded
up to pages, is mapped, and a lookup that goes to another bucket reads outside
the mapping, unless an insertion has extended the mapping before.  The run's
counterexample stores two keys in one chain, closes, opens and looks one up.
README.md of the repository says that data is persisted across restarts.

### Iterator

`it` is the iterator's index, bucket and offset; `find_next_record` has an action
per iteration (`ProbeHit`, `ProbeChain`, `ProbeEntry`), `operator*` is `Deref`,
`operator++` is `Increment`.  Between two of these operations the program may
call any method of the map (`MapRuns`); inside `find_next_record` it cannot.  The
history variable `moved` tells whether a split has happened or a record was removed
since `begin()`.

* `IteratorInBounds`: whatever happened meanwhile, also a doubled directory and
  freed or reused buckets, the iterator looks at an entry of the directory and
  at a bucket of the file.
* `VisitsEachOnce`: while no record moves, the iterator rests on records, and each
  record that was there at `begin()` is met once and none twice.  `keys()` of the
  sharded map, which iterates under a lock, rests on it.
* `EndsUnlessAdrift`: the loop ends, under weak fairness of its own steps and of a
  method in progress, unless `++` comes to parse bytes that are not the start of a
  record (`adrift`).  At most three methods are called during an iteration
  (`MaxCalls`); with an endless supply of inserts it need not end.

After a split of its chain, or a removal, the iterator's offset can lie inside a
record.  `read_record` takes the bytes there for a hash and two lengths, and `++`
goes on where they lead (`IncrementAdrift`): to one of a few offsets (`Parsed`: the
start of the bucket, an odd place in it, its end), or **to the same offset again**.
That is possible because `vbe::read` shifts an `int` and sign-extends it: the bytes
F6 FF FF FF 7F are read as the `size_t` of -10, and with the four bytes of a hash
before them and a zero after them, ten in all, `byte_offset` is set to what it was.
Keys may hold any bytes.

So the exception in `EndsUnlessAdrift` is needed: of `iterating ~> ~iterating`, on
the same configuration, TLC finds the counterexample (a removal moves a record
under the iterator, and `++` and `find_next_record` repeat for ever).  This
contradicts what the tests of an iteration with inserts and removals expect of it
in general, "should terminate" (`tests/test_hash_map.cpp:226`, `:263`, `:307`); it
does hold for the keys they draw; `EndsUnlessAdrift` is what is left of it for every
key.  Not modelled: lengths that lead outside the bucket
(all offsets past the end are alike, `BUCKET_SIZE`; those before its start are left
out), and the bytes between `bytes_used` and the end of the mapping that a length
may be read from.  The tests say that the iterator "may skip or repeat records, but
must not crash"; for an iterator that is adrift nothing in the model says so.

Bounds: four keys, three on a chain that overflows and is split, six buckets.

### Faults

A fault takes effect between two writes of a method: the process is killed, or
`file_map::resize` throws and the caller goes on.  `Kill` is the fault between
two actions of `HashMap`; the other actions are the states inside one that differ:

| action | state it leaves |
|---|---|
| `KillBeforeReturn` | `bytes_used` of `create_record` or `remove_record` is stored, and the caller was not told |
| `FaultInCreate` | a bucket is taken and not linked, or there is none to be had |
| `FaultInSplitCall` | the depth is raised; no new chain, with or without a bucket taken |
| `FaultInSplit` | a new chain that does not get the bucket it needs |
| `KillInSet`, `FaultInCatalogueSplit` | entries of the directory partly written |
| `KillInRemove` | bytes partly moved |
| `KillInHeader` | mask and shift of the directory do not fit each other |
| `KillInConstructor` | an entry without a bucket |

`expected` is the history of what callers know: the bindings of each key that a
later lookup may find.  A call that returns leaves one, its answer.  A call that was
killed leaves two, the one before it and its `outcome`, since its caller cannot tell
if it was done (`in_doubt`); a call that threw has inserted nothing.  `at_risk` is
the keys of the chains that were being changed.  A restarted process maps the whole
file here as soon as it needs it: the mapping's length is `Reopen`'s subject.
After a failed resize in `catalogue::split` the entries past the old table read
as 0, which holds for the bytes up to the end of their page.

* `FaultsConfined`: outside the chain that was hit a lookup finds for every key
  what its callers can expect, now and after later calls.  In particular inserts
  without a split, and removals that move no bytes, may be killed anywhere, and are
  then done or not done: had they to be not done, `KillBeforeReturn` would be a
  counterexample (TLC finds it when `in_doubt` is left out).
* `ChainsDisjoint`: chains and free list never share a bucket, so that later
  calls do not make it worse.  Buckets may be lost.

A kill inside split loses records that were stored long before: `bytes_used` is
0 while a bucket's records are counted again, and nothing refers to the new chain
until the directory does.  That is why `FaultsConfined` excludes the keys of the
chain that was being changed.

A constructor killed half-way, a removal killed while it moves bytes and a directory
killed while it stores its header leave files of which nothing is promised
(`half_made`).  Bounds: seven keys, four of which fill a bucket each, so that
`catalogue::set` writes two entries and the new chain of a split needs two buckets;
one kill, and three calls after it (`MaxCalls`).  A file that has reached
`MaxBuckets` is a full disk, so exceptions are not counted.

### FileMap

The members of the object (`fm`), the descriptors and addresses of the process
and who has them, and the size of the file.  A method is a sequence of system
calls, each of which may fail; a Windows `CreateFileMapping` that fails returns
NULL, which the code's comparison lets through to `MapViewOfFile`.  `OtherThreads`
takes and returns free descriptors and addresses at any moment.

* `MappingIntact`: between methods, also after one that threw, the bytes from
  `start()` on are this object's and in the file.  Except on macOS, where
  resize unmaps before it maps: when its mmap fails, start and length still
  describe memory that is gone (`map_lost`), while the other two keep the old
  mapping.
* `ReleasesItsOwn`: nothing of another thread is unmapped or closed, except
  after a `::close` that reported an error (the descriptor is closed again) and
  after that failed resize on macOS (the range is unmapped again).
* `NothingLeaks`: error paths and destructor release everything.

Bounds: all three platforms, three descriptors and two addresses (a remapping
needs the old and the new one), three lengths.  Of the sizes only their order
matters.

### ShardedMap and AtomicStore

A thread takes a request, locks its shard (shared for get and keys, exclusive
for set and delete), works, unlocks, responds.  Between locking and unlocking
it is inside the shard's map for several actions (find, then copy or insert), so
a missing lock is visible.  keys takes the shards in turn.  `since` is a history
variable for `KeysCoherent`.

* `NoRace`: no thread is inside a map another is changing.
* `Linearizable`: refinement to `AtomicStore`.
* `KeysCoherent`: keys is no snapshot, but has every key that was present all
  the time and none that never was.

Bounds: two threads, three keys in two shards (two share one), two values;
symmetric threads.  400, 404 for unknown paths and health change no state and
are in `Codec`.

### Server

main, the signal handler, the workers and the clients are processes.  A worker
polls the io_context, runs an accept handler (which reads `running_` twice) or a
session (loop, blocking read, serve).  Boost.Asio is modelled by what the code
relies on: `run()` runs handlers and returns when stopped or out of work; a
closed acceptor completes its handler with an error.

* `StoreOpenInSessions`: the store is closed only after every session ended.
* `OneWorkerPerSession`, `StopDrains`: after stop() a session answers at most
  the request it was waiting for.
* `SessionsStart`: an accepted connection gets its session unless the server is
  stopped first.  There are as many workers as clients, and `ServingSpec` adds
  strong fairness of starting a posted session: io_context keeps posted handlers
  in a queue, so one that waits is not passed over for ever by the accept
  handlers that come and go.  With fewer workers than connections the property
  fails even then (`Workers = {w1}` shows it), because a session keeps its worker
  until the connection ends.
* `SignalEndsServer`: after Ctrl+C the process ends.  Fairness: the scheduler
  runs every thread that can run (`FairSpec`).  In run `server` each client with
  an open connection besides eventually sends or hangs up (`TalkativeSpec`),
  which the code does not enforce; **finding**: without it (`server_silent`) the
  property fails, since `stop()` does not wake a worker that is blocked in
  `http::read`.

`ServeThrows` is an exception from the store, which nothing catches: the process
ends without an answer to anyone.  The server may stop, so these runs do not check
for deadlock.  A constructor that throws (address in use, a bad file) ends main
(`ConstructFails`).

### Client and Codec

A call sends its request on the connection the session keeps, or on a new one,
and waits; it returns the response or times out, and then drops the connection,
as `requests` does.  The request that was given up may be waiting for a worker,
be served, or be answered.  The store is an atomic dictionary, which
`Linearizable` justifies.

`Codec` has what happens to the key on the way: the client's encoding,
`extract_query_param`, `url_decode`, `base64url_decode` and the routing of
`handle_request`, and for a listing `base64url_encode` and the client's decoding.
An `int` is its 32 bits, since the codecs shift whole keys through one.  A query
is a sequence of name and value; the writers are the client, one that keeps the
padding, one that escapes it and one that escapes everything, each also with a
parameter of a longer name in front.  The Python library's codec is defined as
RFC 4648 does, over the bits of the whole key.

* `ReturnsItsAnswer`: what a call returns is the answer to its own request, and a
  listing is decoded to the keys that are there.
* `ServedOnce`: no request is served twice, and a value in the store is there
  because of one set that was told so or timed out.
* `KeyArrives`: the handler gets the key that was meant.  The empty key, which
  the map itself can store, is answered with 400 (`client.py` says that keys are
  any bytes).

A caller that repeats a set after a timeout may be told that the key exists
because of its own first request; the client leaves that to the caller.  Bounds:
keys of up to five bytes (more than the 32 bits of the `int`, and every remainder
of the groups of three) over two bytes whose groups give `-` and `_` too, with a
single call in all its writings; for one of these keys (`BusyKey`) three calls,
written as the client does, so that a client can time out and call twice more;
two clients, one worker (so that requests wait), two symmetric values.

### Bindings

`alive` is the set of hash_map objects not destroyed; a DiskHash owns one, an
iterator has the pointer only.  `outcome` is how the last call ended and which
map it went through.  The map is a dictionary, as `ImplementsKVMap` shows;
`read_only` maps refuse to write.

**Finding** (`bindings_iter`): `UsesOpenMaps` fails.  The methods of a DiskHash
raise after `close`; an iterator has no such check and does not keep its DiskHash
alive, so `__next__` goes through the pointer to a map that was destroyed.

Bounds: two DiskHash variables, one iterator, three maps one after the other.

## Proofs

The theorems hold for every value of the constants that the named assumptions
admit: any number of buckets, keys, shards, threads, clients, workers and
connections.  Each rests on an inductive invariant, which TLC checked on the
instance of the component's run first (for the map with the sets and owners that
the invariant says exist given explicitly).

### The graph of buckets: `ContainerProofs`

`BucketsNotShared` (`ContainerSpec => []NoSharing`) and `NoBucketLost`
(`ContainerSpec => []NoLeak`).  Assumptions: `SizesAssumption` and `RecordsFit` (a
record's length is a number).  The argument is about the graph `nxt` of the
`next_bucket_id` fields, not about the records; `Typed` is the type invariant
without the bounds that only `Packed` gives.  `NoSharing` is not inductive: it
does not say that the bucket a call is working on is not on the free list, nor
that the two chains of a split are apart.  The invariant `Inv` adds two sets.
`Separates(F)`: some set `F` of buckets contains the free list, is closed under
`nxt` in both directions and has no bucket in it that a call is working on; so the
bucket `create_bucket` takes (`NewBucket`) is referred to by nobody, and linking
it behind the last bucket of a chain (`NewLink`) makes its only reference.
`SplitsTo(G)`: while split moves records, some set `G` closed in the same way is
the new chain, with `bit1` as its last bucket and `bit0` outside.

`Reached` is the part for `NoLeak`: the only set of allocated buckets that has all
roots in it and that no link leaves is the whole array.  Sets take the place of
walks, so one lemma (`LinksMoved`, `LinkedAnew`) covers every way a link or a
root can change.  `Chain`, which the property uses, is a recursive function;
`ChainLeast` shows once that it is the least set with its first bucket that no
link leaves.  The induction behind it is over sets of numbers (`Numbers`, from
the well-foundedness of `<`), and that `MaxBuckets` steps are enough is a count of
the buckets collected (`WalkCloses`).

`Inv(L)` has a parameter: the buckets `L` that a killed or thrown call left behind,
which are in the file and in use by nobody.  A call that runs to its end leaves
`L` as it is, so for `ContainerSpec` it is empty; `FaultsProofs` needs the others.

### The bytes of the buckets: `ContainerProofs`, second part

`ContainerTypes`, `RecordsPacked`, `SplitAssertsHold`, `StayersHaveRoom` and
`BucketsMapped`: the types with their bounds, `Packed`, `SplitAsserts`,
`Bit0HasRoom` and `InMapping`, for the same specification and assumptions.  None
is inductive without the others.  `PackedInv` adds to `Inv({})`, for the split in
progress, three paths of the graph (`Splits(P, W, Q)`): what has been read, what
of that has been written again, and the new chain; the buckets read and not yet
written are empty.  A record that stays therefore has room in the bucket it is
read from or in the next one of the old chain (`Bit0Room`), and a bucket that is
freed is empty (`FreedPath`).  That the bucket being read is still ahead of the
one being written (`GetAhead`) is a pigeonhole argument: otherwise the links
would map the buckets written injectively into fewer.

The two parts ask of the callers only that ids come from the container and that
a chain is split while hash bits are left (`Used`), so the map can use them.

### The container as a store: `DictionaryProofs`

`ContainerIsStore` (`ContainerSpec => ImplementsBucketStore`), with the same
assumptions and no more: every step of the container is a step of `BucketStore`
or is not seen by its callers.  The invariant, `StoreInv`, is `PackedInv` with an
owner for every bucket in use, the first bucket of its chain (`Owned`); the
buckets a walk has passed and that the key was in none of them (`Walked`,
`Searched`); that no key is stored twice (`Unique`); and that *some* function
`place` of the keys says which chain each one belongs to: a record is in a bucket
owned by the chain its key is placed on or, in the middle of a split, by the new
chain, if it has the new bit (`Homes`).  The container never looks at `place`; its
callers bring it about by where they create a record, and a split that returns
changes it.  `Arranged(place)` is the part that every step keeps for any placing
(`StoreStep` for the steps inside a call, a lemma for each call and return), so
the map can use it with the placing of its catalogue.

That a walk to the end of a chain has met all of it is said without recursion: a
set with the first bucket that is closed under `nxt` is all of the owner's buckets
(`Generated`); `ChainOwned` shows that these are `Chain`.  `ChainsShown` follows:
what the refinement mapping shows of a chain is what is stored under the keys
placed on it, whatever bucket a split has moved it to by now (`Contents`).  TLC
checked `StoreInv` with explicit owners and places on the instance of run
`container`.

### The map: `HashMapProofs` and `DictionaryProofs`

`MapTypeCorrect`, `CatalogueAligned` (`DirectoryAligned`), `GetAssertsHold` and
`ContainerInMap` (inside the map, too, no bucket is shared or lost, records are
packed and mapped, split's asserts hold).  `MapInv` is `PackedInv` with: the call
of the container that a method waits for (`Control`), that the method works on
the chain the catalogue has for its key (`Asked`), the depths of the chains
(`Depths`), and that the catalogue names each chain by exactly the entries that
agree with it in the chain's depth (`Named`).

These theorems have one hypothesis more, `MaxBuckets <= 2 ^ HASH_BITS`.  get
doubles the catalogue whenever there are more buckets than entries, and nothing
stops it at the number of bits of a hash; with the build's 32 bits and buckets of
4 KiB this takes a container of more than 16 TiB.  Below that the entries never
have more bits than a hash.

`MapIsDictionary` (`Spec => ImplementsKVMap`) is the refinement: get, find and
remove act as on a dictionary.  `RecordsStayPlaced` is `RecordsPlaced`.  The
invariant `DictInv` adds to `MapInv` that the container is arranged by the
catalogue: a key is placed on the chain its hash leads to (`places`, `Layout`),
where the catalogue is doubled without moving a key and `catalogue_.set` after a
split moves exactly the keys that the split has moved.  It adds also that get is
right about the key it is going to insert (`Absent`) and that the container was
asked what the map was asked (`Passed`).  TLC checked `DictInv` with explicit
owners on the instance of run `hash_map`.  `DictRefines` maps each step to a step
of `KVMap` or a stutter: get, find and remove take effect when they return, and a
split is a stutter.

`IteratorStaysInBounds` (`IteratorSpec => []IteratorInBounds`) is about steps of the
map and of an iterator in any order.  `IteratorInv` adds to `MapInv` only that an
iterator is made after the constructor and that its members are numbers; the
argument is that the file and the catalogue never shrink (`MapGrows`), that a link
leads to a bucket in use (`OneReference`) and that an entry of the catalogue names
one (`EntryNames`).  That the catalogue has an entry at every index below its
size, and that `find_next_record` does not step over the end (`NextIndex`), are
lemmas about its operators.

`EachVisitedOnce` (`IteratorSpec => []VisitsEachOnce`) is about any map that is
only added to during the iteration.  `VisitInv` adds to `DictInv` where the
iterator is: the chains it is done with, which are those the entries before its
own name, and the buckets of its chain up to its bucket (`Visiting`).  From that
follows which records are `Behind` it, and `Tally` says that a record behind it
has been counted once, if it was there at `begin()`, and one ahead not at all.
Three facts carry the steps.  The entries of a chain are in a row (`InARow`: they
extend one prefix, and between two indices with the same top bits all have them,
`Between`), and every chain has one (`HasEntry`), so that going to the next entry
that differs meets each chain once (`NextChain`).  A walk to a bucket without a
next one has met its chain (`WholeChain`).  And records tile a bucket, so that the
byte offset stays at the start of one (`OnRecord`).  What `get` adds meanwhile is
put behind the records of a bucket or in a bucket behind a chain, and its key was
not stored before (`VisitGrows`).  TLC checked `VisitInv` on the instance of run
`iterator`.

### Faults: `FaultsProofs`

`FaultsLoseOnly` (`FaultsSpec => []ChainsDisjoint`), for any number of buckets,
faults and later calls, with the hypothesis `MaxBuckets <= 2 ^ HASH_BITS` as
above.  A fault breaks the invariant of the container: buckets it left behind
are allocated, and no root reaches them.  `FaultsInv` therefore says that *some*
set `L` of lost buckets makes `Inv(L)` true of the rest (`Sound`), that the
catalogue names chains (`Table`) and that a method and the container agree on the
call in progress (`Waits`, `Given`).  A call that goes on keeps the `L` it has
(`StepSound`, from the same lemma as `ContainerSpec`).  A fault gives a new one:
it leaves links that are still good (`GivenUp`, `TakenLeft`: a bucket taken and
not linked joins `L`; a new chain whose split was cut short is no root), and what
the roots no longer reach can be added to `L` (`OrphansLeft`), because the chains
of the roots are closed under links.  After a constructor, a removal or a store of
the directory's header that was killed (`half_made`) no call follows in the model,
so nothing is claimed of them.

### file_map: `FileMapProofs`

`MappingStaysIntact`, `ReleasesOnlyItsOwn` and `LeavesNothing`, for any lengths,
descriptors and addresses, on the three platforms (`PlatformsAssumption`,
`LengthsAssumption`; `NamesAssumption`: no descriptor or address is the invalid
one).  The invariant says, for every place of every method, which members are
set (`Held`), that the file has grown before more of it is mapped (`Sizes`), that
the descriptors and the memory the members name are the object's (`OwnHandles`,
`OwnMemory`), and that it has nothing else (`NoMore`).  The two parts that fail on
a path of the code are bounded by the histories that mark it (`close_failed`,
`map_lost`, `leaked`), as in the properties.

### The server: `ShardedMapProofs` and `ServerProofs`

`ShardedMapProofs` proves, for any number of threads, shards, keys and values,
`TypeCorrect`, `RaceFree` (`NoRace`), `LinearizableHandlers` (`Linearizable`) and
`KeysAreCoherent` (`KeysCoherent`).  Assumption: `ShardsAssumption` (at least one
shard, `ShardOf` maps keys to shards).  `NoRace` is not inductive: it says nothing
of who holds a lock.  The invariant `Inv` adds that a shard with a writer has no
readers (`LocksExclusive`), that a thread in its critical section holds its
shard's lock in the mode of its request (`Holds`), and what a thread has found
out and still relies on (`Knows`): the key it is going to insert is absent, the
one it copies is present.  `Knows` survives the other threads' steps because a
change needs the exclusive lock of the same shard (`StoreStep`).  The refinement
then maps each step to a step of `AtomicStore` or to a stutter: a get takes effect
at its copy (or failed find), a set at its insert (or conflicting find), a delete
at its remove.  `Coherent` is what a keys request knows after each shard.

`ServerProofs` proves, for any workers and clients (`ServerAssumption`),
`TypeCorrect`, `StoreOpen` (`StoreOpenInSessions`), `ServedByOne`
(`OneWorkerPerSession`) and `Drains` (`StopDrains`).  The invariant adds which
worker is in whose session (`Sessions`), that workers run only between the
opening and the closing of the store (`Phases`), and when an answer can be late
(`Lateness`).

### The client: `ClientProofs`

`RequestsServedOnce` (`ServedOnce`) and `ResponsesRoutedBack`: a method that
returns, returns the server's response to its own request, decoded if it is a
listing, after any number of timeouts.  `ClientAssumption`.  The invariant says
that a request is in one inbox at most and unserved there (`Unserved`), and that
a connection kept in a session's pool carries nothing but what its caller is
waiting for (`Pooled`, `Waiting`): a connection that timed out is not kept.

`KeysArrive` (`KeyArrives`) and `AnswersReturned` (`ReturnsItsAnswer`) have the
hypothesis `CodecsInvert`: however a key is written, the handlers decode it to
that key, and the line a listing has for it is decoded to it.  What the codecs
compute is recursion over bytes, out of the provers' reach; TLC evaluates the
hypothesis (`MCCodecsInvert`, in `MCShardedMap`, whose handlers rely on it) for
the keys of `MCClient` and for keys with every byte in every place of a group of
three.  The theorems say that nothing else can go wrong on the way: a request
keeps its query until it is served, its handler is called with the key, and
nothing but that key is ever stored or listed (`KeyInv`).

### Only model-checked

* Liveness, which needs fairness and ENABLED: `CallsReturn`, `MethodsReturn`,
  `SignalEndsServer`, `SessionsStart`, `EndsUnlessAdrift`.
* `Catalogue` (`LoopsInBounds`, `FindsItsPrefix` and that it implements
  `Directory`): it is written with bit operations, which the provers do not know.
* What the codecs compute (`Codec`, `Vbe`): recursion over bytes.  The theorems on
  the client take `CodecsInvert` as a hypothesis.
* `FaultsConfined`, which says of every key what callers can expect of it: it
  would need the owners of `DictInv` for the buckets a fault leaves, too.
* `Reopen` and `Bindings`.  No mutant accompanies `Vbe`
  and `Bindings`: no passing run states a property of theirs.

## Not modelled

* The hash function (`fnv.h`): a constant of the models, every assignment of
  hashes to keys is allowed.
* `wrapped_hash_map`: a typed adapter without state; that a reference it returned
  is invalid after the next insert is a matter of its callers.
* `system_error`: text only.  Wording and headers of HTTP responses, option
  parsing in main.
* `container::get`: the program itself does not call it.
* Writes that reach the disk in another order than the process made them (a
  power failure): nothing in the code calls msync.
* Errors that `async_accept` reports while the acceptor is open (no descriptor
  left): the code accepts again.
* What a signal handler may do inside Boost.Asio: the locks are not this code.
