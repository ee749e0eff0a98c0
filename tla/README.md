# A verification of rackkey

rackkey is a replicated key-value store: a master server splits the value of a
key into blocks, places each block on several storage nodes with a consistent
hash ring, and keeps in memory which node has which block; every storage node
keeps its blocks in one store file with a block allocation table and a free
space map. This directory holds TLA+ models of it, the configurations that
check them with TLC, and proofs that TLAPS checks. Source paths are relative to
the repository (`src/storage/...` is the storage node, `src/master/...` the
master).

## The system

| Component | State | Operations | Hard part |
|---|---|---|---|
| Free space map (`free_space.cpp`) | bitmap, capacity | `initialise`, `findNFreeBlocks`, `allocateNBlocks`, `freeNBlocks` | runs at every alignment, the scan's bookkeeping across bytes |
| Disk storage (`disk_storage.cpp`) | block allocation table (BAT), free space map, one file stream; the store file (header, BAT, blocks) | start-up, `writeBlocks`, `readBlocks`, `deleteBlocks`, `getBlockNums`, `getKeys` | what is in memory and in the file may differ; a failure or a crash between two steps |
| Storage server (`storage_server.cpp`) | a `DiskStorage` | `/store` PUT, GET, DEL, `/sync`, `/health` | several handler threads and no lock |
| Master: handlers (`master_server.cpp`) | the key-block-node map (KBN), health flags, statistics | `/store` PUT, GET, DEL, `/keys`, `/stats` | fan-out to nodes, early failure of `when_all`, stale flags |
| Master: start-up | KBN | `syncWithStorageNodes` | continuations that build the map together |
| Master: health thread | health flags | `checkNodeHealth` | races every handler |
| Hash ring (`hash_ring.cpp`, `storage_node.cpp`) | sorted ring of virtual nodes | `addNode`, `removeNode`, `findNextNode` | wrap-around, collisions, several virtual nodes of one node |
| Blocks, payloads, key names (`block.cpp`, `payloads.cpp`, `utils.cpp`) | none | serialise, deserialise, pad and truncate keys | fixed-size fields |
| Configuration, hashing, scripts | none | read once | - |

A client talks to the master over HTTP. The master talks to the nodes over
HTTP with asynchronous requests whose continuations run on a thread pool. The
nodes never talk to each other or back to the master. The master persists
nothing: when it starts it asks every node what it has. A node persists its
store file and is started again by docker when its process ends
(`restart: always`).

What makes each component correct:

* Free space map: a scan answers with the first run of free blocks of the
  length asked for, if there is one; allocating and freeing a run change that run only.
* Disk storage: no two keys share a block, the map marks exactly the blocks of
  the table, what was acknowledged is read back, also after a restart.
* Master: an answered GET gives the last acknowledged PUT; the KBN says of no
  node that it has a block it does not have; every block has as many copies as
  configured; every request is answered.
* Sync: the rebuilt KBN contains what the nodes hold.
* Wire: what one side encodes the other decodes, though lengths and keys are
  fixed, implied or cut off; a node's buffer gives back the blocks it was made of.
* Cluster: all of this together, over restarts of nodes and of the master.
* Ring: walking the ring meets every node, and a key's position is stable when
  nodes come and go.

`PROJECT.json` lists under "hazards" what in this code is hard to test, each at
its line, with the properties that would catch it.

## Modules

### Extents
The arithmetic of runs of blocks that the store shares: `CeilDiv`, a run as a
set, the starts at which a run fits, the first of them. No state.

### BlockAllocator and FreeSpaceMap
`BlockAllocator` is what the free space map promises: a set of mapped blocks,
`Find` (first fit), `Allocate`, `Free`.
`FreeSpaceMap` is the code: a byte is the set of its 1 bits, `findNFreeBlocks`
is one action per bit with the code's locals (`index`, `pos`,
`currStartBlock`, `contiguousCount`), and a run is marked or cleared by its
unaligned head, its whole bytes and its tail. The byte width is a constant, so
that TLC can use 3-bit bytes and see every alignment in a small map.
`AllocatorSpec` states that it implements `BlockAllocator`.

### DiskStorage
One storage node: the process (`proc`), the table and the map in memory (`bat`,
`mapped`), the stream, the PUT in progress, and the file (`header`, `diskBat`,
`content`). Start-up is `initialiseStorage` step by step. A PUT is three
steps, because a crash between them leaves different states: the old blocks
are freed and new ones found; the data is written; the blocks and the entry are
recorded and the table is written out. Each failure of a file operation that
the code treats in its own way is an action. In a PUT: the file cannot be opened, the
transfer fails half way (the stream stays open and every later transfer fails,
`stream = "stuck"`), the data is lost in `close()`, the table cannot be opened.
At start-up (`BootFails`): the store file cannot be removed or created (the process
ends), the header cannot be written (start-up goes on), the table cannot be read
(`LoadTableFails`: start-up goes on with an empty one), the header cannot be
read (`LoadHeaderFails`: the process dies of a header of garbage, or serves with it).
A node that serves with a header of garbage is `astray` and followed no further.
`DeleteBlocks` changes memory only, as the code does.

The data of a PUT is a version number; a disk block holds "piece i of the
buffer of version v". The free space map is the set of mapped blocks with first
fit, as `FreeSpaceMap` implements it.
Five ghosts serve the properties: `promised` (what a key's client has been
told), `unsaved` (acknowledged without the table in the file), `unread` (in the
file's table, which this process failed to read), `dropped` (an acknowledged PUT is
gone: its bytes were lost in `close()`, or a PUT of a process that had not read the key
destroyed it), `tainted` (an overwriting PUT was refused for lack of space).

Requests are served one at a time here: the code has no lock, and concurrent
handlers on one node need a module of their own (see the plan).
A write of the table is one step, which is what happens for tables that fit the
stream's buffer (about 130 entries).

The sizes of header and table are in bytes (`HeaderBytes`, `EntryBytes`,
`BlockStoreOffset`), so that `TableFits` says what it is about: a table written at
its end never reaches the first block.

### DurableMap
What a storage node promises, without blocks, bitmap or file: a map that answers
requests (`live`) and the map a crash would leave (`durable`). A PUT makes all
that was acknowledged before durable, a DELETE makes nothing durable; while a PUT is at
work its own key may read as anything, and in the file so may every key whose last
change was not saved, because its blocks may have been given away. A start may fail to
read what is durable and serve as if nothing were (`Fail`); every key then is one that is
not saved. No other key
is touched by anything. `DiskStorage` implements it (`KeepsContract`: `live` and
`durable` are what the two tables read as, given the blocks' content).

### MasterServer
The master with its nodes. A handler is a thread (a client of the model): PUT
begins, places one copy per step by walking the ring over healthy nodes, sends
every node its blocks, and updates the KBN when all have answered; DEL and GET
send at once and finish when all have answered. A message in `net` is a request
on its way. The first answer that is not OK ends the request with 500
(`FailedAnswer`), and the other messages stay in `net`: they are carried out
later, as with `when_all`. `TimesOut` is a request the master gives up on.
The health check sets a node's flag to what it finds, at any time.
A node holds per key one version with a set of blocks, replaced as a whole by a
PUT; what of it is in its file (`saved`) is brought up to date by a PUT and not by
a DEL, as `DiskStorage` shows, and is what the node comes back with. A node that refuses a
request has not changed anything here; what a refused overwrite does to the node's own
blocks is `DiskStorage`'s subject.

The ring is a constant: for each key and each block number the nodes in the order in
which the walk meets them, virtual nodes of one node as repetitions. That a walk
has such an order, the same in every turn and with every virtual node in it, is
what `HashRing` shows.
Choosing the nodes of a GET is one step.

### Wire
The bytes: key names and request paths, the splitting of values, and each
payload's encoder and decoder. Integers are fields of `IntSize` bytes, lowest
first, in base `Base`. What is particular to this code is in the definitions: a
node's buffer has no lengths, so `BlocksIn` takes every block for full while
there are bytes left; a table entry names a key by one character less than the
key may have (`EntryName`); a path ends at the first null, so that a padded
key is cut and padded again at every hop (`StorePath`, `KeyIn`).
A decoder is the code's loop: a reader with a position, one round of it as an
operator (`NextBlock`, `NextKey`), and the decoder as the reader after enough rounds.

### Cluster
All of rackkey, with one client call per step, to see what holds over time and over
restarts: the master's map and statistics, three nodes with their memory and
files, every payload encoded and decoded by `Wire`. `Put`, `Delete` and the
operator `Read` are the handlers; nodes that are down or that refuse a request
(`refusing`) make a call fail after the others have carried it out.
`MasterStarts` is the constructor: it needs an answer from every node and builds
map and statistics from the bytes of the answers; a start that gets no answer changes
nothing, the master stays down. The nodes are simple ones: they carry out a request as
a whole or not at all, and a table is always saved and always read. The torn,
unsaved and unread states of a real node are in `DiskStorage`; `Cluster` says what
the system does when its nodes do not get into them. `NodeStops` loses what was
deleted since the last write of the table (it comes back), `NodeLosesStore`
everything.

What requests do to each other when they overlap is `MasterServer`'s subject, and
what the continuations of a sync do to each other `KbnSync`'s: here the map a
start builds is the union of the answers.

No PUT exceeds `MaxDataSize` on a node: what a full node does is `DiskStorage`'s
subject.

Ghosts: `promised` is what a client of a name may rely on; `stray` and `lost` are the
copies that the master's map does not know of, or that it lists and that are gone;
`drifted` are the nodes whose statistics are off. They say precisely when a promise
ends: with a request that failed on the name, and at a restart of the master if
stray copies of the key are about, if a block's last copy is lost, if the value
has no bytes, or if the key is of full length (`Survives`).

### KbnSync
`syncWithStorageNodes`: one continuation per node, each in its own
thread, with the two critical sections of the code as two actions and the
unprotected filling of the block map between them as a third. A request that fails
(`RequestFails`: no answer, or not OK) makes the constructor throw, which ends the
process. Block maps are
shared by pointer, as in the code. Two continuations that fill the same map at
once race; each may then lose any of its entries.

### HashRing
The ring as a function from positions to virtual nodes, with `addNode`,
`removeNode` and the walk of the PUT handler's placement loop, one
`findNextNode` per step. Hashes are any function, so virtual nodes may
collide. The master adds all virtual nodes at its start and never calls
`removeNode`; the module allows additions and removals at any time, and a walk
is only followed between them. Which of the nodes it meets the handler picks
is `PutPlace` in `MasterServer`.

### DataFacts
Facts about data for the proofs: sums over functions, sequences joined end to end
(`FlattenSeq`), filtered sequences, sets listed in order, and two rules of
induction (see Proofs).

### MC modules, mutants
`MCDiskStorage`, `MCMasterServer`, `MCHashRing` and `MCCluster` give functions their values for TLC. A
definition introduced by a comment "Mutant: ..." is a plausible bug; it stands
next to the definition it would replace and is used by no specification.
`PROJECT.json` says which property each of them breaks.

## Runs

| Run | Bounds | Shows |
|---|---|---|
| `freespace_runs` | 3 bytes of 3 bits, run lengths 0, 1, 2, 4, 5 | Scan invariant, termination, refinement of `BlockAllocator`, no block beyond the capacity |
| `disk_keep` | 3 keys, 3 blocks, buffers of 1, 2 and 3 blocks, 4 PUTs, 1 failing file operation, 1 crash; store file kept | No leak, exact allocation, promises kept and recoverable from the file (failures at start-up included), a complete store file always restarts; refinement of `DurableMap` |
| `disk_remove` | 3 keys, 2 blocks, 3 PUTs, 1 failure, 2 crashes; store file removed at start | The node serves again after a crash at any step; the table fits its region, and the bytes in use fit the store |
| `disk_refused_put` | no failure, no crash | `RefusedPutHarmless` is violated |
| `disk_delete` | no failure, no crash | `DeletesSaved` is violated |
| `master_clean` | 2 nodes, 1 copy, 2 clients, 3 requests on 1 key of up to 2 blocks, 1 failure, 1 crash | Reads give the promised value; the KBN keeps it |
| `master_replicas` | 3 nodes, 2 copies, 2 requests, 1 crash, ring with repetitions | Copies on distinct nodes; every request ends |
| `master_late_write` | as `master_clean`, no extra failure | `ReadsPromise` without the settled premise is violated |
| `kbn_sync` | 3 nodes, 2 keys, 2 blocks, 4 reported pairs in all | What the rebuilt map guarantees; the constructor ends, with the map or with a failed request |
| `kbn_sync_complete` | the same | `SyncComplete` is violated |
| `cluster_restart` | 3 nodes, 2 copies, 3 names on keys of 3 characters, values of 0, 2 and 3 bytes in blocks of 2, 2 PUTs, 1 refused request, 1 node stop, 1 restart of the master | Values, key list and statistics over overwrites, failures and restarts; the sync learns what the nodes hold; the nodes come back to where a start of the master succeeds |
| `hash_ring` | 7 positions, 3 nodes with 2 virtual nodes each, two of them colliding, one at each end of the hashes | Lookups, walks and the stability of keys |

Why the bounds are enough to mean something. Three keys on three blocks is the
smallest store in which an overwrite moves a key, frees a hole, and another key
moves into it; four PUTs suffice for the longest such chain, and one failure
plus one crash for each to meet the other. Runs of 4 and 5 blocks on 3-bit bytes
cross two byte borders with unaligned ends. Two nodes with two clients are
enough for a request to fail on one node and land late on the other while the
second client writes and reads; three requests are a PUT, its retry and a GET.
Two copies on three nodes need a node to be skipped and another to be met
twice. In `kbn_sync` four pairs let three nodes share a key with one of them
holding two blocks, or two nodes share two keys. In `cluster_restart` the names are a short one, one that fills the key and one that is
cut off to the same key; two PUTs make a value shrink, vanish or share a
key with another name, and leave copies behind on nodes the new one
does not use, since the two blocks start their walks at different nodes; one
refusal, one node stop and one master restart can meet in any order before,
between and after them. Integer fields of two bytes are the smallest in which no
number of the run wraps by itself, and keys, numbers and data are decoded from
one stream of bytes as in the code. In `hash_ring` every subset of the
virtual nodes is on the ring at some time, walks start at every hash, and the
theorems cover all other sizes.

Deadlock is checked for the free space map, the sync and the ring. It is not in the
other runs: when the bounds on requests, failures and crashes are used up, an
idle system has nothing left to do.

Fairness. A call of the scan, once made, runs to its end. In `DiskStorage` the
process starts again (docker) and a handler that has begun goes on; nothing is
assumed of clients or of failures. In `MasterServer` threads run, a message to a
node is answered (with a failure if the node is down), the health thread goes
round and docker restarts stopped nodes; as the number of crashes is bounded, a run
has a last one, which is what "every request ends" needs for a placement that
spins until enough nodes are healthy. In `KbnSync` a request ends with an answer or with
a failure (the http client gives up after its timeout) and every continuation goes on; that a node
answers is not assumed. In `Cluster` a stopped node starts
(docker, `restart: always`). Nothing is assumed of requests, of the health check, or of
the master: `docker-compose.yml` has the storage nodes only, the master is started by hand, and a start
that throws leaves it down. `MasterCanStart` therefore says that there is always again a
time at which a start succeeds, and not that there is such a start.
All of it is weak fairness.

`ValidStoreRecovers` is the liveness property of a node that keeps its store:
it comes back if the file has a header, though possibly with one of garbage in
memory if it could not be read. With the file kept, `Recovers` does not
hold: a crash between `createStoreFile` and `writeHeader` leaves a file
whose block size is read as 0, and every later start divides by it.

## Where the code does not do what it says

The first four have a run that TLC finds violated; the others are written down
where they are excepted from a property.

1. `disk_storage.cpp:336`: an overwriting PUT without enough space throws
   without restoring the blocks it freed (`restoreFreedBlocks` is called on the other
   error paths). The test at line 1355 is about exactly this restore.
   `AllocationSound` and the promises are therefore stated for stores to which this
   has not happened (`~tainted`).
2. `disk_storage.cpp:425-452`: a delete is not written to the file.
   `Recoverable` excepts keys whose last change is unsaved.
3. `master_server.cpp:377`: `when_all` does not wait for all sends when one fails.
   The promises in `MasterServer` are therefore made (in the passing runs)
   only for changes that begin when no message of an earlier change of the key is
   on its way (`SettledOnly`).
4. `master_server.cpp:821-839`: the sync loses replicas when two continuations
   handle one key at once.
5. Keys of the full 50 characters: the table keeps 49 (`disk_storage.cpp:87`), so
   `/sync` looks up another key, throws or lists that other one, and a
   master that restarts does not come up while such a key is stored. Names longer than 50
   share the key they are cut off to. `MasterCanStart`, `SyncFaithful` and the
   promises over a restart except these keys.
6. A PUT that shrinks a value, moves it to other nodes or makes it empty leaves the old
   copies where they are; the master no longer lists them until it restarts, and then
   they are part of the value again. An empty value itself is forgotten at a
   restart. After a node has lost its store and the master restarted, a value
   without its missing blocks is served as if it were complete.
   `ReadsBack` excepts keys with such copies, by `stray`, `lost` and `Survives`.
7. The block counts of `/stats` subtract what the map says, not what the node
   had; after a refused request or the return of deleted data they stay wrong until the next restart
   of the master (`drifted`).
8. `disk_storage.cpp:376`: `writeBlocks` is to throw "on any error during the writing
   process" (lines 283-284), but a buffer that waits in the stream is written by `close()`,
   whose failure is not looked at: the PUT is acknowledged and its bytes are not in the
   file, while the former blocks of the key have been given up. `PromiseKept` and
   `Recoverable` except that key until its next PUT or DEL (`dropped`).
9. `disk_storage.cpp:740-742`: start-up "initialises from an existing" store file (line 602),
   but if `readBAT` cannot open the file it prints a message and the node serves with an
   empty table. Every key misses; a PUT may be given the blocks of a stored key, and its
   `writeBAT` replaces the table. A restart before the first PUT brings everything back.
   `PromiseKept` excepts the keys that were not read (`unread`), both properties those
   that were destroyed (`dropped`).
   With `readHeader` (lines 696-698) the same failure leaves a header of
   garbage, with which the node dies or goes astray.

## Proofs

`DiskStorageProofs` proves about `DiskStorage`, for every set of keys, every hash
function (colliding ones too), every block size and data size and all bounds:

* `TypeCorrect`: `Spec => []TypeOK`
* `NothingLeaks`: `Spec => []NoLeak`
* `AllocationIsSound`: `Spec => []AllocationSound`
* `TableStaysInItsRegion`: `Spec => []TableFits`, assuming `MapSize = NumBlocks`
* `UsedIsWithinTotal`: `Spec => []UsedWithinTotal`, assuming
  `DiskBlockSize * MapSize = MaxDataSize`

They follow from one inductive invariant, `IInv`. `AllocationSound` is not
inductive as it stands. What has to be added: when the process does not run, its memory is
empty (`MemInv`); a PUT in progress has an extent of free blocks inside the map
(`PutInv`); every entry of either table lies inside the map (`InMap`), so that a
table loaded from the file marks blocks the map has; every marked block is
owned, the blocks of a key being overwritten being neither marked nor lost
(`MarkedOwned`); and, unless the store is tainted, the entries of each table are
disjoint and exactly marked (`Sound`), where the table in the file has to be
disjoint by itself because a crash makes it the table in memory. `NextIInv`
takes the actions one at a time; the lemmas on extents (`FirstFitFree`,
`OwnedUpdate`, `KeepsOwnership`) carry the set reasoning.

`TableFits` is about counting: the region of the table has room for `NumBlocks`
entries. No entry of either table is without blocks (`NonEmptyInv`: a PUT carries at
least one byte), and unless the store is tainted `IInv` makes the extents of a table
disjoint and inside the map, so that the first block of each entry is its own:
an injection of the entries into the map's blocks. It holds where the map has exactly
as many blocks as the table was sized for, that is when the data size gives a
whole number of bytes of bitmap.

`UsedWithinTotal` is the same kind of counting with weights: the bytes of an entry fit its
blocks, the extents are disjoint and inside the map, so the bytes of all entries are at
most those of all blocks. It holds where the data size is a whole number of blocks
and of bytes of bitmap.

The assumptions are otherwise those `DiskStorage` states about its constants.

The second part of `DiskStorageProofs` proves what clients rely on, for every key hash
without collisions (`NoCollisions`; the code does not tell colliding keys apart):

* `PromisesAreKept`: `Spec => []PromiseKept`
* `FileIsEnough`: `Spec => []Recoverable`

Both except the keys of failures that the code does not report (8 and 9 above), and no
others: that a lost PUT or an unread table costs no further key is part of what is proved.

The invariant is `PInv`. `IInv` already says that the blocks a PUT writes belong to
no other key in memory; the file may still list them under a key that was deleted
or moved since the table was last written. `SyncInv` says which keys that can
happen to: a key in neither `unsaved` nor `unread` has the same entry in both tables.
`WrittenInv` says that a PUT about to be recorded has all its bytes in the file
unless they were lost, and `FreshInv` that a new store promises nothing. From these
`OthersUntouched` follows, and from that, with `WriteKeeps`, that a write, however
much of it reached the file before a failure or a crash, breaks no promise.

The third part proves that a node implements `DurableMap`, under the same assumption:

* `NodeKeepsContract`: `Spec => KeepsContract`

Each action of `DiskStorage` is shown to be one step of the contract, or to change
nothing that can be read. What is needed beyond `PInv` is where versions are: each is
written at one place only, that of its PUT (`HomeInv`), so that a key that reads as the
same version from memory and from the file is read from the same blocks
(`SameBlocks`), which no PUT is given. The proof is also why `DurableMap` counts a
key that is torn in the file among those nothing protects: with two lost writes
and a table that could not be written, a key can be torn in memory and in the
file at different places, the latter free to be overwritten. TLC's bound of one
fault does not reach that case.

`FreeSpaceMapProofs` proves about `FreeSpaceMap`, for every byte width, every
capacity and every set of lengths:

* `MapTypeCorrect`: `Spec => []TypeOK`
* `ScanKeepsItsInvariant`: `Spec => []ScanInv`
* `ImplementsAllocator`: `Spec => AllocatorSpec`
* `FindsWithinCapacity`: `Spec => FoundWithinCapacity`, assuming
  `MapSize = BlockCapacity`. With a capacity that is not a whole number of bytes
  the map has up to seven bits more than the store has blocks, and hands them out.

The arithmetic is stated once: a block is one bit of one byte, and only one
(`MappedBit`), and the bits `RunBits` gives for head, whole bytes and tail are
those of the run and no others (`RunBitsExact`), hence what allocating and freeing
do to the set of mapped blocks (`RunChanges`). The inductive invariant is
`TypeOK /\ LoopInv /\ ScanInv`, with one lemma per step of the loop; `LoopInv` adds
that the argument of the running call is one of `Lengths` and where the loop can
stand once it is past the last byte. The step that completes a section then
answers with the first fit (`FoundFits`), and the step that runs out of bytes knows
there is none (`NoneFits`): the two answers of the abstract `Find`. All other
steps of the loop are stutters.

`KbnSyncProofs` proves about `KbnSync`, for every set of nodes, keys and blocks:

* `SyncTypeCorrect`: `Spec => []TypeOK`
* `NothingIsInvented`: `Spec => []NothingInvented`
* `SomeNodeIsComplete`: `Spec => []SomeNodeComplete`
* `IsCompleteUnlessOverlapped`: `Spec => []CompleteUnlessOverlapped`

The first two rest on the invariant `IInv`: every pointer, of a continuation or of
the KBN, points to a map of the key it is used for, and every map holds only what was
reported for its key. The other two are properties of the end of the sync, and say
nothing on the way there; the invariant `CInv` says what holds before. `Heard(k)` are the nodes
with nothing more to say about `k`. A key of one of them has a map
(`MapMadeInv`); a map about to be stored holds the blocks of the node
that filled it unless it was raced (`StoreInv`), hence so does the KBN's map
(`EntryInv`). For a key that was never overlapped, only one continuation is at work
(`OneInv`), through the KBN's own map if there is one (`SharedInv`), so that
storing the pointer replaces nothing, and all that the heard nodes reported is there
(`HeardInv`). At the end every node is heard. The only assumption is that keys are
numbers.

`HashRingProofs` proves about `HashRing`, for every number of nodes, every size of
the ring and every hash function:

* `RingTypeCorrect`: `Spec => []TypeOK`
* `FindsTheNearest`: `Spec => []NextIsNearest`
* `WalkSkipsNone`: `Spec => []NoneSkipped`
* `OtherKeysStay`: `Spec => KeysStay`

The walk's invariant is that what it has met is either all of the ring or an
interval of it, the positions no further from its start than where it is now
(`MetInv`), and that every virtual node is at the position it hashes to
(`Keyed`), which makes the hash of the node just found the right place to go on from.
That a nearest position exists is the least-number principle
(`LeastExists` in `DataFacts`), from the library's theorem that `<` is well-founded on `Nat`.

`MasterServerProofs` proves about `MasterServer`, for
every set of nodes, keys and clients, every ring that meets all nodes and every
replication factor, with any number of requests, faults and crashes:

* `MasterTypeCorrect`: `Spec => []TypeOK`
* `KbnPromiseKept`: `Spec => []KbnKeepsPromise`, if `SettledOnly`
* `ReadsAreRight`: `Spec => []ReadsPromise`, if `SettledOnly`

Without `SettledOnly` the last two are false, which the run `master_late_write`
shows. The invariant under the types is `IInv`: requests have numbers of their own
(`RidInv`), the walk has met as many distinct nodes as it counts (`PlaceInv`, which
bounds the walk by the number of nodes), and each message of a request in
progress is one it still waits for (`NetInv`), so that a request with nothing to wait for
has no message left. Neither promise is inductive alone. `PInv` adds what makes a change safe
to promise: a clean change is the only one in progress on its key and owns every
message that changes the key (`CleanInv`); nothing is about to change a key with a
promise (`QuietInv`); the nodes that have answered a clean PUT hold all the blocks they were
given of it, or nothing, and so do their files (`StoredInv`), as do the nodes the KBN names
for a promised value (`KeptInv`); and a GET that overlaps no change has
its blocks in that version, and asks for all others from nodes that are to have
them (`GetInv`). Steps of other actors are dealt with once, by `Follows` (what they
leave of a request) and `NothingNew` (a node loses, saves or gets back what it
held), which covers crashes, wiped stores, failed answers and timeouts in the
lemma `OthersKeep`.

`WireProofs` proves about `Wire`, for every width of bytes, integer fields, keys and
data blocks, that what one side encodes the other decodes:

* `NumsRoundTrip`: lists of block numbers (a GET's request)
* `BlocksRoundTrip`: lists of blocks (PUT requests, GET answers)
* `BufferRoundTrip`: a key's buffer on a node, which holds no lengths, for blocks of
  which only the last may be short and none is empty
* `ReportRoundTrip`: the answer to `/sync`, keys, numbers and sizes, in any order of keys

Encoders concatenate (`FlattenSeq`) and decoders are loops; both are recursive functions.
A claim about them is an induction over a buffer, and the library's induction theorems
cannot be used for it, since their argument is an operator. `DataFacts` has
two rules that take a set instead: `CountUp` (a set of numbers that holds 0 and with every
number below `n` the next holds `0 .. n`), from the well-foundedness of `<`, and `BuildUp`,
the same for the subsets of a finite set. With them it shows that the recursive functions of the community modules
exist and step as they are written (`FlattenSeq`, folds over functions and sets), and everything about sums
and joined sequences follows. A decoder's proof then says what its reader has after `i`
rounds: position and items of the first `i` parts (`Joins` has the offsets).
Fields are the remaining arithmetic: `Uint` and `UintAt` are inverse below `Word`.
`KeyInPath` says what a server makes of a path: the name, cut off or padded, from which it
follows that the key survives being sent on (`KeyIs`), and `SplitJoins` that the blocks of a
value, put together, are the value.

`ClusterProofs` proves about `Cluster`, for every set of nodes and names, every ring that
meets all nodes, every replication factor and width, and any number of requests, refusals,
stops, losses and restarts of the master:

* `TypesHold`: `Spec => []TypeOK`
* `ValuesReadBack`: `Spec => []ReadsBack`
* `ListingIsRight`: `Spec => []KeysListed`
* `StatsAreSound`: `Spec => []StatsSound`
* `SyncIsFaithful`: `Spec => SyncFaithful`
* `OnlyFullKeysHinder`: when all nodes run and none has a key of full length, a start of the
  master succeeds; this is the part of `MasterCanStart` that does not rest on fairness

The assumptions are those `Cluster` and `Wire` state about their constants: there is a
node; a name can stand at the end of a path (no null, no slash, not empty); values, keys
and a node's data fit the integer fields; every node has a place on the ring.

None of the invariants is inductive. The proof goes in four layers.
`Shape` says what a state looks like: `Basics` are the types; `Tables` that every buffer, in memory or
in a file, is the buffer of blocks as a PUT lays them down (`Laid`), that a node has
nothing in memory its file lacks, and nothing at all when it does not run; `Maps` that an entry of the
map gives nodes to numbers that fit a field. From `Shape` a node's buffers decode to
blocks, which gives the types and, at a start of the master, the faithful sync.
`Traces` relates the map to the nodes through the ghosts, where a node that is down counts with
its file (`Holding`): a pair in `lost` has no data, a pair in neither `lost` nor `stray` has as many blocks
as the map lists. It is why the subtraction in `sendBlocks` and `deleteHandler` takes off
what the node really had, and so what `Stats` needs: the count of a node that is not
`drifted` is the sum over its keys, and its sizes are of its table. Replacing one key changes a sum by
the difference (`SumPart`); a difference below zero would wrap and does not.
`Promises` says what a promised value rests on (`ValueKept`): the map lists exactly the
value's blocks, each on at least one node, and a node listed for a block
whose file has the key has, there and in memory, the buffer made of its
piece of that value, for older data would make the pair stray. `GetIs` then follows a GET through the request, the lookup, the answer
and the decoder, and `BlocksJoined` puts the blocks together. A failing GET needs `Traces` again:
a running node without the key, listed for one of its blocks, is in `lost`.
`Survives` is exactly what carries `ValueKept` over a restart of the master,
where the new map is what the nodes report.

In each layer every action has a lemma of its own (`PutShape`, `PutTraces`, `PutPromises`
and so on), and before it one that says in words what the action does (`PutIs`, `DeleteIs`,
`StartIs`), so that the expansion of the action is done once.

Only model-checked: all liveness (`MasterCanStart`, `RequestsEnd`,
`ValidStoreRecovers`, `Recovers`, `ScanEnds`, `SyncEnds`), since the prover has neither
fairness nor `ENABLED`. Every invariant and every action property that a passing run checks is
also stated by a theorem, some under the premises named above, which the runs' constants meet.

## Not modelled

* HTTP itself, hashing, the layout of the printed tables, timing output.
* Several requests at once on one storage node: the shared stream and table race
  without a lock, and what then happens is undefined behaviour. The same holds for the
  master's maps beyond lost entries, and for the null pointer that a DEL
  dereferences when another DEL of the key has just ended (`master_server.cpp:611`).
* The thread pool's size, on which it depends whether handlers that wait for
  continuations can block each other.
* Configuration changes between two starts of a node; values of 4 GiB and more,
  for which the 32-bit payload size wraps (`master_server.cpp:310`).
* A table so long that it is written out or read in several calls, one of which fails.
* What a node does to its file with a header of garbage (`astray`): the offsets it
  reads and writes at are garbage too.
* The 32-bit offsets in the file: they wrap only if the disk blocks of a 2 GiB store
  are smaller than a table entry (`disk_storage.cpp:562`).
* In `Cluster`: torn, unsaved and unread states of a node (see `DiskStorage`).
* Overlapping requests and syncs in `Cluster` (see `MasterServer`, `KbnSync`).

Colliding key hashes are covered by the proofs of `DiskStorageProofs`; the content
properties are checked and proved without collisions, because the code does not
tell colliding keys apart.

## Plan

In order of importance; groups 1 to 11 exist.

1. `Extents`, `BlockAllocator`, `FreeSpaceMap`: the allocator and its refinement.
2. `DiskStorage` with `DiskStorageProofs`: one node, its failures and restarts.
3. `MasterServer`: requests, replication, health.
4. `KbnSync` with `KbnSyncProofs`: the start-up of the master.
5. `FreeSpaceMapProofs`: `RunBits` is the run, the scan invariant, and
   `AllocatorSpec`'s step simulation for every width and capacity.
6. `HashRing` with `HashRingProofs`: the ring with wrap-around and collisions.
7. `DurableMap`: what a node promises, implemented by `DiskStorage`.
8. `Wire`, `Cluster`: the bytes, the statistics, and the cluster over restarts.
9. `DiskStorageProofs`, second and third part: no promise broken, and the contract
   implemented, for every store and every sequence of failures.
10. `MasterServerProofs`: the KBN and what a GET reads, for every number of nodes, keys
    and clients.
11. `DataFacts`, `WireProofs`, `ClusterProofs`: the encodings, and the whole cluster over
    restarts, for every size.
12. `ConcurrentStorage`: two handlers on one node without a lock.
