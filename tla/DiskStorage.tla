---------------------------- MODULE DiskStorage ----------------------------
(***************************************************************************)
(* One storage node: the process, its in-memory block allocation table and *)
(* free space map, and the store file (src/src/storage/disk_storage.cpp,   *)
(* called by the handlers of src/src/storage/storage_server.cpp).          *)
(*                                                                         *)
(* Requests are served one at a time here.  What happens between the steps *)
(* of a request is a crash of the process, after which the container is    *)
(* restarted and reads the store file back, or a failing call on the file. *)
(* A PUT is three steps, because a crash between them leaves different     *)
(* states behind: free the old blocks and find new ones (memory), write    *)
(* the data (file), record the blocks (memory and file).                   *)
(*                                                                         *)
(* The bytes of a PUT are named by a version number; a disk block of the   *)
(* store file holds the i-th piece of one version's buffer.  promised[k]   *)
(* is what the client of key k has been told.  promised, unsaved, unread,  *)
(* dropped, tainted and the counters have no counterpart in the code.      *)
(***************************************************************************)
EXTENDS Extents, FiniteSets, FiniteSetsExt

CONSTANTS Keys,            \* key names, as the router passes them
          Hashes,          \* 32-bit key hashes
          KeyHash,         \* Crypto::sha256_32
          NoEntry,         \* "no BAT entry for this hash"
          DiskBlockSize,   \* header.diskBlockSize
          MaxDataSize,     \* header.maxDataSize
          BitsPerByte,     \* width of a bitmap entry, 8
          Sizes,           \* buffer sizes of PUTs, block numbers included
          RemoveExisting,  \* config removeExistingStoreFile
          MaxPuts,         \* bound: PUTs that reach the disk step
          MaxFaults,       \* bound: failing file operations
          MaxCrashes       \* bound: crashes of the process

ASSUME KeysAssumption == Keys # {}
ASSUME KeyHashAssumption == KeyHash \in [Keys -> Hashes]
ASSUME BlockSizeAssumption == DiskBlockSize \in Nat \ {0}
ASSUME DataSizeAssumption == MaxDataSize \in Nat \ {0}
ASSUME ByteAssumption == BitsPerByte \in Nat \ {0}
ASSUME SizesAssumption == Sizes \subseteq Nat \ {0}
ASSUME RemoveAssumption == RemoveExisting \in BOOLEAN
ASSUME BoundsAssumption == MaxPuts \in Nat /\ MaxFaults \in Nat /\ MaxCrashes \in Nat

-----------------------------------------------------------------------------
(* getNumDiskBlocks *)
NumDiskBlocks(numBytes) == CeilDiv(numBytes, DiskBlockSize)

NumBlocks == NumDiskBlocks(MaxDataSize)
MapSize == MapSizeFor(NumBlocks, BitsPerByte)
Blocks == 0 .. (MapSize - 1)

(* BATEntry; the key hash is the index it is found by. *)
Entries == [key : Keys, start : Nat, numBytes : Nat]
ASSUME NoEntryAssumption == NoEntry \notin Entries
Tables == [Hashes -> Entries \cup {NoEntry}]
EmptyTable == [h \in Hashes |-> NoEntry]

Absent == 0                \* promised: GET misses
Unknown == -1              \* promised: nothing
Versions == 1 .. MaxPuts

(* What a disk block holds: piece i of the numBytes-byte buffer of ver. *)
Piece(ver, numBytes, i) == [ver |-> ver, numBytes |-> numBytes, i |-> i]
Pieces == [ver : Nat, numBytes : Nat, i : Nat]
BlankPiece == Piece(0, 0, 0)

NoPut == [phase |-> "none", key |-> CHOOSE k \in Keys : TRUE,
          ver |-> 0, numBytes |-> 0, start |-> 0, lost |-> FALSE]

VARIABLES
  proc,       \* the process: "down", "booting", "creating", "running", or
              \* "astray" with a header of garbage, and followed no further
  bat,        \* in-memory BAT, by key hash
  mapped,     \* blocks marked in the in-memory free space map
  stream,     \* storeFile: "closed", or "stuck" open after a failed transfer
  put,        \* the PUT in progress
  header,     \* store file's header: "absent", "blank" (no header), "valid"
  diskBat,    \* store file's BAT
  content,    \* store file's block section
  promised,   \* what the client of a key was last told
  unsaved,    \* keys whose last acknowledged change is not in diskBat
  unread,     \* keys of diskBat that this process failed to read at its start
  dropped,    \* keys whose acknowledged PUT is gone though its client was told
              \* of no error: lost in close(), or destroyed while it was unread
  tainted,    \* an overwriting PUT has found no space since the store was made
  nextVer, faults, crashes

memory == <<bat, mapped, stream, put>>
file == <<header, diskBat, content>>
ghosts == <<promised, unsaved, unread, dropped, tainted>>
bounds == <<nextVer, faults, crashes>>
vars == <<proc, memory, file, ghosts, bounds>>

EntryExtent(e) == Extent(e.start, NumDiskBlocks(e.numBytes))
Owned(table, h) == IF table[h] = NoEntry THEN {} ELSE EntryExtent(table[h])
OwnedBy(table) == UNION {Owned(table, h) : h \in Hashes}
PutExtent == Extent(put.start, NumDiskBlocks(put.numBytes))
PutHash == KeyHash[put.key]

(* Mutant: the write runs into the block after the PUT's last. *)
WrittenPastTheEnd(n) ==
  [b \in Blocks |->
     IF n > 0 /\ b \in Extent(put.start, n + 1)
     THEN Piece(put.ver, put.numBytes, b - put.start)
     ELSE content[b]]

(* The content of the file once the first n blocks of the PUT are written. *)
Written(n) ==
  [b \in Blocks |->
     IF b \in Extent(put.start, n)
     THEN Piece(put.ver, put.numBytes, b - put.start)
     ELSE content[b]]

(* The layout of the store file: the header's six fields, the number of    *)
(* entries and the entries, then the blocks (initialiseHeader).            *)
HeaderBytes == 6 * 4
EntryBytes == 50 + 3 * 4
BlockStoreOffset == HeaderBytes + 4 + NumBlocks * EntryBytes
TableEnd(table) ==
  HeaderBytes + 4 + EntryBytes * Cardinality({h \in Hashes : table[h] # NoEntry})

(* dataUsedSize *)
DataUsedSize(table) ==
  SumFunction([h \in {g \in Hashes : table[g] # NoEntry} |-> table[h].numBytes])

(* A client that loses its PUT keeps only the promise of a missing key. *)
Doubt(K) ==
  [k \in Keys |-> IF k \in K /\ promised[k] # Absent THEN Unknown ELSE promised[k]]

-----------------------------------------------------------------------------
Init ==
  /\ proc = "down"
  /\ bat = EmptyTable /\ mapped = {} /\ stream = "closed" /\ put = NoPut
  /\ header = "absent" /\ diskBat = EmptyTable
  /\ content = [b \in Blocks |-> BlankPiece]
  /\ promised = [k \in Keys |-> Absent] /\ tainted = FALSE
  /\ unsaved = {} /\ unread = {} /\ dropped = {}
  /\ nextVer = 1 /\ faults = 0 /\ crashes = 0

-----------------------------------------------------------------------------
(* Start-up: DiskStorage::initialiseStorage *)

(* The container starts ("restart: always"). *)
Start ==
  /\ proc = "down"
  /\ proc' = "booting"
  /\ UNCHANGED <<memory, file, ghosts, bounds>>

(* Mutant: only a store file with a header is deleted. *)
RemoveValidStore ==
  /\ proc = "booting" /\ RemoveExisting /\ header = "valid"
  /\ header' = "absent"
  /\ diskBat' = EmptyTable
  /\ content' = [b \in Blocks |-> BlankPiece]
  /\ promised' = [k \in Keys |-> Absent]
  /\ dropped' = {} /\ tainted' = FALSE
  /\ UNCHANGED <<proc, memory, unsaved, unread, bounds>>

(* removeExistingStoreFile: the old file is deleted with all it holds. *)
RemoveStore ==
  /\ proc = "booting" /\ RemoveExisting /\ header # "absent"
  /\ header' = "absent"
  /\ diskBat' = EmptyTable
  /\ content' = [b \in Blocks |-> BlankPiece]
  /\ promised' = [k \in Keys |-> Absent]
  /\ dropped' = {} /\ tainted' = FALSE
  /\ UNCHANGED <<proc, memory, unsaved, unread, bounds>>

(* createStoreFile: a file of zeros, no header in it yet.  Its length is   *)
(* computed from a header that is not set yet; later writes extend it.     *)
CreateStoreFile ==
  /\ proc = "booting" /\ header = "absent"
  /\ proc' = "creating"
  /\ header' = "blank"
  /\ UNCHANGED <<memory, diskBat, content, ghosts, bounds>>

(* fs::remove or createStoreFile throws: nothing catches it.               *)
StartFails ==
  /\ proc = "booting" /\ (RemoveExisting \/ header = "absent") /\ faults < MaxFaults
  /\ proc' = "down"
  /\ faults' = faults + 1
  /\ UNCHANGED <<memory, file, ghosts, nextVer, crashes>>

(* writeHeader, and an empty free space map. *)
WriteHeader ==
  /\ proc = "creating"
  /\ proc' = "running"
  /\ header' = "valid"
  /\ UNCHANGED <<memory, diskBat, content, ghosts, bounds>>

(* writeHeader cannot open the file: it prints, and start-up goes on. *)
WriteHeaderFails ==
  /\ proc = "creating" /\ faults < MaxFaults
  /\ proc' = "running"
  /\ faults' = faults + 1
  /\ UNCHANGED <<memory, file, ghosts, nextVer, crashes>>

(* Mutant: a store file without entries is taken for an unusable one. *)
LoadNonemptyStore ==
  /\ proc = "booting" /\ ~RemoveExisting /\ header = "valid"
  /\ diskBat # EmptyTable
  /\ proc' = "running"
  /\ bat' = diskBat
  /\ mapped' = OwnedBy(diskBat)
  /\ UNCHANGED <<stream, put, file, ghosts, bounds>>

(* readHeader, readBAT, populateFreeSpaceMapFromFile. *)
LoadStore ==
  /\ proc = "booting" /\ ~RemoveExisting /\ header = "valid"
  /\ proc' = "running"
  /\ bat' = diskBat
  /\ mapped' = OwnedBy(diskBat)
  /\ UNCHANGED <<stream, put, file, ghosts, bounds>>

(* readBAT cannot open the file, or its first read fails: it prints, and   *)
(* the node serves with an empty table, the old one still in the file.     *)
LoadTableFails ==
  /\ proc = "booting" /\ ~RemoveExisting /\ header = "valid" /\ faults < MaxFaults
  /\ proc' = "running"
  /\ unread' = {k \in Keys : diskBat[KeyHash[k]] # NoEntry}
  /\ faults' = faults + 1
  /\ UNCHANGED <<memory, file, promised, unsaved, dropped, tainted, nextVer, crashes>>

(* The in-memory header is whatever memory held: a block size of 0 or the  *)
(* check in populateFreeSpaceMapFromFile ends the process, or it passes    *)
(* and the node serves with a header of garbage.                           *)
GarbageHeader == {"down", "astray"}

(* readHeader cannot open or read the file: it prints and start-up goes on.*)
LoadHeaderFails ==
  /\ proc = "booting" /\ ~RemoveExisting /\ header = "valid" /\ faults < MaxFaults
  /\ proc' \in GarbageHeader
  /\ faults' = faults + 1
  /\ UNCHANGED <<memory, file, ghosts, nextVer, crashes>>

(* A header of zero bytes is read as it is: the block size is 0 and        *)
(* getNumDiskBlocks divides by it, which kills the process.  A file too    *)
(* short to hold a header leaves the one in memory as it was.              *)
LoadBlankStore ==
  /\ proc = "booting" /\ ~RemoveExisting /\ header = "blank"
  /\ proc' \in GarbageHeader
  /\ UNCHANGED <<memory, file, ghosts, bounds>>

BootFails == StartFails \/ WriteHeaderFails \/ LoadTableFails \/ LoadHeaderFails

Boot == RemoveStore \/ CreateStoreFile \/ WriteHeader \/ LoadStore \/ LoadBlankStore

-----------------------------------------------------------------------------
(* PUT: DiskStorage::writeBlocks *)

Idle == put.phase = "none"

Serving == proc = "running" /\ Idle

(* The old blocks of the key are freed before space is looked for. *)
FreedFor(k) == mapped \ Owned(bat, KeyHash[k])

PutFindSpace(k, n) ==
  /\ Serving /\ nextVer <= MaxPuts
  /\ \E s \in FirstFits(FreedFor(k), MapSize, NumDiskBlocks(n)) :
       put' = [phase |-> "write", key |-> k, ver |-> nextVer,
               numBytes |-> n, start |-> s, lost |-> FALSE]
  /\ mapped' = FreedFor(k)
  /\ nextVer' = nextVer + 1
  /\ UNCHANGED <<proc, bat, stream, file, ghosts, faults, crashes>>

(* No contiguous section: the PUT throws, and what it freed stays free. *)
PutNoSpace(k, n) ==
  /\ Serving /\ nextVer <= MaxPuts
  /\ FirstFits(FreedFor(k), MapSize, NumDiskBlocks(n)) = {}
  /\ mapped' = FreedFor(k)
  /\ tainted' = (tainted \/ bat[KeyHash[k]] # NoEntry)
  /\ UNCHANGED <<proc, bat, stream, put, file, promised, unsaved, unread, dropped, bounds>>

(* The keys that were not read and whose blocks the first n blocks of the  *)
(* PUT overwrite: the free space map does not know of them.                *)
Overwritten(n) ==
  {k \in unread : Owned(diskBat, KeyHash[k]) \cap Extent(put.start, n) # {}}

(* The buffer goes to the file in one write. *)
PutWrite ==
  /\ put.phase = "write" /\ stream = "closed"
  /\ content' = Written(NumDiskBlocks(put.numBytes))
  /\ put' = [put EXCEPT !.phase = "record"]
  /\ promised' = Doubt({put.key})
  /\ dropped' = dropped \cup Overwritten(NumDiskBlocks(put.numBytes))
  /\ UNCHANGED <<proc, bat, mapped, stream, header, diskBat, unsaved, unread, tainted, bounds>>

(* A buffer small enough to wait in the stream is written by close(),      *)
(* whose failure nobody looks at.                                          *)
PutWriteLost ==
  /\ put.phase = "write" /\ stream = "closed" /\ faults < MaxFaults
  /\ put' = [put EXCEPT !.phase = "record", !.lost = TRUE]
  /\ faults' = faults + 1
  /\ UNCHANGED <<proc, bat, mapped, stream, file, ghosts, nextVer, crashes>>

(* Mutant: the freed blocks are not restored. *)
PutAbandonNoRestore ==
  /\ mapped' = mapped
  /\ put' = NoPut

(* restoreFreedBlocks and throw. *)
PutAbandon ==
  /\ mapped' = mapped \cup Owned(bat, PutHash)
  /\ put' = NoPut

(* The file cannot be opened. *)
PutOpenFails ==
  /\ put.phase = "write" /\ stream = "closed" /\ faults < MaxFaults
  /\ PutAbandon
  /\ faults' = faults + 1
  /\ UNCHANGED <<proc, bat, stream, file, ghosts, nextVer, crashes>>

(* The write stops after n blocks; the stream is not closed again. *)
PutWriteFails(n) ==
  /\ put.phase = "write" /\ stream = "closed" /\ faults < MaxFaults
  /\ n <= NumDiskBlocks(put.numBytes)
  /\ content' = Written(n)
  /\ PutAbandon
  /\ stream' = "stuck"
  /\ promised' = IF n = 0 THEN promised ELSE Doubt({put.key})
  /\ dropped' = dropped \cup Overwritten(n)
  /\ faults' = faults + 1
  /\ UNCHANGED <<proc, bat, header, diskBat, unsaved, unread, tainted, nextVer, crashes>>

(* On a stream left open, open() fails, is_open() is true and the write    *)
(* does nothing but report failure.                                        *)
PutStuck ==
  /\ put.phase = "write" /\ stream = "stuck"
  /\ PutAbandon
  /\ UNCHANGED <<proc, bat, stream, file, ghosts, bounds>>

(* Mutant: an existing entry keeps its first block, too. *)
RecordedEntryKeepsStart ==
  [key |-> IF bat[PutHash] = NoEntry THEN put.key ELSE bat[PutHash].key,
   start |-> IF bat[PutHash] = NoEntry THEN put.start ELSE bat[PutHash].start,
   numBytes |-> put.numBytes]

(* allocateNBlocks and the BAT entry; an existing entry keeps its key. *)
RecordedEntry ==
  [key |-> IF bat[PutHash] = NoEntry THEN put.key ELSE bat[PutHash].key,
   start |-> put.start, numBytes |-> put.numBytes]

(* Mutant: the new blocks are not marked in the free space map. *)
PutRecordUnmarked ==
  /\ mapped' = mapped
  /\ bat' = [bat EXCEPT ![PutHash] = RecordedEntry]
  /\ promised' = [promised EXCEPT ![put.key] = put.ver]
  /\ put' = NoPut

PutRecord ==
  /\ mapped' = mapped \cup PutExtent
  /\ bat' = [bat EXCEPT ![PutHash] = RecordedEntry]
  /\ promised' = [promised EXCEPT ![put.key] = put.ver]
  /\ put' = NoPut

(* The keys dropped when the PUT is recorded: its own if its bytes did not *)
(* reach the file, and those of K.                                         *)
Dropping(K) ==
  IF put.lost THEN dropped \cup K \cup {put.key} ELSE (dropped \cup K) \ {put.key}

(* Mutant: the table is written out before the new entry is in it. *)
PutCommitTooEarly ==
  /\ put.phase = "record"
  /\ PutRecord
  /\ diskBat' = bat
  /\ unsaved' = {} /\ unread' = {} /\ dropped' = Dropping(unread)
  /\ UNCHANGED <<proc, stream, header, content, tainted, bounds>>

(* writeBAT: the whole table, with every change made before.  Entries that *)
(* were not read are not in it.                                            *)
PutCommit ==
  /\ put.phase = "record"
  /\ PutRecord
  /\ diskBat' = bat'
  /\ unsaved' = {} /\ unread' = {} /\ dropped' = Dropping(unread)
  /\ UNCHANGED <<proc, stream, header, content, tainted, bounds>>

(* writeBAT cannot open the file: it prints, and the PUT is acknowledged. *)
PutCommitUnsaved ==
  /\ put.phase = "record" /\ faults < MaxFaults
  /\ PutRecord
  /\ unsaved' = unsaved \cup {put.key}
  /\ unread' = unread \ {put.key} /\ dropped' = Dropping({})
  /\ faults' = faults + 1
  /\ UNCHANGED <<proc, stream, file, tainted, nextVer, crashes>>

-----------------------------------------------------------------------------
(* Mutant: the entry is erased and its blocks stay marked. *)
DeleteBlocksNoFree(k) ==
  /\ Serving
  /\ bat[KeyHash[k]] # NoEntry
  /\ bat' = [bat EXCEPT ![KeyHash[k]] = NoEntry]
  /\ promised' = [promised EXCEPT ![k] = Absent]
  /\ unsaved' = unsaved \cup {k} /\ dropped' = dropped \ {k}
  /\ UNCHANGED <<proc, mapped, stream, put, file, unread, tainted, bounds>>

(* DELETE: DiskStorage::deleteBlocks.  The table is not written out. *)
DeleteBlocks(k) ==
  /\ Serving
  /\ bat[KeyHash[k]] # NoEntry
  /\ mapped' = FreedFor(k)
  /\ bat' = [bat EXCEPT ![KeyHash[k]] = NoEntry]
  /\ promised' = [promised EXCEPT ![k] = Absent]
  /\ unsaved' = unsaved \cup {k} /\ dropped' = dropped \ {k}
  /\ UNCHANGED <<proc, stream, put, file, unread, tainted, bounds>>

(* GET and /sync: readBlocks and getBlockNums change nothing, unless the   *)
(* transfer fails: they throw with the stream still open.                  *)
ReadFails(k) ==
  /\ Serving /\ stream = "closed" /\ faults < MaxFaults
  /\ bat[KeyHash[k]] # NoEntry
  /\ stream' = "stuck"
  /\ faults' = faults + 1
  /\ UNCHANGED <<proc, bat, mapped, put, file, ghosts, nextVer, crashes>>

-----------------------------------------------------------------------------
(* A crash of the process loses its memory.  n blocks of a write that was  *)
(* under way have reached the file.                                        *)
Crash(n) ==
  /\ proc \notin {"down", "astray"} /\ crashes < MaxCrashes
  /\ IF put.phase = "write" /\ stream = "closed"
     THEN n <= NumDiskBlocks(put.numBytes) ELSE n = 0
  /\ proc' = "down"
  /\ bat' = EmptyTable /\ mapped' = {} /\ stream' = "closed" /\ put' = NoPut
  /\ content' = Written(n)
  /\ promised' =
       [k \in Keys |->
          IF k \in unsaved THEN Unknown
          ELSE Doubt(IF n > 0 \/ put.phase = "record" THEN {put.key} ELSE {})[k]]
  /\ crashes' = crashes + 1
  /\ unsaved' = {} /\ unread' = {} /\ dropped' = dropped \cup Overwritten(n)
  /\ UNCHANGED <<header, diskBat, tainted, nextVer, faults>>

-----------------------------------------------------------------------------
MaxBlocksPerPut == CHOOSE m \in {NumDiskBlocks(n) : n \in Sizes} :
                     \A n \in Sizes : NumDiskBlocks(n) <= m

PutStep == PutWrite \/ PutStuck \/ PutCommit

Next ==
  \/ Start \/ Boot \/ BootFails
  \/ \E k \in Keys, n \in Sizes : PutFindSpace(k, n) \/ PutNoSpace(k, n)
  \/ PutStep \/ PutWriteLost \/ PutOpenFails \/ PutCommitUnsaved
  \/ \E k \in Keys : DeleteBlocks(k) \/ ReadFails(k)
  \/ \E n \in 0 .. MaxBlocksPerPut : PutWriteFails(n) \/ Crash(n)

(* The process runs (docker restarts it whenever it ends) and a handler    *)
(* that has begun goes on.  Nothing is assumed of clients or of faults.    *)
Fairness == WF_vars(Start) /\ WF_vars(Boot) /\ WF_vars(PutStep)

Spec == Init /\ [][Next]_vars /\ Fairness

-----------------------------------------------------------------------------
(* Properties *)

(* Types of the node's memory, of its file and of the ghosts. *)
Puts == [phase : {"none", "write", "record"}, key : Keys, ver : Nat,
         numBytes : Nat, start : Nat, lost : BOOLEAN]

TypeOK ==
  /\ proc \in {"down", "booting", "creating", "running", "astray"}
  /\ bat \in Tables /\ diskBat \in Tables
  /\ mapped \subseteq Blocks
  /\ stream \in {"closed", "stuck"}
  /\ put \in Puts
  /\ header \in {"absent", "blank", "valid"}
  /\ content \in [Blocks -> Pieces]
  /\ promised \in [Keys -> Versions \cup {Absent, Unknown}]
  /\ unsaved \subseteq Keys /\ unread \subseteq Keys /\ dropped \subseteq Keys
  /\ tainted \in BOOLEAN
  /\ nextVer \in Nat \ {0} /\ faults \in Nat /\ crashes \in Nat

(* No block leaks: a block marked in the free space map belongs to an      *)
(* entry of the table, whatever failed, crashed or was restored before.    *)
NoLeak == mapped \subseteq OwnedBy(bat)

(* No two entries share a disk block, in memory or in the file, and the    *)
(* free space map marks exactly the blocks of the entries (those of a key  *)
(* being overwritten excepted, which writeBlocks has freed), so that no    *)
(* PUT is given a block that holds another key's data.  It is promised     *)
(* until an overwriting PUT is refused for lack of space: that leaves the  *)
(* old entry in the table with its blocks free (PutNoSpace).               *)
Disjoint(table) ==
  \A g, h \in Hashes : g # h => Owned(table, g) \cap Owned(table, h) = {}

Released == IF Idle THEN {} ELSE {PutHash}

AllocationSound ==
  ~tainted =>
    /\ Disjoint(bat) /\ Disjoint(diskBat)
    /\ mapped = UNION {Owned(bat, h) : h \in Hashes \ Released}
    /\ ~Idle => PutExtent \cap mapped = {}

(* What readBlocks finds for a key: its version, nothing, or bytes that    *)
(* are no version's.                                                       *)
Holds(table, k, v) ==
  LET e == table[KeyHash[k]]
  IN  IF v = Absent THEN e = NoEntry
      ELSE /\ e # NoEntry
           /\ \A b \in EntryExtent(e) :
                content[b] = Piece(v, e.numBytes, b - e.start)

(* Reads answer with the last acknowledged PUT of their own key, or miss   *)
(* if it was deleted or never stored, across overwrites, reuse of freed    *)
(* blocks, failing file operations, crashes and restarts.  The exceptions  *)
(* are the failures the code keeps to itself, and no key but theirs:       *)
(* - a PUT whose bytes close() loses is acknowledged (dropped), although   *)
(*   writeBlocks is to throw "on any error" (disk_storage.cpp:283-284);    *)
(* - a start that cannot read the table serves without the keys in it      *)
(*   (unread), and its PUTs then destroy them: those whose blocks they     *)
(*   overwrite, and with the next table all that are not in it (dropped);  *)
(* - after a refused overwrite nothing is promised (tainted, PutNoSpace).  *)
(* A promise ends (Unknown) only with a request that was not acknowledged, *)
(* or at a crash with a change the table in the file did not have.         *)
PromiseKept ==
  (proc = "running" /\ ~tainted) =>
     \A k \in Keys \ (unread \cup dropped) :
        promised[k] # Unknown => Holds(bat, k, promised[k])

(* The store file alone is enough to keep every promise, except those      *)
(* given without writing the table (a DELETE, a PUT whose writeBAT failed) *)
(* and those of dropped keys: a restart at this very moment would answer   *)
(* them all.  What a start failed to read is still there, key by key,      *)
(* until a PUT of that process reaches its blocks or the table.            *)
Recoverable ==
  (header = "valid" /\ ~tainted) =>
     \A k \in Keys \ (unsaved \cup dropped) :
        promised[k] # Unknown => Holds(diskBat, k, promised[k])

(* The table, written after the header, ends before the block section      *)
(* begins, so that writeBAT never overwrites the data of a key.  After a   *)
(* refused overwrite (tainted) it can really grow past its region: the old *)
(* entry stays while its blocks go to others.                              *)
TableFits == ~tainted => TableEnd(bat) <= BlockStoreOffset

(* A node never reports more bytes used than it has: the master subtracts  *)
(* the one from the other in unsigned arithmetic.  After a refused         *)
(* overwrite (tainted) entries share blocks, and the sum can really exceed *)
(* the total and wrap.                                                     *)
UsedWithinTotal == ~tainted => DataUsedSize(bat) <= MaxDataSize

(* The node keeps the contract of DurableMap: a PUT makes all that was     *)
(* acknowledged before durable, and whatever fails, crashes or is          *)
(* overwritten on the way, no key is disturbed but the one being replaced  *)
(* and, in the file, those whose last change was not saved.  What a key    *)
(* reads as is the version whose pieces fill the blocks of its entry.      *)
Reads(table, k) ==
  LET e == table[KeyHash[k]]
  IN  IF e = NoEntry THEN Absent
      ELSE LET p == content[e.start]
           IN  IF /\ p.ver # 0 /\ p.numBytes = e.numBytes
                  /\ \A b \in EntryExtent(e) : content[b] = [p EXCEPT !.i = b - e.start]
               THEN p.ver ELSE Unknown

Contract == INSTANCE DurableMap WITH
  Values  <- Versions,
  Torn    <- Unknown,
  up      <- (proc = "running"),
  put     <- IF Idle THEN [key |-> Absent, value |-> Absent]
             ELSE [key |-> put.key, value |-> IF put.lost THEN Unknown ELSE put.ver],
  live    <- [k \in Keys |-> Reads(bat, k)],
  durable <- [k \in Keys |-> Reads(diskBat, k)]

KeepsContract ==
  Contract!Init /\ [][tainted' \/ Contract!Next]_(Contract!vars)

(* A node that stops with a complete store file serves again: no crash     *)
(* during a request leaves a file that start-up cannot read.  If the       *)
(* header could not be read, it may serve with one of garbage (astray).    *)
ValidStoreRecovers ==
  (proc = "down" /\ header = "valid") ~> (proc \in {"running", "astray"})

(* A node that stops serves again, wherever the crash fell and whatever    *)
(* failed, start-up included.  It does so when start-up removes the store  *)
(* file.                                                                   *)
Recovers == (proc = "down") ~> (proc = "running")

-----------------------------------------------------------------------------
(* Statements the code's own comments and tests make, which it does not    *)
(* keep.                                                                   *)

(* "Testing that, on a failed write, we restore the old, valid disk state" *)
(* (disk_storage.cpp:1355-1356): a PUT that is refused costs no key the    *)
(* data that was acknowledged before.  PromiseKept, refused overwrites     *)
(* included.                                                               *)
RefusedPutHarmless ==
  proc = "running" =>
     \A k \in Keys \ (unread \cup dropped) :
        promised[k] # Unknown => Holds(bat, k, promised[k])

(* "Deletes the BAT entry [...] of the given `key`" (disk_storage.cpp:420):*)
(* between requests, the table in the file lists no key that the table in  *)
(* memory has dropped, so that a restart does not bring it back.           *)
DeletesSaved ==
  Serving => \A h \in Hashes : bat[h] = NoEntry => diskBat[h] = NoEntry
=============================================================================
