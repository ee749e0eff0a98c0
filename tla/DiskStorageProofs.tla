------------------------- MODULE DiskStorageProofs -------------------------
(***************************************************************************)
(* Theorems about DiskStorage, for every set of keys, every hash function, *)
(* every block size, capacity and bound, in three parts.                   *)
(*                                                                         *)
(* The table and the free space map.  NoLeak and AllocationSound are not   *)
(* inductive: whether a block may be handed out depends on what the PUT in *)
(* progress has freed and found, and what a restart loads depends on the   *)
(* table in the file.  IInv says so.                                       *)
(*                                                                         *)
(* What the node's clients were promised.  That a PUT's blocks belong to no *)
(* other key in memory is not enough for the file: it may be given blocks  *)
(* that the table in the file still lists, and SyncInv says for which keys. *)
(*                                                                         *)
(* The contract.  A node implements DurableMap: every step is a step of it, *)
(* or changes nothing that can be read.                                    *)
(***************************************************************************)
EXTENDS DiskStorage, DataFacts

(* A process that is not serving has nothing in memory. *)
MemInv ==
  proc # "running" => bat = EmptyTable /\ mapped = {} /\ Idle

(* The blocks found for the PUT in progress lie inside the map, are free,  *)
(* and stay free until the PUT records or abandons them.                   *)
PutInv ==
  ~Idle => /\ put.ver \in Versions
           /\ PutExtent \subseteq Blocks
           /\ PutExtent \cap mapped = {}

(* Every entry, in memory or in the file, lies inside the map. *)
InMap ==
  \A h \in Hashes : Owned(bat, h) \subseteq Blocks /\ Owned(diskBat, h) \subseteq Blocks

(* A marked block belongs to an entry that is not being overwritten. *)
MarkedOwned ==
  \A b \in mapped : \E h \in Hashes \ Released : b \in Owned(bat, h)

(* Entries share no block, and those not being overwritten are marked. *)
Sound ==
  ~tainted => /\ Disjoint(bat) /\ Disjoint(diskBat)
              /\ \A h \in Hashes \ Released : Owned(bat, h) \subseteq mapped

IInv == TypeOK /\ MemInv /\ PutInv /\ InMap /\ MarkedOwned /\ Sound

-----------------------------------------------------------------------------
(* Lemmas about the helpers *)

(* The number of disk blocks of a buffer is an integer. *)
LEMMA NumDiskBlocksInt ==
  ASSUME NEW n \in Nat
  PROVE  NumDiskBlocks(n) \in Int
BY BlockSizeAssumption DEF NumDiskBlocks, CeilDiv

LEMMA MapSizeInt == MapSize \in Int
<1>1. NumBlocks \in Int
  BY NumDiskBlocksInt, DataSizeAssumption DEF NumBlocks
<1>2. NumEntriesFor(NumBlocks, BitsPerByte) \in Int
  BY <1>1, ByteAssumption DEF NumEntriesFor, CeilDiv
<1>. QED BY <1>2, ByteAssumption DEF MapSize, MapSizeFor

(* A run found in the map lies inside it and holds no marked block. *)
LEMMA FirstFitFree ==
  ASSUME NEW M, NEW n \in Int, NEW s \in FirstFits(M, MapSize, n)
  PROVE  s \in Nat /\ Extent(s, n) \subseteq Blocks /\ Extent(s, n) \cap M = {}
BY MapSizeInt DEF FirstFits, Fits, Extent, Blocks

(* No PUT: its record is the one of the initial state. *)
LEMMA NoPutFacts == NoPut \in Puts /\ NoPut.phase = "none"
<1>1. (CHOOSE k \in Keys : TRUE) \in Keys
  BY KeysAssumption
<1>. QED BY <1>1 DEF NoPut, Puts

(* The empty table owns nothing. *)
LEMMA EmptyTableFacts ==
  /\ EmptyTable \in Tables
  /\ \A h \in Hashes : Owned(EmptyTable, h) = {}
  /\ Disjoint(EmptyTable)
BY DEF EmptyTable, Tables, Owned, Disjoint

(* Changing one entry of a table changes what that hash owns, only. *)
LEMMA OwnedUpdate ==
  ASSUME NEW table \in Tables, NEW g \in Hashes, NEW e \in Entries \cup {NoEntry},
         NEW h \in Hashes
  PROVE  /\ [table EXCEPT ![g] = e] \in Tables
         /\ Owned([table EXCEPT ![g] = e], h) =
              IF h = g THEN (IF e = NoEntry THEN {} ELSE EntryExtent(e))
                       ELSE Owned(table, h)
BY DEF Tables, Owned

(* Writing a prefix of the PUT keeps the type of the file's content. *)
LEMMA WrittenType ==
  ASSUME TypeOK, NEW n \in Int
  PROVE  Written(n) \in [Blocks -> Pieces]
<1>. SUFFICES ASSUME NEW b \in Blocks
              PROVE (IF b \in Extent(put.start, n)
                     THEN Piece(put.ver, put.numBytes, b - put.start)
                     ELSE content[b]) \in Pieces
  BY DEF Written
<1>1. CASE b \in Extent(put.start, n)
  <2>1. put.start \in Nat /\ put.ver \in Nat /\ put.numBytes \in Nat
    BY DEF TypeOK, Puts
  <2>2. b - put.start \in Nat
    BY <1>1, <2>1, MapSizeInt DEF Extent, Blocks
  <2>. QED BY <1>1, <2>1, <2>2 DEF Piece, Pieces
<1>2. CASE b \notin Extent(put.start, n)
  BY <1>2 DEF TypeOK
<1>. QED BY <1>1, <1>2

(* Doubting a promise keeps its type. *)
LEMMA DoubtType ==
  ASSUME TypeOK, NEW K
  PROVE  Doubt(K) \in [Keys -> Versions \cup {Absent, Unknown}]
BY DEF TypeOK, Doubt

-----------------------------------------------------------------------------
(* IInv holds initially. *)
LEMMA InitIInv == Init => IInv
<1>. SUFFICES ASSUME Init PROVE IInv
  OBVIOUS
<1>1. TypeOK
  <2>1. content \in [Blocks -> Pieces]
    BY DEF Init, BlankPiece, Piece, Pieces
  <2>2. put \in Puts /\ bat \in Tables /\ diskBat \in Tables
    BY NoPutFacts, EmptyTableFacts DEF Init
  <2>3. promised \in [Keys -> Versions \cup {Absent, Unknown}]
    BY DEF Init
  <2>4. /\ tainted \in BOOLEAN /\ mapped \subseteq Blocks
        /\ unsaved \subseteq Keys /\ unread \subseteq Keys /\ dropped \subseteq Keys
    BY DEF Init
  <2>5. nextVer \in Nat \ {0} /\ faults \in Nat /\ crashes \in Nat
    BY DEF Init
  <2>6. /\ proc \in {"down", "booting", "creating", "running", "astray"}
        /\ stream \in {"closed", "stuck"}
        /\ header \in {"absent", "blank", "valid"}
    BY DEF Init
  <2>. QED BY <2>1, <2>2, <2>3, <2>4, <2>5, <2>6 DEF TypeOK
<1>2. MemInv /\ PutInv
  BY NoPutFacts DEF Init, MemInv, PutInv, Idle
<1>3. InMap /\ MarkedOwned /\ Sound
  BY EmptyTableFacts DEF Init, InMap, MarkedOwned, Sound
<1>. QED BY <1>1, <1>2, <1>3 DEF IInv

(* A step that leaves the tables, the map, the PUT and tainted alone keeps *)
(* everything but the types to be checked.                                 *)
LEMMA KeepsOwnership ==
  ASSUME IInv, UNCHANGED <<bat, mapped, put, diskBat, tainted>>,
         proc' # "running" => proc # "running"
  PROVE  MemInv' /\ PutInv' /\ InMap' /\ MarkedOwned' /\ Sound'
BY DEF IInv, MemInv, PutInv, InMap, MarkedOwned, Sound, Idle, Released, PutHash,
       PutExtent, Disjoint, Owned

(* Start-up: the file's table becomes the table in memory. *)
LEMMA BootStep ==
  ASSUME IInv, Start \/ Boot \/ BootFails
  PROVE  IInv'
<1>1. CASE Start
  <2>1. TypeOK'
    BY <1>1 DEF IInv, TypeOK, Start, memory, file, ghosts, bounds
  <2>2. UNCHANGED <<bat, mapped, put, diskBat, tainted>> /\ proc # "running"
    BY <1>1 DEF Start, memory, file, ghosts
  <2>. QED BY <2>1, <2>2, KeepsOwnership DEF IInv
<1>2. CASE RemoveStore
  <2>1. TypeOK'
    BY <1>2, EmptyTableFacts
       DEF IInv, TypeOK, RemoveStore, memory, bounds, BlankPiece, Piece, Pieces
  <2>2. bat' = bat /\ mapped' = mapped /\ put' = put /\ proc' = proc
    BY <1>2 DEF RemoveStore, memory
  <2>3. bat = EmptyTable /\ mapped = {} /\ Idle
    BY <1>2 DEF IInv, MemInv, RemoveStore
  <2>4. diskBat' = EmptyTable
    BY <1>2 DEF RemoveStore
  <2>5. MemInv' /\ PutInv' /\ MarkedOwned'
    BY <2>2, <2>3 DEF MemInv, PutInv, MarkedOwned, Idle
  <2>6. InMap' /\ Sound'
    BY <2>2, <2>3, <2>4, EmptyTableFacts DEF InMap, Sound, Disjoint, Owned
  <2>. QED BY <2>1, <2>5, <2>6 DEF IInv
<1>3. CASE CreateStoreFile
  <2>1. TypeOK'
    BY <1>3 DEF IInv, TypeOK, CreateStoreFile, memory, ghosts, bounds
  <2>2. UNCHANGED <<bat, mapped, put, diskBat, tainted>> /\ proc # "running"
    BY <1>3 DEF CreateStoreFile, memory, ghosts
  <2>. QED BY <2>1, <2>2, KeepsOwnership DEF IInv
<1>4. CASE WriteHeader \/ WriteHeaderFails
  <2>1. TypeOK'
    BY <1>4 DEF IInv, TypeOK, WriteHeader, WriteHeaderFails, memory, file, ghosts, bounds
  <2>2. UNCHANGED <<bat, mapped, put, diskBat, tainted>> /\ proc' = "running"
    BY <1>4 DEF WriteHeader, WriteHeaderFails, memory, file, ghosts
  <2>. QED BY <2>1, <2>2, KeepsOwnership DEF IInv
<1>5. CASE LoadStore
  <2>1. proc' = "running" /\ put' = put /\ Idle
    BY <1>5 DEF LoadStore, IInv, MemInv
  <2>2. bat' = diskBat /\ diskBat' = diskBat /\ mapped' = OwnedBy(diskBat)
        /\ tainted' = tainted
    BY <1>5 DEF LoadStore, file, ghosts
  <2>3. \A b : b \in mapped' <=> \E h \in Hashes : b \in Owned(diskBat, h)
    BY <2>2 DEF OwnedBy
  <2>4. mapped' \subseteq Blocks
    BY <2>3 DEF IInv, InMap
  <2>5. TypeOK'
    BY <1>5, <2>4 DEF IInv, TypeOK, LoadStore, file, ghosts, bounds
  <2>6. Released' = {} /\ \A h \in Hashes : Owned(bat, h)' = Owned(diskBat, h)
    BY <2>1, <2>2 DEF Released, Idle, Owned
  <2>7. MemInv' /\ PutInv'
    BY <2>1 DEF MemInv, PutInv, Idle
  <2>8. InMap'
    BY <2>2, <2>6 DEF IInv, InMap, Owned
  <2>9. MarkedOwned'
    BY <2>3, <2>6 DEF MarkedOwned
  <2>10. Sound'
    BY <2>2, <2>3, <2>6 DEF IInv, Sound, Disjoint
  <2>. QED BY <2>5, <2>7, <2>8, <2>9, <2>10 DEF IInv
<1>6. CASE LoadBlankStore \/ LoadHeaderFails \/ StartFails
  <2>1. TypeOK'
    BY <1>6 DEF IInv, TypeOK, LoadBlankStore, LoadHeaderFails, StartFails, GarbageHeader,
       memory, file, ghosts, bounds
  <2>2. UNCHANGED <<bat, mapped, put, diskBat, tainted>> /\ proc # "running"
    BY <1>6 DEF LoadBlankStore, LoadHeaderFails, StartFails, memory, file, ghosts
  <2>. QED BY <2>1, <2>2, KeepsOwnership DEF IInv
<1>7. CASE LoadTableFails
  <2>1. TypeOK'
    BY <1>7 DEF IInv, TypeOK, LoadTableFails, memory, file
  <2>2. UNCHANGED <<bat, mapped, put, diskBat, tainted>> /\ proc' = "running"
    BY <1>7 DEF LoadTableFails, memory, file
  <2>. QED BY <2>1, <2>2, KeepsOwnership DEF IInv
<1>. QED BY <1>1, <1>2, <1>3, <1>4, <1>5, <1>6, <1>7 DEF Boot, BootFails

(* What FreedFor leaves marked: the blocks of every other entry. *)
LEMMA FreedForFacts ==
  ASSUME IInv, Serving, NEW k \in Keys
  PROVE  /\ KeyHash[k] \in Hashes
         /\ Released = {}
         /\ FreedFor(k) \subseteq mapped
         /\ \A b \in FreedFor(k) :
              \E h \in Hashes \ {KeyHash[k]} : b \in Owned(bat, h)
         /\ ~tainted => \A h \in Hashes \ {KeyHash[k]} : Owned(bat, h) \subseteq FreedFor(k)
<1>1. KeyHash[k] \in Hashes
  BY KeyHashAssumption
<1>2. Released = {}
  BY DEF Serving, Released
<1>3. \A b \in FreedFor(k) : \E h \in Hashes \ {KeyHash[k]} : b \in Owned(bat, h)
  BY <1>2 DEF IInv, MarkedOwned, FreedFor
<1>4. ~tainted => \A h \in Hashes \ {KeyHash[k]} : Owned(bat, h) \subseteq FreedFor(k)
  BY <1>1, <1>2 DEF IInv, Sound, Disjoint, FreedFor
<1>. QED BY <1>1, <1>2, <1>3, <1>4 DEF FreedFor

(* A PUT frees its key's blocks and finds a free run for the new ones. *)
LEMMA FindSpaceStep ==
  ASSUME IInv, NEW k \in Keys, NEW n \in Sizes, PutFindSpace(k, n)
  PROVE  IInv'
<1>. DEFINE d == NumDiskBlocks(n)
<1>1. n \in Nat /\ d \in Int
  BY SizesAssumption, NumDiskBlocksInt
<1>2. Serving /\ nextVer \in Versions
  BY DEF PutFindSpace, IInv, TypeOK, Versions
<1>3. PICK s \in FirstFits(FreedFor(k), MapSize, d) :
        put' = [phase |-> "write", key |-> k, ver |-> nextVer,
                numBytes |-> n, start |-> s, lost |-> FALSE]
  BY DEF PutFindSpace
<1>4. s \in Nat /\ Extent(s, d) \subseteq Blocks /\ Extent(s, d) \cap FreedFor(k) = {}
  BY <1>1, FirstFitFree
<1>5. /\ mapped' = FreedFor(k) /\ nextVer' = nextVer + 1
      /\ UNCHANGED <<proc, bat, stream, file, ghosts, faults, crashes>>
  BY DEF PutFindSpace
<1>6. bat' = bat /\ diskBat' = diskBat /\ tainted' = tainted /\ proc' = proc
  BY <1>5 DEF file, ghosts
<1>7. FreedFor(k) \subseteq mapped
  BY DEF FreedFor
<1>8. put' \in Puts
  BY <1>1, <1>2, <1>3, <1>4 DEF Puts, Versions
<1>9. TypeOK'
  BY <1>5, <1>7, <1>8 DEF IInv, TypeOK, file, ghosts
<1>10. PutExtent' = Extent(s, d) /\ Idle' = FALSE /\ Released' = {KeyHash[k]}
       /\ put'.ver = nextVer
  BY <1>3 DEF PutExtent, Idle, Released, PutHash
<1>11. MemInv' /\ PutInv'
  BY <1>2, <1>4, <1>5, <1>6, <1>10 DEF MemInv, PutInv, Serving
<1>12. InMap'
  BY <1>6 DEF IInv, InMap, Owned
<1>13. MarkedOwned'
  BY <1>2, <1>5, <1>6, <1>10, FreedForFacts DEF MarkedOwned, Owned
<1>14. Sound'
  BY <1>2, <1>5, <1>6, <1>10, FreedForFacts DEF IInv, Sound, Disjoint, Owned
<1>. QED BY <1>9, <1>11, <1>12, <1>13, <1>14 DEF IInv

(* A PUT that finds no space taints the store if it freed an entry.  If    *)
(* there was no entry, it freed nothing.                                   *)
LEMMA NoSpaceStep ==
  ASSUME IInv, NEW k \in Keys, NEW n \in Sizes, PutNoSpace(k, n)
  PROVE  IInv'
<1>1. Serving /\ mapped' = FreedFor(k) /\ FreedFor(k) \subseteq mapped
  BY DEF PutNoSpace, FreedFor
<1>2. tainted' \in BOOLEAN /\ (~tainted' => ~tainted /\ bat[KeyHash[k]] = NoEntry)
  BY DEF PutNoSpace, IInv, TypeOK
<1>3. UNCHANGED <<proc, bat, put, diskBat>>
  BY DEF PutNoSpace, file
<1>4. TypeOK'
  BY <1>1, <1>2 DEF PutNoSpace, IInv, TypeOK, file, bounds
<1>5. MemInv' /\ PutInv'
  BY <1>1, <1>3 DEF IInv, MemInv, PutInv, Idle, Serving
<1>6. InMap' /\ MarkedOwned'
  BY <1>1, <1>3, FreedForFacts
     DEF IInv, InMap, MarkedOwned, Owned, Released, Idle, Serving
<1>7. ~tainted' => mapped' = mapped
  BY <1>1, <1>2 DEF FreedFor, Owned
<1>8. Sound'
  BY <1>2, <1>3, <1>7 DEF IInv, Sound, Disjoint, Owned, Released, Idle, PutHash
<1>. QED BY <1>4, <1>5, <1>6, <1>8 DEF IInv

(* Steps of a PUT that change only the file's blocks or the PUT's phase. *)
LEMMA WriteStep ==
  ASSUME IInv, PutWrite \/ PutWriteLost
  PROVE  IInv'
<1>1. put \in Puts /\ put.phase = "write" /\ Idle = FALSE
  BY DEF PutWrite, PutWriteLost, IInv, TypeOK, Idle
<1>2. put' \in Puts /\ put'.phase = "record" /\ put'.key = put.key
      /\ put'.ver = put.ver /\ put'.numBytes = put.numBytes /\ put'.start = put.start
  BY <1>1 DEF PutWrite, PutWriteLost, Puts
<1>3. UNCHANGED <<proc, bat, mapped, diskBat, tainted>>
  BY DEF PutWrite, PutWriteLost, file, ghosts
<1>4. NumDiskBlocks(put.numBytes) \in Int
  BY <1>1, NumDiskBlocksInt DEF Puts
<1>5. content' \in [Blocks -> Pieces]
  BY <1>4, WrittenType DEF PutWrite, PutWriteLost, file, IInv, TypeOK
<1>6. promised' \in [Keys -> Versions \cup {Absent, Unknown}]
  BY DoubtType DEF PutWrite, PutWriteLost, ghosts, IInv, TypeOK
<1>7. TypeOK'
  BY <1>2, <1>3, <1>5, <1>6
     DEF PutWrite, PutWriteLost, Overwritten, IInv, TypeOK, file, ghosts, bounds
<1>8. PutExtent' = PutExtent /\ Idle' = FALSE /\ Released' = Released
  BY <1>1, <1>2 DEF PutExtent, Idle, Released, PutHash
<1>9. MemInv' /\ PutInv'
  BY <1>1, <1>2, <1>3, <1>8 DEF IInv, MemInv, PutInv
<1>10. InMap' /\ MarkedOwned' /\ Sound'
  BY <1>3, <1>8 DEF IInv, InMap, MarkedOwned, Sound, Disjoint, Owned
<1>. QED BY <1>7, <1>9, <1>10 DEF IInv

(* A PUT that is abandoned marks the old blocks of its key again. *)
LEMMA AbandonStep ==
  ASSUME IInv, NEW n \in Int, PutOpenFails \/ PutWriteFails(n) \/ PutStuck
  PROVE  IInv'
<1>1. put \in Puts /\ Idle = FALSE /\ PutHash \in Hashes /\ Released = {PutHash}
  BY KeyHashAssumption
     DEF PutOpenFails, PutWriteFails, PutStuck, IInv, TypeOK, Idle, Released, PutHash, Puts
<1>2. mapped' = mapped \cup Owned(bat, PutHash) /\ put' = NoPut
  BY DEF PutOpenFails, PutWriteFails, PutStuck, PutAbandon
<1>3. UNCHANGED <<proc, bat, diskBat, tainted>>
  BY DEF PutOpenFails, PutWriteFails, PutStuck, file, ghosts
<1>4. mapped' \subseteq Blocks
  BY <1>1, <1>2 DEF IInv, TypeOK, InMap
<1>5. content' \in [Blocks -> Pieces]
  BY WrittenType DEF PutOpenFails, PutWriteFails, PutStuck, file, IInv, TypeOK
<1>6. promised' \in [Keys -> Versions \cup {Absent, Unknown}]
  BY DoubtType DEF PutOpenFails, PutWriteFails, PutStuck, ghosts, IInv, TypeOK
<1>7. put' \in Puts /\ Idle' /\ Released' = {}
  BY <1>2, NoPutFacts DEF Idle, Released
<1>8. TypeOK'
  BY <1>3, <1>4, <1>5, <1>6, <1>7
     DEF PutOpenFails, PutWriteFails, PutStuck, Overwritten, IInv, TypeOK, file, ghosts, bounds
<1>9. MemInv' /\ PutInv'
  BY <1>1, <1>3, <1>7 DEF IInv, MemInv, PutInv
<1>10. InMap'
  BY <1>3 DEF IInv, InMap, Owned
<1>11. MarkedOwned'
  BY <1>1, <1>2, <1>3, <1>7 DEF IInv, MarkedOwned, Owned
<1>12. Sound'
  BY <1>1, <1>2, <1>3, <1>7 DEF IInv, Sound, Disjoint, Owned
<1>. QED BY <1>8, <1>9, <1>10, <1>11, <1>12 DEF IInv

(* Recording a PUT gives its key the run that was found, and marks it. *)
LEMMA CommitStep ==
  ASSUME IInv, PutCommit \/ PutCommitUnsaved
  PROVE  IInv'
<1>1. /\ put \in Puts /\ Idle = FALSE /\ PutHash \in Hashes /\ put.key \in Keys
      /\ Released = {PutHash}
  BY KeyHashAssumption
     DEF PutCommit, PutCommitUnsaved, IInv, TypeOK, Idle, Released, PutHash, Puts
<1>2. PutExtent \subseteq Blocks /\ PutExtent \cap mapped = {} /\ put.ver \in Versions
  BY <1>1 DEF IInv, PutInv
<1>3. RecordedEntry \in Entries
  BY <1>1 DEF RecordedEntry, Entries, Puts, IInv, TypeOK, Tables
<1>4. RecordedEntry # NoEntry /\ EntryExtent(RecordedEntry) = PutExtent
  BY <1>3, NoEntryAssumption DEF EntryExtent, PutExtent, RecordedEntry
<1>5. /\ bat' = [bat EXCEPT ![PutHash] = RecordedEntry]
      /\ mapped' = mapped \cup PutExtent
      /\ put' = NoPut
      /\ promised' = [promised EXCEPT ![put.key] = put.ver]
      /\ proc' = proc /\ tainted' = tainted
  BY DEF PutCommit, PutCommitUnsaved, PutRecord
<1>6. diskBat' = bat' \/ diskBat' = diskBat
  BY DEF PutCommit, PutCommitUnsaved, file
<1>7. bat \in Tables /\ bat' \in Tables
      /\ \A h \in Hashes :
           Owned(bat', h) = IF h = PutHash THEN PutExtent ELSE Owned(bat, h)
  <2>1. bat \in Tables
    BY DEF IInv, TypeOK
  <2>2. ASSUME NEW h \in Hashes
        PROVE  /\ [bat EXCEPT ![PutHash] = RecordedEntry] \in Tables
               /\ Owned([bat EXCEPT ![PutHash] = RecordedEntry], h) =
                    IF h = PutHash THEN PutExtent ELSE Owned(bat, h)
    BY <1>1, <1>3, <1>4, <2>1, OwnedUpdate
  <2>. QED BY <1>1, <1>5, <2>1, <2>2
<1>8. promised' \in [Keys -> Versions \cup {Absent, Unknown}]
  BY <1>1, <1>2, <1>5 DEF IInv, TypeOK, Puts
<1>9. put' \in Puts /\ Idle' /\ Released' = {}
  BY <1>5, NoPutFacts DEF Idle, Released
<1>10. /\ diskBat' \in Tables /\ mapped' \subseteq Blocks
       /\ unsaved' \subseteq Keys /\ unread' \subseteq Keys /\ dropped' \subseteq Keys
  BY <1>1, <1>2, <1>5, <1>6, <1>7 DEF PutCommit, PutCommitUnsaved, Dropping, IInv, TypeOK
<1>11. TypeOK'
  BY <1>5, <1>7, <1>8, <1>9, <1>10
     DEF PutCommit, PutCommitUnsaved, IInv, TypeOK, file, bounds
<1>12. MemInv' /\ PutInv'
  BY <1>1, <1>5, <1>9 DEF IInv, MemInv, PutInv
<1>13. InMap'
  BY <1>2, <1>6, <1>7 DEF IInv, InMap, Owned
<1>14. MarkedOwned'
  BY <1>1, <1>5, <1>7, <1>9 DEF IInv, MarkedOwned
<1>15. Sound'
  <2>. SUFFICES ASSUME ~tainted
                PROVE /\ Disjoint(bat') /\ Disjoint(diskBat')
                      /\ \A h \in Hashes : Owned(bat', h) \subseteq mapped'
    BY <1>5, <1>9 DEF Sound, Disjoint, Owned
  <2>1. /\ Disjoint(bat) /\ Disjoint(diskBat)
        /\ \A h \in Hashes \ {PutHash} : Owned(bat, h) \subseteq mapped
    BY <1>1 DEF IInv, Sound
  <2>2. Disjoint(bat')
    BY <1>2, <1>7, <2>1 DEF Disjoint
  <2>3. \A h \in Hashes : Owned(bat', h) \subseteq mapped'
    BY <1>5, <1>7, <2>1
  <2>. QED BY <1>6, <2>1, <2>2, <2>3
<1>. QED BY <1>11, <1>12, <1>13, <1>14, <1>15 DEF IInv

(* A DELETE unmarks exactly the blocks of the entry it drops. *)
LEMMA DeleteStep ==
  ASSUME IInv, NEW k \in Keys, DeleteBlocks(k)
  PROVE  IInv'
<1>. DEFINE g == KeyHash[k]
<1>1. Serving /\ g \in Hashes /\ Released = {}
  BY KeyHashAssumption DEF DeleteBlocks, Serving, Released
<1>2. /\ mapped' = FreedFor(k) /\ bat' = [bat EXCEPT ![g] = NoEntry]
      /\ promised' = [promised EXCEPT ![k] = Absent]
      /\ unsaved' = unsaved \cup {k}
      /\ UNCHANGED <<proc, put, diskBat, tainted>>
  BY DEF DeleteBlocks, file
<1>3. bat' \in Tables
      /\ \A h \in Hashes : Owned(bat', h) = IF h = g THEN {} ELSE Owned(bat, h)
  <2>1. bat \in Tables
    BY DEF IInv, TypeOK
  <2>2. ASSUME NEW h \in Hashes
        PROVE  /\ [bat EXCEPT ![g] = NoEntry] \in Tables
               /\ Owned([bat EXCEPT ![g] = NoEntry], h) =
                    IF h = g THEN {} ELSE Owned(bat, h)
    BY <1>1, <2>1, OwnedUpdate
  <2>. QED BY <1>1, <1>2, <2>1, <2>2
<1>4. FreedFor(k) \subseteq mapped
  BY DEF FreedFor
<1>5. promised' \in [Keys -> Versions \cup {Absent, Unknown}]
  BY <1>2 DEF IInv, TypeOK
<1>6. TypeOK'
  BY <1>2, <1>3, <1>4, <1>5 DEF DeleteBlocks, IInv, TypeOK, file, bounds
<1>7. MemInv' /\ PutInv' /\ Released' = {}
  BY <1>1, <1>2 DEF MemInv, PutInv, Idle, Serving, Released
<1>8. InMap'
  BY <1>2, <1>3 DEF IInv, InMap, Owned
<1>9. MarkedOwned'
  BY <1>1, <1>2, <1>3, <1>7, FreedForFacts DEF MarkedOwned
<1>10. Sound'
  <2>. SUFFICES ASSUME ~tainted
                PROVE /\ Disjoint(bat') /\ Disjoint(diskBat)
                      /\ \A h \in Hashes : Owned(bat', h) \subseteq mapped'
    BY <1>2, <1>7 DEF Sound, Disjoint, Owned
  <2>1. Disjoint(bat) /\ Disjoint(diskBat)
    BY DEF IInv, Sound
  <2>2. Disjoint(bat')
    BY <1>3, <2>1 DEF Disjoint
  <2>3. \A h \in Hashes : Owned(bat', h) \subseteq mapped'
    BY <1>1, <1>2, <1>3, FreedForFacts
  <2>. QED BY <2>1, <2>2, <2>3
<1>. QED BY <1>6, <1>7, <1>8, <1>9, <1>10 DEF IInv

(* A failing read changes the stream only. *)
LEMMA ReadStep ==
  ASSUME IInv, NEW k \in Keys, ReadFails(k)
  PROVE  IInv'
<1>1. TypeOK'
  BY DEF IInv, TypeOK, ReadFails, file, ghosts
<1>2. UNCHANGED <<bat, mapped, put, diskBat, tainted, proc>>
  BY DEF ReadFails, file, ghosts
<1>. QED BY <1>1, <1>2, KeepsOwnership DEF IInv

(* A crash empties the memory and leaves the table in the file. *)
LEMMA CrashStep ==
  ASSUME IInv, NEW n \in Int, Crash(n)
  PROVE  IInv'
<1>1. /\ proc' = "down" /\ bat' = EmptyTable /\ mapped' = {} /\ stream' = "closed"
      /\ put' = NoPut /\ content' = Written(n) /\ crashes' = crashes + 1
      /\ unsaved' = {} /\ unread' = {} /\ dropped' = dropped \cup Overwritten(n)
      /\ UNCHANGED <<header, diskBat, tainted, nextVer, faults>>
  BY DEF Crash
<1>2. put' \in Puts /\ Idle' /\ Released' = {}
  BY <1>1, NoPutFacts DEF Idle, Released
<1>3. promised' \in [Keys -> Versions \cup {Absent, Unknown}]
  <2>. DEFINE D == Doubt(IF n > 0 \/ put.phase = "record" THEN {put.key} ELSE {})
  <2>1. D \in [Keys -> Versions \cup {Absent, Unknown}]
    BY DoubtType DEF IInv
  <2>2. promised' = [k \in Keys |-> IF k \in unsaved THEN Unknown ELSE D[k]]
    BY DEF Crash
  <2>. HIDE DEF D
  <2>. QED BY <2>1, <2>2
<1>4. content' \in [Blocks -> Pieces]
  BY <1>1, WrittenType DEF IInv
<1>5. TypeOK'
  BY <1>1, <1>2, <1>3, <1>4, EmptyTableFacts DEF IInv, TypeOK, Overwritten
<1>6. MemInv' /\ PutInv' /\ MarkedOwned'
  BY <1>1, <1>2 DEF MemInv, PutInv, MarkedOwned
<1>7. InMap' /\ Sound'
  BY <1>1, EmptyTableFacts DEF IInv, InMap, Sound, Disjoint, Owned
<1>. QED BY <1>5, <1>6, <1>7 DEF IInv

-----------------------------------------------------------------------------
(* The invariant, and what follows from it *)

(* Every step of the node keeps IInv. *)
LEMMA NextIInv == IInv /\ [Next]_vars => IInv'
<1>. SUFFICES ASSUME IInv, [Next]_vars PROVE IInv'
  OBVIOUS
<1>1. CASE Start \/ Boot \/ BootFails
  BY <1>1, BootStep
<1>2. CASE \E k \in Keys, n \in Sizes : PutFindSpace(k, n) \/ PutNoSpace(k, n)
  BY <1>2, FindSpaceStep, NoSpaceStep
<1>3. CASE PutWrite \/ PutWriteLost
  BY <1>3, WriteStep
<1>4. CASE PutStuck \/ PutOpenFails
  <2>1. 0 \in Int
    OBVIOUS
  <2>. QED BY <1>4, <2>1, AbandonStep
<1>5. CASE PutCommit \/ PutCommitUnsaved
  BY <1>5, CommitStep
<1>6. CASE \E k \in Keys : DeleteBlocks(k) \/ ReadFails(k)
  BY <1>6, DeleteStep, ReadStep
<1>7. CASE \E n \in 0 .. MaxBlocksPerPut : PutWriteFails(n) \/ Crash(n)
  <2>1. PICK n \in 0 .. MaxBlocksPerPut : PutWriteFails(n) \/ Crash(n)
    BY <1>7
  <2>2. n \in Int
    OBVIOUS
  <2>. QED BY <2>1, <2>2, AbandonStep, CrashStep
<1>8. CASE UNCHANGED vars
  <2>1. TypeOK'
    BY <1>8 DEF IInv, TypeOK, vars, memory, file, ghosts, bounds
  <2>2. UNCHANGED <<bat, mapped, put, diskBat, tainted, proc>>
    BY <1>8 DEF vars, memory, file, ghosts
  <2>. QED BY <2>1, <2>2, KeepsOwnership DEF IInv
<1>. QED BY <1>1, <1>2, <1>3, <1>4, <1>5, <1>6, <1>7, <1>8 DEF Next, PutStep

LEMMA SpecIInv == Spec => []IInv
BY InitIInv, NextIInv, PTL DEF Spec

(* Memory, file and ghosts keep their types (disk_storage.cpp, all of it). *)
THEOREM TypeCorrect == Spec => []TypeOK
<1>1. IInv => TypeOK
  BY DEF IInv
<1>. QED BY <1>1, SpecIInv, PTL

(* No sequence of requests, failures and restarts marks a block that no    *)
(* entry owns: what writeBlocks frees and restores, and what deleteBlocks  *)
(* frees, balance what it allocates.                                       *)
THEOREM NothingLeaks == Spec => []NoLeak
<1>1. IInv => NoLeak
  BY DEF IInv, MarkedOwned, NoLeak, OwnedBy
<1>. QED BY <1>1, SpecIInv, PTL

(* Until an overwrite is refused for lack of space, entries never share a  *)
(* block and the free space map marks exactly what they own.               *)
THEOREM AllocationIsSound == Spec => []AllocationSound
<1>1. ASSUME IInv PROVE AllocationSound
  <2>. SUFFICES ASSUME ~tainted
                PROVE /\ Disjoint(bat) /\ Disjoint(diskBat)
                      /\ mapped = UNION {Owned(bat, h) : h \in Hashes \ Released}
                      /\ ~Idle => PutExtent \cap mapped = {}
    BY DEF AllocationSound
  <2>1. Disjoint(bat) /\ Disjoint(diskBat)
    BY <1>1 DEF IInv, Sound
  <2>2. \A b : b \in mapped <=> \E h \in Hashes \ Released : b \in Owned(bat, h)
    BY <1>1 DEF IInv, MarkedOwned, Sound
  <2>3. mapped = UNION {Owned(bat, h) : h \in Hashes \ Released}
    BY <2>2
  <2>4. ~Idle => PutExtent \cap mapped = {}
    BY <1>1 DEF IInv, PutInv
  <2>. QED BY <2>1, <2>3, <2>4
<1>. QED BY <1>1, SpecIInv, PTL
-----------------------------------------------------------------------------
(* The table's size *)

(* No entry is empty, nor is the buffer of a PUT. *)
AllNonEmpty(table) == \A h \in Hashes : table[h] # NoEntry => table[h].numBytes > 0

NonEmptyInv ==
  /\ AllNonEmpty(bat) /\ AllNonEmpty(diskBat)
  /\ ~Idle => put.numBytes > 0

(* A buffer of one byte or more takes a block. *)
LEMMA BlocksNeeded ==
  ASSUME NEW n \in Nat, n > 0
  PROVE  NumDiskBlocks(n) >= 1
<1>1. DiskBlockSize \in Nat /\ DiskBlockSize > 0
  BY BlockSizeAssumption
<1>2. n + DiskBlockSize - 1 >= DiskBlockSize
  BY <1>1
<1>3. \A a, d \in Nat : (d > 0 /\ a >= d) => a \div d >= 1
  OBVIOUS
<1>. QED BY <1>1, <1>2, <1>3 DEF NumDiskBlocks, CeilDiv

(* Every entry gets the length of a PUT's buffer, which is not empty. *)
LEMMA NonEmptyStep == IInv /\ NonEmptyInv /\ [Next]_vars => NonEmptyInv'
<1>. SUFFICES ASSUME IInv, NonEmptyInv, [Next]_vars PROVE NonEmptyInv'
  OBVIOUS
<1>. USE DEF NonEmptyInv
<1>1. put \in Puts /\ bat \in Tables /\ diskBat \in Tables
  BY DEF IInv, TypeOK
<1>2. NoPut.phase = "none" /\ AllNonEmpty(EmptyTable)
  BY NoPutFacts DEF AllNonEmpty, EmptyTable
<1>3. CASE Start \/ Boot \/ BootFails
  BY <1>2, <1>3 DEF Start, Boot, BootFails, RemoveStore, CreateStoreFile, WriteHeader,
     LoadStore, LoadBlankStore, StartFails, WriteHeaderFails, LoadTableFails,
     LoadHeaderFails, memory, file, Idle
<1>4. CASE \E k \in Keys, n \in Sizes : PutFindSpace(k, n) \/ PutNoSpace(k, n)
  BY <1>4, SizesAssumption DEF PutFindSpace, PutNoSpace, Serving, file, Idle
<1>5. CASE PutWrite \/ PutWriteLost
  BY <1>1, <1>5 DEF PutWrite, PutWriteLost, Puts, file, Idle
<1>6. CASE \/ PutStuck \/ PutOpenFails
           \/ \E n \in 0 .. MaxBlocksPerPut : PutWriteFails(n)
  BY <1>2, <1>6 DEF PutStuck, PutOpenFails, PutWriteFails, PutAbandon, file, Idle
<1>7. CASE PutCommit \/ PutCommitUnsaved
  <2>1. AllNonEmpty(bat')
    <3>1. bat' = [bat EXCEPT ![PutHash] = RecordedEntry] /\ put.numBytes > 0
      BY <1>7 DEF PutCommit, PutCommitUnsaved, PutRecord, Idle
    <3>2. RecordedEntry.numBytes > 0
      BY <3>1 DEF RecordedEntry
    <3>. QED BY <1>1, <3>1, <3>2 DEF AllNonEmpty, Tables
  <2>. QED BY <1>2, <1>7, <2>1 DEF PutCommit, PutCommitUnsaved, PutRecord, file, Idle
<1>8. CASE \E k \in Keys : DeleteBlocks(k) \/ ReadFails(k)
  <2>1. ASSUME NEW k \in Keys, DeleteBlocks(k) PROVE AllNonEmpty(bat')
    BY <1>1, <2>1 DEF DeleteBlocks, AllNonEmpty, Tables
  <2>. QED BY <1>8, <2>1 DEF DeleteBlocks, ReadFails, file, Idle
<1>9. CASE \E n \in 0 .. MaxBlocksPerPut : Crash(n)
  BY <1>2, <1>9 DEF Crash, Idle
<1>10. CASE UNCHANGED vars
  BY <1>10 DEF vars, memory, file, Idle
<1>. QED BY <1>3, <1>4, <1>5, <1>6, <1>7, <1>8, <1>9, <1>10 DEF Next, PutStep

(* The entries' first blocks are different blocks of the map. *)
LEMMA EntriesAreFinite ==
  ASSUME IInv, NonEmptyInv, ~tainted
  PROVE  /\ IsFiniteSet(Blocks)
         /\ IsFiniteSet({h \in Hashes : bat[h] # NoEntry})
         /\ Cardinality({h \in Hashes : bat[h] # NoEntry}) <= Cardinality(Blocks)
<1>. DEFINE S == {h \in Hashes : bat[h] # NoEntry}
            f == [h \in S |-> bat[h].start]
<1>1. ASSUME NEW h \in S
      PROVE  bat[h].start \in Nat /\ bat[h].start \in Owned(bat, h)
  <2>1. bat[h] \in Entries /\ bat[h].numBytes > 0
    BY DEF IInv, TypeOK, Tables, NonEmptyInv, AllNonEmpty
  <2>2. NumDiskBlocks(bat[h].numBytes) >= 1 /\ NumDiskBlocks(bat[h].numBytes) \in Int
    BY <2>1, BlocksNeeded, NumDiskBlocksInt DEF Entries
  <2>3. bat[h].start \in Nat
    BY <2>1 DEF Entries
  <2>. QED BY <2>2, <2>3 DEF Owned, EntryExtent, Extent
<1>2. f \in Injection(S, Blocks)
  <2>1. ASSUME NEW h \in S PROVE f[h] \in Blocks
    BY <1>1 DEF IInv, InMap
  <2>2. ASSUME NEW g \in S, NEW h \in S, f[g] = f[h] PROVE g = h
    BY <1>1, <2>2 DEF IInv, Sound, Disjoint
  <2>. QED BY <2>1, <2>2 DEF Injection, IsInjective
<1>3. IsFiniteSet(Blocks)
  <2>1. 0 \in Int /\ MapSize - 1 \in Int
    BY MapSizeInt
  <2>. QED BY <2>1, FS_Interval DEF Blocks
<1>. QED BY <1>2, <1>3, FS_Injection

(* A map of whole bytes has one entry per block at most. *)
LEMMA OneEntryPerBlock ==
  ASSUME IInv, NonEmptyInv, ~tainted, MapSize = NumBlocks
  PROVE  /\ NumBlocks \in Nat
         /\ Cardinality({h \in Hashes : bat[h] # NoEntry}) \in Nat
         /\ Cardinality({h \in Hashes : bat[h] # NoEntry}) <= NumBlocks
<1>1. NumBlocks \in Nat
  BY DataSizeAssumption, BlocksNeeded, NumDiskBlocksInt DEF NumBlocks
<1>2. Cardinality(Blocks) = NumBlocks
  <2>1. 0 \in Int /\ MapSize - 1 \in Int
    BY MapSizeInt
  <2>. QED BY <1>1, <2>1, FS_Interval DEF Blocks
<1>. QED BY <1>1, <1>2, EntriesAreFinite, FS_CardinalityType

(* The table never grows into the block section, whatever the store's      *)
(* sizes, as long as the free space map has no more blocks than the store  *)
(* (its last byte is full) and no overwrite was refused for lack of space. *)
THEOREM TableStaysInItsRegion ==
  ASSUME MapSize = NumBlocks
  PROVE  Spec => []TableFits
<1>1. Init => NonEmptyInv
  BY NoPutFacts DEF Init, NonEmptyInv, AllNonEmpty, EmptyTable, Idle
<1>2. IInv /\ NonEmptyInv => TableFits
  <2>. SUFFICES ASSUME IInv, NonEmptyInv, ~tainted
                PROVE  TableEnd(bat) <= BlockStoreOffset
    BY DEF TableFits
  <2>1. /\ NumBlocks \in Nat
        /\ Cardinality({h \in Hashes : bat[h] # NoEntry}) \in Nat
        /\ Cardinality({h \in Hashes : bat[h] # NoEntry}) <= NumBlocks
    BY OneEntryPerBlock
  <2>. QED BY <2>1 DEF TableEnd, BlockStoreOffset, HeaderBytes, EntryBytes
<1>. QED BY <1>1, <1>2, SpecIInv, NonEmptyStep, PTL DEF Spec

-----------------------------------------------------------------------------
(* The bytes in use *)

(* A buffer fits in the disk blocks it is given. *)
LEMMA BytesInBlocks ==
  ASSUME NEW n \in Nat
  PROVE  /\ NumDiskBlocks(n) \in Nat
         /\ n <= DiskBlockSize * NumDiskBlocks(n)
BY BlockSizeAssumption, CeilDivBounds DEF NumDiskBlocks, CeilDiv

(* The entries of a set of hashes are no longer than the blocks they own.  *)
LEMMA BytesWithinBlocks ==
  ASSUME IInv, ~tainted,
         NEW S \in SUBSET Hashes, IsFiniteSet(S), \A h \in S : bat[h] # NoEntry
  PROVE  /\ IsFiniteSet(UNION {Owned(bat, h) : h \in S})
         /\ SumFunctionOnSet([h \in S |-> bat[h].numBytes], S)
              <= DiskBlockSize * Cardinality(UNION {Owned(bat, h) : h \in S})
<1>. DEFINE f == [h \in S |-> bat[h].numBytes]
            Union(T) == UNION {Owned(bat, h) : h \in T}
            Good(T) == /\ IsFiniteSet(Union(T))
                       /\ SumFunctionOnSet(f, T) <= DiskBlockSize * Cardinality(Union(T))
            Fine == {T \in SUBSET S : Good(T)}
<1>1. ASSUME NEW h \in S
      PROVE  /\ f[h] \in Nat /\ f[h] <= DiskBlockSize * Cardinality(Owned(bat, h))
             /\ IsFiniteSet(Owned(bat, h)) /\ Cardinality(Owned(bat, h)) \in Nat
  <2>1. bat[h].start \in Nat /\ bat[h].numBytes \in Nat
    BY DEF IInv, TypeOK, Tables, Entries
  <2>. DEFINE s == bat[h].start
              d == NumDiskBlocks(bat[h].numBytes)
  <2>2. d \in Nat /\ bat[h].numBytes <= DiskBlockSize * d
    BY <2>1, BytesInBlocks
  <2>3. Owned(bat, h) = s .. (s + d - 1)
    BY DEF Owned, EntryExtent, Extent
  <2>. HIDE DEF s, d
  <2>4. s \in Int /\ s + d - 1 \in Int
    BY <2>1, <2>2 DEF s
  <2>5. IsFiniteSet(s .. (s + d - 1)) /\ Cardinality(s .. (s + d - 1)) = d
    <3>. DEFINE l == s + d - 1
    <3>1. s \in Int /\ l \in Int
      BY <2>4
    <3>2. (IF s > l THEN 0 ELSE l - s + 1) = d
      BY ONLY <2>2, <2>4
    <3>. HIDE DEF l
    <3>3. IsFiniteSet(s .. l) /\ Cardinality(s .. l) = IF s > l THEN 0 ELSE l - s + 1
      BY ONLY <3>1, FS_Interval
    <3>. QED BY ONLY <3>2, <3>3 DEF l
  <2>. QED BY <2>1, <2>2, <2>3, <2>5
<1>. HIDE DEF f
<1>2. Good({})
  <2>1. Union({}) = {}
    OBVIOUS
  <2>. QED BY <2>1, SumEmpty, FS_EmptySet, BlockSizeAssumption
<1>3. ASSUME NEW T \in SUBSET S, NEW h \in T, Good(T \ {h}) PROVE Good(T)
  <2>. DEFINE U == Union(T \ {h})
              O == Owned(bat, h)
              a == Cardinality(U)
              b == Cardinality(O)
  <2>1. Union(T) = U \cup O
    OBVIOUS
  <2>2. U \cap O = {}
    BY DEF IInv, Sound, Disjoint
  <2>3. IsFiniteSet(U) /\ IsFiniteSet(O) /\ a \in Nat /\ b \in Nat
    BY <1>1, <1>3, FS_CardinalityType
  <2>4. IsFiniteSet(U \cup O) /\ Cardinality(U \cup O) = a + b
    <3>. HIDE DEF U, O
    <3>1. Cardinality({}) = 0
      BY FS_EmptySet
    <3>2. IsFiniteSet(U \cup O)
          /\ Cardinality(U \cup O) = Cardinality(U) + Cardinality(O) - Cardinality(U \cap O)
      BY <2>3, FS_Union
    <3>3. Cardinality(U \cap O) = 0
      BY <2>2, <3>1
    <3>. HIDE DEF a, b
    <3>4. a \in Nat /\ b \in Nat /\ Cardinality(U) = a /\ Cardinality(O) = b
      BY <2>3 DEF a, b
    <3>. QED BY <3>2, <3>3, <3>4
  <2>5. SumFunctionOnSet(f, T) = f[h] + SumFunctionOnSet(f, T \ {h})
        /\ SumFunctionOnSet(f, T \ {h}) \in Nat
    <3>1. IsFiniteSet(T) /\ IsFiniteSet(T \ {h}) /\ \A x \in T : f[x] \in Nat
      BY <1>1, FS_Subset
    <3>. QED BY <3>1, SumTakesOut
  <2>6. f[h] <= DiskBlockSize * b /\ f[h] \in Nat
    BY <1>1
  <2>7. SumFunctionOnSet(f, T \ {h}) <= DiskBlockSize * a
    BY <1>3
  <2>. HIDE DEF U, O, a, b
  <2>8. DiskBlockSize * (a + b) = DiskBlockSize * a + DiskBlockSize * b
        /\ DiskBlockSize * a \in Nat /\ DiskBlockSize * b \in Nat
    BY <2>3, BlockSizeAssumption
  <2>9. SumFunctionOnSet(f, T) <= DiskBlockSize * (a + b)
    BY <2>5, <2>6, <2>7, <2>8
  <2>. QED BY <2>1, <2>4, <2>9
<1>4. \A T \in SUBSET S : T \in Fine
  <2>1. {} \in Fine
    BY <1>2
  <2>2. ASSUME NEW T \in SUBSET S, T # {}, \A V \in SUBSET T : V # T => V \in Fine
        PROVE  T \in Fine
    <3>1. PICK h \in T : TRUE
      BY <2>2
    <3>2. Good(T \ {h})
      BY <2>2, <3>1
    <3>. HIDE DEF Good
    <3>. QED BY <1>3, <3>2
  <2>. HIDE DEF Fine
  <2>. QED BY <2>1, <2>2, BuildUp
<1>. QED BY <1>4 DEF f

(* A node never reports more bytes in use than it has, whatever the sizes  *)
(* of its blocks and buffers, as long as its data section fills the free   *)
(* space map (whole blocks, whole bytes of bitmap) and no overwrite was    *)
(* refused for lack of space.                                              *)
THEOREM UsedIsWithinTotal ==
  ASSUME DiskBlockSize * MapSize = MaxDataSize
  PROVE  Spec => []UsedWithinTotal
<1>1. Init => NonEmptyInv
  BY NoPutFacts DEF Init, NonEmptyInv, AllNonEmpty, EmptyTable, Idle
<1>2. IInv /\ NonEmptyInv => UsedWithinTotal
  <2>. SUFFICES ASSUME IInv, NonEmptyInv, ~tainted
                PROVE  DataUsedSize(bat) <= MaxDataSize
    BY DEF UsedWithinTotal
  <2>. DEFINE S == {h \in Hashes : bat[h] # NoEntry}
              U == UNION {Owned(bat, h) : h \in S}
  <2>1. MapSize \in Nat /\ IsFiniteSet(Blocks) /\ Cardinality(Blocks) = MapSize
    <3>1. MapSize \in Nat
      BY MapSizeInt, BlockSizeAssumption, DataSizeAssumption
    <3>2. 0 \in Int /\ MapSize - 1 \in Int
      BY <3>1
    <3>. QED BY <3>1, <3>2, FS_Interval DEF Blocks
  <2>2. IsFiniteSet(S)
    BY <2>1, EntriesAreFinite
  <2>3. /\ IsFiniteSet(U)
        /\ SumFunctionOnSet([h \in S |-> bat[h].numBytes], S) <= DiskBlockSize * Cardinality(U)
    BY <2>2, BytesWithinBlocks
  <2>4. U \subseteq Blocks
    BY DEF IInv, InMap
  <2>5. Cardinality(U) <= MapSize /\ Cardinality(U) \in Nat
    BY <2>1, <2>3, <2>4, FS_Subset, FS_CardinalityType
  <2>. DEFINE c == Cardinality(U)
  <2>6. DiskBlockSize * c <= DiskBlockSize * MapSize
    <3>. HIDE DEF c
    <3>1. c \in Nat /\ c <= MapSize
      BY <2>5 DEF c
    <3>. QED BY <2>1, <3>1, BlockSizeAssumption
  <2>7. DataUsedSize(bat) = SumFunctionOnSet([h \in S |-> bat[h].numBytes], S)
    BY DEF DataUsedSize, SumFunction
  <2>8. DataUsedSize(bat) \in Nat
    <3>1. \A h \in S : [g \in S |-> bat[g].numBytes][h] \in Nat
      BY DEF IInv, TypeOK, Tables, Entries
    <3>. HIDE DEF S
    <3>. QED BY <2>2, <2>7, <3>1, SumTakesOut
  <2>. HIDE DEF U, S
  <2>. QED BY <2>1, <2>3, <2>5, <2>6, <2>7, <2>8, BlockSizeAssumption, DataSizeAssumption
<1>. QED BY <1>1, <1>2, SpecIInv, NonEmptyStep, PTL DEF Spec

-----------------------------------------------------------------------------
(***************************************************************************)
(* What clients were promised: reads answer with the last acknowledged PUT *)
(* of their key, and the store file alone would answer them after a        *)
(* restart.                                                                *)
(***************************************************************************)

(* The code does not tell colliding keys apart (master_server.cpp:1144):   *)
(* nothing is promised with collisions.                                    *)
NoCollisions == \A j, k \in Keys : KeyHash[j] = KeyHash[k] => j = k

(* A key whose last change is saved and that was read at the start has the *)
(* same entry in both tables; a process that does not run has nothing left *)
(* to save or to read.                                                     *)
SyncInv ==
  /\ proc = "running" =>
       \A k \in Keys \ (unsaved \cup unread) : bat[KeyHash[k]] = diskBat[KeyHash[k]]
  /\ proc # "running" => unsaved = {} /\ unread = {}

(* A store that has just been made holds nothing and promises nothing. *)
FreshInv ==
  /\ header = "absent" => proc \in {"down", "booting"}
  /\ proc = "creating" \/ header = "absent" =>
       diskBat = EmptyTable /\ promised = [k \in Keys |-> Absent]

(* A PUT that is about to be recorded has its bytes in the file. *)
WrittenInv ==
  put.phase = "record" /\ ~put.lost =>
    \A b \in PutExtent : content[b] = Piece(put.ver, put.numBytes, b - put.start)

PInv == SyncInv /\ FreshInv /\ WrittenInv /\ PromiseKept /\ Recoverable

-----------------------------------------------------------------------------
(* Lemmas on writes *)

(* Writing no block changes nothing. *)
LEMMA WrittenNone ==
  ASSUME IInv
  PROVE  Written(0) = content /\ Overwritten(0) = {}
<1>1. put.start \in Int /\ content \in [Blocks -> Pieces]
  BY DEF IInv, TypeOK, Puts
<1>2. Extent(put.start, 0) = {}
  BY <1>1 DEF Extent
<1>. QED BY <1>1, <1>2 DEF Written, Overwritten

(* Writing the PUT's blocks leaves all others as they are. *)
LEMMA WrittenElsewhere ==
  ASSUME IInv, NEW n \in Int, n <= NumDiskBlocks(put.numBytes),
         NEW b \in Blocks, b \notin PutExtent
  PROVE  Written(n)[b] = content[b]
<1>1. put.start \in Int /\ NumDiskBlocks(put.numBytes) \in Int
  BY NumDiskBlocksInt DEF IInv, TypeOK, Puts
<1>2. b \notin Extent(put.start, n)
  BY <1>1, MapSizeInt DEF PutExtent, Extent, Blocks
<1>. QED BY <1>2 DEF Written

(* The blocks of an entry lie inside the map. *)
LEMMA EntryBlocks ==
  ASSUME IInv, NEW k \in Keys
  PROVE  /\ KeyHash[k] \in Hashes
         /\ bat[KeyHash[k]] # NoEntry => EntryExtent(bat[KeyHash[k]]) \subseteq Blocks
         /\ diskBat[KeyHash[k]] # NoEntry => EntryExtent(diskBat[KeyHash[k]]) \subseteq Blocks
BY KeyHashAssumption DEF IInv, InMap, Owned

(* A PUT never writes to a block of another key.  In the file, that holds  *)
(* for the keys whose last change is saved and that were read.             *)
LEMMA OthersUntouched ==
  ASSUME IInv, PInv, NoCollisions, ~Idle, ~tainted,
         NEW n \in Int, n <= NumDiskBlocks(put.numBytes),
         NEW k \in Keys, k # put.key
  PROVE  /\ bat[KeyHash[k]] # NoEntry =>
              \A b \in EntryExtent(bat[KeyHash[k]]) : Written(n)[b] = content[b]
         /\ k \notin unsaved \cup unread => bat[KeyHash[k]] = diskBat[KeyHash[k]]
<1>1. put.key \in Keys /\ proc = "running"
  BY DEF IInv, TypeOK, Puts, MemInv
<1>2. KeyHash[k] \in Hashes \ Released
  BY <1>1, EntryBlocks DEF Released, PutHash, NoCollisions
<1>3. Owned(bat, KeyHash[k]) \cap PutExtent = {}
  BY <1>2 DEF IInv, Sound, PutInv
<1>4. ASSUME bat[KeyHash[k]] # NoEntry, NEW b \in EntryExtent(bat[KeyHash[k]])
      PROVE  Written(n)[b] = content[b]
  <2>1. b \in Blocks /\ b \notin PutExtent
    BY <1>3, <1>4, EntryBlocks DEF Owned
  <2>. QED BY <2>1, WrittenElsewhere
<1>. QED BY <1>1, <1>4 DEF PInv, SyncInv

(* The promises kept by a step that may write some of the PUT's blocks and *)
(* doubts its key if it does, with the tables left alone.  The keys it     *)
(* destroys because they were not read are dropped.                        *)
LEMMA WriteKeeps ==
  ASSUME IInv, PInv, NoCollisions, ~Idle, ~tainted,
         NEW n \in Int, n <= NumDiskBlocks(put.numBytes), content' = Written(n),
         dropped' = dropped \cup Overwritten(n),
         \A k \in Keys :
           \/ promised'[k] \in {promised[k], Unknown} /\ (k # put.key \/ n = 0)
           \/ promised'[k] = Unknown
           \/ promised'[k] = promised[k] /\ promised[k] = Absent
  PROVE  \A k \in Keys \ dropped' :
           promised'[k] # Unknown =>
             /\ (bat' = bat /\ k \notin unread) => Holds(bat, k, promised[k])'
             /\ (diskBat' = diskBat /\ header = "valid" /\ k \notin unsaved)
                  => Holds(diskBat, k, promised[k])'
<1>. SUFFICES ASSUME NEW k \in Keys, k \notin dropped', promised'[k] # Unknown
              PROVE  /\ (bat' = bat /\ k \notin unread) => Holds(bat, k, promised[k])'
                     /\ (diskBat' = diskBat /\ header = "valid" /\ k \notin unsaved)
                          => Holds(diskBat, k, promised[k])'
  OBVIOUS
<1>1. /\ promised'[k] = promised[k] /\ promised[k] # Unknown /\ proc = "running"
      /\ k \notin dropped
  BY DEF IInv, MemInv
<1>2. k \notin unread => Holds(bat, k, promised[k])
  BY <1>1 DEF PInv, PromiseKept
<1>3. (header = "valid" /\ k \notin unsaved) => Holds(diskBat, k, promised[k])
  BY <1>1 DEF PInv, Recoverable
<1>4. CASE promised[k] = Absent
  BY <1>1, <1>2, <1>3, <1>4 DEF Holds
<1>5. CASE k # put.key /\ k \notin unread
  <2>1. /\ bat[KeyHash[k]] # NoEntry =>
             \A b \in EntryExtent(bat[KeyHash[k]]) : content'[b] = content[b]
        /\ k \notin unsaved => bat[KeyHash[k]] = diskBat[KeyHash[k]]
    BY <1>5, OthersUntouched
  <2>. QED BY <1>1, <1>2, <1>3, <1>5, <2>1 DEF Holds
<1>6. CASE k \in unread
  <2>1. diskBat[KeyHash[k]] # NoEntry =>
          \A b \in EntryExtent(diskBat[KeyHash[k]]) : content'[b] = content[b]
    <3>. SUFFICES ASSUME diskBat[KeyHash[k]] # NoEntry, NEW b \in EntryExtent(diskBat[KeyHash[k]])
                  PROVE  content'[b] = content[b]
      OBVIOUS
    <3>1. b \in Blocks
      BY EntryBlocks
    <3>2. b \notin Extent(put.start, n)
      BY <1>6 DEF Overwritten, Owned
    <3>. QED BY <3>1, <3>2 DEF Written
  <2>. QED BY <1>1, <1>3, <1>6, <2>1 DEF Holds
<1>7. CASE n = 0
  <2>1. content' = content
    BY <1>7, WrittenNone
  <2>. QED BY <1>1, <1>2, <1>3, <2>1 DEF Holds
<1>. QED BY <1>1, <1>4, <1>5, <1>6, <1>7

-----------------------------------------------------------------------------
(* PInv holds initially, and every step keeps it *)

LEMMA InitPInv == Init => PInv
<1>. SUFFICES ASSUME Init PROVE PInv
  OBVIOUS
<1>1. SyncInv /\ FreshInv
  BY DEF Init, SyncInv, FreshInv
<1>2. WrittenInv
  BY NoPutFacts DEF Init, WrittenInv
<1>3. PromiseKept /\ Recoverable
  BY DEF Init, PromiseKept, Recoverable
<1>. QED BY <1>1, <1>2, <1>3 DEF PInv

(* Nothing that PInv speaks of changes. *)
LEMMA KeepsPromises ==
  ASSUME PInv,
         UNCHANGED <<proc, bat, put, header, diskBat, content>>,
         UNCHANGED <<promised, unsaved, unread, dropped>>, ~tainted' => ~tainted
  PROVE  PInv'
BY DEF PInv, SyncInv, FreshInv, WrittenInv, PromiseKept, Recoverable, Holds, PutExtent

(* Start-up: a new store promises nothing; an old one is loaded as it is,  *)
(* or not read and left as it is.                                          *)
LEMMA BootKeeps ==
  ASSUME IInv, PInv, Start \/ Boot \/ BootFails
  PROVE  PInv'
<1>1. CASE Start
  <2>1. /\ proc = "down" /\ proc' = "booting"
        /\ UNCHANGED <<bat, put, header, diskBat, content, promised, unsaved, unread, dropped, tainted>>
    BY <1>1 DEF Start, memory, file, ghosts
  <2>. QED BY <2>1 DEF PInv, SyncInv, FreshInv, WrittenInv, PromiseKept, Recoverable,
           Holds, PutExtent
<1>2. CASE RemoveStore
  <2>1. /\ proc = "booting" /\ proc' = proc /\ header' = "absent" /\ put' = put
        /\ diskBat' = EmptyTable /\ promised' = [k \in Keys |-> Absent] /\ UNCHANGED <<unsaved, unread>>
    BY <1>2 DEF RemoveStore, memory
  <2>2. put.phase = "none"
    BY <2>1 DEF IInv, MemInv, Idle
  <2>. QED BY <2>1, <2>2 DEF PInv, SyncInv, FreshInv, WrittenInv, PromiseKept, Recoverable
<1>3. CASE CreateStoreFile
  <2>1. /\ proc = "booting" /\ proc' = "creating" /\ header = "absent" /\ header' = "blank"
        /\ UNCHANGED <<put, diskBat, content, promised, unsaved, unread, dropped, tainted>>
    BY <1>3 DEF CreateStoreFile, memory, ghosts
  <2>. QED BY <2>1 DEF PInv, SyncInv, FreshInv, WrittenInv, PromiseKept, Recoverable, PutExtent
<1>4. CASE WriteHeader \/ WriteHeaderFails
  <2>1. /\ proc = "creating" /\ proc' = "running" /\ header' \in {"valid", header}
        /\ UNCHANGED <<bat, put, diskBat, content, promised, unsaved, unread, dropped, tainted>>
    BY <1>4 DEF WriteHeader, WriteHeaderFails, memory, file, ghosts
  <2>2. bat = EmptyTable /\ diskBat = EmptyTable /\ promised = [k \in Keys |-> Absent]
        /\ header # "absent" /\ put.phase = "none"
    BY <2>1 DEF PInv, FreshInv, IInv, MemInv, Idle
  <2>3. \A k \in Keys : Holds(EmptyTable, k, Absent)'
    BY KeyHashAssumption DEF Holds, EmptyTable
  <2>4. PromiseKept' /\ Recoverable'
    BY <2>1, <2>2, <2>3 DEF PromiseKept, Recoverable, Holds
  <2>. QED BY <2>1, <2>2, <2>4 DEF PInv, SyncInv, FreshInv, WrittenInv
<1>5. CASE LoadStore
  <2>1. /\ proc = "booting" /\ proc' = "running" /\ header = "valid" /\ bat' = diskBat
        /\ UNCHANGED <<put, header, diskBat, content, promised, unsaved, unread, dropped, tainted>>
    BY <1>5 DEF LoadStore, file, ghosts
  <2>2. unsaved = {} /\ unread = {} /\ put.phase = "none"
    BY <2>1 DEF PInv, SyncInv, IInv, MemInv, Idle
  <2>. QED BY <2>1, <2>2 DEF PInv, SyncInv, FreshInv, WrittenInv, PromiseKept, Recoverable, Holds
<1>6. CASE LoadBlankStore \/ LoadHeaderFails \/ StartFails
  <2>1. /\ proc = "booting" /\ proc' \in {"down", "astray"}
        /\ header # "absent" \/ proc' = "down"
        /\ UNCHANGED <<bat, put, header, diskBat, content, promised, unsaved, unread, dropped, tainted>>
    BY <1>6 DEF LoadBlankStore, LoadHeaderFails, StartFails, GarbageHeader, memory, file, ghosts
  <2>. QED BY <2>1 DEF PInv, SyncInv, FreshInv, WrittenInv, PromiseKept, Recoverable,
           Holds, PutExtent
<1>7. CASE LoadTableFails
  <2>1. /\ proc = "booting" /\ proc' = "running" /\ header = "valid"
        /\ unread' = {k \in Keys : diskBat[KeyHash[k]] # NoEntry}
        /\ UNCHANGED <<bat, put, header, diskBat, content, promised, unsaved, dropped, tainted>>
    BY <1>7 DEF LoadTableFails, memory, file
  <2>2. unsaved = {} /\ put.phase = "none" /\ bat = EmptyTable
    BY <2>1 DEF PInv, SyncInv, IInv, MemInv, Idle
  <2>3. \A k \in Keys \ unread' : bat[KeyHash[k]] = NoEntry /\ diskBat[KeyHash[k]] = NoEntry
    BY <2>1, <2>2, KeyHashAssumption DEF EmptyTable
  <2>4. SyncInv' /\ FreshInv' /\ WrittenInv' /\ Recoverable'
    BY <2>1, <2>2, <2>3 DEF PInv, SyncInv, FreshInv, WrittenInv, Recoverable, Holds
  <2>5. PromiseKept'
    BY <2>1, <2>2, <2>3 DEF PInv, PromiseKept, Recoverable, Holds
  <2>. QED BY <2>4, <2>5 DEF PInv
<1>. QED BY <1>1, <1>2, <1>3, <1>4, <1>5, <1>6, <1>7 DEF Boot, BootFails

(* A PUT that looks for space changes no file and no table. *)
LEMMA FindSpaceKeeps ==
  ASSUME IInv, PInv, NEW k \in Keys, NEW n \in Sizes, PutFindSpace(k, n) \/ PutNoSpace(k, n)
  PROVE  PInv'
<1>1. /\ UNCHANGED <<proc, bat, header, diskBat, content, promised, unsaved, unread, dropped>>
      /\ ~tainted' => ~tainted
      /\ put'.phase \in {"none", "write"} \/ put' = put
      /\ put.phase = "none"
  <2>1. CASE PutFindSpace(k, n)
    BY <2>1 DEF PutFindSpace, file, ghosts, Serving, Idle
  <2>2. CASE PutNoSpace(k, n)
    BY <2>2 DEF PutNoSpace, file, Serving, Idle, IInv, TypeOK
  <2>. QED BY <2>1, <2>2
<1>. QED BY <1>1 DEF PInv, SyncInv, FreshInv, WrittenInv, PromiseKept, Recoverable, Holds

(* The PUT's bytes reach the file, or are lost without anyone noticing.    *)
LEMMA PutWriteKeeps ==
  ASSUME IInv, PInv, NoCollisions, PutWrite \/ PutWriteLost
  PROVE  PInv'
<1>1. CASE PutWriteLost
  <2>1. /\ UNCHANGED <<proc, bat, header, diskBat, content>>
        /\ UNCHANGED <<promised, unsaved, unread, dropped, tainted>>
        /\ put'.lost
    BY <1>1 DEF PutWriteLost, file, ghosts, IInv, TypeOK, Puts
  <2>. QED BY <2>1 DEF PInv, SyncInv, FreshInv, WrittenInv, PromiseKept, Recoverable, Holds
<1>2. CASE PutWrite
  <2>. DEFINE m == NumDiskBlocks(put.numBytes)
  <2>1. /\ put \in Puts /\ ~Idle /\ proc = "running"
        /\ m \in Int /\ m <= m /\ content' = Written(m) /\ promised' = Doubt({put.key})
        /\ dropped' = dropped \cup Overwritten(m)
        /\ UNCHANGED <<proc, bat, header, diskBat, unsaved, unread, tainted>>
    BY <1>2, NumDiskBlocksInt DEF PutWrite, IInv, TypeOK, MemInv, Puts, Idle
  <2>2. /\ put'.ver = put.ver /\ put'.numBytes = put.numBytes /\ put'.start = put.start
    BY <1>2, <2>1 DEF PutWrite, Puts
  <2>3. WrittenInv'
    <3>1. PutExtent' = PutExtent /\ PutExtent = Extent(put.start, m) /\ PutExtent \subseteq Blocks
      BY <2>1, <2>2 DEF PutExtent, IInv, PutInv
    <3>2. \A b \in PutExtent : Written(m)[b] = Piece(put.ver, put.numBytes, b - put.start)
      BY <3>1 DEF Written
    <3>. QED BY <2>1, <2>2, <3>1, <3>2 DEF WrittenInv
  <2>4. \A k \in Keys :
           \/ promised'[k] \in {promised[k], Unknown} /\ (k # put.key \/ m = 0)
           \/ promised'[k] = Unknown
           \/ promised'[k] = promised[k] /\ promised[k] = Absent
    BY <2>1 DEF Doubt
  <2>5. ASSUME ~tainted PROVE PromiseKept' /\ Recoverable'
    <3>1. \A k \in Keys \ dropped' :
           promised'[k] # Unknown =>
             /\ (bat' = bat /\ k \notin unread) => Holds(bat, k, promised[k])'
             /\ (diskBat' = diskBat /\ header = "valid" /\ k \notin unsaved)
                  => Holds(diskBat, k, promised[k])'
      BY <2>1, <2>4, <2>5, WriteKeeps
    <3>. QED BY <2>1, <3>1 DEF PromiseKept, Recoverable
  <2>6. SyncInv' /\ FreshInv'
    BY <2>1 DEF PInv, SyncInv, FreshInv
  <2>. QED BY <2>1, <2>3, <2>5, <2>6 DEF PInv, PromiseKept, Recoverable
<1>. QED BY <1>1, <1>2

(* A PUT that is abandoned may have written some of its blocks.            *)
LEMMA AbandonKeeps ==
  ASSUME IInv, PInv, NoCollisions, NEW n \in Nat,
         PutOpenFails \/ PutWriteFails(n) \/ PutStuck
  PROVE  PInv'
<1>1. /\ put' = NoPut /\ ~Idle /\ proc = "running"
      /\ UNCHANGED <<proc, bat, header, diskBat, unsaved, unread, tainted>>
  BY DEF PutOpenFails, PutWriteFails, PutStuck, PutAbandon, file, ghosts, IInv, MemInv, Idle
<1>2. PICK m \in Nat :
        /\ m <= NumDiskBlocks(put.numBytes) /\ content' = Written(m)
        /\ promised' = IF m = 0 THEN promised ELSE Doubt({put.key})
        /\ dropped' = dropped \cup Overwritten(m)
  <2>1. CASE PutWriteFails(n)
    BY <2>1 DEF PutWriteFails
  <2>2. CASE PutOpenFails \/ PutStuck
    <3>1. content' = content /\ promised' = promised /\ dropped' = dropped
      BY <2>2 DEF PutOpenFails, PutStuck, file, ghosts
    <3>2. 0 <= NumDiskBlocks(put.numBytes) /\ 0 \in Nat
      BY BlockSizeAssumption DEF NumDiskBlocks, CeilDiv, IInv, TypeOK, Puts
    <3>. QED BY <3>1, <3>2, WrittenNone
  <2>. QED BY <2>1, <2>2
<1>3. \A k \in Keys :
        \/ promised'[k] \in {promised[k], Unknown} /\ (k # put.key \/ m = 0)
        \/ promised'[k] = Unknown
        \/ promised'[k] = promised[k] /\ promised[k] = Absent
  BY <1>2 DEF Doubt
<1>4. ASSUME ~tainted PROVE PromiseKept' /\ Recoverable'
  <2>1. \A k \in Keys \ dropped' :
         promised'[k] # Unknown =>
           /\ (bat' = bat /\ k \notin unread) => Holds(bat, k, promised[k])'
           /\ (diskBat' = diskBat /\ header = "valid" /\ k \notin unsaved)
                => Holds(diskBat, k, promised[k])'
    BY <1>1, <1>2, <1>3, <1>4, WriteKeeps
  <2>. QED BY <1>1, <2>1 DEF PromiseKept, Recoverable
<1>5. SyncInv' /\ FreshInv' /\ WrittenInv'
  BY <1>1, NoPutFacts DEF PInv, SyncInv, FreshInv, WrittenInv
<1>. QED BY <1>1, <1>4, <1>5 DEF PInv, PromiseKept, Recoverable

(* A recorded PUT answers for its key, and changes no other entry.         *)
LEMMA CommitKeeps ==
  ASSUME IInv, PInv, NoCollisions, PutCommit \/ PutCommitUnsaved
  PROVE  PInv'
<1>1. /\ put \in Puts /\ put.key \in Keys /\ PutHash = KeyHash[put.key] /\ PutHash \in Hashes
      /\ proc = "running" /\ put.phase = "record" /\ put.ver # Absent /\ bat \in Tables
  BY KeyHashAssumption
     DEF PutCommit, PutCommitUnsaved, IInv, TypeOK, MemInv, PutInv, Idle, PutHash, Puts,
         Versions, Absent
<1>2. /\ bat' = [bat EXCEPT ![PutHash] = RecordedEntry] /\ put' = NoPut
      /\ promised' = [promised EXCEPT ![put.key] = put.ver]
      /\ UNCHANGED <<proc, header, content, tainted>>
  BY DEF PutCommit, PutCommitUnsaved, PutRecord, file
<1>3. RecordedEntry # NoEntry
  <2>1. RecordedEntry \in Entries
    BY <1>1 DEF RecordedEntry, Entries, Puts, Tables
  <2>. QED BY <2>1, NoEntryAssumption
<1>4. /\ bat'[PutHash] = RecordedEntry
      /\ \A k \in Keys \ {put.key} : /\ bat'[KeyHash[k]] = bat[KeyHash[k]]
                                    /\ promised'[k] = promised[k]
  BY <1>1, <1>2, KeyHashAssumption DEF NoCollisions, Tables, IInv, TypeOK
<1>5. ~tainted => \A k \in Keys \ (unread' \cup dropped') :
                    promised'[k] # Unknown => Holds(bat, k, promised[k])'
  <2>. SUFFICES ASSUME ~tainted, NEW k \in Keys, k \notin unread', k \notin dropped',
                       promised'[k] # Unknown
                PROVE  Holds(bat, k, promised[k])'
    OBVIOUS
  <2>1. CASE k = put.key
    <3>1. promised'[k] = put.ver /\ ~put.lost
      BY <1>1, <1>2, <2>1 DEF IInv, TypeOK, PutCommit, PutCommitUnsaved, Dropping
    <3>2. RecordedEntry.numBytes = put.numBytes /\ RecordedEntry.start = put.start
          /\ EntryExtent(RecordedEntry) = PutExtent
      BY DEF RecordedEntry, EntryExtent, PutExtent
    <3>3. \A b \in PutExtent : content[b] = Piece(put.ver, put.numBytes, b - put.start)
      BY <1>1, <3>1 DEF PInv, WrittenInv
    <3>. QED BY <1>1, <1>2, <1>3, <1>4, <2>1, <3>1, <3>2, <3>3 DEF Holds
  <2>2. CASE k # put.key
    <3>1. k \notin unread /\ k \notin dropped
      BY <2>2 DEF PutCommit, PutCommitUnsaved, Dropping
    <3>2. Holds(bat, k, promised[k])
      BY <1>1, <1>4, <2>2, <3>1 DEF PInv, PromiseKept
    <3>. QED BY <1>2, <1>4, <2>2, <3>2 DEF Holds
  <2>. QED BY <2>1, <2>2
<1>6. WrittenInv'
  BY <1>2, NoPutFacts DEF WrittenInv
<1>7. CASE PutCommit
  <2>1. diskBat' = bat' /\ unsaved' = {} /\ unread' = {}
    BY <1>7 DEF PutCommit
  <2>2. SyncInv' /\ FreshInv' /\ PromiseKept' /\ Recoverable'
    BY <1>1, <1>2, <1>5, <2>1 DEF PInv, SyncInv, FreshInv, PromiseKept, Recoverable, Holds
  <2>. QED BY <1>6, <2>2 DEF PInv
<1>8. CASE PutCommitUnsaved
  <2>1. /\ diskBat' = diskBat /\ unsaved' = unsaved \cup {put.key}
        /\ unread' = unread \ {put.key}
        /\ \A k \in Keys \ {put.key} : k \in dropped' <=> k \in dropped
    BY <1>8 DEF PutCommitUnsaved, Dropping, file
  <2>2. SyncInv' /\ FreshInv'
    BY <1>1, <1>2, <1>4, <2>1 DEF PInv, SyncInv, FreshInv
  <2>3. PromiseKept'
    BY <1>2, <1>5 DEF PromiseKept
  <2>4. Recoverable'
    BY <1>2, <1>4, <2>1 DEF PInv, Recoverable, Holds
  <2>. QED BY <1>6, <2>2, <2>3, <2>4 DEF PInv
<1>. QED BY <1>7, <1>8

(* A deleted key misses, and may come back until the table is written.     *)
LEMMA DeleteKeeps ==
  ASSUME IInv, PInv, NoCollisions, NEW k \in Keys, DeleteBlocks(k)
  PROVE  PInv'
<1>1. /\ bat' = [bat EXCEPT ![KeyHash[k]] = NoEntry]
      /\ promised' = [promised EXCEPT ![k] = Absent]
      /\ unsaved' = unsaved \cup {k} /\ proc = "running" /\ put.phase = "none"
      /\ dropped' = dropped \ {k}
      /\ UNCHANGED <<proc, put, header, diskBat, content, unread, tainted>>
  BY DEF DeleteBlocks, file, Serving, Idle
<1>2. /\ bat'[KeyHash[k]] = NoEntry /\ promised'[k] = Absent
      /\ \A j \in Keys \ {k} : bat'[KeyHash[j]] = bat[KeyHash[j]] /\ promised'[j] = promised[j]
  BY <1>1, KeyHashAssumption DEF NoCollisions, IInv, TypeOK, Tables
<1>3. SyncInv' /\ FreshInv' /\ WrittenInv'
  BY <1>1, <1>2 DEF PInv, SyncInv, FreshInv, WrittenInv
<1>4. PromiseKept'
  BY <1>1, <1>2 DEF PInv, PromiseKept, Holds
<1>5. Recoverable'
  BY <1>1, <1>2 DEF PInv, Recoverable, Holds
<1>. QED BY <1>3, <1>4, <1>5 DEF PInv

(* A crash leaves the file, which keeps every promise that was saved.      *)
LEMMA CrashKeeps ==
  ASSUME IInv, PInv, NoCollisions, NEW n \in Nat, Crash(n)
  PROVE  PInv'
<1>. DEFINE D == Doubt(IF n > 0 \/ put.phase = "record" THEN {put.key} ELSE {})
<1>1. /\ proc' = "down" /\ put' = NoPut /\ content' = Written(n)
      /\ unsaved' = {} /\ unread' = {} /\ dropped' = dropped \cup Overwritten(n)
      /\ promised' = [k \in Keys |-> IF k \in unsaved THEN Unknown ELSE D[k]]
      /\ UNCHANGED <<header, diskBat, tainted>>
  BY DEF Crash
<1>2. /\ n = 0 \/ (put.phase = "write" /\ n <= NumDiskBlocks(put.numBytes))
      /\ put.phase = "none" => n = 0
  BY DEF Crash
<1>3. \A k \in Keys :
        \/ k \in unsaved /\ promised'[k] = Unknown
        \/ k \notin unsaved /\ promised'[k] = D[k]
  BY <1>1
<1>4. \A k \in Keys :
        \/ promised'[k] = promised[k] /\ (k # put.key \/ n = 0)
        \/ promised'[k] = Unknown
        \/ promised'[k] = promised[k] /\ promised[k] = Absent
  BY <1>3 DEF Doubt
<1>5. WrittenInv' /\ SyncInv'
  BY <1>1, NoPutFacts DEF WrittenInv, SyncInv
<1>6. FreshInv'
  <2>. SUFFICES ASSUME header = "absent"
                PROVE  promised' = [k \in Keys |-> Absent]
    BY <1>1 DEF PInv, FreshInv
  <2>1. promised = [k \in Keys |-> Absent] /\ unsaved = {}
    BY DEF PInv, FreshInv, SyncInv
  <2>2. \A k \in Keys : D[k] = Absent
    BY <2>1 DEF Doubt
  <2>. QED BY <1>1, <2>1, <2>2
<1>7. PromiseKept'
  BY <1>1 DEF PromiseKept
<1>8. Recoverable'
  <2>. SUFFICES ASSUME header = "valid", ~tainted, NEW k \in Keys, k \notin dropped',
                       promised'[k] # Unknown
                PROVE  Holds(diskBat, k, promised[k])'
    BY <1>1 DEF Recoverable
  <2>1. k \notin unsaved /\ promised'[k] = promised[k]
    BY <1>3, <1>4
  <2>2. CASE Idle
    <3>1. content' = content
      BY <1>1, <1>2, <2>2, WrittenNone DEF Idle
    <3>2. Holds(diskBat, k, promised[k])
      BY <1>1, <2>1 DEF PInv, Recoverable
    <3>. QED BY <1>1, <2>1, <3>1, <3>2 DEF Holds
  <2>3. CASE ~Idle
    <3>1. n <= NumDiskBlocks(put.numBytes)
      BY <1>2, BlockSizeAssumption DEF NumDiskBlocks, CeilDiv, IInv, TypeOK, Puts
    <3>2. (diskBat' = diskBat /\ header = "valid" /\ k \notin unsaved)
            => Holds(diskBat, k, promised[k])'
      BY <1>1, <1>4, <2>3, <3>1, WriteKeeps
    <3>. QED BY <1>1, <2>1, <3>2
  <2>. QED BY <2>2, <2>3
<1>. QED BY <1>5, <1>6, <1>7, <1>8 DEF PInv

-----------------------------------------------------------------------------
LEMMA NextPInv == NoCollisions /\ IInv /\ PInv /\ [Next]_vars => PInv'
<1>. SUFFICES ASSUME NoCollisions, IInv, PInv, [Next]_vars PROVE PInv'
  OBVIOUS
<1>1. CASE Start \/ Boot \/ BootFails
  BY <1>1, BootKeeps
<1>2. CASE \E k \in Keys, n \in Sizes : PutFindSpace(k, n) \/ PutNoSpace(k, n)
  BY <1>2, FindSpaceKeeps
<1>3. CASE PutWrite \/ PutWriteLost
  BY <1>3, PutWriteKeeps
<1>4. CASE PutStuck \/ PutOpenFails
  <2>1. 0 \in Nat
    OBVIOUS
  <2>. QED BY <1>4, <2>1, AbandonKeeps
<1>5. CASE PutCommit \/ PutCommitUnsaved
  BY <1>5, CommitKeeps
<1>6. CASE \E k \in Keys : DeleteBlocks(k)
  BY <1>6, DeleteKeeps
<1>7. CASE (\E k \in Keys : ReadFails(k)) \/ UNCHANGED vars
  <2>1. /\ UNCHANGED <<proc, bat, put, header, diskBat, content>>
        /\ UNCHANGED <<promised, unsaved, unread, dropped, tainted>>
    BY <1>7 DEF ReadFails, vars, memory, file, ghosts
  <2>. QED BY <2>1, KeepsPromises
<1>8. CASE \E n \in 0 .. MaxBlocksPerPut : PutWriteFails(n) \/ Crash(n)
  <2>1. PICK n \in 0 .. MaxBlocksPerPut : PutWriteFails(n) \/ Crash(n)
    BY <1>8
  <2>2. n \in Nat
    OBVIOUS
  <2>. QED BY <2>1, <2>2, AbandonKeeps, CrashKeeps
<1>. QED BY <1>1, <1>2, <1>3, <1>4, <1>5, <1>6, <1>7, <1>8 DEF Next, PutStep

LEMMA SpecPInv == ASSUME NoCollisions PROVE Spec => []PInv
BY InitPInv, NextPInv, SpecIInv, PTL DEF Spec

(* Every GET answers with the last acknowledged PUT of its own key, or     *)
(* misses if there is none (readBlocks), through overwrites, the reuse of  *)
(* freed blocks, failing file operations, crashes and restarts, for all    *)
(* keys but those the code has failed without telling: the key of a PUT    *)
(* whose bytes were lost in close(), and what readBAT could not read at a  *)
(* start.  Such a failure, however often it happens, costs no other key.   *)
THEOREM PromisesAreKept == ASSUME NoCollisions PROVE Spec => []PromiseKept
<1>1. PInv => PromiseKept
  BY DEF PInv
<1>. QED BY <1>1, SpecPInv, PTL

(* Whenever the process ends, the file alone keeps every promise whose     *)
(* change was written to its table (readBAT, populateFreeSpaceMapFromFile):*)
(* also those of keys that this process could not read, as long as none of *)
(* its PUTs has overwritten their blocks or the table, and but for a PUT   *)
(* whose bytes were lost in close().                                       *)
THEOREM FileIsEnough == ASSUME NoCollisions PROVE Spec => []Recoverable
<1>1. PInv => Recoverable
  BY DEF PInv
<1>. QED BY <1>1, SpecPInv, PTL

-----------------------------------------------------------------------------
(***************************************************************************)
(* A storage node implements DurableMap.                                   *)
(***************************************************************************)

(* Every version is written at one place only, that of its PUT. *)
HomeInv ==
  /\ \A b \in Blocks : content[b].ver < nextVer /\ content[b].ver \in Versions \cup {0}
  /\ \A b, c \in Blocks :
       content[b].ver = content[c].ver /\ content[b].ver # 0
         => b - content[b].i = c - content[c].i
  /\ ~Idle => /\ put.ver < nextVer
              /\ \A b \in Blocks : content[b].ver = put.ver => b - content[b].i = put.start

RInv == IInv /\ PInv /\ NonEmptyInv /\ HomeInv

-----------------------------------------------------------------------------
(* HomeInv is an invariant *)

LEMMA InitHome == Init => HomeInv
BY NoPutFacts DEF Init, HomeInv, BlankPiece, Piece, Idle

(* What the PUT writes is its own version, at its own place. *)
LEMMA WrittenHome ==
  ASSUME IInv, HomeInv, ~Idle, NEW n \in Int, content' = Written(n), nextVer' = nextVer
  PROVE  /\ \A b \in Blocks : content'[b].ver < nextVer /\ content'[b].ver \in Versions \cup {0}
         /\ \A b, c \in Blocks :
              content'[b].ver = content'[c].ver /\ content'[b].ver # 0
                => b - content'[b].i = c - content'[c].i
         /\ put.ver < nextVer
         /\ \A b \in Blocks : content'[b].ver = put.ver => b - content'[b].i = put.start
<1>1. /\ put.start \in Int /\ put.ver \in Versions /\ put.ver < nextVer
      /\ content \in [Blocks -> Pieces]
  BY DEF IInv, TypeOK, PutInv, HomeInv, Puts
<1>2. \A b \in Blocks : b \in Int
  BY MapSizeInt DEF Blocks
<1>3. ASSUME NEW b \in Blocks
      PROVE  \/ content'[b] = content[b]
             \/ content'[b].ver = put.ver /\ content'[b].i = b - put.start
  BY DEF Written, Piece
<1>4. ASSUME NEW b \in Blocks
      PROVE  /\ content'[b].ver < nextVer /\ content'[b].ver \in Versions \cup {0}
             /\ content'[b].ver = put.ver => b - content'[b].i = put.start
  BY <1>1, <1>2, <1>3 DEF HomeInv
<1>5. ASSUME NEW b \in Blocks, NEW c \in Blocks,
             content'[b].ver = content'[c].ver, content'[b].ver # 0
      PROVE  b - content'[b].i = c - content'[c].i
  <2>1. CASE content'[b].ver = put.ver
    BY <1>4, <1>5, <2>1
  <2>2. CASE content'[b].ver # put.ver
    BY <1>3, <1>5, <2>2 DEF HomeInv
  <2>. QED BY <2>1, <2>2
<1>. QED BY <1>1, <1>4, <1>5

LEMMA HomeStep == IInv /\ HomeInv /\ [Next]_vars => HomeInv'
<1>. SUFFICES ASSUME IInv, HomeInv, [Next]_vars PROVE HomeInv'
  OBVIOUS
<1>1. nextVer \in Nat /\ put \in Puts /\ NoPut.phase = "none"
  BY NoPutFacts DEF IInv, TypeOK
<1>2. NumDiskBlocks(put.numBytes) \in Int
  BY <1>1, NumDiskBlocksInt DEF Puts
<1>3. CASE \/ Start \/ CreateStoreFile \/ WriteHeader \/ LoadStore \/ LoadBlankStore
           \/ BootFails \/ PutWriteLost \/ PutOpenFails \/ PutStuck \/ PutCommit
           \/ PutCommitUnsaved \/ UNCHANGED vars
           \/ \E k \in Keys : DeleteBlocks(k) \/ ReadFails(k)
           \/ \E k \in Keys, n \in Sizes : PutNoSpace(k, n)
  <2>1. content' = content /\ nextVer' = nextVer
    BY <1>3 DEF Start, CreateStoreFile, WriteHeader, LoadStore, LoadBlankStore,
       BootFails, StartFails, WriteHeaderFails, LoadTableFails, LoadHeaderFails,
       PutWriteLost, PutOpenFails, PutStuck, PutCommit, PutCommitUnsaved,
       DeleteBlocks, ReadFails, PutNoSpace, vars, memory, file, bounds
  <2>2. Idle' \/ (~Idle /\ put'.ver = put.ver /\ put'.start = put.start)
    BY <1>1, <1>3 DEF Start, CreateStoreFile, WriteHeader, LoadStore, LoadBlankStore,
       BootFails, StartFails, WriteHeaderFails, LoadTableFails, LoadHeaderFails,
       PutWriteLost, PutOpenFails, PutStuck, PutCommit, PutCommitUnsaved,
       DeleteBlocks, ReadFails, PutNoSpace, vars, memory, Idle, PutAbandon, PutRecord, Puts
  <2>. QED BY <2>1, <2>2 DEF HomeInv
<1>4. CASE RemoveStore
  <2>1. /\ content' = [b \in Blocks |-> BlankPiece] /\ nextVer' = nextVer /\ put' = put
        /\ proc = "booting"
    BY <1>4 DEF RemoveStore, bounds, memory
  <2>2. Idle'
    BY <2>1 DEF IInv, MemInv, Idle
  <2>3. nextVer > 0
    BY DEF IInv, TypeOK
  <2>. QED BY <2>1, <2>2, <2>3 DEF HomeInv, BlankPiece, Piece
<1>5. CASE \E k \in Keys, n \in Sizes : PutFindSpace(k, n)
  <2>1. /\ content' = content /\ nextVer' = nextVer + 1 /\ put'.ver = nextVer
    BY <1>5 DEF PutFindSpace, file
  <2>2. \A b \in Blocks : content[b].ver \in Nat /\ content[b].ver < nextVer
    BY DEF IInv, TypeOK, HomeInv, Pieces
  <2>. QED BY <1>1, <2>1, <2>2 DEF HomeInv
<1>6. CASE PutWrite
  <2>1. /\ content' = Written(NumDiskBlocks(put.numBytes)) /\ nextVer' = nextVer /\ ~Idle
        /\ put'.ver = put.ver /\ put'.start = put.start
    BY <1>1, <1>6 DEF PutWrite, Idle, bounds, Puts
  <2>. QED BY <1>2, <2>1, WrittenHome DEF HomeInv
<1>7. CASE \E n \in 0 .. MaxBlocksPerPut : PutWriteFails(n)
  <2>1. PICK n \in 0 .. MaxBlocksPerPut : PutWriteFails(n)
    BY <1>7
  <2>2. n \in Int /\ content' = Written(n) /\ nextVer' = nextVer /\ ~Idle /\ Idle'
    BY <1>1, <2>1 DEF PutWriteFails, PutAbandon, Idle
  <2>. QED BY <2>2, WrittenHome DEF HomeInv
<1>8. CASE \E n \in 0 .. MaxBlocksPerPut : Crash(n)
  <2>1. PICK n \in 0 .. MaxBlocksPerPut : Crash(n)
    BY <1>8
  <2>2. n \in Int /\ content' = Written(n) /\ nextVer' = nextVer /\ Idle'
    BY <1>1, <2>1 DEF Crash, Idle
  <2>3. CASE Idle
    <3>1. n = 0
      BY <2>1, <2>3 DEF Crash, Idle
    <3>2. content' = content
      BY <2>2, <3>1, WrittenNone
    <3>. QED BY <2>2, <3>2 DEF HomeInv
  <2>4. CASE ~Idle
    BY <2>2, <2>4, WrittenHome DEF HomeInv
  <2>. QED BY <2>3, <2>4
<1>. QED BY <1>3, <1>4, <1>5, <1>6, <1>7, <1>8 DEF Next, Boot, PutStep

LEMMA SpecRInv == ASSUME NoCollisions PROVE Spec => []RInv
<1>1. Init => NonEmptyInv
  BY NoPutFacts DEF Init, NonEmptyInv, AllNonEmpty, EmptyTable, Idle
<1>2. IInv /\ PInv /\ NonEmptyInv /\ HomeInv => RInv
  BY DEF RInv
<1>. QED BY <1>1, <1>2, SpecIInv, SpecPInv, NonEmptyStep, InitHome, HomeStep, PTL DEF Spec

-----------------------------------------------------------------------------
(* What a key reads as *)

(* An entry's first block lies in the map, and is the first of its blocks. *)
LEMMA FirstBlockOfEntry ==
  ASSUME RInv, NEW table, table = bat \/ table = diskBat, NEW k \in Keys,
         table[KeyHash[k]] # NoEntry
  PROVE  /\ table[KeyHash[k]].start \in EntryExtent(table[KeyHash[k]])
         /\ EntryExtent(table[KeyHash[k]]) \subseteq Blocks
<1>1. KeyHash[k] \in Hashes /\ table \in Tables
  BY KeyHashAssumption DEF RInv, IInv, TypeOK
<1>2. table[KeyHash[k]] \in Entries /\ table[KeyHash[k]].numBytes > 0
  BY <1>1 DEF Tables, RInv, NonEmptyInv, AllNonEmpty
<1>3. /\ NumDiskBlocks(table[KeyHash[k]].numBytes) >= 1
      /\ NumDiskBlocks(table[KeyHash[k]].numBytes) \in Int
      /\ table[KeyHash[k]].start \in Nat
  BY <1>2, BlocksNeeded, NumDiskBlocksInt DEF Entries
<1>4. EntryExtent(table[KeyHash[k]]) \subseteq Blocks
  BY EntryBlocks DEF RInv
<1>. QED BY <1>3, <1>4 DEF EntryExtent, Extent

(* A key reads as a version, as nothing, or as torn; as nothing if it has  *)
(* no entry.                                                               *)
LEMMA ReadsType ==
  ASSUME RInv, NEW table, table = bat \/ table = diskBat, NEW k \in Keys
  PROVE  /\ Reads(table, k) \in Versions \cup {Absent, Unknown}
         /\ Reads(table, k) = Absent <=> table[KeyHash[k]] = NoEntry
<1>1. CASE table[KeyHash[k]] = NoEntry
  BY <1>1 DEF Reads
<1>2. CASE table[KeyHash[k]] # NoEntry
  <2>1. table[KeyHash[k]].start \in Blocks
    BY <1>2, FirstBlockOfEntry
  <2>2. content[table[KeyHash[k]].start].ver \in Versions \cup {0}
    BY <2>1 DEF RInv, HomeInv
  <2>. QED BY <1>2, <2>2 DEF Reads, Absent, Unknown, Versions
<1>. QED BY <1>1, <1>2

ReadsTyped ==
  \A k \in Keys :
    /\ Reads(bat, k) \in Versions \cup {Absent, Unknown}
    /\ Reads(diskBat, k) \in Versions \cup {Absent, Unknown}
    /\ Reads(bat, k) = Absent <=> bat[KeyHash[k]] = NoEntry
    /\ Reads(diskBat, k) = Absent <=> diskBat[KeyHash[k]] = NoEntry

LEMMA RInvReadsTyped == RInv => ReadsTyped
BY ReadsType DEF ReadsTyped

(* What the first block of an entry that reads as a version holds. *)
LEMMA ReadsVersion ==
  ASSUME RInv, NEW table, table = bat \/ table = diskBat, NEW k \in Keys,
         Reads(table, k) \in Versions
  PROVE  LET e == table[KeyHash[k]]
             p == content[e.start]
         IN  /\ e # NoEntry /\ e.start \in EntryExtent(e) /\ e.start \in Blocks
             /\ p.ver = Reads(table, k) /\ p.numBytes = e.numBytes /\ p.i = 0
<1>. DEFINE e == table[KeyHash[k]]
            p == content[e.start]
<1>1. Reads(table, k) # Unknown /\ Reads(table, k) # Absent
  BY DEF Versions, Unknown, Absent
<1>2. e # NoEntry
  BY <1>1, ReadsType
<1>3. e.start \in EntryExtent(e) /\ e.start \in Blocks
  BY <1>2, FirstBlockOfEntry
<1>4. p \in Pieces /\ e.start \in Int
  BY <1>3, MapSizeInt DEF RInv, IInv, TypeOK, Blocks
<1>5. /\ p.ver = Reads(table, k) /\ p.numBytes = e.numBytes
      /\ \A b \in EntryExtent(e) : content[b] = [p EXCEPT !.i = b - e.start]
  BY <1>1, <1>2 DEF Reads
<1>6. p = [p EXCEPT !.i = e.start - e.start]
  BY <1>3, <1>5
<1>7. p.i = 0
  BY <1>4, <1>6 DEF Pieces
<1>. QED BY <1>2, <1>3, <1>5, <1>7

(* If a key reads as the same version from memory and from the file, it is *)
(* read from the same blocks.                                              *)
LEMMA SameBlocks ==
  ASSUME RInv, NEW k \in Keys, Reads(bat, k) = Reads(diskBat, k),
         Reads(bat, k) \in Versions
  PROVE  /\ bat[KeyHash[k]] # NoEntry /\ diskBat[KeyHash[k]] # NoEntry
         /\ EntryExtent(diskBat[KeyHash[k]]) = EntryExtent(bat[KeyHash[k]])
<1>. DEFINE e == bat[KeyHash[k]]
            f == diskBat[KeyHash[k]]
<1>1. /\ e # NoEntry /\ e.start \in Blocks
      /\ content[e.start].ver = Reads(bat, k) /\ content[e.start].numBytes = e.numBytes
      /\ content[e.start].i = 0
  BY ReadsVersion
<1>2. /\ f # NoEntry /\ f.start \in Blocks
      /\ content[f.start].ver = Reads(bat, k) /\ content[f.start].numBytes = f.numBytes
      /\ content[f.start].i = 0
  BY ReadsVersion
<1>3. e.start \in Int /\ f.start \in Int /\ Reads(bat, k) # 0
  BY <1>1, <1>2, MapSizeInt DEF Blocks, Versions
<1>4. e.start = f.start
  BY <1>1, <1>2, <1>3 DEF RInv, HomeInv
<1>. QED BY <1>1, <1>2, <1>4 DEF EntryExtent

(* An entry whose blocks are untouched reads as before. *)
LEMMA ReadsSame ==
  ASSUME RInv, NEW k \in Keys
  PROVE  /\ (/\ bat'[KeyHash[k]] = bat[KeyHash[k]]
             /\ bat[KeyHash[k]] # NoEntry =>
                  \A b \in EntryExtent(bat[KeyHash[k]]) : content'[b] = content[b])
               => Reads(bat, k)' = Reads(bat, k)
         /\ (/\ diskBat'[KeyHash[k]] = diskBat[KeyHash[k]]
             /\ diskBat[KeyHash[k]] # NoEntry =>
                  \A b \in EntryExtent(diskBat[KeyHash[k]]) : content'[b] = content[b])
               => Reads(diskBat, k)' = Reads(diskBat, k)
<1>1. /\ bat[KeyHash[k]] # NoEntry => bat[KeyHash[k]].start \in EntryExtent(bat[KeyHash[k]])
      /\ diskBat[KeyHash[k]] # NoEntry =>
           diskBat[KeyHash[k]].start \in EntryExtent(diskBat[KeyHash[k]])
  BY FirstBlockOfEntry
<1>. QED BY <1>1 DEF Reads

(* A PUT that writes, or is cut off by a crash, disturbs in the file its   *)
(* own key and those whose last change was not saved; it makes none appear *)
(* or disappear.                                                           *)
LEMMA CrashScribbles ==
  ASSUME NoCollisions, RInv, RInv', ~Idle, ~tainted, diskBat' = diskBat,
         NEW n \in Int, n <= NumDiskBlocks(put.numBytes), content' = Written(n),
         NEW k \in Keys
  PROVE  /\ Reads(diskBat, k)' \in Versions \cup {Absent, Unknown}
         /\ Reads(diskBat, k)' = Absent <=> Reads(diskBat, k) = Absent
         /\ (/\ k # put.key /\ Reads(bat, k) = Reads(diskBat, k)
             /\ Reads(diskBat, k) # Unknown)
              => Reads(diskBat, k)' = Reads(diskBat, k)
<1>1. /\ Reads(diskBat, k)' \in Versions \cup {Absent, Unknown}
      /\ Reads(diskBat, k)' = Absent <=> Reads(diskBat, k) = Absent
  <2>1. Reads(diskBat, k) = Absent <=> diskBat[KeyHash[k]] = NoEntry
    BY ReadsType
  <2>2. RInv' => ReadsTyped'
    BY RInvReadsTyped, PTL
  <2>. QED BY <2>1, <2>2 DEF ReadsTyped
<1>2. ASSUME k # put.key, Reads(bat, k) = Reads(diskBat, k), Reads(diskBat, k) # Unknown
      PROVE  Reads(diskBat, k)' = Reads(diskBat, k)
  <2>1. CASE Reads(diskBat, k) = Absent
    BY <1>1, <2>1
  <2>2. CASE Reads(diskBat, k) # Absent
    <3>1. Reads(bat, k) \in Versions
      BY <1>2, <2>2, ReadsType
    <3>2. /\ bat[KeyHash[k]] # NoEntry
          /\ EntryExtent(diskBat[KeyHash[k]]) = EntryExtent(bat[KeyHash[k]])
      BY <1>2, <3>1, SameBlocks
    <3>3. \A b \in EntryExtent(diskBat[KeyHash[k]]) : content'[b] = content[b]
      BY <1>2, <3>2, OthersUntouched DEF RInv
    <3>. QED BY <3>3, ReadsSame
  <2>. QED BY <2>1, <2>2
<1>. QED BY <1>1, <1>2

(* In memory, a PUT that writes disturbs its own key only. *)
LEMMA WriteScribbles ==
  ASSUME NoCollisions, RInv, RInv', ~Idle, ~tainted, bat' = bat,
         NEW n \in Int, n <= NumDiskBlocks(put.numBytes), content' = Written(n),
         NEW k \in Keys
  PROVE  /\ Reads(bat, k)' \in Versions \cup {Absent, Unknown}
         /\ Reads(bat, k)' = Absent <=> Reads(bat, k) = Absent
         /\ k # put.key => Reads(bat, k)' = Reads(bat, k)
<1>1. Reads(bat, k) = Absent <=> bat[KeyHash[k]] = NoEntry
  BY ReadsType
<1>2. RInv' => ReadsTyped'
  BY RInvReadsTyped, PTL
<1>3. ASSUME k # put.key
      PROVE  Reads(bat, k)' = Reads(bat, k)
  BY <1>3, OthersUntouched, ReadsSame DEF RInv
<1>. QED BY <1>1, <1>2, <1>3 DEF ReadsTyped

-----------------------------------------------------------------------------
(* Every step of the node is a step of the contract *)

Stutter == UNCHANGED <<proc = "running", faults>> /\ Idle' = Idle
           /\ (~Idle => put'.key = put.key /\ put'.ver = put.ver /\ put'.lost = put.lost)
           /\ \A k \in Keys : /\ Reads(bat, k)' = Reads(bat, k)
                              /\ Reads(diskBat, k)' = Reads(diskBat, k)

LEMMA StutterIsOne == Stutter => UNCHANGED Contract!vars
BY DEF Stutter, Contract!vars

(* Nothing that is read has changed. *)
LEMMA ReadsKept ==
  ASSUME RInv, UNCHANGED <<bat, diskBat, content>>
  PROVE  \A k \in Keys : /\ Reads(bat, k)' = Reads(bat, k)
                         /\ Reads(diskBat, k)' = Reads(diskBat, k)
BY ReadsSame

(* A new process reads what the file holds. *)
LEMMA ReadsLoaded ==
  ASSUME RInv, bat' = diskBat, diskBat' = diskBat, content' = content
  PROVE  \A k \in Keys : /\ Reads(bat, k)' = Reads(diskBat, k)
                         /\ Reads(diskBat, k)' = Reads(diskBat, k)
<1>1. \A k \in Keys : Reads(diskBat, k)' = Reads(diskBat, k)
  BY ReadsSame
<1>2. \A k \in Keys : Reads(bat, k)' = Reads(diskBat, k)'
  BY DEF Reads
<1>. QED BY <1>1, <1>2

(* The empty table reads as nothing. *)
LEMMA ReadsNothing ==
  /\ bat = EmptyTable => [k \in Keys |-> Reads(bat, k)] = [k \in Keys |-> Absent]
  /\ diskBat = EmptyTable => [k \in Keys |-> Reads(diskBat, k)] = [k \in Keys |-> Absent]
BY KeyHashAssumption DEF Reads, EmptyTable

LEMMA BootRefines ==
  ASSUME RInv, Start \/ Boot \/ BootFails
  PROVE  Contract!Next \/ UNCHANGED Contract!vars
<1>. USE DEF Contract!vars
<1>1. proc # "running" /\ bat = EmptyTable /\ Idle /\ NoPut.phase = "none"
  BY NoPutFacts DEF RInv, IInv, MemInv, Start, Boot, BootFails, RemoveStore,
     CreateStoreFile, WriteHeader, LoadStore, LoadBlankStore, StartFails, WriteHeaderFails,
     LoadTableFails, LoadHeaderFails
<1>2. CASE Start \/ CreateStoreFile \/ LoadBlankStore
  <2>1. /\ UNCHANGED <<bat, put, diskBat, content, faults>> /\ proc' # "running"
    BY <1>2 DEF Start, CreateStoreFile, LoadBlankStore, GarbageHeader, memory, file, bounds
  <2>2. Stutter
    BY <1>1, <2>1, ReadsKept DEF Stutter, Idle
  <2>. QED BY <2>2, StutterIsOne
<1>3. CASE RemoveStore
  <2>1. /\ UNCHANGED <<proc, bat, put, faults>> /\ diskBat' = EmptyTable
    BY <1>3 DEF RemoveStore, memory, bounds
  <2>2. [k \in Keys |-> Reads(diskBat, k)]' = [k \in Keys |-> Absent]
    BY <2>1, KeyHashAssumption DEF Reads, EmptyTable
  <2>3. [k \in Keys |-> Reads(bat, k)]' = [k \in Keys |-> Reads(bat, k)]
    BY <1>1, <2>1, KeyHashAssumption DEF Reads, EmptyTable
  <2>4. Contract!Wipe
    BY <1>1, <2>1, <2>2, <2>3 DEF Contract!Wipe, Contract!Nothing, Idle
  <2>. QED BY <2>4 DEF Contract!Next
<1>4. CASE WriteHeader \/ LoadStore
  <2>1. /\ proc' = "running" /\ bat' = diskBat
        /\ UNCHANGED <<put, diskBat, content, faults>>
    BY <1>1, <1>4 DEF WriteHeader, LoadStore, memory, file, bounds, RInv, PInv, FreshInv
  <2>2. /\ [k \in Keys |-> Reads(bat, k)]' = [k \in Keys |-> Reads(diskBat, k)]
        /\ [k \in Keys |-> Reads(diskBat, k)]' = [k \in Keys |-> Reads(diskBat, k)]
    BY <2>1, ReadsLoaded
  <2>3. Contract!Start
    BY <1>1, <2>1, <2>2 DEF Contract!Start, Idle
  <2>. QED BY <2>3 DEF Contract!Next
<1>5. CASE BootFails
  <2>1. /\ UNCHANGED <<bat, put, diskBat, content>> /\ faults' = faults + 1
    BY <1>5 DEF BootFails, StartFails, WriteHeaderFails, LoadTableFails, LoadHeaderFails,
       memory, file
  <2>2. /\ [k \in Keys |-> Reads(bat, k)]' = [k \in Keys |-> Reads(bat, k)]
        /\ [k \in Keys |-> Reads(diskBat, k)]' = [k \in Keys |-> Reads(diskBat, k)]
    BY <2>1, ReadsKept
  <2>3. Contract!Fail
    BY <1>1, <2>1, <2>2 DEF Contract!Fail, Idle
  <2>. QED BY <2>3 DEF Contract!Next
<1>. QED BY <1>2, <1>3, <1>4, <1>5 DEF Boot

LEMMA FindSpaceRefines ==
  ASSUME RInv, NEW k \in Keys, NEW n \in Sizes, PutFindSpace(k, n)
  PROVE  Contract!Next
<1>1. /\ proc = "running" /\ Idle /\ ~Idle' /\ nextVer \in Versions
      /\ put'.key = k /\ put'.ver = nextVer /\ put'.lost = FALSE
      /\ UNCHANGED <<proc, bat, diskBat, content, faults>>
  BY DEF PutFindSpace, Serving, Idle, file, RInv, IInv, TypeOK, Versions
<1>2. /\ [j \in Keys |-> Reads(bat, j)]' = [j \in Keys |-> Reads(bat, j)]
      /\ [j \in Keys |-> Reads(diskBat, j)]' = [j \in Keys |-> Reads(diskBat, j)]
  BY <1>1, ReadsKept
<1>3. Contract!Begin
  BY <1>1, <1>2 DEF Contract!Begin, Contract!Idle, Contract!NoPut
<1>. QED BY <1>3 DEF Contract!Next

LEMMA WriteRefines ==
  ASSUME NoCollisions, RInv, RInv', ~tainted, ~Idle, UNCHANGED <<proc, bat, diskBat>>,
         NEW n \in Int, n <= NumDiskBlocks(put.numBytes), content' = Written(n),
         \/ Idle' /\ faults' \in {faults, faults + 1}
         \/ /\ ~Idle' /\ faults' = faults
            /\ put'.key = put.key /\ put'.ver = put.ver /\ put'.lost = put.lost
         \/ /\ ~Idle' /\ faults' = faults + 1 /\ put'.key = put.key /\ put'.lost
  PROVE  Contract!Next
<1>. DEFINE L == [k \in Keys |-> Reads(bat, k)]
            D == [k \in Keys |-> Reads(diskBat, k)]
<1>1. /\ proc = "running" /\ put.key \in Keys /\ put.ver \in Versions
      /\ put.ver # Absent /\ put.ver # Unknown /\ Unknown # Absent /\ put.lost \in BOOLEAN
  BY DEF RInv, IInv, TypeOK, MemInv, PutInv, Puts, Versions, Absent, Unknown
<1>2. \A k \in Keys :
        /\ L'[k] \in Versions \cup {Absent, Unknown}
        /\ D'[k] \in Versions \cup {Absent, Unknown}
        /\ L'[k] = Absent <=> L[k] = Absent
        /\ D'[k] = Absent <=> D[k] = Absent
        /\ k # put.key => L'[k] = L[k]
        /\ k # put.key /\ L[k] = D[k] /\ D[k] # Unknown => D'[k] = D[k]
  BY WriteScribbles, CrashScribbles
<1>3. Contract!ScribbledOn(L, L', {put.key})
  BY <1>1, <1>2 DEF Contract!ScribbledOn, Contract!Results
<1>4. Contract!ScribbledOn(D, D', Contract!Unsaved \cup {put.key})
  BY <1>1, <1>2 DEF Contract!ScribbledOn, Contract!Results, Contract!Unsaved
<1>5. Contract!Overwrite
  BY <1>1, <1>3, <1>4 DEF Contract!Overwrite, Contract!NoPut
<1>. QED BY <1>5 DEF Contract!Next

LEMMA CommitRefines ==
  ASSUME NoCollisions, RInv, RInv', PutCommit \/ PutCommitUnsaved
  PROVE  Contract!Next
<1>. DEFINE L == [k \in Keys |-> Reads(bat, k)]
            D == [k \in Keys |-> Reads(diskBat, k)]
<1>1. /\ put \in Puts /\ put.key \in Keys /\ PutHash = KeyHash[put.key] /\ PutHash \in Hashes
      /\ proc = "running" /\ ~Idle /\ put.phase = "record" /\ put.ver \in Versions
      /\ put.ver # 0 /\ Unknown # Absent /\ put.ver # Absent /\ put.ver # Unknown
      /\ bat \in Tables
  BY KeyHashAssumption
     DEF PutCommit, PutCommitUnsaved, RInv, IInv, TypeOK, MemInv, PutInv, Idle, PutHash, Puts,
         Versions, Absent, Unknown
<1>2. /\ bat' = [bat EXCEPT ![PutHash] = RecordedEntry] /\ put' = NoPut /\ Idle'
      /\ UNCHANGED <<proc, content>>
  BY NoPutFacts DEF PutCommit, PutCommitUnsaved, PutRecord, file, Idle
<1>3. RecordedEntry # NoEntry /\ bat'[PutHash] = RecordedEntry
  <2>1. RecordedEntry \in Entries
    BY <1>1 DEF RecordedEntry, Entries, Puts, Tables
  <2>. QED BY <1>1, <1>2, <2>1, NoEntryAssumption DEF Tables
<1>4. \A k \in Keys \ {put.key} : L'[k] = L[k]
  <2>1. \A k \in Keys \ {put.key} : bat'[KeyHash[k]] = bat[KeyHash[k]]
    BY <1>1, <1>2, KeyHashAssumption DEF NoCollisions, Tables
  <2>. QED BY <1>2, <2>1, ReadsSame
<1>5. L'[put.key] \in Versions \cup {Unknown}
  <2>1. RInv' => ReadsTyped'
    BY RInvReadsTyped, PTL
  <2>. QED BY <1>1, <1>3, <2>1 DEF ReadsTyped
<1>6. ~put.lost => L'[put.key] = put.ver
  <2>. SUFFICES ASSUME ~put.lost, NEW k \in Keys, k = put.key
                PROVE  Reads(bat, k)' = put.ver
    BY <1>1
  <2>1. /\ RecordedEntry.numBytes = put.numBytes /\ RecordedEntry.start = put.start
        /\ EntryExtent(RecordedEntry) = PutExtent
    BY DEF RecordedEntry, EntryExtent, PutExtent
  <2>2. \A b \in PutExtent : content[b] = Piece(put.ver, put.numBytes, b - put.start)
    BY <1>1 DEF RInv, PInv, WrittenInv
  <2>3. put.start \in PutExtent
    <3>1. put.numBytes \in Nat /\ put.numBytes > 0 /\ put.start \in Nat
      BY <1>1 DEF RInv, NonEmptyInv, Puts
    <3>2. NumDiskBlocks(put.numBytes) >= 1 /\ NumDiskBlocks(put.numBytes) \in Int
      BY <3>1, BlocksNeeded, NumDiskBlocksInt
    <3>. QED BY <3>1, <3>2 DEF PutExtent, Extent
  <2>4. content[put.start] = Piece(put.ver, put.numBytes, put.start - put.start)
    BY <2>2, <2>3
  <2>5. content[put.start].ver = put.ver /\ content[put.start].numBytes = put.numBytes
    BY <2>4 DEF Piece
  <2>6. \A b \in PutExtent : content[b] = [content[put.start] EXCEPT !.i = b - put.start]
    BY <2>2, <2>4 DEF Piece
  <2>7. KeyHash[k] = PutHash
    BY <1>1
  <2>. QED BY <1>1, <1>2, <1>3, <2>1, <2>5, <2>6, <2>7 DEF Reads
<1>7. /\ DOMAIN L' = Keys /\ L'[put.key] \in Contract!Results \ {Absent}
      /\ ~put.lost => L'[put.key] = put.ver
      /\ \A k \in Keys \ {put.key} : L'[k] = L[k]
  BY <1>1, <1>4, <1>5, <1>6 DEF Contract!Results, Versions, Absent
<1>8. \/ D' = L' /\ faults' = faults
      \/ D' = D /\ faults' = faults + 1
  <2>1. CASE PutCommit
    <3>1. diskBat' = bat' /\ faults' = faults
      BY <2>1 DEF PutCommit, bounds
    <3>. QED BY <3>1 DEF Reads
  <2>2. CASE PutCommitUnsaved
    <3>1. diskBat' = diskBat /\ faults' = faults + 1
      BY <2>2 DEF PutCommitUnsaved, file
    <3>2. \A k \in Keys : Reads(diskBat, k)' = Reads(diskBat, k)
      BY <1>2, <3>1, ReadsSame
    <3>. QED BY <3>1, <3>2
  <2>. QED BY <2>1, <2>2
<1>9. Contract!Commit
  BY <1>1, <1>2, <1>7, <1>8 DEF Contract!Commit, Contract!Replaced, Contract!NoPut
<1>. QED BY <1>9 DEF Contract!Next

LEMMA DeleteRefines ==
  ASSUME NoCollisions, RInv, NEW k \in Keys, DeleteBlocks(k)
  PROVE  Contract!Next
<1>. DEFINE L == [j \in Keys |-> Reads(bat, j)]
            D == [j \in Keys |-> Reads(diskBat, j)]
<1>1. /\ bat' = [bat EXCEPT ![KeyHash[k]] = NoEntry] /\ bat[KeyHash[k]] # NoEntry
      /\ proc = "running" /\ Idle
      /\ UNCHANGED <<proc, put, diskBat, content, faults>>
  BY DEF DeleteBlocks, file, bounds, Serving
<1>2. bat \in Tables /\ KeyHash[k] \in Hashes
  BY KeyHashAssumption DEF RInv, IInv, TypeOK
<1>3. L'[k] = Absent
  BY <1>1, <1>2 DEF Reads, Tables
<1>4. \A j \in Keys \ {k} : L'[j] = L[j]
  <2>1. \A j \in Keys \ {k} : bat'[KeyHash[j]] = bat[KeyHash[j]]
    BY <1>1, <1>2, KeyHashAssumption DEF NoCollisions, Tables
  <2>. QED BY <1>1, <2>1, ReadsSame
<1>5. L' = [L EXCEPT ![k] = Absent] /\ D' = D
  BY <1>1, <1>3, <1>4, ReadsSame
<1>6. L[k] # Absent
  BY <1>1, ReadsType
<1>7. Contract!Delete(k)
  BY <1>1, <1>5, <1>6 DEF Contract!Delete, Contract!Idle, Contract!NoPut, Idle
<1>. QED BY <1>7 DEF Contract!Next

LEMMA ReadRefines ==
  ASSUME RInv, NEW k \in Keys, ReadFails(k)
  PROVE  Contract!Next
<1>1. UNCHANGED <<proc, bat, put, diskBat, content>> /\ faults' = faults + 1
  BY DEF ReadFails, file
<1>2. /\ [j \in Keys |-> Reads(bat, j)]' = [j \in Keys |-> Reads(bat, j)]
      /\ [j \in Keys |-> Reads(diskBat, j)]' = [j \in Keys |-> Reads(diskBat, j)]
  BY <1>1, ReadsKept
<1>3. Contract!Fail
  BY <1>1, <1>2 DEF Contract!Fail, Idle
<1>. QED BY <1>3 DEF Contract!Next

LEMMA CrashRefines ==
  ASSUME NoCollisions, RInv, RInv', ~tainted, NEW n \in Nat, Crash(n)
  PROVE  Contract!Next
<1>. DEFINE L == [k \in Keys |-> Reads(bat, k)]
            D == [k \in Keys |-> Reads(diskBat, k)]
<1>1. /\ proc' = "down" /\ bat' = EmptyTable /\ Idle' /\ diskBat' = diskBat
      /\ content' = Written(n) /\ faults' = faults
      /\ n = 0 \/ (put.phase = "write" /\ n <= NumDiskBlocks(put.numBytes))
  BY NoPutFacts DEF Crash, Idle
<1>2. L' = [k \in Keys |-> Absent]
  BY <1>1, KeyHashAssumption DEF Reads, EmptyTable
<1>3. CASE Idle
  <2>1. content' = content
    BY <1>1, <1>3, WrittenNone DEF Idle, RInv
  <2>2. D' = D
    BY <1>1, <2>1, ReadsSame
  <2>3. \A k \in Keys : D[k] \in Versions \cup {Absent, Unknown}
    BY ReadsType
  <2>4. Contract!ScribbledOn(D, D', {})
    BY <2>2 DEF Contract!ScribbledOn
  <2>5. Contract!Crash
    BY <1>1, <1>2, <1>3, <2>4 DEF Contract!Crash, Contract!NoPut, Contract!Nothing
  <2>. QED BY <2>5 DEF Contract!Next
<1>4. CASE ~Idle
  <2>1. put.key \in Keys /\ put.ver # Absent /\ Unknown # Absent
    BY <1>4 DEF RInv, IInv, TypeOK, PutInv, Puts, Versions, Absent, Unknown
  <2>2. n \in Int /\ n <= NumDiskBlocks(put.numBytes)
    BY <1>1, BlockSizeAssumption DEF NumDiskBlocks, CeilDiv, RInv, IInv, TypeOK, Puts
  <2>3. \A k \in Keys :
          /\ D'[k] \in Versions \cup {Absent, Unknown}
          /\ D'[k] = Absent <=> D[k] = Absent
          /\ k # put.key /\ L[k] = D[k] /\ D[k] # Unknown => D'[k] = D[k]
    BY <1>1, <1>4, <2>2, CrashScribbles
  <2>4. Contract!ScribbledOn(D, D', Contract!Unsaved \cup {put.key})
    BY <2>1, <2>3 DEF Contract!ScribbledOn, Contract!Results, Contract!Unsaved
  <2>5. Contract!Crash
    BY <1>1, <1>2, <1>4, <2>1, <2>4 DEF Contract!Crash, Contract!NoPut, Contract!Nothing
  <2>. QED BY <2>5 DEF Contract!Next
<1>. QED BY <1>3, <1>4

-----------------------------------------------------------------------------
LEMMA NextRefines ==
  ASSUME NoCollisions, RInv, RInv', [Next]_vars
  PROVE  tainted' \/ Contract!Next \/ UNCHANGED Contract!vars
<1>. SUFFICES ASSUME ~tainted' PROVE Contract!Next \/ UNCHANGED Contract!vars
  OBVIOUS
<1>1. CASE Start \/ Boot \/ BootFails
  BY <1>1, BootRefines
<1>2. ASSUME ~(Start \/ Boot \/ BootFails) PROVE ~tainted
  BY <1>2 DEF Next, PutFindSpace, PutNoSpace, PutStep, PutWrite, PutStuck, PutCommit,
     PutWriteLost, PutOpenFails, PutCommitUnsaved, DeleteBlocks, ReadFails, PutWriteFails,
     Crash, ghosts, vars, RInv, IInv, TypeOK
<1>3. CASE \E k \in Keys, n \in Sizes : PutFindSpace(k, n)
  BY <1>3, FindSpaceRefines
<1>4. CASE (\E k \in Keys, n \in Sizes : PutNoSpace(k, n)) \/ UNCHANGED vars
  <2>1. UNCHANGED <<proc, bat, put, diskBat, content, faults>>
    BY <1>4 DEF PutNoSpace, vars, memory, file, bounds
  <2>2. Stutter
    BY <2>1, ReadsKept DEF Stutter, Idle
  <2>. QED BY <2>2, StutterIsOne
<1>5. CASE PutWrite
  <2>. DEFINE m == NumDiskBlocks(put.numBytes)
  <2>1. /\ ~Idle /\ ~Idle' /\ ~tainted /\ m \in Int /\ m <= m /\ content' = Written(m)
        /\ put'.key = put.key /\ put'.ver = put.ver /\ put'.lost = put.lost
        /\ faults' = faults /\ UNCHANGED <<proc, bat, diskBat>>
    BY <1>5, NumDiskBlocksInt DEF PutWrite, Idle, bounds, RInv, IInv, TypeOK, Puts
  <2>. HIDE DEF m
  <2>. QED BY <2>1, WriteRefines DEF m
<1>6. CASE PutWriteLost \/ PutOpenFails \/ PutStuck
  <2>1. /\ ~Idle /\ UNCHANGED <<proc, bat, diskBat, content, tainted>>
        /\ \/ Idle' /\ faults' \in {faults, faults + 1}
           \/ ~Idle' /\ faults' = faults + 1 /\ put'.key = put.key /\ put'.lost
    BY <1>6, NoPutFacts DEF PutWriteLost, PutOpenFails, PutStuck, PutAbandon, Idle, file,
       bounds, ghosts, RInv, IInv, TypeOK, Puts
  <2>2. content' = Written(0)
    BY <2>1, WrittenNone DEF RInv
  <2>3. 0 \in Int /\ 0 <= NumDiskBlocks(put.numBytes)
    BY BlockSizeAssumption DEF NumDiskBlocks, CeilDiv, RInv, IInv, TypeOK, Puts
  <2>. QED BY <2>1, <2>2, <2>3, WriteRefines
<1>7. CASE PutCommit \/ PutCommitUnsaved
  BY <1>7, CommitRefines
<1>8. CASE \E k \in Keys : DeleteBlocks(k) \/ ReadFails(k)
  BY <1>8, DeleteRefines, ReadRefines
<1>9. CASE \E n \in 0 .. MaxBlocksPerPut : PutWriteFails(n)
  <2>1. PICK n \in 0 .. MaxBlocksPerPut : PutWriteFails(n)
    BY <1>9
  <2>2. /\ ~Idle /\ Idle' /\ UNCHANGED <<proc, bat, diskBat, tainted>> /\ n \in Int
        /\ n <= NumDiskBlocks(put.numBytes) /\ content' = Written(n) /\ faults' = faults + 1
    BY <2>1, NoPutFacts DEF PutWriteFails, PutAbandon, Idle
  <2>. QED BY <2>2, WriteRefines
<1>10. CASE \E n \in 0 .. MaxBlocksPerPut : Crash(n)
  <2>1. PICK n \in 0 .. MaxBlocksPerPut : Crash(n)
    BY <1>10
  <2>2. n \in Nat /\ ~tainted
    BY <2>1 DEF Crash
  <2>. QED BY <2>1, <2>2, CrashRefines
<1>. QED BY <1>1, <1>3, <1>4, <1>5, <1>6, <1>7, <1>8, <1>9, <1>10 DEF Next, PutStep

(* A node keeps its contract: PUTs, DELETEs, failing file operations,      *)
(* crashes and restarts (disk_storage.cpp) are those of DurableMap, until  *)
(* an overwrite is refused for lack of space.  A start that reads nothing  *)
(* is one of them (Fail), and so is the loss of what it did not read,      *)
(* which happens block by block (Overwrite) and with the next table        *)
(* (Commit).                                                               *)
THEOREM NodeKeepsContract == ASSUME NoCollisions PROVE Spec => KeepsContract
<1>1. Init => Contract!Init
  <2>. SUFFICES ASSUME Init PROVE Contract!Init
    OBVIOUS
  <2>1. proc # "running" /\ Idle /\ bat = EmptyTable /\ diskBat = EmptyTable /\ faults = 0
    BY NoPutFacts DEF Init, Idle
  <2>. QED BY <2>1, ReadsNothing DEF Contract!Init, Contract!NoPut, Contract!Nothing
<1>2. RInv /\ RInv' /\ [Next]_vars => [tainted' \/ Contract!Next]_(Contract!vars)
  BY NextRefines
<1>. QED BY <1>1, <1>2, SpecRInv, PTL DEF Spec, KeepsContract
=============================================================================
