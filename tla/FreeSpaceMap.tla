---------------------------- MODULE FreeSpaceMap ----------------------------
(***************************************************************************)
(* The free space map of a storage node (src/src/storage/free_space.cpp):  *)
(* a bitmap with one bit per disk block.                                   *)
(*                                                                         *)
(* bitMap[i] is the set of bit positions of byte i that are 1.             *)
(* findNFreeBlocks is the scan the code makes, one bit per step, with the  *)
(* code's local variables; allocateNBlocks and freeNBlocks keep the code's *)
(* three regimes (unaligned head, whole bytes, unaligned tail).  Callers   *)
(* pass runs that lie inside the map: the starts come from a scan or from  *)
(* the block allocation table.                                             *)
(*                                                                         *)
(* The byte width, 8 in the code, is a parameter: the model checker uses a *)
(* narrower byte so that runs of every alignment fit a small map.          *)
(***************************************************************************)
EXTENDS Extents

CONSTANTS BlockCapacity,   \* blockCapacity given to initialise()
          BitsPerByte,     \* 8
          Lengths          \* the run lengths callers ask for

ASSUME CapacityAssumption == BlockCapacity \in Nat \ {0}
ASSUME BitsAssumption == BitsPerByte \in Nat \ {0}
ASSUME LengthsAssumption == Lengths \subseteq Nat

NumEntries == NumEntriesFor(BlockCapacity, BitsPerByte)
Entries == 0 .. (NumEntries - 1)
Bits == 0 .. (BitsPerByte - 1)
MapSize == MapSizeFor(BlockCapacity, BitsPerByte)

None == -1                 \* std::nullopt

VARIABLES bitMap,          \* the bytes, each the set of its 1 bits
          scanning,        \* a call of findNFreeBlocks is in its loop
          N,               \* its argument
          index, pos,      \* byte and bit the loop looks at next
          currStartBlock,  \* start of the free section being counted
          contiguousCount, \* its length so far
          result           \* what the last call of findNFreeBlocks returned

scanVars == <<scanning, N, index, pos, currStartBlock, contiguousCount>>
vars == <<bitMap, scanVars, result>>

(* isMapped *)
Block(i, p) == BitsPerByte * i + p
IsMapped(b) == \E i \in Entries, p \in Bits : b = Block(i, p) /\ p \in bitMap[i]
Mapped == {b \in 0 .. (MapSize - 1) : IsMapped(b)}

-----------------------------------------------------------------------------
(* initialise(blockCapacity) *)
Init ==
  /\ bitMap = [i \in Entries |-> {}]
  /\ scanning = FALSE
  /\ N = 0 /\ index = 0 /\ pos = 0 /\ currStartBlock = 0 /\ contiguousCount = 0
  /\ result = None

-----------------------------------------------------------------------------
(* findNFreeBlocks(n) *)

(* The call: all locals start at 0. *)
FindCall(n) ==
  /\ ~scanning
  /\ scanning' = TRUE
  /\ N' = n
  /\ index' = 0 /\ pos' = 0 /\ currStartBlock' = 0 /\ contiguousCount' = 0
  /\ UNCHANGED <<bitMap, result>>

Return(r) ==
  /\ result' = r
  /\ scanning' = FALSE
  /\ N' = 0 /\ index' = 0 /\ pos' = 0 /\ currStartBlock' = 0 /\ contiguousCount' = 0
  /\ UNCHANGED bitMap

AtBit == scanning /\ index < NumEntries /\ pos < BitsPerByte

(* The start of the section this bit belongs to, if the bit is free. *)
SectionStart ==
  IF contiguousCount = 0 THEN Block(index, pos) ELSE currStartBlock

(* The bit is free and completes a section of N blocks. *)
ScanFound ==
  /\ AtBit
  /\ pos \notin bitMap[index]
  /\ contiguousCount + 1 = N
  /\ Return(SectionStart)

(* The bit is free and the section is still too short. *)
ScanFree ==
  /\ AtBit
  /\ pos \notin bitMap[index]
  /\ contiguousCount + 1 # N
  /\ currStartBlock' = SectionStart
  /\ contiguousCount' = contiguousCount + 1
  /\ pos' = pos + 1
  /\ UNCHANGED <<bitMap, scanning, N, index, result>>

(* Mutant: an allocated bit is passed without ending the section. *)
ScanAllocatedNoReset ==
  /\ AtBit
  /\ pos \in bitMap[index]
  /\ pos' = pos + 1
  /\ UNCHANGED <<bitMap, scanning, N, index, currStartBlock, contiguousCount, result>>

(* The bit is allocated: the section ends. *)
ScanAllocated ==
  /\ AtBit
  /\ pos \in bitMap[index]
  /\ contiguousCount' = 0
  /\ pos' = pos + 1
  /\ UNCHANGED <<bitMap, scanning, N, index, currStartBlock, result>>

(* Mutant: the byte index is not advanced. *)
ScanSameEntry ==
  /\ scanning /\ index < NumEntries /\ pos = BitsPerByte
  /\ pos' = 0
  /\ UNCHANGED <<bitMap, scanning, N, index, currStartBlock, contiguousCount, result>>

ScanNextEntry ==
  /\ scanning /\ index < NumEntries /\ pos = BitsPerByte
  /\ index' = index + 1
  /\ pos' = 0
  /\ UNCHANGED <<bitMap, scanning, N, currStartBlock, contiguousCount, result>>

ScanExhausted ==
  /\ scanning /\ index = NumEntries
  /\ Return(None)

Scan == ScanFound \/ ScanFree \/ ScanAllocated \/ ScanNextEntry \/ ScanExhausted

-----------------------------------------------------------------------------
(* allocateNBlocks(s, n) and freeNBlocks(s, n) *)

SmallerOf(a, b) == IF a <= b THEN a ELSE b

(* Mutant: a run shorter than its first byte is not cut at its own end. *)
RunBitsUnclamped(s, n, i) ==
  LET first == s \div BitsPerByte
      p     == s % BitsPerByte
  IN  IF i = first THEN p .. (p + n - 1)
      ELSE IF i > first THEN 0 .. (SmallerOf(BitsPerByte, s + n - BitsPerByte * i) - 1)
      ELSE {}

(* Mutant: an unaligned head always reaches the end of its byte. *)
RunBitsWholeHead(s, n, i) ==
  LET first == s \div BitsPerByte
      p     == s % BitsPerByte
  IN  IF i = first THEN p .. (BitsPerByte - 1)
      ELSE IF i > first THEN 0 .. (SmallerOf(BitsPerByte, s + n - BitsPerByte * i) - 1)
      ELSE {}

(* The bits of byte i that a run of n blocks starting at s covers: an      *)
(* unaligned head, whole bytes, an unaligned tail.                         *)
RunBits(s, n, i) ==
  LET first == s \div BitsPerByte
      p     == s % BitsPerByte
      head  == IF p # 0 THEN SmallerOf(n, BitsPerByte - p) ELSE 0
      next  == IF p # 0 THEN first + 1 ELSE first
      whole == (n - head) \div BitsPerByte
      tail  == (n - head) % BitsPerByte
  IN  CASE p # 0 /\ i = first            -> p .. (p + head - 1)
        [] i \in next .. (next + whole - 1) -> Bits
        [] i = next + whole              -> 0 .. (tail - 1)
        [] OTHER                         -> {}

AllocateNBlocks(s, n) ==
  /\ ~scanning
  /\ s + n <= MapSize
  /\ bitMap' = [i \in Entries |-> bitMap[i] \cup RunBits(s, n, i)]
  /\ UNCHANGED <<scanVars, result>>

FreeNBlocks(s, n) ==
  /\ ~scanning
  /\ s + n <= MapSize
  /\ bitMap' = [i \in Entries |-> bitMap[i] \ RunBits(s, n, i)]
  /\ UNCHANGED <<scanVars, result>>

-----------------------------------------------------------------------------
Next ==
  \/ Scan
  \/ \E n \in Lengths :
       \/ FindCall(n)
       \/ \E s \in 0 .. (MapSize - 1) : AllocateNBlocks(s, n) \/ FreeNBlocks(s, n)

(* A call, once made, runs to its end. *)
Spec == Init /\ [][Next]_vars /\ WF_vars(Scan)

-----------------------------------------------------------------------------
(* Properties *)

(* Types.  The scan's position never leaves the bitmap by more than one    *)
(* byte, and a byte holds only its own bits.                               *)
TypeOK ==
  /\ bitMap \in [Entries -> SUBSET Bits]
  /\ scanning \in BOOLEAN
  /\ N \in Nat
  /\ index \in 0 .. NumEntries
  /\ pos \in 0 .. BitsPerByte
  /\ currStartBlock \in 0 .. MapSize
  /\ contiguousCount \in Nat
  /\ result \in {None} \cup 0 .. (MapSize - 1)

(* The loop invariant of findNFreeBlocks: the section being counted is a   *)
(* run of free blocks that ends where the loop stands, and no section that *)
(* starts before it would have been long enough.  It is what makes the     *)
(* answer both free and the first that fits.                               *)
ScanInv ==
  scanning =>
    LET here  == Block(index, pos)
        start == IF contiguousCount = 0 THEN here ELSE currStartBlock
    IN  /\ start + contiguousCount = here
        /\ Extent(start, contiguousCount) \cap Mapped = {}
        /\ N > 0 => /\ contiguousCount < N
                    /\ \A s \in 0 .. (start - 1) : s \notin Fits(Mapped, MapSize, N)

(* Every call of findNFreeBlocks returns. *)
ScanEnds == scanning ~> ~scanning

(* The bitmap implements the abstract allocator: every scan answers with   *)
(* the first fit, and allocating or freeing a run changes the bits of that *)
(* run and no other, at every alignment.                                   *)
Allocator == INSTANCE BlockAllocator WITH mapped <- Mapped
AllocatorSpec == Allocator!Spec

(* The map hands out only blocks of the capacity it was initialised with   *)
(* ("capacity to hold `blockCapacity` blocks", free_space.cpp:41-42).      *)
FoundWithinCapacity ==
  [][scanning /\ ~scanning' /\ result' # None
        => result' + N <= BlockCapacity]_vars
=============================================================================
