------------------------------ MODULE Extents ------------------------------
(***************************************************************************)
(* Runs of contiguous disk blocks.  The store keeps every key in one run   *)
(* of blocks, described by its first block and its length; the bitmap, the *)
(* block allocation table and the store file all speak of such runs.  This *)
(* module names the arithmetic they share.  It has no state.               *)
(***************************************************************************)
EXTENDS Integers

(* MathUtils::ceilDiv *)
CeilDiv(a, b) == (a + b - 1) \div b

(* The n blocks that start at block s. *)
Extent(s, n) == s .. (s + n - 1)

(* Mutant: the bitmap always gets one byte more than the quotient. *)
NumEntriesPlusOne(capacity, bits) == (capacity \div bits) + 1

(* The bitmap has whole bytes: a capacity that is not a multiple of the    *)
(* byte width is rounded up (FreeSpaceMap::initialise).                    *)
NumEntriesFor(capacity, bits) == CeilDiv(capacity, bits)

MapSizeFor(capacity, bits) == bits * NumEntriesFor(capacity, bits)

(* Mutant: a section may run past the end of the map. *)
FitsPastTheEnd(mapped, size, n) ==
  {s \in 0 .. (size - 1) : Extent(s, n) \cap mapped = {}}

(* The starts at which n blocks of a map of the given size are all free.   *)
Fits(mapped, size, n) ==
  {s \in 0 .. (size - 1) : s + n <= size /\ Extent(s, n) \cap mapped = {}}

(* The lowest of them, as a set with at most one member.  A request for no *)
(* blocks at all finds nothing: the scan only compares its count after it  *)
(* has counted a block.                                                    *)
FirstFits(mapped, size, n) ==
  {s \in Fits(mapped, size, n) :
      n > 0 /\ \A t \in Fits(mapped, size, n) : s <= t}
=============================================================================
