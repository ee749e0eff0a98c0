--------------------------- MODULE BlockAllocator ---------------------------
(***************************************************************************)
(* What FreeSpaceMap promises: a set of mapped blocks, and three           *)
(* operations on it.  Find answers with the lowest start at which n blocks *)
(* are free, or with nothing when there is none; Allocate and Free map and *)
(* unmap exactly one run.  The bytes, masks and the scan of the code are   *)
(* the business of module FreeSpaceMap, which implements this one.         *)
(***************************************************************************)
EXTENDS Extents

CONSTANTS MapSize,       \* number of blocks the map has a bit for
          Lengths        \* the run lengths callers ask for

None == -1               \* std::nullopt

VARIABLES mapped,        \* the blocks that are in use
          result         \* the answer to the last Find

vars == <<mapped, result>>

Init == mapped = {} /\ result = None

Find(n) ==
  /\ \/ result' \in FirstFits(mapped, MapSize, n)
     \/ FirstFits(mapped, MapSize, n) = {} /\ result' = None
  /\ UNCHANGED mapped

Allocate(s, n) ==
  /\ s + n <= MapSize
  /\ mapped' = mapped \cup Extent(s, n)
  /\ UNCHANGED result

Free(s, n) ==
  /\ s + n <= MapSize
  /\ mapped' = mapped \ Extent(s, n)
  /\ UNCHANGED result

Next == \E n \in Lengths :
          \/ Find(n)
          \/ \E s \in 0 .. (MapSize - 1) : Allocate(s, n) \/ Free(s, n)

Spec == Init /\ [][Next]_vars
=============================================================================
