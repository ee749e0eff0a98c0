----------------------------- MODULE HashRing -----------------------------
(***************************************************************************)
(* The consistent hash ring that decides where blocks go.  Every storage   *)
(* node has several virtual nodes, each at the position its id hashes to.  *)
(* The PUT handler walks along the ring from the hash of a block: it asks  *)
(* for the next virtual node, and then for the next one after the hash of  *)
(* that.                                                                   *)
(*                                                                         *)
(* The hash of ids is any function, so two virtual nodes may have the same *)
(* position: the later one then replaces the earlier one.  The ring is     *)
(* changed by adding and removing virtual nodes; a walk is followed as     *)
(* long as it does not change.  start and met are ghosts of the walk.      *)
(***************************************************************************)
EXTENDS Integers

CONSTANTS StorageNodes,    \* storage node ids
          NumVirtualNodes, \* virtual nodes of each storage node
          MaxHash,         \* greatest hash (UINT32_MAX)
          HashOf           \* [VirtualNodes -> Positions], Crypto::sha256_32

Positions == 0 .. MaxHash
VirtualNodes == StorageNodes \X (0 .. (NumVirtualNodes - 1))
NoVirtualNode == <<-1, -1>>

ASSUME StorageNodesAssumption == StorageNodes \subseteq Nat
ASSUME MaxHashAssumption == MaxHash \in Nat
ASSUME HashAssumption == HashOf \in [VirtualNodes -> Positions]

VARIABLES
  ring,   \* the virtual node at each position
  hash,   \* the position the walk has reached
  start,  \* the hash it began at
  met     \* the positions it has been sent to

walk == <<hash, start, met>>
vars == <<ring, walk>>

(* The keys of the std::map. *)
OnRing == {p \in Positions : ring[p] # NoVirtualNode}

Init ==
  /\ ring = [p \in Positions |-> NoVirtualNode]
  /\ hash \in Positions /\ start = hash /\ met = {}

(* A walk begins at the hash of a block. *)
StartWalk(h) ==
  /\ hash' = h /\ start' = h /\ met' = {}
  /\ UNCHANGED ring

(* The walk that is on its way is not followed any further. *)
Restart == hash' = hash /\ start' = hash /\ met' = {}

(* Mutant: the position after the hash. *)
AddNodeAfter(vn) ==
  /\ ring' = [p \in Positions \cup {HashOf[vn] + 1} |->
                IF p = HashOf[vn] + 1 THEN vn ELSE ring[p]]
  /\ Restart

(* HashRing::addNode *)
AddNode(vn) ==
  /\ ring' = [ring EXCEPT ![HashOf[vn]] = vn]
  /\ Restart

(* The lowest of a set of positions, as a set with at most one member. *)
Lowest(S) == {p \in S : \A q \in S : p <= q}

(* Mutant: lower_bound instead of upper_bound. *)
AtOrAbove(h) == {p \in OnRing : p >= h}

(* std::map::upper_bound *)
Above(h) == {p \in OnRing : p > h}

(* Mutant: past the end, the walk stays at the last virtual node. *)
NextPositionsNoWrap(h) ==
  IF Above(h) = {} THEN {p \in OnRing : \A q \in OnRing : q <= p} ELSE Lowest(Above(h))

(* The position of the virtual node that findNextNode returns: the first   *)
(* above the hash, or the first of all.                                    *)
NextPositions(h) == Lowest(IF Above(h) = {} THEN OnRing ELSE Above(h))

(* Mutant: the iterator that findNextNode uses is erased. *)
RemoveNext(vn) ==
  /\ ring' = [p \in Positions |->
                IF p \in NextPositions(HashOf[vn]) THEN NoVirtualNode ELSE ring[p]]
  /\ Restart

(* HashRing::removeNode erases whatever is at the position. *)
RemoveNode(vn) ==
  /\ ring' = [ring EXCEPT ![HashOf[vn]] = NoVirtualNode]
  /\ Restart

(* One round of the placement loop: findNextNode, and on to the hash of    *)
(* the virtual node it returned.  The loop is only entered if there are    *)
(* storage nodes; on an empty ring findNextNode is undefined.              *)
FindNextNode ==
  \E p \in NextPositions(hash) :
     /\ hash' = HashOf[ring[p]]
     /\ met' = met \cup {HashOf[ring[p]]}
     /\ UNCHANGED <<ring, start>>

Next ==
  \/ \E vn \in VirtualNodes : AddNode(vn) \/ RemoveNode(vn)
  \/ \E h \in Positions : StartWalk(h)
  \/ FindNextNode

Spec == Init /\ [][Next]_vars

-----------------------------------------------------------------------------
(* Properties *)

(* Types of the ring and the walk. *)
TypeOK ==
  /\ ring \in [Positions -> VirtualNodes \cup {NoVirtualNode}]
  /\ hash \in Positions /\ start \in Positions
  /\ met \subseteq Positions

(* How far along the ring p is from h; a position is a full turn away from *)
(* itself.                                                                 *)
Distance(h, p) == IF p > h THEN p - h ELSE p - h + MaxHash + 1

(* "Finds and returns next (virtual) node along the ring"                  *)
(* (hash_ring.hpp:82): there is one if the ring is not empty, and it is    *)
(* the nearest along the ring, whether or not the end of the hashes lies   *)
(* between.                                                                *)
NextIsNearest ==
  \A h \in Positions :
     /\ OnRing # {} => NextPositions(h) # {}
     /\ \A p \in NextPositions(h), q \in OnRing : Distance(h, p) <= Distance(h, q)

(* A walk does not come to a position for the second time before it has    *)
(* been at all of them.  So the placement loop, however many nodes it has  *)
(* to pass over, sees every storage node on the ring once per turn: it     *)
(* neither stops nor circles among a few of them.                          *)
NoneSkipped ==
  \A p \in NextPositions(hash) : HashOf[ring[p]] \in met => met = OnRing

(* Consistent hashing: adding or removing a virtual node leaves every hash *)
(* with the virtual node it had, except those whose next position is the   *)
(* one that was added, replaced or removed.                                *)
Owners(h) == {ring[p] : p \in NextPositions(h)}
KeysStay ==
  [][\A vn \in VirtualNodes : AddNode(vn) \/ RemoveNode(vn) =>
       \A h \in Positions :
          HashOf[vn] \notin NextPositions(h) \cup NextPositions(h)'
            => Owners(h)' = Owners(h)]_vars
=============================================================================
