------------------------------ MODULE KbnSync ------------------------------
(***************************************************************************)
(* The master's start-up (MasterServer::syncWithStorageNodes): every node  *)
(* is asked for its keys and block numbers, and the continuations that     *)
(* receive the answers, each on a thread of its own, build the key-block-  *)
(* node map (KBN) together.                                                *)
(*                                                                         *)
(* A continuation takes the keys of its answer in order.  For each key it  *)
(* looks the block map up under kbnMutex, adds itself to it without the    *)
(* mutex, and stores the pointer to it back under kbnMutex.  The block map *)
(* is shared by pointer: a continuation that found one changes the map     *)
(* the KBN already points to; one that found none fills a map of its own.  *)
(* A map is named by the node and key it was made for.                     *)
(*                                                                         *)
(* A node that cannot be reached, answers with an error or not in time     *)
(* makes when_all throw out of the constructor, which ends the process     *)
(* whatever the other continuations have done by then.                     *)
(*                                                                         *)
(* Two continuations that fill the same std::map at once race.  Here each  *)
(* of them may then lose any of its entries; that the race may as well     *)
(* kill the process is not modelled.  overlapped and raced are ghosts.     *)
(***************************************************************************)
EXTENDS Integers, FiniteSets

CONSTANTS Nodes,      \* storage node ids
          Keys,       \* keys, numbered in the order of std::map
          Blocks,     \* block numbers
          MaxReports  \* bound: (key, block) pairs the nodes report in all

ASSUME KeysAssumption == Keys \subseteq Nat

VARIABLES
  reported,   \* reported[n]: the pairs <<key, block>> node n's answer holds
  left,       \* left[n]: keys of the answer the continuation still has to do
  at,         \* at[n]: "wait" (no answer yet), "next", "fill", "store", "done",
              \* or "failed"
  current,    \* current[n]: the key it is working on
  local,      \* local[n]: the block map it holds a pointer to
  maps,       \* maps[p]: the pairs <<block, node>> of block map p
  kbn,        \* keyBlockNodeMap: a pointer to a block map for each key
  overlapped, \* keys two continuations have worked on at once
  raced       \* block maps two continuations have filled at once

ghosts == <<overlapped, raced>>
vars == <<reported, left, at, current, local, maps, kbn, ghosts>>

Pointers == Nodes \X Keys
NullPtr == <<-1, -1>>
NoKey == -1

(* Mutant: the blocks of every key. *)
BlocksOfAnyKey(n, k) == {x[2] : x \in reported[n]}

KeysOf(n) == {x[1] : x \in reported[n]}
BlocksOf(n, k) == {x[2] : x \in {y \in reported[n] : y[1] = k}}

Init ==
  /\ reported \in [Nodes -> SUBSET (Keys \X Blocks)]
  /\ Cardinality({z \in Nodes \X (Keys \X Blocks) : z[2] \in reported[z[1]]}) <= MaxReports
  /\ left = [n \in Nodes |-> {}]
  /\ at = [n \in Nodes |-> "wait"]
  /\ current = [n \in Nodes |-> NoKey]
  /\ local = [n \in Nodes |-> NullPtr]
  /\ maps = [p \in Pointers |-> {}]
  /\ kbn = [k \in Keys |-> NullPtr]
  /\ overlapped = {} /\ raced = {}

(* The node's answer arrives. *)
Receive(n) ==
  /\ at[n] = "wait"
  /\ at' = [at EXCEPT ![n] = "next"]
  /\ left' = [left EXCEPT ![n] = KeysOf(n)]
  /\ UNCHANGED <<reported, current, local, maps, kbn, ghosts>>

(* No answer, or one that is not OK: the continuations throw.              *)
RequestFails(n) ==
  /\ at[n] = "wait"
  /\ at' = [at EXCEPT ![n] = "failed"]
  /\ UNCHANGED <<reported, left, current, local, maps, kbn, ghosts>>

(* Mutant: the continuation always makes a map of its own. *)
LookupAlwaysNew(n) ==
  /\ at[n] = "next" /\ left[n] # {}
  /\ \E k \in left[n] :
       /\ \A j \in left[n] : k <= j
       /\ current' = [current EXCEPT ![n] = k]
       /\ local' = [local EXCEPT ![n] = <<n, k>>]
       /\ left' = [left EXCEPT ![n] = @ \ {k}]
       /\ overlapped' = overlapped \cup {j \in {k} : \E m \in Nodes : current[m] = j}
  /\ at' = [at EXCEPT ![n] = "fill"]
  /\ UNCHANGED <<reported, maps, kbn, raced>>

(* Mutant: the key is never crossed off. *)
LookupForever(n) ==
  /\ at[n] = "next" /\ left[n] # {}
  /\ \E k \in left[n] :
       /\ \A j \in left[n] : k <= j
       /\ current' = [current EXCEPT ![n] = k]
       /\ local' = [local EXCEPT ![n] = IF kbn[k] # NullPtr THEN kbn[k] ELSE <<n, k>>]
       /\ overlapped' = overlapped \cup {j \in {k} : \E m \in Nodes : current[m] = j}
  /\ at' = [at EXCEPT ![n] = "fill"]
  /\ UNCHANGED <<reported, left, maps, kbn, raced>>

(* First critical section: the key's map, or a new one. *)
Lookup(n) ==
  /\ at[n] = "next" /\ left[n] # {}
  /\ \E k \in left[n] :
       /\ \A j \in left[n] : k <= j
       /\ current' = [current EXCEPT ![n] = k]
       /\ local' = [local EXCEPT ![n] = IF kbn[k] # NullPtr THEN kbn[k] ELSE <<n, k>>]
       /\ left' = [left EXCEPT ![n] = @ \ {k}]
       /\ overlapped' = overlapped \cup {j \in {k} : \E m \in Nodes : current[m] = j}
  /\ at' = [at EXCEPT ![n] = "fill"]
  /\ UNCHANGED <<reported, maps, kbn, raced>>

(* Mutant: block and node swapped. *)
OwnSwapped(n) == {n} \X BlocksOf(n, current[n])

(* The pairs the continuation puts into the block map. *)
Own(n) == BlocksOf(n, current[n]) \X {n}

(* Another continuation is filling the same map, or has been while a third *)
(* one was.                                                                *)
Racing(n) ==
  \/ local[n] \in raced
  \/ \E m \in Nodes \ {n} : at[m] = "fill" /\ local[m] = local[n]

(* Outside the mutex: the node enters itself for each of its blocks. *)
Fill(n) ==
  /\ at[n] = "fill"
  /\ \E S \in IF Racing(n) THEN SUBSET Own(n) ELSE {Own(n)} :
       maps' = [maps EXCEPT ![local[n]] = @ \cup S]
  /\ raced' = IF Racing(n) THEN raced \cup {local[n]} ELSE raced
  /\ at' = [at EXCEPT ![n] = "store"]
  /\ UNCHANGED <<reported, left, current, local, kbn, overlapped>>

(* Mutant: a map is stored only for a key the KBN has already. *)
StoreExisting(n) ==
  /\ at[n] = "store"
  /\ kbn' = [kbn EXCEPT ![current[n]] = IF @ = NullPtr THEN @ ELSE local[n]]
  /\ at' = [at EXCEPT ![n] = "next"]
  /\ current' = [current EXCEPT ![n] = NoKey]
  /\ local' = [local EXCEPT ![n] = NullPtr]
  /\ UNCHANGED <<reported, left, maps, ghosts>>

(* Second critical section: the KBN points to the map it was filled into.  *)
Store(n) ==
  /\ at[n] = "store"
  /\ kbn' = [kbn EXCEPT ![current[n]] = local[n]]
  /\ at' = [at EXCEPT ![n] = "next"]
  /\ current' = [current EXCEPT ![n] = NoKey]
  /\ local' = [local EXCEPT ![n] = NullPtr]
  /\ UNCHANGED <<reported, left, maps, ghosts>>

(* The answer is used up; the statistics of the node are set. *)
Finish(n) ==
  /\ at[n] = "next" /\ left[n] = {}
  /\ at' = [at EXCEPT ![n] = "done"]
  /\ UNCHANGED <<reported, left, current, local, maps, kbn, ghosts>>

(* when_all has ended and the master starts to serve. *)
Synced == \A n \in Nodes : at[n] = "done"

(* when_all throws with the first failure, and the process ends.           *)
Failed == \E n \in Nodes : at[n] = "failed"

Ended == (Synced \/ Failed) /\ UNCHANGED vars

Step(n) ==
  /\ ~Failed
  /\ Receive(n) \/ RequestFails(n) \/ Lookup(n) \/ Fill(n) \/ Store(n) \/ Finish(n)

Next == (\E n \in Nodes : Step(n)) \/ Ended

(* A request ends with an answer or, at the latest when the http client    *)
(* gives up, with a failure; a continuation that has begun goes on.        *)
Spec == Init /\ [][Next]_vars /\ \A n \in Nodes : WF_vars(Step(n))

-----------------------------------------------------------------------------
(* Properties *)

(* Types of the answers, the continuations and the maps. *)
TypeOK ==
  /\ reported \in [Nodes -> SUBSET (Keys \X Blocks)]
  /\ left \in [Nodes -> SUBSET Keys]
  /\ at \in [Nodes -> {"wait", "next", "fill", "store", "done", "failed"}]
  /\ current \in [Nodes -> Keys \cup {NoKey}]
  /\ local \in [Nodes -> Pointers \cup {NullPtr}]
  /\ maps \in [Pointers -> SUBSET (Blocks \X Nodes)]
  /\ kbn \in [Keys -> Pointers \cup {NullPtr}]
  /\ overlapped \subseteq Keys /\ raced \subseteq Pointers

Entry(k) == IF kbn[k] = NullPtr THEN {} ELSE maps[kbn[k]]
Truth(k) == {x \in Blocks \X Nodes : <<k, x[1]>> \in reported[x[2]]}

(* Whatever the interleaving, the KBN never names a node for a block it    *)
(* did not report: a GET is never sent to a node that lacks the block.     *)
NothingInvented == \A k \in Keys : Entry(k) \subseteq Truth(k)

(* Whatever the interleaving, no key is lost, and for each key the blocks  *)
(* of at least one of its nodes are all there, unless its map was filled   *)
(* by two continuations at once.                                           *)
SomeNodeComplete ==
  Synced => \A k \in Keys : Truth(k) # {} =>
              /\ kbn[k] # NullPtr
              /\ \/ kbn[k] \in raced
                 \/ \E n \in Nodes :
                       /\ BlocksOf(n, k) # {}
                       /\ BlocksOf(n, k) \X {n} \subseteq Entry(k)

(* Looking a key up and storing it under the mutex is enough as long as no *)
(* two continuations are on the same key at once: then its entry is all    *)
(* that the nodes reported.  A replica is only ever lost to such overlap.  *)
CompleteUnlessOverlapped ==
  Synced => \A k \in Keys \ overlapped : Entry(k) = Truth(k)

(* The constructor does not hang: the master serves, or the process ends.  *)
(* It serves if no request fails: the loops over keys and blocks end, and  *)
(* no continuation waits for another one.                                  *)
SyncEnds == <>(Synced \/ Failed)

-----------------------------------------------------------------------------
(* "Stores the location of blocks on our storage cluster [...] the set of  *)
(* storage nodes the given block is stored on" (master_server.cpp:40-48):  *)
(* once the nodes have been heard, the KBN holds all they reported.  It    *)
(* does not when two continuations look the same key up before either has  *)
(* stored its map.                                                         *)
SyncComplete == Synced => \A k \in Keys : Entry(k) = Truth(k)
=============================================================================
