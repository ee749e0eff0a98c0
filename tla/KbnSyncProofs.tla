--------------------------- MODULE KbnSyncProofs ---------------------------
(***************************************************************************)
(* Theorems about KbnSync, for every set of nodes, keys and blocks.        *)
(*                                                                         *)
(* A block map is reached through pointers, some held by continuations and *)
(* some by the KBN.  That an entry of the KBN names no node wrongly rests  *)
(* on every pointer being used for the key its map was made for (IInv).    *)
(* What the entries do contain rests on what each continuation has left to *)
(* do, and on who else works on the same key (CInv).                       *)
(***************************************************************************)
EXTENDS KbnSync, TLAPS

(* A continuation that works on a key holds a map of that key. *)
LocalInv ==
  \A n \in Nodes : at[n] \in {"fill", "store"} =>
     current[n] \in Keys /\ local[n] \in Pointers /\ local[n][2] = current[n]

(* The KBN points to a map of the key. *)
KbnInv == \A k \in Keys : kbn[k] # NullPtr => kbn[k] \in Pointers /\ kbn[k][2] = k

(* A map holds only what the nodes reported for its key. *)
MapInv == \A p \in Pointers : maps[p] \subseteq Truth(p[2])

IInv == TypeOK /\ LocalInv /\ KbnInv /\ MapInv

-----------------------------------------------------------------------------
(* Lemmas about the helpers *)

(* The null pointer points to no map. *)
LEMMA NullIsNoPointer == NullPtr \notin Pointers
BY KeysAssumption DEF NullPtr, Pointers

(* What a continuation puts into a map is what its node reported. *)
LEMMA OwnReported ==
  ASSUME TypeOK, NEW n \in Nodes, current[n] \in Keys
  PROVE  Own(n) \subseteq Truth(current[n])
<1>1. reported[n] \subseteq Keys \X Blocks
  BY DEF TypeOK
<1>2. SUFFICES ASSUME NEW x \in Own(n)
               PROVE  x \in Truth(current[n])
  OBVIOUS
<1>3. PICK y \in reported[n] : y[1] = current[n] /\ x = <<y[2], n>>
  BY DEF Own, BlocksOf
<1>4. y = <<current[n], y[2]>> /\ y[2] \in Blocks
  BY <1>1, <1>3
<1>. QED BY <1>3, <1>4 DEF Truth

(* The keys of an answer are keys. *)
LEMMA KeysOfType ==
  ASSUME TypeOK, NEW n \in Nodes
  PROVE  KeysOf(n) \subseteq Keys
BY DEF TypeOK, KeysOf

-----------------------------------------------------------------------------
(* The inductive invariant *)

LEMMA InitIInv == Init => IInv
<1>. SUFFICES ASSUME Init PROVE IInv
  OBVIOUS
<1>1. TypeOK
  BY DEF Init, TypeOK
<1>2. LocalInv /\ KbnInv /\ MapInv
  BY DEF Init, LocalInv, KbnInv, MapInv
<1>. QED BY <1>1, <1>2 DEF IInv

(* Steps that touch neither the block maps nor the KBN. *)
LEMMA ReceiveStep ==
  ASSUME IInv, NEW n \in Nodes, Receive(n) \/ RequestFails(n) \/ Finish(n)
  PROVE  IInv'
<1>1. TypeOK'
  BY KeysOfType DEF IInv, TypeOK, Receive, RequestFails, Finish, ghosts
<1>2. LocalInv'
  BY DEF IInv, TypeOK, LocalInv, Receive, RequestFails, Finish
<1>3. KbnInv' /\ MapInv'
  BY DEF IInv, KbnInv, MapInv, Truth, Receive, RequestFails, Finish
<1>. QED BY <1>1, <1>2, <1>3 DEF IInv

LEMMA LookupStep ==
  ASSUME IInv, NEW n \in Nodes, Lookup(n)
  PROVE  IInv'
<1>1. PICK k \in left[n] :
        /\ current' = [current EXCEPT ![n] = k]
        /\ local' = [local EXCEPT ![n] = IF kbn[k] # NullPtr THEN kbn[k] ELSE <<n, k>>]
        /\ left' = [left EXCEPT ![n] = @ \ {k}]
        /\ overlapped' = overlapped \cup {j \in {k} : \E m \in Nodes : current[m] = j}
  BY DEF Lookup
<1>2. k \in Keys
  BY <1>1 DEF IInv, TypeOK
<1>3. local'[n] \in Pointers /\ local'[n][2] = k /\ current'[n] = k
  BY <1>1, <1>2 DEF IInv, TypeOK, KbnInv, Pointers
<1>4. TypeOK'
  BY <1>1, <1>2, <1>3 DEF IInv, TypeOK, Lookup
<1>5. LocalInv'
  BY <1>1, <1>2, <1>3 DEF IInv, TypeOK, LocalInv, Lookup
<1>6. KbnInv' /\ MapInv'
  BY DEF IInv, KbnInv, MapInv, Truth, Lookup
<1>. QED BY <1>4, <1>5, <1>6 DEF IInv

LEMMA FillStep ==
  ASSUME IInv, NEW n \in Nodes, Fill(n)
  PROVE  IInv'
<1>1. current[n] \in Keys /\ local[n] \in Pointers /\ local[n][2] = current[n]
  BY DEF IInv, LocalInv, Fill
<1>2. PICK S \in SUBSET Own(n) : maps' = [maps EXCEPT ![local[n]] = @ \cup S]
  BY DEF Fill
<1>3. S \subseteq Truth(local[n][2])
  BY <1>1, <1>2, OwnReported DEF IInv
<1>4. TypeOK'
  <2>1. S \subseteq Blocks \X Nodes
    BY <1>3 DEF Truth
  <2>2. maps' \in [Pointers -> SUBSET (Blocks \X Nodes)]
    BY <1>1, <1>2, <2>1 DEF IInv, TypeOK
  <2>3. raced' \subseteq Pointers
    BY <1>1 DEF IInv, TypeOK, Fill
  <2>. QED BY <2>2, <2>3 DEF IInv, TypeOK, Fill
<1>5. LocalInv'
  BY DEF IInv, TypeOK, LocalInv, Fill
<1>6. MapInv'
  <2>. SUFFICES ASSUME NEW p \in Pointers
                PROVE  maps'[p] \subseteq Truth(p[2])
    BY DEF MapInv, Truth, Fill
  <2>1. maps[p] \subseteq Truth(p[2])
    BY DEF IInv, MapInv
  <2>2. maps'[p] = IF p = local[n] THEN maps[p] \cup S ELSE maps[p]
    BY <1>2 DEF IInv, TypeOK
  <2>. QED BY <1>3, <2>1, <2>2
<1>7. KbnInv'
  BY DEF IInv, KbnInv, Fill
<1>. QED BY <1>4, <1>5, <1>6, <1>7 DEF IInv

LEMMA StoreStep ==
  ASSUME IInv, NEW n \in Nodes, Store(n)
  PROVE  IInv'
<1>1. current[n] \in Keys /\ local[n] \in Pointers /\ local[n][2] = current[n]
  BY DEF IInv, LocalInv, Store
<1>2. TypeOK'
  BY <1>1 DEF IInv, TypeOK, Store, ghosts
<1>3. LocalInv'
  BY DEF IInv, TypeOK, LocalInv, Store
<1>4. KbnInv'
  BY <1>1 DEF IInv, TypeOK, KbnInv, Store
<1>5. MapInv'
  BY DEF IInv, MapInv, Truth, Store
<1>. QED BY <1>2, <1>3, <1>4, <1>5 DEF IInv

LEMMA NextIInv == IInv /\ [Next]_vars => IInv'
<1>. SUFFICES ASSUME IInv, [Next]_vars PROVE IInv'
  OBVIOUS
<1>1. ASSUME NEW n \in Nodes, Step(n) PROVE IInv'
  BY <1>1, ReceiveStep, LookupStep, FillStep, StoreStep DEF Step
<1>2. CASE UNCHANGED vars
  BY <1>2 DEF vars, ghosts, IInv, TypeOK, LocalInv, KbnInv, MapInv, Truth
<1>. QED BY <1>1, <1>2 DEF Next, Ended

LEMMA SpecIInv == Spec => []IInv
BY InitIInv, NextIInv, PTL DEF Spec

-----------------------------------------------------------------------------
(* Theorems *)

(* Every variable of the sync keeps its type: no continuation ever works   *)
(* on a key or through a pointer that is none.                             *)
THEOREM SyncTypeCorrect == Spec => []TypeOK
<1>1. IInv => TypeOK
  BY DEF IInv
<1>. QED BY <1>1, SpecIInv, PTL

(* Whatever the interleaving of the continuations and whatever racing      *)
(* insertions lose, the rebuilt KBN names no node for a block that the     *)
(* node did not report.                                                    *)
THEOREM NothingIsInvented == Spec => []NothingInvented
<1>1. IInv => NothingInvented
  BY DEF IInv, KbnInv, MapInv, NothingInvented, Entry
<1>. QED BY <1>1, SpecIInv, PTL
-----------------------------------------------------------------------------
(* Completeness *)

Busy(n) == at[n] \in {"fill", "store"}

(* The nodes that have nothing more to say about a key. *)
Heard(k) == {n \in Nodes : at[n] \notin {"wait", "failed"} /\ k \notin left[n] /\ current[n] # k}

(* The continuations' bookkeeping: only a busy one has a current key, its  *)
(* keys are those of its answer, and one that is done has none left.       *)
WorkInv ==
  \A n \in Nodes :
     /\ ~Busy(n) => current[n] = NoKey
     /\ Busy(n) => current[n] \in KeysOf(n)
     /\ left[n] \subseteq KeysOf(n)
     /\ at[n] = "done" => left[n] = {}

(* A map that no two continuations filled at once holds all that a node    *)
(* about to store it has put in.                                           *)
StoreInv ==
  \A n \in Nodes : (at[n] = "store" /\ local[n] \notin raced) => Own(n) \subseteq maps[local[n]]

(* A key of which some node has nothing more to say has a map. *)
MapMadeInv ==
  \A k \in Keys : \A n \in Heard(k) : k \in KeysOf(n) => kbn[k] # NullPtr

(* The map of a key holds all of one of its nodes, unless it was raced. *)
EntryInv ==
  \A k \in Keys : kbn[k] # NullPtr =>
     \/ kbn[k] \in raced
     \/ \E n \in Nodes : k \in KeysOf(n) /\ BlocksOf(n, k) \X {n} \subseteq maps[kbn[k]]

(* Only keys that several continuations worked on at once have raced maps. *)
RacedInv == \A p \in raced : p[2] \in overlapped

(* At most one continuation works on any other key ... *)
OneInv ==
  \A k \in Keys \ overlapped : \A m, n \in Nodes :
     current[m] = k /\ current[n] = k => m = n

(* ... with the map the KBN has, if it has one ... *)
SharedInv ==
  \A k \in Keys \ overlapped : \A n \in Nodes :
     current[n] = k /\ kbn[k] # NullPtr => local[n] = kbn[k]

(* ... and all that the nodes heard have reported of it is there. *)
HeardInv ==
  \A k \in Keys \ overlapped : \A n \in Heard(k) :
     k \in KeysOf(n) => BlocksOf(n, k) \X {n} \subseteq maps[kbn[k]]

CInv ==
  /\ WorkInv /\ StoreInv /\ MapMadeInv /\ EntryInv
  /\ RacedInv /\ OneInv /\ SharedInv /\ HeardInv

(* A node has blocks of exactly the keys of its answer. *)
LEMMA BlocksOfKey ==
  ASSUME NEW n, NEW k
  PROVE  k \in KeysOf(n) <=> BlocksOf(n, k) # {}
BY DEF KeysOf, BlocksOf

LEMMA NoKeyIsNone == NoKey \notin Keys
BY KeysAssumption DEF NoKey

LEMMA InitCInv == Init => CInv
<1>. SUFFICES ASSUME Init PROVE CInv
  OBVIOUS
<1>1. \A k \in Keys : Heard(k) = {} /\ kbn[k] = NullPtr
  BY DEF Init, Heard
<1>2. WorkInv /\ StoreInv
  BY DEF Init, WorkInv, StoreInv, Busy
<1>3. MapMadeInv /\ EntryInv /\ RacedInv /\ SharedInv /\ HeardInv
  BY <1>1 DEF Init, MapMadeInv, EntryInv, RacedInv, SharedInv, HeardInv
<1>4. OneInv
  BY NoKeyIsNone DEF Init, OneInv
<1>. QED BY <1>2, <1>3, <1>4 DEF CInv

(* Steps that touch neither the maps nor the KBN. *)
LEMMA ReceiveCInv ==
  ASSUME IInv, CInv, NEW n \in Nodes, Receive(n) \/ RequestFails(n) \/ Finish(n)
  PROVE  CInv'
<1>1. /\ ~Busy(n) /\ at[n] \in {"wait", "next"}
      /\ \/ at[n] = "wait" /\ at'[n] = "next" /\ left'[n] = KeysOf(n)
         \/ at[n] = "wait" /\ at'[n] = "failed" /\ left'[n] = left[n]
         \/ at[n] = "next" /\ at'[n] = "done" /\ left'[n] = {} /\ left[n] = {}
      /\ \A m \in Nodes \ {n} : at'[m] = at[m] /\ left'[m] = left[m]
      /\ UNCHANGED <<reported, current, local, maps, kbn, overlapped, raced>>
  BY DEF Receive, RequestFails, Finish, ghosts, IInv, TypeOK, Busy
<1>2. \A m : /\ KeysOf(m)' = KeysOf(m) /\ Own(m)' = Own(m)
             /\ \A k : BlocksOf(m, k)' = BlocksOf(m, k)
  BY <1>1 DEF KeysOf, Own, BlocksOf
<1>3. \A k \in Keys : \A m \in Heard(k)' : m \in Nodes /\ (k \in KeysOf(m) => m \in Heard(k))
  BY <1>1 DEF Heard
<1>4. WorkInv'
  BY <1>1, <1>2 DEF CInv, WorkInv, Busy
<1>5. StoreInv'
  BY <1>1, <1>2 DEF CInv, StoreInv
<1>6. MapMadeInv'
  BY <1>1, <1>2, <1>3 DEF CInv, MapMadeInv
<1>7. EntryInv'
  BY <1>1, <1>2 DEF CInv, EntryInv
<1>8. RacedInv' /\ OneInv' /\ SharedInv'
  BY <1>1 DEF CInv, RacedInv, OneInv, SharedInv
<1>9. HeardInv'
  BY <1>1, <1>2, <1>3 DEF CInv, HeardInv
<1>. QED BY <1>4, <1>5, <1>6, <1>7, <1>8, <1>9 DEF CInv

LEMMA LookupCInv ==
  ASSUME IInv, CInv, NEW n \in Nodes, Lookup(n)
  PROVE  CInv'
<1>1. PICK j \in left[n] :
        /\ current' = [current EXCEPT ![n] = j]
        /\ local' = [local EXCEPT ![n] = IF kbn[j] # NullPtr THEN kbn[j] ELSE <<n, j>>]
        /\ left' = [left EXCEPT ![n] = @ \ {j}]
        /\ overlapped' = overlapped \cup {i \in {j} : \E m \in Nodes : current[m] = i}
  BY DEF Lookup
<1>2. /\ at[n] = "next" /\ at' = [at EXCEPT ![n] = "fill"]
      /\ UNCHANGED <<reported, maps, kbn, raced>>
  BY DEF Lookup
<1>3. \A m : /\ KeysOf(m)' = KeysOf(m)
             /\ \A k : BlocksOf(m, k)' = BlocksOf(m, k)
  BY <1>2 DEF KeysOf, BlocksOf
<1>4. j \in Keys /\ j \in KeysOf(n) /\ current[n] = NoKey
  BY <1>1, <1>2 DEF IInv, TypeOK, CInv, WorkInv, Busy
<1>5. /\ at'[n] = "fill" /\ current'[n] = j /\ left'[n] = left[n] \ {j}
      /\ local'[n] = IF kbn[j] # NullPtr THEN kbn[j] ELSE <<n, j>>
      /\ \A m \in Nodes \ {n} : /\ at'[m] = at[m] /\ current'[m] = current[m]
                               /\ left'[m] = left[m] /\ local'[m] = local[m]
  BY <1>1, <1>2 DEF IInv, TypeOK
<1>6. \A k \in Keys : Heard(k)' = Heard(k)
  BY <1>1, <1>2, <1>4, <1>5, NoKeyIsNone DEF Heard
<1>7. WorkInv'
  BY <1>2, <1>3, <1>4, <1>5 DEF CInv, WorkInv, Busy
<1>8. StoreInv'
  <2>1. \A m \in Nodes \ {n} : Own(m)' = Own(m)
    BY <1>3, <1>5 DEF Own
  <2>. QED BY <1>2, <1>5, <2>1 DEF CInv, StoreInv
<1>9. MapMadeInv' /\ EntryInv'
  BY <1>2, <1>3, <1>6 DEF CInv, MapMadeInv, EntryInv
<1>10. overlapped \subseteq overlapped'
  BY <1>1
<1>11. RacedInv'
  BY <1>2, <1>10 DEF CInv, RacedInv
<1>12. OneInv' /\ SharedInv'
  <2>1. j \in overlapped' \/ \A m \in Nodes : current[m] # j
    BY <1>1
  <2>2. OneInv'
    BY <1>5, <1>10, <2>1 DEF CInv, OneInv
  <2>3. SharedInv'
    BY <1>2, <1>5, <1>10 DEF CInv, SharedInv
  <2>. QED BY <2>2, <2>3
<1>13. HeardInv'
  BY <1>2, <1>3, <1>6, <1>10 DEF CInv, HeardInv
<1>. QED BY <1>7, <1>8, <1>9, <1>11, <1>12, <1>13 DEF CInv

LEMMA FillCInv ==
  ASSUME IInv, CInv, NEW n \in Nodes, Fill(n)
  PROVE  CInv'
<1>1. current[n] \in Keys /\ local[n] \in Pointers /\ local[n][2] = current[n]
  BY DEF IInv, LocalInv, Fill
<1>2. PICK S \in IF Racing(n) THEN SUBSET Own(n) ELSE {Own(n)} :
         maps' = [maps EXCEPT ![local[n]] = @ \cup S]
  BY DEF Fill
<1>3. /\ at[n] = "fill" /\ at'[n] = "store"
      /\ \A m \in Nodes \ {n} : at'[m] = at[m]
      /\ raced' = IF Racing(n) THEN raced \cup {local[n]} ELSE raced
      /\ UNCHANGED <<reported, left, current, local, kbn, overlapped>>
  BY DEF Fill, IInv, TypeOK
<1>4. \A m : /\ KeysOf(m)' = KeysOf(m) /\ Own(m)' = Own(m)
             /\ \A k : BlocksOf(m, k)' = BlocksOf(m, k)
  BY <1>3 DEF KeysOf, Own, BlocksOf
<1>5. /\ \A p \in Pointers : maps[p] \subseteq maps'[p]
      /\ maps'[local[n]] = maps[local[n]] \cup S
  BY <1>1, <1>2 DEF IInv, TypeOK
<1>6. \A k \in Keys : Heard(k)' = Heard(k)
  BY <1>3 DEF Heard
<1>7. WorkInv'
  BY <1>3, <1>4 DEF CInv, WorkInv, Busy
<1>8. StoreInv'
  <2>. SUFFICES ASSUME NEW m \in Nodes, at'[m] = "store", local[m] \notin raced'
                PROVE  Own(m) \subseteq maps'[local[m]]
    BY <1>3, <1>4 DEF StoreInv
  <2>1. CASE m = n
    BY <1>2, <1>3, <1>5, <2>1
  <2>2. CASE m # n
    <3>1. at[m] = "store" /\ local[m] \notin raced
      BY <1>3, <2>2
    <3>2. local[m] \in Pointers /\ Own(m) \subseteq maps[local[m]]
      BY <3>1 DEF IInv, LocalInv, CInv, StoreInv
    <3>. QED BY <1>5, <3>2
  <2>. QED BY <2>1, <2>2
<1>9. MapMadeInv' /\ EntryInv'
  <2>1. MapMadeInv'
    BY <1>3, <1>4, <1>6 DEF CInv, MapMadeInv
  <2>2. \A k \in Keys : kbn[k] # NullPtr => maps[kbn[k]] \subseteq maps'[kbn[k]]
    BY <1>5 DEF IInv, KbnInv
  <2>3. raced \subseteq raced'
    BY <1>3
  <2>4. EntryInv'
    BY <1>3, <1>4, <2>2, <2>3 DEF CInv, EntryInv
  <2>. QED BY <2>1, <2>4
<1>10. RacedInv'
  <2>. SUFFICES ASSUME Racing(n), local[n] \notin raced
                PROVE  current[n] \in overlapped
    BY <1>1, <1>3 DEF CInv, RacedInv
  <2>1. PICK m \in Nodes \ {n} : at[m] = "fill" /\ local[m] = local[n]
    BY DEF Racing
  <2>2. current[m] = current[n]
    BY <1>1, <2>1 DEF IInv, LocalInv
  <2>. QED BY <1>1, <2>1, <2>2 DEF CInv, OneInv
<1>11. OneInv' /\ SharedInv'
  BY <1>3 DEF CInv, OneInv, SharedInv
<1>12. HeardInv'
  <2>. SUFFICES ASSUME NEW k \in Keys \ overlapped, NEW m \in Heard(k), k \in KeysOf(m)
                PROVE  BlocksOf(m, k) \X {m} \subseteq maps'[kbn[k]]
    BY <1>3, <1>4, <1>6 DEF HeardInv
  <2>1. kbn[k] \in Pointers
    BY DEF CInv, MapMadeInv, IInv, KbnInv
  <2>. QED BY <1>5, <2>1 DEF CInv, HeardInv
<1>. QED BY <1>7, <1>8, <1>9, <1>10, <1>11, <1>12 DEF CInv

LEMMA StoreCInv ==
  ASSUME IInv, CInv, NEW n \in Nodes, Store(n)
  PROVE  CInv'
<1>. DEFINE j == current[n]
<1>1. j \in Keys /\ local[n] \in Pointers /\ local[n][2] = j
  BY DEF IInv, LocalInv, Store
<1>2. /\ at[n] = "store" /\ at'[n] = "next" /\ current'[n] = NoKey
      /\ \A m \in Nodes \ {n} : /\ at'[m] = at[m] /\ current'[m] = current[m]
                               /\ local'[m] = local[m]
      /\ kbn'[j] = local[n]
      /\ \A k \in Keys \ {j} : kbn'[k] = kbn[k]
      /\ UNCHANGED <<reported, left, maps, overlapped, raced>>
  BY <1>1 DEF Store, IInv, TypeOK, ghosts
<1>3. \A m : /\ KeysOf(m)' = KeysOf(m)
             /\ \A k : BlocksOf(m, k)' = BlocksOf(m, k)
  BY <1>2 DEF KeysOf, BlocksOf
<1>4. j \in KeysOf(n)
  BY <1>2 DEF CInv, WorkInv, Busy
<1>5. \A k \in Keys : \A m \in Heard(k)' : m \in Nodes /\ (m \in Heard(k) \/ (m = n /\ k = j))
  BY <1>2 DEF Heard
<1>6. local[n] # NullPtr
  BY <1>1, NullIsNoPointer
<1>7. local[n] \in raced \/ BlocksOf(n, j) \X {n} \subseteq maps[local[n]]
  BY <1>2 DEF CInv, StoreInv, Own
<1>8. WorkInv'
  BY <1>2, <1>3 DEF CInv, WorkInv, Busy
<1>9. StoreInv'
  <2>1. \A m \in Nodes \ {n} : Own(m)' = Own(m)
    BY <1>2, <1>3 DEF Own
  <2>. QED BY <1>2, <2>1 DEF CInv, StoreInv
<1>10. MapMadeInv'
  BY <1>2, <1>3, <1>5, <1>6 DEF CInv, MapMadeInv
<1>11. EntryInv'
  BY <1>2, <1>3, <1>4, <1>7 DEF CInv, EntryInv
<1>12. RacedInv'
  BY <1>2 DEF CInv, RacedInv
<1>13. OneInv' /\ SharedInv'
  <2>1. OneInv'
    BY <1>2, NoKeyIsNone DEF CInv, OneInv
  <2>2. SharedInv'
    BY <1>1, <1>2, NoKeyIsNone DEF CInv, OneInv, SharedInv
  <2>. QED BY <2>1, <2>2
<1>14. HeardInv'
  <2>. SUFFICES ASSUME NEW k \in Keys \ overlapped, NEW m \in Heard(k)', k \in KeysOf(m)
                PROVE  BlocksOf(m, k) \X {m} \subseteq maps[kbn'[k]]
    BY <1>2, <1>3 DEF HeardInv
  <2>1. CASE m \in Heard(k)
    <3>1. kbn[k] # NullPtr /\ BlocksOf(m, k) \X {m} \subseteq maps[kbn[k]]
      BY <2>1 DEF CInv, MapMadeInv, HeardInv
    <3>2. kbn'[k] = kbn[k]
      BY <1>1, <1>2, <3>1 DEF CInv, SharedInv
    <3>. QED BY <3>1, <3>2
  <2>2. CASE m = n /\ k = j
    <3>1. local[n] \notin raced
      BY <1>1, <2>2 DEF CInv, RacedInv
    <3>. QED BY <1>2, <1>7, <2>2, <3>1
  <2>. QED BY <1>5, <2>1, <2>2
<1>. QED BY <1>8, <1>9, <1>10, <1>11, <1>12, <1>13, <1>14 DEF CInv

LEMMA NextCInv == IInv /\ CInv /\ [Next]_vars => CInv'
<1>. SUFFICES ASSUME IInv, CInv, [Next]_vars PROVE CInv'
  OBVIOUS
<1>1. ASSUME NEW n \in Nodes, Step(n) PROVE CInv'
  BY <1>1, ReceiveCInv, LookupCInv, FillCInv, StoreCInv DEF Step
<1>2. CASE UNCHANGED vars
  <2>1. UNCHANGED <<reported, left, at, current, local, maps, kbn, overlapped, raced>>
    BY <1>2 DEF vars, ghosts
  <2>2. \A m : /\ KeysOf(m)' = KeysOf(m) /\ Own(m)' = Own(m)
               /\ \A k : BlocksOf(m, k)' = BlocksOf(m, k)
    BY <2>1 DEF KeysOf, Own, BlocksOf
  <2>3. \A k : Heard(k)' = Heard(k)
    BY <2>1 DEF Heard
  <2>4. (WorkInv /\ StoreInv /\ MapMadeInv)'
    BY <2>1, <2>2, <2>3 DEF CInv, WorkInv, StoreInv, MapMadeInv, Busy
  <2>5. (EntryInv /\ RacedInv /\ OneInv /\ SharedInv /\ HeardInv)'
    BY <2>1, <2>2, <2>3 DEF CInv, EntryInv, RacedInv, OneInv, SharedInv, HeardInv
  <2>. QED BY <2>4, <2>5 DEF CInv
<1>. QED BY <1>1, <1>2 DEF Next, Ended

LEMMA SpecCInv == Spec => [](IInv /\ CInv)
<1>1. IInv /\ CInv /\ [Next]_vars => (IInv /\ CInv)'
  BY NextIInv, NextCInv
<1>. QED BY <1>1, InitIInv, InitCInv, PTL DEF Spec

(* Once all continuations have ended, every node has said all it has. *)
LEMMA AllHeard ==
  ASSUME IInv, CInv, Synced, NEW k \in Keys
  PROVE  Heard(k) = Nodes
BY NoKeyIsNone DEF CInv, WorkInv, Busy, Synced, Heard

(* A pair that its node reported. *)
LEMMA TruthIsOwn ==
  ASSUME NEW k \in Keys, NEW x \in Truth(k)
  PROVE  /\ x[2] \in Nodes /\ k \in KeysOf(x[2])
         /\ x \in BlocksOf(x[2], k) \X {x[2]}
<1>1. x \in Blocks \X Nodes /\ <<k, x[1]>> \in reported[x[2]]
  BY DEF Truth
<1>2. x = <<x[1], x[2]>> /\ x[2] \in Nodes
  BY <1>1
<1>3. x[1] \in BlocksOf(x[2], k) /\ k \in KeysOf(x[2])
  BY <1>1 DEF BlocksOf, KeysOf
<1>. QED BY <1>2, <1>3

(* However the continuations interleave, no key is lost, and the blocks of *)
(* one of its nodes are all there unless its map was filled at once by two *)
(* continuations.                                                          *)
THEOREM SomeNodeIsComplete == Spec => []SomeNodeComplete
<1>1. ASSUME IInv, CInv PROVE SomeNodeComplete
  <2>. SUFFICES ASSUME Synced, NEW k \in Keys, NEW x \in Truth(k)
                PROVE  /\ kbn[k] # NullPtr
                       /\ \/ kbn[k] \in raced
                          \/ \E n \in Nodes :
                                /\ BlocksOf(n, k) # {}
                                /\ BlocksOf(n, k) \X {n} \subseteq Entry(k)
    BY DEF SomeNodeComplete
  <2>1. kbn[k] # NullPtr
    BY <1>1, TruthIsOwn, AllHeard DEF CInv, MapMadeInv
  <2>2. Entry(k) = maps[kbn[k]]
    BY <2>1 DEF Entry
  <2>. QED BY <1>1, <2>1, <2>2, BlocksOfKey DEF CInv, EntryInv
<1>. QED BY <1>1, SpecCInv, PTL

(* A key whose continuations never overlapped has all its replicas in the  *)
(* rebuilt KBN: nothing but such an overlap loses one.                     *)
THEOREM IsCompleteUnlessOverlapped == Spec => []CompleteUnlessOverlapped
<1>1. ASSUME IInv, CInv PROVE CompleteUnlessOverlapped
  <2>. SUFFICES ASSUME Synced, NEW k \in Keys \ overlapped, NEW x \in Truth(k)
                PROVE  x \in Entry(k)
    BY <1>1 DEF CompleteUnlessOverlapped, IInv, KbnInv, MapInv, Entry
  <2>1. k \in KeysOf(x[2]) /\ x[2] \in Heard(k) /\ x \in BlocksOf(x[2], k) \X {x[2]}
    BY <1>1, TruthIsOwn, AllHeard
  <2>2. kbn[k] # NullPtr /\ x \in maps[kbn[k]]
    BY <1>1, <2>1 DEF CInv, MapMadeInv, HeardInv
  <2>. QED BY <2>2 DEF Entry
<1>. QED BY <1>1, SpecCInv, PTL
=============================================================================
