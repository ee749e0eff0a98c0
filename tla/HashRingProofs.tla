--------------------------- MODULE HashRingProofs ---------------------------
(***************************************************************************)
(* Theorems about HashRing, for every number of nodes and virtual nodes,   *)
(* every size of the ring and every hash function, colliding ones too.     *)
(*                                                                         *)
(* The walk skips nobody because what it has met is always an interval of  *)
(* the ring: the positions no further from its start than where it is      *)
(* (MetInv).  That it moves along the ring at all rests on the hash of a   *)
(* virtual node being its position (Keyed).                                *)
(***************************************************************************)
EXTENDS HashRing, DataFacts

(* A virtual node is at the position it hashes to. *)
Keyed == \A p \in OnRing : HashOf[ring[p]] = p

(* The positions between the start of the walk and where it is. *)
Passed == {p \in OnRing : Distance(start, p) <= Distance(start, hash)}

MetInv ==
  \/ met = {} /\ hash = start
  \/ met = Passed /\ hash \in OnRing
  \/ met = OnRing /\ hash \in OnRing

IInv == TypeOK /\ Keyed /\ MetInv

-----------------------------------------------------------------------------
(* Positions and distances *)

LEMMA NextInRing ==
  ASSUME NEW h \in Positions, NEW p \in NextPositions(h)
  PROVE  p \in OnRing
BY DEF NextPositions, Lowest, Above

(* What findNextNode returns is the nearest. *)
LEMMA NextNearest ==
  ASSUME NEW h \in Positions, NEW p \in NextPositions(h), NEW q \in OnRing
  PROVE  Distance(h, p) <= Distance(h, q)
BY MaxHashAssumption DEF NextPositions, Lowest, Above, OnRing, Positions, Distance

LEMMA NextExists ==
  ASSUME NEW h \in Positions, OnRing # {}
  PROVE  NextPositions(h) # {}
<1>. DEFINE S == IF Above(h) = {} THEN OnRing ELSE Above(h)
<1>1. S # {} /\ S \subseteq Nat
  BY MaxHashAssumption DEF Above, OnRing, Positions
<1>2. PICK m \in S : \A n \in S : m <= n
  BY <1>1, LeastExists
<1>. QED BY <1>2 DEF NextPositions, Lowest

(* The nearest position after a hash is the only one between the two. *)
LEMMA NextIsOnly ==
  ASSUME NEW h \in Positions, NEW p \in NextPositions(h), NEW q \in OnRing,
         Distance(h, q) <= Distance(h, p)
  PROVE  q = p
BY MaxHashAssumption DEF NextPositions, Lowest, Above, OnRing, Positions, Distance

(* Going on from a position to the next passes that one only, unless the   *)
(* whole ring has been passed.                                             *)
LEMMA NextPasses ==
  ASSUME NEW s \in Positions, NEW h \in OnRing, NEW p \in NextPositions(h),
         NEW q \in OnRing, Distance(s, q) > Distance(s, h)
  PROVE  /\ Distance(s, p) > Distance(s, h)
         /\ Distance(s, q) <= Distance(s, p) => q = p
BY MaxHashAssumption DEF NextPositions, Lowest, Above, OnRing, Positions, Distance

(* NextPositions, of any set of positions. *)
FirstAfter(S, h) == Lowest(IF {p \in S : p > h} = {} THEN S ELSE {p \in S : p > h})

(* Two sets that differ in one position have the same first positions      *)
(* after a hash, unless that position is the first in one of them.         *)
LEMMA FirstStays ==
  ASSUME NEW S \in SUBSET Positions, NEW T \in SUBSET Positions,
         NEW c \in Positions, \A p \in Positions \ {c} : p \in S <=> p \in T,
         NEW h \in Positions, c \notin FirstAfter(S, h), c \notin FirstAfter(T, h)
  PROVE  FirstAfter(S, h) \subseteq FirstAfter(T, h)
<1>. SUFFICES ASSUME NEW p \in FirstAfter(S, h) PROVE p \in FirstAfter(T, h)
  OBVIOUS
<1>1. p \in Positions /\ p \in S /\ p \in T /\ p # c
  BY DEF FirstAfter, Lowest
<1>2. \A q \in Positions : q \in Int
  BY MaxHashAssumption DEF Positions
<1>3. CASE p > h
  BY <1>1, <1>2, <1>3 DEF FirstAfter, Lowest
<1>4. CASE ~(p > h)
  BY <1>1, <1>2, <1>4 DEF FirstAfter, Lowest
<1>. QED BY <1>3, <1>4

-----------------------------------------------------------------------------
(* The inductive invariant *)

LEMMA InitIInv == Init => IInv
<1>. SUFFICES ASSUME Init PROVE IInv
  OBVIOUS
<1>1. OnRing = {}
  BY DEF Init, OnRing
<1>. QED BY <1>1 DEF Init, IInv, TypeOK, Keyed, MetInv

LEMMA RealNode == \A vn \in VirtualNodes : vn # NoVirtualNode /\ HashOf[vn] \in Positions
BY StorageNodesAssumption, HashAssumption DEF VirtualNodes, NoVirtualNode

LEMMA AddStep ==
  ASSUME IInv, NEW vn \in VirtualNodes, AddNode(vn)
  PROVE  IInv'
<1>1. TypeOK'
  BY RealNode DEF IInv, TypeOK, AddNode, Restart
<1>2. Keyed'
  BY RealNode DEF IInv, TypeOK, Keyed, OnRing, AddNode
<1>3. MetInv'
  BY DEF MetInv, AddNode, Restart
<1>. QED BY <1>1, <1>2, <1>3 DEF IInv

LEMMA RemoveStep ==
  ASSUME IInv, NEW vn \in VirtualNodes, RemoveNode(vn)
  PROVE  IInv'
<1>1. TypeOK'
  BY RealNode DEF IInv, TypeOK, RemoveNode, Restart
<1>2. Keyed'
  BY RealNode DEF IInv, TypeOK, Keyed, OnRing, RemoveNode
<1>3. MetInv'
  BY DEF MetInv, RemoveNode, Restart
<1>. QED BY <1>1, <1>2, <1>3 DEF IInv

LEMMA StartStep ==
  ASSUME IInv, NEW h \in Positions, StartWalk(h)
  PROVE  IInv'
BY DEF IInv, TypeOK, Keyed, MetInv, OnRing, StartWalk

(* The next position is a new one until all have been met, and with it the *)
(* walk has met an interval or all.                                        *)
LEMMA NextIsNew ==
  ASSUME IInv, NEW p \in NextPositions(hash)
  PROVE  /\ p \in OnRing /\ HashOf[ring[p]] = p
         /\ p \in met => met = OnRing
         /\ \/ met \cup {p} = OnRing
            \/ met \cup {p} = {q \in OnRing : Distance(start, q) <= Distance(start, p)}
<1>. DEFINE Reached == {q \in OnRing : Distance(start, q) <= Distance(start, p)}
<1>1. hash \in Positions /\ start \in Positions
  BY DEF IInv, TypeOK
<1>2. p \in OnRing /\ HashOf[ring[p]] = p
  BY <1>1, NextInRing DEF IInv, Keyed
<1>3. CASE met = {} /\ hash = start
  <2>1. \A q \in OnRing : Distance(start, q) <= Distance(start, p) => q = p
    BY <1>1, <1>3, NextIsOnly
  <2>2. Distance(start, p) <= Distance(start, p)
    BY <1>1, <1>2, <1>3, NextNearest
  <2>3. Reached = {p}
    BY <1>2, <2>1, <2>2
  <2>. QED BY <1>2, <1>3, <2>3
<1>4. CASE met = OnRing /\ hash \in OnRing
  BY <1>2, <1>4
<1>5. CASE met = Passed /\ hash \in OnRing /\ met # OnRing
  <2>1. PICK u \in OnRing : ~(Distance(start, u) <= Distance(start, hash))
    BY <1>5 DEF Passed
  <2>2. \A q \in OnRing : Distance(start, q) \in Int /\ Distance(start, hash) \in Int
    BY <1>1, <1>5, MaxHashAssumption DEF Distance, OnRing, Positions
  <2>3. Distance(start, p) > Distance(start, hash)
    BY <1>1, <1>5, <2>1, <2>2, NextPasses
  <2>4. \A q \in OnRing : Distance(start, q) > Distance(start, hash)
                            => (Distance(start, q) <= Distance(start, p) => q = p)
    BY <1>1, <1>5, NextPasses
  <2>5. p \notin met
    BY <1>2, <1>5, <2>2, <2>3 DEF Passed
  <2>6. Reached = met \cup {p}
    BY <1>2, <1>5, <2>2, <2>3, <2>4 DEF Passed
  <2>. QED BY <1>2, <2>5, <2>6
<1>. QED BY <1>3, <1>4, <1>5 DEF IInv, MetInv

LEMMA WalkStep ==
  ASSUME IInv, FindNextNode
  PROVE  IInv'
<1>1. PICK p \in NextPositions(hash) :
        /\ hash' = HashOf[ring[p]] /\ met' = met \cup {HashOf[ring[p]]}
        /\ UNCHANGED <<ring, start>>
  BY DEF FindNextNode
<1>2. /\ p \in OnRing /\ hash' = p /\ met' = met \cup {p}
      /\ OnRing' = OnRing
  BY <1>1, NextIsNew DEF OnRing
<1>3. TypeOK'
  BY <1>1, <1>2 DEF IInv, TypeOK, OnRing
<1>4. Keyed'
  BY <1>1, <1>2 DEF IInv, Keyed
<1>5. Passed' = {q \in OnRing : Distance(start, q) <= Distance(start, p)}
  BY <1>1, <1>2 DEF Passed, Distance
<1>6. MetInv'
  BY <1>2, <1>5, NextIsNew DEF MetInv
<1>. QED BY <1>3, <1>4, <1>6 DEF IInv

LEMMA NextIInv == IInv /\ [Next]_vars => IInv'
<1>. SUFFICES ASSUME IInv, [Next]_vars PROVE IInv'
  OBVIOUS
<1>1. CASE UNCHANGED vars
  BY <1>1 DEF vars, walk, IInv, TypeOK, Keyed, MetInv, Passed, OnRing
<1>. QED BY <1>1, AddStep, RemoveStep, StartStep, WalkStep DEF Next

LEMMA SpecIInv == Spec => []IInv
BY InitIInv, NextIInv, PTL DEF Spec

-----------------------------------------------------------------------------
(* Theorems *)

(* The ring holds virtual nodes only, and a walk stays on it. *)
THEOREM RingTypeCorrect == Spec => []TypeOK
<1>1. IInv => TypeOK
  BY DEF IInv
<1>. QED BY <1>1, SpecIInv, PTL

(* findNextNode finds a virtual node whenever there is one, and the one it *)
(* finds is the nearest along the ring, also across the end of the hashes. *)
THEOREM FindsTheNearest == Spec => []NextIsNearest
<1>1. IInv => NextIsNearest
  BY NextExists, NextNearest DEF NextIsNearest
<1>. QED BY <1>1, SpecIInv, PTL

(* The walk of a placement is at every position of the ring before it is   *)
(* at one for the second time: no storage node on the ring is passed by.   *)
THEOREM WalkSkipsNone == Spec => []NoneSkipped
<1>1. IInv => NoneSkipped
  BY NextIsNew DEF NoneSkipped
<1>. QED BY <1>1, SpecIInv, PTL

(* Adding or removing a virtual node moves only the hashes whose next      *)
(* position is its own: no other block is looked for elsewhere.            *)
THEOREM OtherKeysStay == Spec => KeysStay
<1>. DEFINE A == \A vn \in VirtualNodes : AddNode(vn) \/ RemoveNode(vn) =>
                   \A h \in Positions :
                      HashOf[vn] \notin NextPositions(h) \cup NextPositions(h)'
                        => Owners(h)' = Owners(h)
<1>1. ASSUME IInv PROVE A
  <2>. SUFFICES ASSUME NEW vn \in VirtualNodes, AddNode(vn) \/ RemoveNode(vn),
                       NEW h \in Positions,
                       HashOf[vn] \notin NextPositions(h) \cup NextPositions(h)'
                PROVE  Owners(h)' = Owners(h)
    OBVIOUS
  <2>. DEFINE c == HashOf[vn]
  <2>1. c \in Positions /\ \A p \in Positions \ {c} : ring'[p] = ring[p]
    BY <1>1, RealNode DEF AddNode, RemoveNode, IInv, TypeOK
  <2>2. \A p \in Positions \ {c} : p \in OnRing' <=> p \in OnRing
    BY <2>1 DEF OnRing
  <2>3. NextPositions(h)' = NextPositions(h)
    <3>1. NextPositions(h) = FirstAfter(OnRing, h) /\ NextPositions(h)' = FirstAfter(OnRing', h)
      BY DEF NextPositions, Above, FirstAfter
    <3>2. OnRing \subseteq Positions /\ OnRing' \subseteq Positions
      BY DEF OnRing
    <3>3. FirstAfter(OnRing, h) \subseteq FirstAfter(OnRing', h)
      BY <2>1, <2>2, <3>1, <3>2, FirstStays
    <3>4. FirstAfter(OnRing', h) \subseteq FirstAfter(OnRing, h)
      BY <2>1, <2>2, <3>1, <3>2, FirstStays
    <3>. QED BY <3>1, <3>3, <3>4
  <2>. QED BY <2>1, <2>3, NextInRing DEF Owners, OnRing
<1>2. IInv /\ [Next]_vars => [A]_vars
  BY <1>1
<1>. QED BY <1>2, SpecIInv, PTL DEF Spec, KeysStay
=============================================================================
