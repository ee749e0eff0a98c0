------------------------- MODULE MasterServerProofs -------------------------
(***************************************************************************)
(* Theorems about MasterServer, for every set of nodes, keys and clients,  *)
(* every ring and replication factor, in two parts.                        *)
(*                                                                         *)
(* Types, with the invariant they need: how requests are numbered, what the *)
(* walk along the ring has met, and which messages a request in progress   *)
(* still waits for.                                                        *)
(*                                                                         *)
(* What the master and its nodes keep of what they promised, and what a GET *)
(* reads: the invariants KbnKeepsPromise and ReadsPromise.  They hold when *)
(* only settled changes are promised (SettledOnly): a PUT that a message of *)
(* an earlier request can still meet at a node may be undone by it (the run *)
(* master_late_write).                                                     *)
(***************************************************************************)
EXTENDS MasterServer, FiniteSetTheorems, SequenceTheorems, TLAPS

(* Requests are numbered in the order they begin. *)
RidInv ==
  /\ nextReq >= 1
  /\ \A c \in Clients :
       /\ req[c].op = "none" => req[c] = NoReq
       /\ req[c].op # "none" => 1 <= req[c].rid /\ req[c].rid < nextReq
  /\ \A c, d \in Clients :
       req[c].op # "none" /\ req[d].op # "none" /\ req[c].rid = req[d].rid => c = d
  /\ \A m \in net : m.rid < nextReq

(* The walk has met cnt nodes for the block it is at, and gives every      *)
(* block before that as many nodes as there are copies.                    *)
Placed(r) ==
  /\ IsFiniteSet(r.chosen) /\ Cardinality(r.chosen) = r.cnt
  /\ r.op = "put" => /\ Len(r.place) <= r.size
                     /\ r.sent => Len(r.place) = r.size
                     /\ \A i \in DOMAIN r.place : Cardinality(r.place[i]) = Copies
PlaceInv == \A c \in Clients : Placed(req[c])

(* A message of a request in progress is awaited, and there is one to each *)
(* node at most.                                                           *)
MessageOf(m, c, r) ==
  /\ m.client = c /\ m.op = r.op /\ m.key = r.key /\ r.sent /\ m.node \in r.waiting
  /\ r.op = "put" => m.blocks = BlocksOn(r.place, m.node)
NetInv ==
  /\ \A m, l \in net : m.rid = l.rid /\ m.node = l.node => m = l
  /\ \A c \in Clients, m \in net :
       (req[c].op # "none" /\ m.rid = req[c].rid) => MessageOf(m, c, req[c])

IInv == TypeOK /\ RidInv /\ PlaceInv /\ NetInv

-----------------------------------------------------------------------------
(* Lemmas about the helpers *)

LEMMA NoReqType ==
  /\ NoReq \in Requests /\ NoReq.op = "none" /\ NoReq.chosen = {} /\ NoReq.cnt = 0
  /\ NoReq.place = <<>> /\ NoReq.rid = 0 /\ NoReq.waiting = {} /\ ~NoReq.clean
  /\ NoReq.got = {} /\ ~NoReq.sent
<1>1. (CHOOSE k \in Keys : TRUE) \in Keys
  BY KeysAssumption
<1>2. <<>> \in Placements
  <2>1. <<>> \in [1 .. 0 -> SUBSET Nodes]
    OBVIOUS
  <2>. QED BY <2>1, BlocksAssumption DEF Placements
<1>3. 0 \in 0 .. MaxRequests /\ 0 \in 0 .. MaxBlocks /\ -1 \in -1 .. MaxRequests
  BY BlocksAssumption, BoundsAssumption
<1>4. 0 \in 0 .. Cardinality(Nodes)
  BY NodesAssumption, FS_CardinalityType
<1>. QED BY <1>1, <1>2, <1>3, <1>4 DEF NoReq, Requests, NoMap, Unknown, Value, Values

(* A placement is a sequence of sets of nodes, MaxBlocks long at most. *)
LEMMA PlacementFacts ==
  ASSUME NEW place \in Placements
  PROVE  /\ place \in Seq(SUBSET Nodes)
         /\ Len(place) \in 0 .. MaxBlocks
         /\ DOMAIN place = 1 .. Len(place)
         /\ place \in [1 .. Len(place) -> SUBSET Nodes]
<1>1. PICK size \in 0 .. MaxBlocks : place \in [1 .. size -> SUBSET Nodes]
  BY DEF Placements
<1>2. size \in Nat
  BY <1>1, BlocksAssumption
<1>3. place \in Seq(SUBSET Nodes)
  BY <1>1, <1>2, SeqDef
<1>4. Len(place) = size
  BY <1>1, <1>2, <1>3, LenProperties
<1>. QED BY <1>1, <1>3, <1>4

LEMMA SequencesArePlacements ==
  ASSUME NEW place \in Seq(SUBSET Nodes), Len(place) <= MaxBlocks
  PROVE  place \in Placements
BY LenProperties, BlocksAssumption DEF Placements

(* The nodes of a placement, and the blocks it puts on one of them. *)
LEMMA PlacementSets ==
  ASSUME NEW place \in Placements
  PROVE  /\ NodesOf(place) \subseteq Nodes
         /\ \A n : BlocksOn(place, n) \in SetsOfBlocks
         /\ \A n : BlocksOn(place, n) \subseteq BlockNums(Len(place))
         /\ \A n, b : b \in BlocksOn(place, n) <=> /\ b \in BlockNums(Len(place))
                                                   /\ n \in place[b + 1]
<1>1. /\ Len(place) \in 0 .. MaxBlocks /\ DOMAIN place = 1 .. Len(place)
      /\ place \in [1 .. Len(place) -> SUBSET Nodes]
  BY PlacementFacts
<1>2. NodesOf(place) \subseteq Nodes
  BY <1>1 DEF NodesOf
<1>3. ASSUME NEW n, NEW b
      PROVE  b \in BlocksOn(place, n) <=> /\ b \in BlockNums(Len(place))
                                          /\ n \in place[b + 1]
  <2>1. b \in BlocksOn(place, n) <=>
          \E i \in 1 .. Len(place) : b = i - 1 /\ n \in place[i]
    BY <1>1 DEF BlocksOn
  <2>2. ASSUME NEW i \in 1 .. Len(place), b = i - 1, n \in place[i]
        PROVE  b \in BlockNums(Len(place)) /\ n \in place[b + 1]
    <3>1. b + 1 = i /\ b \in 0 .. (Len(place) - 1)
      BY <1>1, <2>2
    <3>. QED BY <2>2, <3>1 DEF BlockNums
  <2>3. ASSUME b \in BlockNums(Len(place)), n \in place[b + 1]
        PROVE  \E i \in 1 .. Len(place) : b = i - 1 /\ n \in place[i]
    <3>1. b + 1 \in 1 .. Len(place) /\ b = (b + 1) - 1
      BY <1>1, <2>3 DEF BlockNums
    <3>. QED BY <2>3, <3>1
  <2>. QED BY <2>1, <2>2, <2>3
<1>4. \A n : BlocksOn(place, n) \subseteq BlockNums(Len(place))
  BY <1>3
<1>5. BlockNums(Len(place)) \subseteq BlockNums(MaxBlocks)
  BY <1>1, BlocksAssumption DEF BlockNums
<1>. QED BY <1>2, <1>3, <1>4, <1>5 DEF SetsOfBlocks

(* The number of copies of a block. *)
LEMMA CopiesNat == Copies \in Nat /\ Cardinality(Nodes) \in Nat
BY NodesAssumption, FactorAssumption, FS_CardinalityType DEF Copies

(* A new request, and its messages. *)
LEMMA RequestType ==
  ASSUME IInv, NEW op \in {"put", "get", "del"}, NEW k \in Keys, nextReq <= MaxRequests
  PROVE  /\ nextReq \in 1 .. MaxRequests
         /\ LET r == Request(op, k)
            IN  /\ r \in Requests /\ r.op = op /\ r.key = k /\ r.rid = nextReq /\ ~r.sent
                /\ r.chosen = {} /\ r.cnt = 0 /\ r.place = <<>> /\ r.got = {}
                /\ r.clean = Undisturbed(k)
<1>1. nextReq \in 1 .. MaxRequests
  BY BoundsAssumption DEF IInv, TypeOK, RidInv
<1>2. Undisturbed(k) \in BOOLEAN
  BY DEF Undisturbed
<1>3. nextReq \in 0 .. MaxRequests /\ op \in {"none", "put", "get", "del"}
  BY <1>1
<1>. DEFINE n == NoReq
<1>4. /\ n \in Requests /\ ~n.sent /\ n.chosen = {} /\ n.cnt = 0 /\ n.place = <<>>
      /\ n.got = {}
  BY NoReqType
<1>5. Request(op, k) = [n EXCEPT !.op = op, !.key = k, !.rid = nextReq,
                                 !.clean = Undisturbed(k)]
  BY DEF Request
<1>. HIDE DEF n
<1>. QED BY <1>1, <1>2, <1>3, <1>4, <1>5 DEF Requests

LEMMA MessagesType ==
  ASSUME NEW c \in Clients, NEW r \in Requests, r.op # "none", r.rid >= 1,
         NEW S \in SUBSET Nodes, NEW asks \in [S -> SetsOfBlocks]
  PROVE  /\ Messages(c, r, asks) \subseteq NodeRequests
         /\ \A m \in Messages(c, r, asks) :
              /\ m.op = r.op /\ m.client = c /\ m.rid = r.rid /\ m.key = r.key
              /\ m.node \in S /\ m.blocks = asks[m.node]
         /\ \A n \in S : \E m \in Messages(c, r, asks) : m.node = n
         /\ \A m, l \in Messages(c, r, asks) : m.node = l.node => m = l
<1>1. r.rid \in 1 .. MaxRequests /\ r.op \in {"put", "get", "del"} /\ r.key \in Keys
  BY DEF Requests
<1>2. Messages(c, r, asks) = {[op |-> r.op, client |-> c, rid |-> r.rid, node |-> n,
                               key |-> r.key, blocks |-> asks[n]] : n \in S}
  BY DEF Messages
<1>3. \A n \in S : asks[n] \in SetsOfBlocks /\ n \in Nodes
  OBVIOUS
<1>4. Messages(c, r, asks) \subseteq NodeRequests
  BY <1>1, <1>2, <1>3 DEF NodeRequests
<1>5. \A m \in Messages(c, r, asks) :
        /\ m.op = r.op /\ m.client = c /\ m.rid = r.rid /\ m.key = r.key
        /\ m.node \in S /\ m.blocks = asks[m.node]
  BY <1>2
<1>6. ASSUME NEW n \in S PROVE \E m \in Messages(c, r, asks) : m.node = n
  <2>. DEFINE m == [op |-> r.op, client |-> c, rid |-> r.rid, node |-> n,
                    key |-> r.key, blocks |-> asks[n]]
  <2>1. m \in Messages(c, r, asks) /\ m.node = n
    BY <1>2
  <2>. QED BY <2>1
<1>7. \A m, l \in Messages(c, r, asks) : m.node = l.node => m = l
  BY <1>2
<1>. QED BY <1>4, <1>5, <1>6, <1>7

-----------------------------------------------------------------------------
(* Requests begin *)

(* A request and the one that is left of it when another spoils it. *)
Spoiled(x, y) ==
  \/ y = x
  \/ /\ x.op # "none"
     /\ y = [x EXCEPT !.clean = FALSE, !.expect = Unknown]

LEMMA BeginFacts ==
  ASSUME IInv, NEW c \in Clients, NEW r \in Requests, Begin(c, r)
  PROVE  /\ req' \in [Clients -> Requests] /\ promised' \in [Keys -> Values]
         /\ req'[c] = r /\ nextReq' = nextReq + 1
         /\ \A d \in Clients \ {c} :
              /\ Spoiled(req[d], req'[d])
              /\ req'[d].op = req[d].op /\ req'[d].key = req[d].key /\ req'[d].rid = req[d].rid
              /\ req'[d].size = req[d].size /\ req'[d].place = req[d].place
              /\ req'[d].chosen = req[d].chosen /\ req'[d].cnt = req[d].cnt
              /\ req'[d].sent = req[d].sent /\ req'[d].waiting = req[d].waiting
              /\ req'[d].got = req[d].got
<1>1. Unknown \in Values
  BY BlocksAssumption, BoundsAssumption DEF Unknown, Value, Values
<1>2. req \in [Clients -> Requests] /\ promised \in [Keys -> Values] /\ r.key \in Keys
  BY DEF IInv, TypeOK, Requests
<1>3. \A x \in Requests : [x EXCEPT !.clean = FALSE, !.expect = Unknown] \in Requests
  BY <1>1 DEF Requests
<1>4. ASSUME NEW d \in Clients \ {c}
      PROVE  Spoiled(req[d], req'[d]) /\ req'[d] \in Requests
  <2>1. req'[d] = IF Changes(r.op) /\ req[d].op # "none" /\ req[d].key = r.key
                  THEN [req[d] EXCEPT !.clean = FALSE, !.expect = Unknown]
                  ELSE req[d]
    BY DEF Begin
  <2>2. req[d] \in Requests
    BY <1>2
  <2>3. Spoiled(req[d], req'[d])
    BY <2>1 DEF Spoiled
  <2>. QED BY <1>3, <2>1, <2>2, <2>3
<1>5. ASSUME NEW d \in Clients \ {c}
      PROVE  /\ req'[d].op = req[d].op /\ req'[d].key = req[d].key /\ req'[d].rid = req[d].rid
             /\ req'[d].size = req[d].size /\ req'[d].place = req[d].place
             /\ req'[d].chosen = req[d].chosen /\ req'[d].cnt = req[d].cnt
             /\ req'[d].sent = req[d].sent /\ req'[d].waiting = req[d].waiting
             /\ req'[d].got = req[d].got
  <2>. DEFINE x == req[d]
             y == req'[d]
  <2>1. x \in Requests /\ Spoiled(x, y)
    BY <1>2, <1>4
  <2>. HIDE DEF x, y
  <2>2. /\ y.op = x.op /\ y.key = x.key /\ y.rid = x.rid /\ y.size = x.size
        /\ y.place = x.place /\ y.chosen = x.chosen /\ y.cnt = x.cnt
        /\ y.sent = x.sent /\ y.waiting = x.waiting /\ y.got = x.got
    <3>1. CASE y = x
      BY <3>1
    <3>2. CASE y = [x EXCEPT !.clean = FALSE, !.expect = Unknown]
      BY <2>1, <3>2 DEF Requests
    <3>. QED BY <2>1, <3>1, <3>2 DEF Spoiled
  <2>. QED BY <2>2 DEF x, y
<1>6. req'[c] = r
  BY DEF Begin
<1>7. req' \in [Clients -> Requests]
  <2>1. \A d \in Clients : req'[d] \in Requests
    BY <1>4, <1>6
  <2>2. DOMAIN req' = Clients /\ req' = [d \in Clients |-> req'[d]]
    BY DEF Begin
  <2>. QED BY <2>1, <2>2
<1>8. promised' \in [Keys -> Values] /\ nextReq' = nextReq + 1
  <2>1. [promised EXCEPT ![r.key] = Unknown] \in [Keys -> Values]
    BY <1>1, <1>2
  <2>. QED BY <1>2, <2>1 DEF Begin
<1>. QED BY <1>4, <1>5, <1>6, <1>7, <1>8

(* The invariant after a request has begun: it is numbered nextReq, and    *)
(* every message of it is new.                                             *)
LEMMA BeginKeeps ==
  ASSUME IInv, NEW c \in Clients, NEW r \in Requests, Begin(c, r), nextReq <= MaxRequests,
         req[c].op = "none", r.op # "none", r.rid = nextReq,
         r.chosen = {}, r.cnt = 0, r.place = <<>>, r.op = "put" => ~r.sent,
         NEW S \in SUBSET Nodes, NEW asks \in [S -> SetsOfBlocks],
         r.op = "put" => S = {}, r.op # "put" => r.sent /\ r.waiting = S,
         net' = net \cup Messages(c, r, asks),
         UNCHANGED <<kbn, healthy, up, store, saved, faults, crashes>>
  PROVE  IInv'
<1>1. /\ req' \in [Clients -> Requests] /\ promised' \in [Keys -> Values]
      /\ req'[c] = r /\ nextReq' = nextReq + 1
      /\ \A d \in Clients \ {c} :
           /\ Spoiled(req[d], req'[d])
           /\ req'[d].op = req[d].op /\ req'[d].key = req[d].key /\ req'[d].rid = req[d].rid
           /\ req'[d].size = req[d].size /\ req'[d].place = req[d].place
           /\ req'[d].chosen = req[d].chosen /\ req'[d].cnt = req[d].cnt
           /\ req'[d].sent = req[d].sent /\ req'[d].waiting = req[d].waiting
  BY BeginFacts
<1>2. nextReq \in Nat /\ nextReq >= 1 /\ req \in [Clients -> Requests] /\ net \subseteq NodeRequests
  BY DEF IInv, TypeOK, RidInv
<1>3. /\ Messages(c, r, asks) \subseteq NodeRequests
      /\ \A m \in Messages(c, r, asks) :
           /\ m.op = r.op /\ m.client = c /\ m.rid = r.rid /\ m.key = r.key /\ m.node \in S
      /\ \A m, l \in Messages(c, r, asks) : m.node = l.node => m = l
  BY <1>2, MessagesType
<1>4. r.op = "put" => Messages(c, r, asks) = {}
  BY <1>3
<1>5. TypeOK'
  BY <1>1, <1>2, <1>3 DEF IInv, TypeOK
<1>6. RidInv'
  <2>1. nextReq' >= 1 /\ \A m \in net' : m.rid < nextReq'
    BY <1>1, <1>2, <1>3 DEF IInv, RidInv, NodeRequests
  <2>2. ASSUME NEW d \in Clients
        PROVE  /\ req'[d].op = "none" => req'[d] = NoReq
               /\ req'[d].op # "none" => /\ req'[d].rid \in Nat
                                         /\ 1 <= req'[d].rid /\ req'[d].rid < nextReq'
    <3>1. CASE d = c
      BY <1>1, <1>2, <3>1
    <3>2. CASE d # c
      <4>1. /\ req'[d].op = req[d].op /\ req'[d].rid = req[d].rid
            /\ Spoiled(req[d], req'[d])
        BY <1>1, <3>2
      <4>2. req[d] \in Requests /\ req[d].rid \in Nat
        BY <1>2, BoundsAssumption DEF Requests
      <4>3. /\ req[d].op = "none" => req[d] = NoReq
            /\ req[d].op # "none" => 1 <= req[d].rid /\ req[d].rid < nextReq
        BY DEF IInv, RidInv
      <4>4. req'[d].op = "none" => req'[d] = NoReq
        BY <4>1, <4>3 DEF Spoiled
      <4>. QED BY <1>1, <1>2, <4>1, <4>2, <4>3, <4>4
    <3>. QED BY <3>1, <3>2
  <2>3. ASSUME NEW d \in Clients, NEW e \in Clients, req'[d].op # "none",
               req'[e].op # "none", req'[d].rid = req'[e].rid
        PROVE  d = e
    <3>1. ASSUME NEW f \in Clients \ {c}, req'[f].op # "none"
          PROVE  req'[f].rid # nextReq /\ req[f].op # "none" /\ req'[f].rid = req[f].rid
      <4>1. req'[f].op = req[f].op /\ req'[f].rid = req[f].rid
        BY <1>1
      <4>2. req[f].rid \in Nat
        BY <1>2, BoundsAssumption DEF Requests
      <4>3. req[f].rid < nextReq
        BY <3>1, <4>1 DEF IInv, RidInv
      <4>. QED BY <1>2, <3>1, <4>1, <4>2, <4>3
    <3>2. req'[c].rid = nextReq
      BY <1>1
    <3>3. CASE d = c \/ e = c
      BY <2>3, <3>1, <3>2, <3>3
    <3>4. CASE d # c /\ e # c
      BY <2>3, <3>1, <3>4 DEF IInv, RidInv
    <3>. QED BY <3>3, <3>4
  <2>. QED BY <2>1, <2>2, <2>3 DEF RidInv
<1>7. PlaceInv'
  <2>1. ASSUME NEW d \in Clients \ {c} PROVE Placed(req'[d])
    BY <1>1 DEF IInv, PlaceInv, Placed
  <2>2. Placed(r)
    <3>1. Len(<<>>) = 0 /\ DOMAIN <<>> = {} /\ 0 <= r.size
      BY BlocksAssumption DEF Requests
    <3>. QED BY <3>1, FS_EmptySet DEF Placed
  <2>3. \A d \in Clients : Placed(req'[d])
    BY <1>1, <2>1, <2>2
  <2>. QED BY <2>3 DEF PlaceInv, Placed, Copies
<1>8. NetInv'
  <2>1. \A m, l \in net' : m.rid = l.rid /\ m.node = l.node => m = l
    BY <1>2, <1>3 DEF IInv, RidInv, NetInv, NodeRequests
  <2>2. ASSUME NEW d \in Clients, NEW m \in net', req'[d].op # "none", m.rid = req'[d].rid
        PROVE  MessageOf(m, d, req'[d])
    <3>1. CASE d = c
      <4>1. m \notin net
        BY <1>1, <1>2, <2>2, <3>1 DEF IInv, RidInv, NodeRequests
      <4>. QED BY <1>1, <1>3, <1>4, <2>2, <3>1, <4>1 DEF MessageOf
    <3>2. CASE d # c
      <4>1. m \in net
        BY <1>1, <1>2, <1>3, <2>2, <3>2 DEF IInv, RidInv, Requests
      <4>. QED BY <1>1, <2>2, <3>2, <4>1 DEF IInv, NetInv, MessageOf
    <3>. QED BY <3>1, <3>2
  <2>. QED BY <2>1, <2>2 DEF NetInv, MessageOf, BlocksOn
<1>. QED BY <1>5, <1>6, <1>7, <1>8 DEF IInv

LEMMA PutBeginStep ==
  ASSUME IInv, NEW c \in Clients, NEW k \in Keys, NEW size \in 0 .. MaxBlocks,
         PutBegin(c, k, size)
  PROVE  IInv'
<1>. DEFINE r == [Request("put", k) EXCEPT !.size = size]
<1>1. Free(c) /\ nextReq <= MaxRequests /\ req[c].op = "none" /\ Begin(c, r) /\ net' = net
  BY DEF PutBegin, Free
<1>2. /\ r \in Requests /\ r.op = "put" /\ r.rid = nextReq /\ r.chosen = {} /\ r.cnt = 0
      /\ r.place = <<>> /\ ~r.sent
  <2>. DEFINE x == Request("put", k)
  <2>1. /\ x \in Requests /\ x.op = "put" /\ x.rid = nextReq /\ x.chosen = {} /\ x.cnt = 0
        /\ x.place = <<>> /\ ~x.sent
    BY <1>1, RequestType
  <2>. HIDE DEF x
  <2>2. r = [x EXCEPT !.size = size]
    BY DEF x
  <2>. QED BY <2>1, <2>2 DEF Requests
<1>3. {} \in SUBSET Nodes /\ [n \in {} |-> {}] \in [{} -> SetsOfBlocks]
      /\ Messages(c, r, [n \in {} |-> {}]) = {}
  BY DEF Messages
<1>4. net' = net \cup Messages(c, r, [n \in {} |-> {}])
  BY <1>1, <1>3
<1>5. UNCHANGED <<kbn, healthy, up, store, saved, faults, crashes>>
  BY DEF PutBegin
<1>. HIDE DEF r
<1>. QED BY <1>1, <1>2, <1>3, <1>4, <1>5, BeginKeeps

LEMMA DelBeginStep ==
  ASSUME IInv, NEW c \in Clients, NEW k \in Keys, DelBegin(c, k)
  PROVE  IInv'
<1>. DEFINE S == NodesOf(kbn[k].nodes)
            r == [Request("del", k) EXCEPT !.sent = TRUE, !.waiting = S]
            asks == [n \in S |-> {}]
<1>1. S \in SUBSET Nodes
  <2>1. kbn[k].nodes \in Placements
    BY DEF IInv, TypeOK
  <2>. QED BY <2>1, PlacementSets
<1>2. /\ nextReq <= MaxRequests /\ req[c].op = "none" /\ Begin(c, r)
      /\ net' = net \cup Messages(c, r, [n \in r.waiting |-> {}])
  BY DEF DelBegin, Free
<1>3. /\ r \in Requests /\ r.op = "del" /\ r.rid = nextReq /\ r.chosen = {} /\ r.cnt = 0
      /\ r.place = <<>> /\ r.sent /\ r.waiting = S
  <2>. DEFINE x == Request("del", k)
  <2>1. /\ x \in Requests /\ x.op = "del" /\ x.rid = nextReq /\ x.chosen = {} /\ x.cnt = 0
        /\ x.place = <<>>
    BY <1>2, RequestType
  <2>2. r = [x EXCEPT !.sent = TRUE, !.waiting = S]
    OBVIOUS
  <2>. HIDE DEF x, r, S
  <2>. QED BY <1>1, <2>1, <2>2 DEF Requests
<1>4. asks \in [S -> SetsOfBlocks]
  BY DEF SetsOfBlocks
<1>5. net' = net \cup Messages(c, r, asks)
  BY <1>2, <1>3
<1>6. UNCHANGED <<kbn, healthy, up, store, saved, faults, crashes>>
  BY DEF DelBegin
<1>. HIDE DEF r, S, asks
<1>. QED BY <1>1, <1>2, <1>3, <1>4, <1>5, <1>6, BeginKeeps

LEMMA FromType ==
  ASSUME NEW place \in Placements
  PROVE  /\ [i \in DOMAIN place |-> FirstHealthy(place[i])] \in Placements
         /\ Len([i \in DOMAIN place |-> FirstHealthy(place[i])]) = Len(place)
<1>. DEFINE from == [i \in DOMAIN place |-> FirstHealthy(place[i])]
<1>1. /\ Len(place) \in 0 .. MaxBlocks /\ DOMAIN place = 1 .. Len(place)
      /\ place \in [1 .. Len(place) -> SUBSET Nodes]
  BY PlacementFacts
<1>2. from \in [1 .. Len(place) -> SUBSET Nodes]
  BY <1>1 DEF FirstHealthy
<1>3. Len(place) \in Nat
  BY <1>1, BlocksAssumption
<1>4. from \in Seq(SUBSET Nodes)
  BY <1>2, <1>3, SeqDef
<1>. QED BY <1>1, <1>2, <1>3, <1>4, LenProperties DEF Placements

LEMMA GetBeginStep ==
  ASSUME IInv, NEW c \in Clients, NEW k \in Keys, GetBegin(c, k)
  PROVE  IInv'
<1>. DEFINE nodes == kbn[k].nodes
            from == [i \in DOMAIN nodes |-> FirstHealthy(nodes[i])]
            S == NodesOf(from)
            r == [Request("get", k) EXCEPT !.sent = TRUE, !.size = Len(nodes),
                                           !.waiting = S, !.expect = promised[k]]
            asks == [n \in S |-> BlocksOn(from, n)]
<1>1. nodes \in Placements /\ promised[k] \in Values
  BY DEF IInv, TypeOK
<1>2. from \in Placements /\ Len(nodes) \in 0 .. MaxBlocks
  BY <1>1, FromType, PlacementFacts
<1>3. S \in SUBSET Nodes /\ asks \in [S -> SetsOfBlocks]
  BY <1>2, PlacementSets
<1>4. /\ nextReq <= MaxRequests /\ req[c].op = "none" /\ Begin(c, r)
      /\ net' = net \cup Messages(c, r, [n \in r.waiting |-> BlocksOn(from, n)])
  BY DEF GetBegin, Free
<1>5. /\ r \in Requests /\ r.op = "get" /\ r.rid = nextReq /\ r.chosen = {} /\ r.cnt = 0
      /\ r.place = <<>> /\ r.sent /\ r.waiting = S
  <2>. DEFINE x == Request("get", k)
             size == Len(nodes)
             value == promised[k]
  <2>1. /\ x \in Requests /\ x.op = "get" /\ x.rid = nextReq /\ x.chosen = {} /\ x.cnt = 0
        /\ x.place = <<>>
    BY <1>4, RequestType
  <2>2. r = [x EXCEPT !.sent = TRUE, !.size = size, !.waiting = S, !.expect = value]
    OBVIOUS
  <2>3. size \in 0 .. MaxBlocks /\ value \in Values /\ S \in SUBSET Nodes
    BY <1>1, <1>2, <1>3
  <2>. HIDE DEF x, r, S, size, value
  <2>. QED BY <2>1, <2>2, <2>3 DEF Requests
<1>6. net' = net \cup Messages(c, r, asks)
  BY <1>4, <1>5
<1>7. UNCHANGED <<kbn, healthy, up, store, saved, faults, crashes>>
  BY DEF GetBegin
<1>. HIDE DEF r, S, asks
<1>. QED BY <1>3, <1>4, <1>5, <1>6, <1>7, BeginKeeps

-----------------------------------------------------------------------------
(* Requests go on *)

(* The invariant after a step of one client's request, which goes on or    *)
(* ends: what has to be shown of the request and the messages alone.       *)
LEMMA StepKeeps ==
  ASSUME IInv, NEW c \in Clients, NEW x \in Requests, req' = [req EXCEPT ![c] = x],
         req[c].op # "none", nextReq' = nextReq,
         \/ x = NoReq
         \/ x.op = req[c].op /\ x.rid = req[c].rid,
         Placed(x),
         \A m \in net' : m \in net \/ m.rid = req[c].rid,
         \A m, l \in net' : m.rid = l.rid /\ m.node = l.node => m = l,
         \A m \in net' : x.op # "none" /\ m.rid = x.rid => MessageOf(m, c, x)
  PROVE  req' \in [Clients -> Requests] /\ RidInv' /\ PlaceInv' /\ NetInv'
<1>1. req \in [Clients -> Requests] /\ NoReq.op = "none"
  BY NoReqType DEF IInv, TypeOK
<1>2. req' \in [Clients -> Requests] /\ req'[c] = x /\ \A d \in Clients \ {c} : req'[d] = req[d]
  BY <1>1
<1>3. \A d \in Clients : req'[d].op # "none" => req[d].op # "none" /\ req'[d].rid = req[d].rid
  BY <1>1, <1>2
<1>4. RidInv'
  <2>1. \A m \in net' : m.rid < nextReq'
    BY DEF IInv, RidInv
  <2>2. \A d \in Clients :
          /\ req'[d].op = "none" => req'[d] = NoReq
          /\ req'[d].op # "none" => 1 <= req'[d].rid /\ req'[d].rid < nextReq'
    BY <1>1, <1>2 DEF IInv, RidInv
  <2>3. \A d, e \in Clients :
          req'[d].op # "none" /\ req'[e].op # "none" /\ req'[d].rid = req'[e].rid => d = e
    BY <1>3 DEF IInv, RidInv
  <2>4. nextReq' >= 1
    BY DEF IInv, RidInv
  <2>. QED BY <2>1, <2>2, <2>3, <2>4 DEF RidInv
<1>5. PlaceInv'
  <2>1. \A d \in Clients : Placed(req'[d])
    BY <1>2 DEF IInv, PlaceInv
  <2>. QED BY <2>1 DEF PlaceInv, Placed, Copies
<1>6. NetInv'
  <2>1. ASSUME NEW d \in Clients, NEW m \in net', req'[d].op # "none", m.rid = req'[d].rid
        PROVE  MessageOf(m, d, req'[d])
    <3>1. CASE d = c
      BY <1>2, <2>1, <3>1
    <3>2. CASE d # c
      <4>1. m \in net
        BY <1>2, <1>3, <2>1, <3>2 DEF IInv, RidInv
      <4>. QED BY <1>2, <2>1, <3>2, <4>1 DEF IInv, NetInv
    <3>. QED BY <3>1, <3>2
  <2>. QED BY <2>1 DEF NetInv, MessageOf, BlocksOn
<1>. QED BY <1>2, <1>4, <1>5, <1>6

(* The request that is left when a handler has ended. *)
LEMMA EndKeeps ==
  ASSUME IInv, NEW c \in Clients, req' = [req EXCEPT ![c] = NoReq], req[c].op # "none",
         net' \subseteq net, nextReq' = nextReq
  PROVE  req' \in [Clients -> Requests] /\ RidInv' /\ PlaceInv' /\ NetInv'
<1>1. NoReq \in Requests /\ NoReq.op = "none"
  BY NoReqType
<1>2. Placed(NoReq)
  BY NoReqType, FS_EmptySet DEF Placed
<1>3. \A m, l \in net' : m.rid = l.rid /\ m.node = l.node => m = l
  BY DEF IInv, NetInv
<1>. QED BY <1>1, <1>2, <1>3, StepKeeps

LEMMA PutPlaceStep ==
  ASSUME IInv, NEW c \in Clients, PutPlace(c)
  PROVE  IInv'
<1>. DEFINE r == req[c]
            order == RingOrder[r.key][Len(r.place)]
            stops == {j \in DOMAIN order : order[j] \in Eligible(r)}
<1>1. r \in Requests /\ r.op = "put" /\ ~r.sent /\ Len(r.place) < r.size /\ Placed(r)
  BY DEF PutPlace, IInv, TypeOK, PlaceInv
<1>2. PICK j \in stops :
        req' = [req EXCEPT ![c] =
                  IF r.cnt + 1 = Copies
                  THEN [r EXCEPT !.place = Append(@, r.chosen \cup {order[j]}),
                                 !.chosen = {}, !.cnt = 0, !.cursor = 0]
                  ELSE [r EXCEPT !.chosen = r.chosen \cup {order[j]}, !.cnt = @ + 1,
                                 !.cursor = j]]
  BY DEF PutPlace
<1>. DEFINE chosen == r.chosen \cup {order[j]}
            full == [r EXCEPT !.place = Append(@, chosen),
                              !.chosen = {}, !.cnt = 0, !.cursor = 0]
            more == [r EXCEPT !.chosen = chosen, !.cnt = @ + 1, !.cursor = j]
            x == IF r.cnt + 1 = Copies THEN full ELSE more
<1>3. /\ r.key \in Keys /\ r.place \in Placements /\ r.size \in 0 .. MaxBlocks
      /\ r.cnt \in Nat /\ r.chosen \in SUBSET Nodes
  BY <1>1 DEF Requests
<1>4. r.place \in Seq(SUBSET Nodes) /\ Len(r.place) \in Nat
  BY <1>3, PlacementFacts, BlocksAssumption
<1>5. order \in Seq(Nodes)
  <2>1. Len(r.place) \in 0 .. (MaxBlocks - 1)
    BY <1>1, <1>3, <1>4, BlocksAssumption
  <2>. QED BY <1>3, <2>1, RingAssumption
<1>6. j \in Nat /\ order[j] \in Nodes /\ order[j] \notin r.chosen
  BY <1>5, ElementOfSeq DEF Eligible
<1>7. /\ chosen \in SUBSET Nodes /\ IsFiniteSet(chosen) /\ Cardinality(chosen) = r.cnt + 1
      /\ r.cnt + 1 \in 0 .. Cardinality(Nodes)
  <2>1. chosen \in SUBSET Nodes
    BY <1>3, <1>6
  <2>2. IsFiniteSet(chosen) /\ Cardinality(chosen) = r.cnt + 1
    BY <1>1, <1>6, FS_AddElement DEF Placed
  <2>3. Cardinality(chosen) <= Cardinality(Nodes)
    BY <2>1, NodesAssumption, FS_Subset
  <2>. QED BY <1>3, <2>1, <2>2, <2>3, CopiesNat
<1>8. Append(r.place, chosen) \in Placements /\ Len(Append(r.place, chosen)) = Len(r.place) + 1
  <2>1. /\ Append(r.place, chosen) \in Seq(SUBSET Nodes)
        /\ Len(Append(r.place, chosen)) = Len(r.place) + 1
    BY <1>4, <1>7, AppendProperties
  <2>2. Len(r.place) + 1 <= MaxBlocks
    BY <1>1, <1>3, <1>4, BlocksAssumption
  <2>. QED BY <2>1, <2>2, SequencesArePlacements
<1>9. ASSUME r.cnt + 1 = Copies
      PROVE  full \in Requests /\ full.op = "put" /\ full.rid = r.rid /\ ~full.sent /\ Placed(full)
  <2>. DEFINE place == Append(r.place, chosen)
  <2>1. full = [r EXCEPT !.place = place, !.chosen = {}, !.cnt = 0, !.cursor = 0]
    OBVIOUS
  <2>2. \A i \in DOMAIN place : Cardinality(place[i]) = Copies
    <3>1. ASSUME NEW i \in DOMAIN place PROVE Cardinality(place[i]) = Copies
      <4>1. DOMAIN place = 1 .. (Len(r.place) + 1)
        BY <1>8, PlacementFacts
      <4>2. CASE i = Len(r.place) + 1
        BY <1>4, <1>7, <1>9, <4>2, AppendProperties
      <4>3. CASE i # Len(r.place) + 1
        <5>1. i \in 1 .. Len(r.place)
          BY <1>4, <4>1, <4>3
        <5>2. place[i] = r.place[i] /\ i \in DOMAIN r.place
          BY <1>3, <1>4, <1>7, <5>1, AppendProperties, PlacementFacts
        <5>. QED BY <1>1, <5>2 DEF Placed
      <4>. QED BY <4>2, <4>3
    <3>. QED BY <3>1
  <2>3. place \in Placements /\ Len(place) <= r.size
    BY <1>1, <1>3, <1>4, <1>8, BlocksAssumption
  <2>. HIDE DEF place, r
  <2>4. 0 \in 0 .. Cardinality(Nodes) /\ 0 \in Nat
    BY CopiesNat
  <2>5. full \in Requests /\ full.op = "put" /\ full.rid = r.rid /\ ~full.sent
        /\ full.chosen = {} /\ full.cnt = 0 /\ full.place = place /\ full.size = r.size
    BY <1>1, <2>1, <2>3, <2>4 DEF Requests
  <2>. QED BY <2>2, <2>3, <2>5, FS_EmptySet DEF Placed
<1>10. more \in Requests /\ more.op = "put" /\ more.rid = r.rid /\ ~more.sent /\ Placed(more)
  <2>. DEFINE s == chosen
              n == r.cnt + 1
  <2>1. more = [r EXCEPT !.chosen = s, !.cnt = n, !.cursor = j]
    OBVIOUS
  <2>2. /\ s \in SUBSET Nodes /\ IsFiniteSet(s) /\ Cardinality(s) = n
        /\ n \in 0 .. Cardinality(Nodes)
    BY <1>7
  <2>. HIDE DEF s, n, r
  <2>3. more \in Requests /\ more.op = "put" /\ more.rid = r.rid /\ ~more.sent
        /\ more.chosen = s /\ more.cnt = n /\ more.place = r.place /\ more.size = r.size
    BY <1>1, <1>6, <2>1, <2>2 DEF Requests
  <2>. QED BY <1>1, <2>2, <2>3 DEF Placed
<1>11. x \in Requests /\ x.op = "put" /\ x.rid = r.rid /\ Placed(x)
  BY <1>9, <1>10
<1>12. req' = [req EXCEPT ![c] = x] /\ UNCHANGED <<kbn, healthy, up, store, saved, net, ghosts, bounds>>
  BY <1>2 DEF PutPlace
<1>. HIDE DEF x
<1>13. \A m \in net : m.rid # r.rid
  BY <1>1 DEF IInv, NetInv, MessageOf
<1>14. req' \in [Clients -> Requests] /\ RidInv' /\ PlaceInv' /\ NetInv'
  <2>1. nextReq' = nextReq /\ net' = net
    BY <1>12 DEF bounds
  <2>2. \A m, l \in net' : m.rid = l.rid /\ m.node = l.node => m = l
    BY <2>1 DEF IInv, NetInv
  <2>3. \A m \in net' : x.op # "none" /\ m.rid = x.rid => MessageOf(m, c, x)
    BY <1>11, <1>13, <2>1
  <2>4. r.op # "none"
    BY <1>1
  <2>. QED BY <1>1, <1>11, <1>12, <2>1, <2>2, <2>3, <2>4, StepKeeps
<1>. QED BY <1>12, <1>14 DEF IInv, TypeOK, ghosts, bounds

LEMMA PutSendStep ==
  ASSUME IInv, NEW c \in Clients, PutSend(c)
  PROVE  IInv'
<1>. DEFINE r == req[c]
            S == NodesOf(r.place)
            asks == [n \in S |-> BlocksOn(r.place, n)]
            x == [r EXCEPT !.sent = TRUE, !.waiting = S]
<1>1. /\ r \in Requests /\ r.op = "put" /\ ~r.sent /\ Len(r.place) = r.size /\ Placed(r)
      /\ r.rid >= 1 /\ r.place \in Placements
  BY DEF PutSend, IInv, TypeOK, RidInv, PlaceInv, Requests
<1>2. S \in SUBSET Nodes /\ asks \in [S -> SetsOfBlocks]
  BY <1>1, PlacementSets
<1>3. /\ net' = net \cup Messages(c, r, asks)
      /\ req' = [req EXCEPT ![c].sent = TRUE, ![c].waiting = S]
      /\ UNCHANGED <<kbn, healthy, up, store, saved, ghosts, bounds>>
  BY DEF PutSend
<1>4. req' = [req EXCEPT ![c] = x]
  BY <1>3 DEF IInv, TypeOK
<1>5. /\ x \in Requests /\ x.op = "put" /\ x.rid = r.rid /\ x.sent /\ x.waiting = S
      /\ x.key = r.key /\ x.place = r.place /\ Placed(x)
  <2>. HIDE DEF r, S
  <2>1. /\ x \in Requests /\ x.op = "put" /\ x.rid = r.rid /\ x.sent /\ x.waiting = S
        /\ x.key = r.key /\ x.place = r.place /\ x.size = r.size /\ x.chosen = r.chosen
        /\ x.cnt = r.cnt
    BY <1>1, <1>2 DEF Requests
  <2>. QED BY <1>1, <2>1 DEF Placed
<1>6. /\ Messages(c, r, asks) \subseteq NodeRequests
      /\ \A m \in Messages(c, r, asks) :
           /\ m.op = "put" /\ m.client = c /\ m.rid = r.rid /\ m.key = r.key
           /\ m.node \in S /\ m.blocks = BlocksOn(r.place, m.node)
      /\ \A m, l \in Messages(c, r, asks) : m.node = l.node => m = l
  <2>1. r.op # "none"
    BY <1>1
  <2>2. \A n \in S : asks[n] = BlocksOn(r.place, n)
    OBVIOUS
  <2>. HIDE DEF r, S, asks
  <2>3. /\ Messages(c, r, asks) \subseteq NodeRequests
        /\ \A m \in Messages(c, r, asks) :
             /\ m.op = r.op /\ m.client = c /\ m.rid = r.rid /\ m.key = r.key
             /\ m.node \in S /\ m.blocks = asks[m.node]
        /\ \A m, l \in Messages(c, r, asks) : m.node = l.node => m = l
    BY <1>1, <1>2, <2>1, MessagesType
  <2>. QED BY <1>1, <2>2, <2>3
<1>7. \A m \in net : m.rid # r.rid
  BY <1>1 DEF IInv, NetInv, MessageOf
<1>8. \A m, l \in net' : m.rid = l.rid /\ m.node = l.node => m = l
  BY <1>3, <1>6, <1>7 DEF IInv, NetInv
<1>9. \A m \in net' : x.op # "none" /\ m.rid = x.rid => MessageOf(m, c, x)
  <2>. HIDE DEF x, asks
  <2>. QED BY <1>3, <1>5, <1>6, <1>7 DEF MessageOf
<1>10. \A m \in net' : m \in net \/ m.rid = r.rid
  BY <1>3, <1>6
<1>11. nextReq' = nextReq /\ r.op # "none"
  BY <1>1, <1>3 DEF bounds
<1>. HIDE DEF x, asks
<1>12. req' \in [Clients -> Requests] /\ RidInv' /\ PlaceInv' /\ NetInv'
  BY <1>1, <1>4, <1>5, <1>8, <1>9, <1>10, <1>11, StepKeeps
<1>. QED BY <1>3, <1>6, <1>12 DEF IInv, TypeOK, ghosts, bounds

LEMMA PutFinishStep ==
  ASSUME IInv, NEW c \in Clients, PutFinish(c)
  PROVE  IInv'
<1>. DEFINE r == req[c]
<1>1. /\ r \in Requests /\ r.op = "put" /\ req' = [req EXCEPT ![c] = NoReq]
      /\ kbn' = [kbn EXCEPT ![r.key] = Entry(r.place)]
      /\ promised' = IF r.clean THEN [promised EXCEPT ![r.key] = Value(r.rid, r.size)]
                                ELSE promised
      /\ UNCHANGED <<healthy, up, store, saved, net, bounds>>
  BY DEF PutFinish, IInv, TypeOK
<1>2. /\ r.key \in Keys /\ Entry(r.place) \in [mapped : BOOLEAN, nodes : Placements]
      /\ Value(r.rid, r.size) \in Values
  BY <1>1, BoundsAssumption DEF Requests, Entry, Value, Values
<1>3. kbn' \in [Keys -> [mapped : BOOLEAN, nodes : Placements]] /\ promised' \in [Keys -> Values]
  BY <1>1, <1>2 DEF IInv, TypeOK
<1>4. req' \in [Clients -> Requests] /\ RidInv' /\ PlaceInv' /\ NetInv'
  BY <1>1, EndKeeps DEF bounds
<1>. QED BY <1>1, <1>3, <1>4 DEF IInv, TypeOK, bounds

LEMMA DelFinishStep ==
  ASSUME IInv, NEW c \in Clients, DelFinish(c)
  PROVE  IInv'
<1>. DEFINE r == req[c]
<1>1. /\ r \in Requests /\ r.op = "del" /\ req' = [req EXCEPT ![c] = NoReq]
      /\ kbn' = [kbn EXCEPT ![r.key] = NoEntry]
      /\ promised' = IF r.clean THEN [promised EXCEPT ![r.key] = Absent] ELSE promised
      /\ UNCHANGED <<healthy, up, store, saved, net, bounds>>
  BY DEF DelFinish, IInv, TypeOK
<1>2. NoEntry \in [mapped : BOOLEAN, nodes : Placements] /\ Absent \in Values
  BY NoReqType, BoundsAssumption, BlocksAssumption
     DEF Requests, NoEntry, NoMap, Absent, Value, Values
<1>3. kbn' \in [Keys -> [mapped : BOOLEAN, nodes : Placements]] /\ promised' \in [Keys -> Values]
  BY <1>1, <1>2 DEF IInv, TypeOK
<1>4. req' \in [Clients -> Requests] /\ RidInv' /\ PlaceInv' /\ NetInv'
  BY <1>1, EndKeeps DEF bounds
<1>. QED BY <1>1, <1>3, <1>4 DEF IInv, TypeOK, bounds

LEMMA GetFinishStep ==
  ASSUME IInv, NEW c \in Clients, GetFinish(c)
  PROVE  IInv'
<1>1. req' \in [Clients -> Requests] /\ RidInv' /\ PlaceInv' /\ NetInv'
  BY EndKeeps DEF GetFinish, bounds
<1>. QED BY <1>1 DEF GetFinish, IInv, TypeOK, ghosts, bounds

-----------------------------------------------------------------------------
(* Answers *)

(* The client of an awaited message has a request in progress. *)
LEMMA AwaitedFacts ==
  ASSUME IInv, NEW m \in net, Awaited(m)
  PROVE  m.client \in Clients /\ m.node \in Nodes /\ req[m.client].op # "none"
         /\ req[m.client].rid = m.rid /\ req[m.client] \in Requests
<1>1. m.client \in Clients /\ m.node \in Nodes /\ req[m.client] \in Requests
  BY DEF IInv, TypeOK, NodeRequests
<1>2. req[m.client] # NoReq
  BY NoReqType DEF Awaited
<1>. QED BY <1>1, <1>2 DEF Awaited, IInv, RidInv

LEMMA AnsweredKeeps ==
  ASSUME IInv, NEW m \in net,
         NEW blocks \in SUBSET (BlockNums(MaxBlocks) \X (0 .. MaxRequests)),
         Answered(m, blocks), net' = net \ {m}, nextReq' = nextReq
  PROVE  req' \in [Clients -> Requests] /\ RidInv' /\ PlaceInv' /\ NetInv'
<1>. DEFINE c == m.client
            r == req[c]
            x == [r EXCEPT !.waiting = @ \ {m.node}, !.got = @ \cup blocks]
<1>1. \A k, l \in net' : k.rid = l.rid /\ k.node = l.node => k = l
  BY DEF IInv, NetInv
<1>2. CASE Awaited(m)
  <2>1. c \in Clients /\ m.node \in Nodes /\ r.op # "none" /\ r.rid = m.rid /\ r \in Requests
    BY <1>2, AwaitedFacts
  <2>2. req' = [req EXCEPT ![c].waiting = @ \ {m.node}, ![c].got = @ \cup blocks]
    BY <1>2 DEF Answered
  <2>3. req' = [req EXCEPT ![c] = x]
    BY <2>1, <2>2 DEF IInv, TypeOK
  <2>4. Placed(r)
    BY <2>1 DEF IInv, PlaceInv
  <2>5. /\ x \in Requests /\ x.op = r.op /\ x.rid = r.rid /\ x.key = r.key
        /\ x.sent = r.sent /\ x.place = r.place /\ x.waiting = r.waiting \ {m.node}
        /\ x.chosen = r.chosen /\ x.cnt = r.cnt /\ x.size = r.size
    <3>. HIDE DEF r
    <3>. QED BY <2>1 DEF Requests
  <2>. HIDE DEF x
  <2>6. Placed(x)
    BY <2>4, <2>5 DEF Placed
  <2>7. ASSUME NEW l \in net', l.rid = x.rid PROVE MessageOf(l, c, x)
    <3>1. MessageOf(l, c, r)
      BY <2>1, <2>5, <2>7 DEF IInv, NetInv
    <3>2. l.node # m.node
      BY <2>1, <2>5, <2>7 DEF IInv, NetInv
    <3>. QED BY <2>5, <3>1, <3>2 DEF MessageOf
  <2>. QED BY <1>1, <2>1, <2>3, <2>5, <2>6, <2>7, StepKeeps
<1>3. CASE ~Awaited(m)
  <2>1. req' = req
    BY <1>3 DEF Answered
  <2>. QED BY <1>1, <2>1 DEF IInv, TypeOK, RidInv, PlaceInv, NetInv, Placed, Copies,
                             MessageOf, BlocksOn
<1>. QED BY <1>2, <1>3

LEMMA FailedKeeps ==
  ASSUME IInv, NEW m \in net, FailedAnswer(m), net' \subseteq net, nextReq' = nextReq
  PROVE  req' \in [Clients -> Requests] /\ RidInv' /\ PlaceInv' /\ NetInv'
<1>1. CASE Awaited(m)
  <2>1. req' = [req EXCEPT ![m.client] = NoReq]
    BY <1>1 DEF FailedAnswer
  <2>. QED BY <1>1, <2>1, AwaitedFacts, EndKeeps
<1>2. CASE ~Awaited(m)
  <2>1. req' = req
    BY <1>2 DEF FailedAnswer
  <2>2. \A k, l \in net' : k.rid = l.rid /\ k.node = l.node => k = l
    BY DEF IInv, NetInv
  <2>. QED BY <2>1, <2>2 DEF IInv, TypeOK, RidInv, PlaceInv, NetInv, Placed, Copies,
                             MessageOf, BlocksOn
<1>. QED BY <1>1, <1>2

LEMMA NodeStep ==
  ASSUME IInv, NEW m \in net, NodePut(m) \/ NodeDel(m) \/ NodeGet(m)
  PROVE  IInv'
<1>1. /\ m.node \in Nodes /\ m.key \in Keys /\ m.rid \in 0 .. MaxRequests
      /\ m.blocks \in SetsOfBlocks
  BY BoundsAssumption DEF IInv, TypeOK, NodeRequests
<1>2. /\ store \in [Nodes -> [Keys -> Data]] /\ saved \in [Nodes -> [Keys -> Data]]
      /\ [ver |-> m.rid, blocks |-> m.blocks] \in Data /\ NoData \in Data
  BY <1>1, BoundsAssumption DEF IInv, TypeOK, Data, NoData, SetsOfBlocks
<1>3. store' \in [Nodes -> [Keys -> Data]]
  <2>1. \A d \in Data : [store EXCEPT ![m.node][m.key] = d] \in [Nodes -> [Keys -> Data]]
    BY <1>1, <1>2
  <2>. QED BY <1>2, <2>1 DEF NodePut, NodeDel, NodeGet
<1>4. saved' \in [Nodes -> [Keys -> Data]]
  <2>1. store'[m.node] \in [Keys -> Data]
    BY <1>1, <1>3
  <2>. QED BY <1>2, <2>1 DEF NodePut, NodeDel, NodeGet
<1>5. {} \in SUBSET (BlockNums(MaxBlocks) \X (0 .. MaxRequests))
  OBVIOUS
<1>6. {<<b, store[m.node][m.key].ver>> : b \in m.blocks}
        \in SUBSET (BlockNums(MaxBlocks) \X (0 .. MaxRequests))
  <2>1. store[m.node][m.key].ver \in 0 .. MaxRequests
    BY <1>1, <1>2 DEF Data
  <2>. QED BY <1>1, <2>1 DEF SetsOfBlocks
<1>7. /\ net' = net \ {m} /\ nextReq' = nextReq
      /\ UNCHANGED <<kbn, healthy, up, ghosts, bounds>>
  BY DEF NodePut, NodeDel, NodeGet, bounds
<1>8. \/ \E blocks \in SUBSET (BlockNums(MaxBlocks) \X (0 .. MaxRequests)) : Answered(m, blocks)
      \/ FailedAnswer(m)
  BY <1>5, <1>6 DEF NodePut, NodeDel, NodeGet
<1>9. req' \in [Clients -> Requests] /\ RidInv' /\ PlaceInv' /\ NetInv'
  BY <1>7, <1>8, AnsweredKeeps, FailedKeeps
<1>. QED BY <1>3, <1>4, <1>7, <1>9 DEF IInv, TypeOK, ghosts, bounds

LEMMA NoAnswerStep ==
  ASSUME IInv, NEW m \in net, NodeRefuses(m) \/ NodeFails(m) \/ TimesOut(m)
  PROVE  IInv'
<1>1. /\ FailedAnswer(m) /\ net' \subseteq net /\ nextReq' = nextReq
      /\ faults' \in Nat /\ crashes' = crashes
      /\ UNCHANGED <<kbn, healthy, up, store, saved, ghosts>>
  BY DEF NodeRefuses, NodeFails, TimesOut, bounds, IInv, TypeOK
<1>2. req' \in [Clients -> Requests] /\ RidInv' /\ PlaceInv' /\ NetInv'
  BY <1>1, FailedKeeps
<1>. QED BY <1>1, <1>2 DEF IInv, TypeOK, ghosts

LEMMA HealthStep ==
  ASSUME IInv, NEW n \in Nodes,
         HealthCheck(n) \/ NodeStarts(n) \/ \E wiped \in BOOLEAN : NodeStops(n, wiped)
  PROVE  IInv'
<1>1. /\ healthy' \subseteq Nodes /\ up' \subseteq Nodes
      /\ UNCHANGED <<kbn, req, net, ghosts, nextReq, faults>> /\ crashes' \in Nat
  BY DEF HealthCheck, NodeStarts, NodeStops, ghosts, bounds, IInv, TypeOK
<1>2. store' \in [Nodes -> [Keys -> Data]] /\ saved' \in [Nodes -> [Keys -> Data]]
  <2>1. store \in [Nodes -> [Keys -> Data]] /\ saved \in [Nodes -> [Keys -> Data]]
    BY DEF IInv, TypeOK
  <2>2. [k \in Keys |-> NoData] \in [Keys -> Data]
    BY BoundsAssumption DEF Data, NoData, SetsOfBlocks
  <2>3. saved' \in [Nodes -> [Keys -> Data]]
    BY <2>1, <2>2 DEF HealthCheck, NodeStarts, NodeStops
  <2>4. [store EXCEPT ![n] = saved'[n]] \in [Nodes -> [Keys -> Data]]
    BY <2>1, <2>3
  <2>. QED BY <2>1, <2>3, <2>4 DEF HealthCheck, NodeStarts, NodeStops
<1>3. RidInv' /\ PlaceInv' /\ NetInv'
  BY <1>1 DEF IInv, RidInv, PlaceInv, NetInv, Placed, Copies, MessageOf, BlocksOn
<1>. QED BY <1>1, <1>2, <1>3 DEF IInv, TypeOK, ghosts

-----------------------------------------------------------------------------
LEMMA InitIInv == Init => IInv
<1>. SUFFICES ASSUME Init PROVE IInv
  OBVIOUS
<1>1. NoEntry \in [mapped : BOOLEAN, nodes : Placements] /\ Absent \in Values /\ NoData \in Data
  BY NoReqType, BoundsAssumption, BlocksAssumption
     DEF Requests, NoEntry, NoMap, Absent, Value, Values, Data, NoData, SetsOfBlocks
<1>2. TypeOK
  BY <1>1, NoReqType DEF Init, TypeOK
<1>3. \A c \in Clients : req[c] = NoReq /\ req[c].op = "none"
  BY NoReqType DEF Init
<1>4. RidInv /\ NetInv
  BY <1>3 DEF Init, RidInv, NetInv
<1>5. PlaceInv
  BY <1>3, NoReqType, FS_EmptySet DEF PlaceInv, Placed
<1>. QED BY <1>2, <1>4, <1>5 DEF IInv

LEMMA NextIInv == IInv /\ [Next]_vars => IInv'
<1>. SUFFICES ASSUME IInv, [Next]_vars PROVE IInv'
  OBVIOUS
<1>1. ASSUME NEW c \in Clients, NEW k \in Keys,
             (\E size \in 0 .. MaxBlocks : PutBegin(c, k, size)) \/ DelBegin(c, k) \/ GetBegin(c, k)
      PROVE  IInv'
  BY <1>1, PutBeginStep, DelBeginStep, GetBeginStep
<1>2. ASSUME NEW c \in Clients, Handler(c) PROVE IInv'
  BY <1>2, PutPlaceStep, PutSendStep, PutFinishStep, DelFinishStep, GetFinishStep DEF Handler
<1>3. ASSUME NEW m \in net, Serve(m) \/ NodeFails(m) \/ TimesOut(m) PROVE IInv'
  BY <1>3, NodeStep, NoAnswerStep DEF Serve
<1>4. ASSUME NEW n \in Nodes,
             HealthCheck(n) \/ NodeStarts(n) \/ \E wiped \in BOOLEAN : NodeStops(n, wiped)
      PROVE  IInv'
  BY <1>4, HealthStep
<1>5. CASE UNCHANGED vars
  <2>1. /\ UNCHANGED <<kbn, healthy, up, store, saved, req, net, promised>>
        /\ UNCHANGED <<nextReq, faults, crashes>>
    BY <1>5 DEF vars, ghosts, bounds
  <2>. QED BY <2>1 DEF IInv, TypeOK, RidInv, PlaceInv, NetInv, Placed, Copies,
                       MessageOf, BlocksOn
<1>. QED BY <1>1, <1>2, <1>3, <1>4, <1>5 DEF Next

(* Types of all the parts, for every number of requests, faults and        *)
(* crashes: the walk along the ring stops at as many distinct nodes as     *)
(* there are, at most, and a request asks each node once.                  *)
THEOREM MasterTypeCorrect == Spec => []TypeOK
<1>1. Init => IInv
  BY InitIInv
<1>2. IInv /\ [Next]_vars => IInv'
  BY NextIInv
<1>3. IInv => TypeOK
  BY DEF IInv
<1>. QED BY <1>1, <1>2, <1>3, PTL DEF Spec

-----------------------------------------------------------------------------
(***************************************************************************)
(* What was promised, for settled changes.                                 *)
(***************************************************************************)

(* A clean change of a key is the only one in progress, and all messages   *)
(* that change the key are its own.                                        *)
CleanInv ==
  \A c \in Clients :
    (Changes(req[c].op) /\ req[c].clean) =>
      /\ \A d \in Clients : (Changes(req[d].op) /\ req[d].key = req[c].key) => d = c
      /\ \A m \in net : (Changes(m.op) /\ m.key = req[c].key) => m.rid = req[c].rid

(* Nothing is about to change a key with a promise. *)
QuietInv == \A k \in Keys : promised[k] # Unknown => Undisturbed(k)

(* The node has all blocks it was given of the version, or none; and so    *)
(* has its file.                                                           *)
Holds(st, sv, n, k, ver, place) ==
  LET all == [ver |-> ver, blocks |-> BlocksOn(place, n)]
  IN  st[n][k] \in {NoData, all} /\ sv[n][k] \in {NoData, all}

(* What the nodes that have answered a clean PUT hold. *)
Stored(st, sv, r) ==
  (r.op = "put" /\ r.clean /\ r.sent) =>
     \A n \in NodesOf(r.place) \ r.waiting : Holds(st, sv, n, r.key, r.rid, r.place)
StoredInv == \A c \in Clients : Stored(store, saved, req[c])

(* What the KBN says of a key with a promise, and the nodes it names hold. *)
Kept(st, sv, k, v, entry) ==
  /\ v = Absent => ~entry.mapped
  /\ v \notin {Absent, Unknown} =>
       /\ entry.mapped /\ Len(entry.nodes) = v.size
       /\ \A i \in DOMAIN entry.nodes : Cardinality(entry.nodes[i]) = Copies
       /\ \A n \in NodesOf(entry.nodes) : Holds(st, sv, n, k, v.ver, entry.nodes)
KeptInv == \A k \in Keys : Kept(store, saved, k, promised[k], kbn[k])

(* A GET that must give the promised value has got blocks of it, asks for  *)
(* all others, and asks nodes that are to have them.                       *)
MessagesOf(rid) == {m \in net : m.rid = rid}
Reads(r, v, place, asked) ==
  (r.op = "get" /\ r.expect # Unknown) =>
    /\ r.expect = v /\ v # Absent /\ r.size = v.size
    /\ \A g \in r.got : \E b \in BlockNums(v.size) : g = <<b, v.ver>>
    /\ \A b \in BlockNums(v.size) : <<b, v.ver>> \in r.got \/ \E m \in asked : b \in m.blocks
    /\ \A m \in asked : \A b \in m.blocks :
         b \in BlockNums(v.size) /\ m.node \in place[b + 1]
GetInv ==
  \A c \in Clients :
    LET r == req[c]
    IN  Reads(r, promised[r.key], kbn[r.key].nodes, MessagesOf(r.rid))

PInv == CleanInv /\ QuietInv /\ StoredInv /\ KeptInv /\ GetInv

-----------------------------------------------------------------------------
(* What a step leaves alone *)

LEMMA Distinct ==
  /\ Absent # Unknown
  /\ \A ver \in Nat : \A size : ver >= 1 => Value(ver, size) \notin {Absent, Unknown}
  /\ \A op : Changes(op) <=> op \in {"put", "del"}
<1>1. Absent.ver = 0 /\ Unknown.ver = -1
  BY DEF Absent, Unknown, Value
<1>2. \A ver \in Nat : \A size : ver >= 1 => Value(ver, size).ver # 0 /\ Value(ver, size).ver # -1
  BY DEF Value
<1>. QED BY <1>1, <1>2 DEF Changes

(* Nodes lose what they hold of a key, or take it back from their files,   *)
(* or save it.                                                             *)
NothingNew(k) ==
  \A n \in Nodes : /\ store'[n][k] \in {NoData, store[n][k], saved[n][k]}
                   /\ saved'[n][k] \in {NoData, store[n][k], saved[n][k]}

LEMMA HoldsKept ==
  ASSUME NEW k \in Keys, NEW n \in Nodes, NothingNew(k), NEW ver, NEW place,
         Holds(store, saved, n, k, ver, place)
  PROVE  Holds(store', saved', n, k, ver, place)
BY DEF NothingNew, Holds

LEMMA KeptKept ==
  ASSUME IInv, KeptInv, NEW k \in Keys,
         promised'[k] # Unknown => /\ promised'[k] = promised[k] /\ kbn'[k] = kbn[k]
                                   /\ NothingNew(k)
  PROVE  Kept(store', saved', k, promised'[k], kbn'[k])
<1>1. CASE promised'[k] = Unknown
  BY <1>1, Distinct DEF Kept
<1>2. CASE promised'[k] # Unknown
  <2>1. Kept(store, saved, k, promised[k], kbn[k])
    BY DEF KeptInv
  <2>2. NodesOf(kbn[k].nodes) \subseteq Nodes
    BY PlacementSets DEF IInv, TypeOK
  <2>. QED BY <1>2, <2>1, <2>2, HoldsKept DEF Kept
<1>. QED BY <1>1, <1>2

(* What is left of a request x after a step of another actor. *)
Follows(x, y) ==
  \/ y.op = "none"
  \/ /\ y.op = x.op /\ y.key = x.key /\ y.rid = x.rid /\ (y.clean => x.clean)
     /\ (y.op = "put" /\ y.sent) => x.sent /\ y.place = x.place /\ y.waiting = x.waiting
     /\ y.op = "get" => /\ y.size = x.size /\ y.got = x.got
                        /\ y.expect \in {x.expect, Unknown}

LEMMA StoredKept ==
  ASSUME IInv, StoredInv, NEW c \in Clients, Follows(req[c], req'[c]), NothingNew(req[c].key)
  PROVE  Stored(store', saved', req'[c])
<1>. SUFFICES ASSUME req'[c].op = "put", req'[c].clean, req'[c].sent,
                     NEW n \in NodesOf(req'[c].place) \ req'[c].waiting
              PROVE  Holds(store', saved', n, req'[c].key, req'[c].rid, req'[c].place)
  BY DEF Stored
<1>1. /\ req[c].op = "put" /\ req[c].clean /\ req[c].sent /\ req'[c].key = req[c].key
      /\ req'[c].rid = req[c].rid /\ req'[c].place = req[c].place
      /\ req'[c].waiting = req[c].waiting
  BY DEF Follows
<1>2. req[c].key \in Keys /\ req[c].place \in Placements
  BY DEF IInv, TypeOK, Requests
<1>3. n \in Nodes
  BY <1>1, <1>2, PlacementSets
<1>4. Holds(store, saved, n, req[c].key, req[c].rid, req[c].place)
  BY <1>1 DEF StoredInv, Stored
<1>. QED BY <1>1, <1>2, <1>3, <1>4, HoldsKept

LEMMA ReadsKept ==
  ASSUME IInv, GetInv, NEW c \in Clients, Follows(req[c], req'[c]),
         (req[c].op = "get" /\ req'[c].op = "get" /\ promised[req[c].key] # Unknown) =>
            /\ promised'[req[c].key] = promised[req[c].key] \/ req'[c].expect = Unknown
            /\ kbn'[req[c].key] = kbn[req[c].key]
            /\ {m \in net' : m.rid = req[c].rid} = MessagesOf(req[c].rid)
  PROVE  Reads(req'[c], promised'[req'[c].key], kbn'[req'[c].key].nodes,
               {m \in net' : m.rid = req'[c].rid})
<1>. SUFFICES ASSUME req'[c].op = "get", req'[c].expect # Unknown
              PROVE  Reads(req'[c], promised'[req'[c].key], kbn'[req'[c].key].nodes,
                           {m \in net' : m.rid = req'[c].rid})
  BY DEF Reads
<1>1. /\ req[c].op = "get" /\ req'[c].key = req[c].key /\ req'[c].rid = req[c].rid
      /\ req'[c].size = req[c].size /\ req'[c].got = req[c].got
      /\ req'[c].expect = req[c].expect
  BY DEF Follows
<1>2. Reads(req[c], promised[req[c].key], kbn[req[c].key].nodes, MessagesOf(req[c].rid))
  BY DEF GetInv
<1>3. req[c].expect = promised[req[c].key] /\ promised[req[c].key] # Unknown
  BY <1>1, <1>2 DEF Reads
<1>4. {m \in net' : m.rid = req'[c].rid} = {m \in net' : m.rid = req[c].rid}
  BY <1>1
<1>5. {m \in net' : m.rid = req[c].rid} = MessagesOf(req[c].rid)
  BY <1>1, <1>3 DEF MessagesOf
<1>. QED BY <1>1, <1>2, <1>3, <1>4, <1>5 DEF Reads

(* No request begins, and messages are sent by requests in progress. *)
Continues(x, y) ==
  Changes(y.op) => /\ y.op = x.op /\ y.key = x.key /\ y.rid = x.rid
                   /\ y.clean => x.clean

LEMMA QuietKept ==
  ASSUME CleanInv, QuietInv, promised' = promised,
         \A c \in Clients : Continues(req[c], req'[c]),
         \A m \in net' : \/ m \in net
                         \/ \E c \in Clients : /\ req[c].op = m.op /\ req[c].key = m.key
                                               /\ req[c].rid = m.rid
  PROVE  CleanInv' /\ QuietInv'
<1>1. ASSUME NEW c \in Clients, Changes(req'[c].op)
      PROVE  /\ Changes(req[c].op) /\ req'[c].key = req[c].key /\ req'[c].rid = req[c].rid
             /\ req'[c].clean => req[c].clean
  BY <1>1 DEF Continues
<1>2. CleanInv'
  <2>. SUFFICES ASSUME NEW c \in Clients, Changes(req'[c].op), req'[c].clean
                PROVE  /\ \A d \in Clients : (Changes(req'[d].op) /\ req'[d].key = req'[c].key) => d = c
                       /\ \A m \in net' : (Changes(m.op) /\ m.key = req'[c].key) => m.rid = req'[c].rid
    BY DEF CleanInv, Changes
  <2>1. /\ Changes(req[c].op) /\ req[c].clean /\ req'[c].key = req[c].key
        /\ req'[c].rid = req[c].rid
    BY <1>1
  <2>2. /\ \A d \in Clients : (Changes(req[d].op) /\ req[d].key = req[c].key) => d = c
        /\ \A m \in net : (Changes(m.op) /\ m.key = req[c].key) => m.rid = req[c].rid
    BY <2>1 DEF CleanInv
  <2>3. \A d \in Clients : (Changes(req'[d].op) /\ req'[d].key = req'[c].key) => d = c
    BY <1>1, <2>1, <2>2
  <2>4. \A m \in net' : (Changes(m.op) /\ m.key = req'[c].key) => m.rid = req'[c].rid
    BY <2>1, <2>2
  <2>. QED BY <2>3, <2>4
<1>3. QuietInv'
  <2>1. ASSUME NEW k \in Keys, promised'[k] # Unknown
        PROVE  /\ \A c \in Clients : req'[c].key = k => ~Changes(req'[c].op)
               /\ SettledOnly => \A m \in net' : m.key = k => ~Changes(m.op)
    BY <1>1, <2>1 DEF QuietInv, Undisturbed
  <2>. QED BY <2>1 DEF QuietInv, Undisturbed, Changes, Unknown
<1>. QED BY <1>2, <1>3
(* All of it together: for a step that changes neither the KBN nor what    *)
(* is promised, and takes no message of a request that goes on.            *)
LEMMA OthersKeep ==
  ASSUME IInv, PInv, promised' = promised, kbn' = kbn,
         \A c \in Clients : Follows(req[c], req'[c]),
         \A k \in Keys : NothingNew(k),
         net' \subseteq net,
         \A c \in Clients, m \in net \ net' : req'[c].op = "get" => req[c].rid # m.rid
  PROVE  PInv'
<1>1. CleanInv' /\ QuietInv'
  <2>1. \A c \in Clients : Continues(req[c], req'[c])
    BY Distinct DEF Follows, Continues
  <2>. QED BY <2>1, QuietKept DEF PInv
<1>2. \A c \in Clients : req[c].key \in Keys
  BY DEF IInv, TypeOK, Requests
<1>3. StoredInv'
  BY <1>2, StoredKept DEF PInv, StoredInv
<1>4. KeptInv'
  BY KeptKept DEF PInv, KeptInv
<1>5. GetInv'
  <2>1. ASSUME NEW c \in Clients
        PROVE  Reads(req'[c], promised'[req'[c].key], kbn'[req'[c].key].nodes,
                     {m \in net' : m.rid = req'[c].rid})
    <3>1. req'[c].op = "get" => {m \in net' : m.rid = req[c].rid} = MessagesOf(req[c].rid)
      BY DEF MessagesOf
    <3>. QED BY <3>1, ReadsKept DEF PInv
  <2>. QED BY <2>1 DEF GetInv, MessagesOf
<1>. QED BY <1>1, <1>3, <1>4, <1>5 DEF PInv

LEMMA SameNothingNew ==
  ASSUME store' = store, saved' = saved
  PROVE  \A k \in Keys : NothingNew(k)
BY DEF NothingNew

-----------------------------------------------------------------------------
(* Requests begin *)

LEMMA BeginPromise ==
  ASSUME IInv, PInv, SettledOnly, NEW c \in Clients, NEW r \in Requests, Begin(c, r),
         nextReq <= MaxRequests, req[c].op = "none", r.rid = nextReq,
         r.op # "none", r.op = "put" => ~r.sent, r.clean = Undisturbed(r.key),
         \A m \in net' : m \in net \/ (m.op = r.op /\ m.key = r.key /\ m.rid = r.rid),
         net \subseteq net',
         Reads(r, promised[r.key], kbn[r.key].nodes, {m \in net' : m.rid = r.rid}),
         UNCHANGED <<kbn, store, saved>>
  PROVE  PInv'
<1>1. /\ req'[c] = r
      /\ \A d \in Clients \ {c} :
           /\ Spoiled(req[d], req'[d])
           /\ req'[d].op = req[d].op /\ req'[d].key = req[d].key /\ req'[d].rid = req[d].rid
           /\ req'[d].size = req[d].size /\ req'[d].place = req[d].place
           /\ req'[d].sent = req[d].sent /\ req'[d].waiting = req[d].waiting
           /\ req'[d].got = req[d].got
  BY BeginFacts
<1>2. /\ promised \in [Keys -> Values] /\ req \in [Clients -> Requests] /\ r.key \in Keys
      /\ nextReq \in Nat
  BY DEF IInv, TypeOK, Requests
<1>3. /\ promised' = IF Changes(r.op) THEN [promised EXCEPT ![r.key] = Unknown] ELSE promised
      /\ \A d \in Clients \ {c} :
           (Changes(r.op) /\ req[d].key = r.key /\ req[d].op # "none") =>
              /\ req'[d] = [req[d] EXCEPT !.clean = FALSE, !.expect = Unknown]
  BY DEF Begin
<1>4. ASSUME NEW d \in Clients \ {c}
      PROVE  /\ Follows(req[d], req'[d])
             /\ (Changes(r.op) /\ req[d].key = r.key /\ req[d].op # "none") =>
                   ~req'[d].clean /\ req'[d].expect = Unknown
  <2>. DEFINE x == req[d]
             y == req'[d]
  <2>1. x \in Requests /\ Spoiled(x, y)
    BY <1>1, <1>2
  <2>2. (y.clean => x.clean) /\ y.expect \in {x.expect, Unknown}
    <3>. HIDE DEF x, y
    <3>1. CASE y = x
      BY <3>1
    <3>2. CASE y = [x EXCEPT !.clean = FALSE, !.expect = Unknown]
      BY <2>1, <3>2 DEF Requests
    <3>. QED BY <2>1, <3>1, <3>2 DEF Spoiled
  <2>3. y = [x EXCEPT !.clean = FALSE, !.expect = Unknown] => ~y.clean /\ y.expect = Unknown
    <3>. HIDE DEF x, y
    <3>. QED BY <2>1 DEF Requests
  <2>. QED BY <1>1, <1>3, <2>2, <2>3 DEF Follows
<1>5. \A k \in Keys : promised'[k] # Unknown =>
        promised'[k] = promised[k] /\ (Changes(r.op) => k # r.key)
  BY <1>2, <1>3
<1>6. \A m \in net : m.rid # r.rid
  BY <1>2 DEF IInv, RidInv, TypeOK, NodeRequests
<1>7. CleanInv'
  <2>. SUFFICES ASSUME NEW d \in Clients, Changes(req'[d].op), req'[d].clean
                PROVE  /\ \A e \in Clients : (Changes(req'[e].op) /\ req'[e].key = req'[d].key) => e = d
                       /\ \A m \in net' : (Changes(m.op) /\ m.key = req'[d].key) => m.rid = req'[d].rid
    BY DEF CleanInv, Changes
  <2>1. CASE d = c
    <3>1. /\ \A e \in Clients : req[e].key = r.key => ~Changes(req[e].op)
          /\ \A m \in net : m.key = r.key => ~Changes(m.op)
      BY <1>1, <2>1 DEF Undisturbed
    <3>. QED BY <1>1, <2>1, <3>1
  <2>2. CASE d # c
    <3>1. /\ Changes(req[d].op) /\ req[d].clean /\ req'[d].key = req[d].key
          /\ req'[d].rid = req[d].rid /\ req[d].op # "none"
      BY <1>1, <1>4, <2>2, Distinct DEF Follows
    <3>2. Changes(r.op) => r.key # req[d].key
      BY <1>4, <2>2, <3>1
    <3>3. /\ \A e \in Clients : (Changes(req[e].op) /\ req[e].key = req[d].key) => e = d
          /\ \A m \in net : (Changes(m.op) /\ m.key = req[d].key) => m.rid = req[d].rid
      BY <3>1 DEF PInv, CleanInv
    <3>. QED BY <1>1, <3>1, <3>2, <3>3
  <2>. QED BY <2>1, <2>2
<1>8. QuietInv'
  <2>1. ASSUME NEW k \in Keys, promised'[k] # Unknown
        PROVE  /\ \A d \in Clients : req'[d].key = k => ~Changes(req'[d].op)
               /\ SettledOnly => \A m \in net' : m.key = k => ~Changes(m.op)
    <3>1. Undisturbed(k) /\ (Changes(r.op) => k # r.key)
      BY <1>5, <2>1 DEF PInv, QuietInv
    <3>2. ASSUME NEW d \in Clients, req'[d].key = k PROVE ~Changes(req'[d].op)
      BY <1>1, <3>1, <3>2 DEF Undisturbed
    <3>3. ASSUME NEW m \in net', m.key = k PROVE ~Changes(m.op)
      BY <3>1, <3>3 DEF Undisturbed
    <3>. QED BY <3>2, <3>3
  <2>. QED BY <2>1 DEF QuietInv, Undisturbed, Changes, Unknown
<1>9. StoredInv'
  <2>1. ASSUME NEW d \in Clients PROVE Stored(store', saved', req'[d])
    <3>1. CASE d = c
      BY <1>1, <3>1 DEF Stored
    <3>2. CASE d # c
      <4>1. req[d].key \in Keys
        BY <1>2 DEF Requests
      <4>. QED BY <1>4, <3>2, <4>1, StoredKept, SameNothingNew DEF PInv
    <3>. QED BY <3>1, <3>2
  <2>. QED BY <2>1 DEF StoredInv
<1>10. KeptInv'
  <2>1. ASSUME NEW k \in Keys PROVE Kept(store', saved', k, promised'[k], kbn'[k])
    BY <1>5, KeptKept, SameNothingNew DEF PInv
  <2>. QED BY <2>1 DEF KeptInv
<1>11. GetInv'
  <2>1. ASSUME NEW d \in Clients
        PROVE  Reads(req'[d], promised'[req'[d].key], kbn'[req'[d].key].nodes,
                     {m \in net' : m.rid = req'[d].rid})
    <3>1. CASE d = c
      <4>1. r.op = "get" => promised' = promised
        BY <1>3, Distinct
      <4>2. CASE r.op = "get"
        BY <1>1, <3>1, <4>1, <4>2
      <4>3. CASE r.op # "get"
        BY <1>1, <3>1, <4>3 DEF Reads
      <4>. QED BY <4>2, <4>3
    <3>2. CASE d # c
      <4>1. req[d].key \in Keys
        BY <1>2 DEF Requests
      <4>2. \/ promised'[req[d].key] = promised[req[d].key]
            \/ Changes(r.op) /\ req[d].key = r.key
        <5>1. CASE ~Changes(r.op)
          BY <1>3, <5>1
        <5>2. CASE Changes(r.op)
          BY <1>2, <1>3, <4>1, <5>2
        <5>. QED BY <5>1, <5>2
      <4>3. req[d].op = "get" =>
              promised'[req[d].key] = promised[req[d].key] \/ req'[d].expect = Unknown
        BY <1>4, <3>2, <4>2
      <4>4. req[d].op = "get" => {m \in net' : m.rid = req[d].rid} = MessagesOf(req[d].rid)
        <5>1. req[d].op # "none" => req[d].rid < nextReq /\ req[d].rid \in Nat
          BY <1>2, BoundsAssumption DEF IInv, RidInv, Requests
        <5>2. req[d].op = "get" => req[d].rid # r.rid
          BY <1>2, <5>1
        <5>3. req[d].op = "get" => \A m \in net' : m.rid = req[d].rid => m \in net
          BY <5>2
        <5>. QED BY <5>3 DEF MessagesOf
      <4>. QED BY <1>4, <3>2, <4>3, <4>4, ReadsKept DEF PInv
    <3>. QED BY <3>1, <3>2
  <2>. QED BY <2>1 DEF GetInv, MessagesOf
<1>. QED BY <1>7, <1>8, <1>9, <1>10, <1>11 DEF PInv
LEMMA PutBeginPromise ==
  ASSUME IInv, PInv, SettledOnly, NEW c \in Clients, NEW k \in Keys,
         NEW size \in 0 .. MaxBlocks, PutBegin(c, k, size)
  PROVE  PInv'
<1>. DEFINE r == [Request("put", k) EXCEPT !.size = size]
<1>1. /\ nextReq <= MaxRequests /\ req[c].op = "none" /\ Begin(c, r) /\ net' = net
      /\ UNCHANGED <<kbn, store, saved>>
  BY DEF PutBegin, Free
<1>2. /\ r \in Requests /\ r.op = "put" /\ r.rid = nextReq /\ ~r.sent /\ r.key = k
      /\ r.clean = Undisturbed(k)
  <2>. DEFINE x == Request("put", k)
  <2>1. /\ x \in Requests /\ x.op = "put" /\ x.rid = nextReq /\ ~x.sent /\ x.key = k
        /\ x.clean = Undisturbed(k)
    BY <1>1, RequestType
  <2>2. r = [x EXCEPT !.size = size]
    OBVIOUS
  <2>. HIDE DEF x, r
  <2>. QED BY <2>1, <2>2 DEF Requests
<1>. HIDE DEF r
<1>3. Reads(r, promised[r.key], kbn[r.key].nodes, {m \in net' : m.rid = r.rid})
  BY <1>2 DEF Reads
<1>. QED BY <1>1, <1>2, <1>3, BeginPromise

LEMMA DelBeginPromise ==
  ASSUME IInv, PInv, SettledOnly, NEW c \in Clients, NEW k \in Keys, DelBegin(c, k)
  PROVE  PInv'
<1>. DEFINE S == NodesOf(kbn[k].nodes)
            r == [Request("del", k) EXCEPT !.sent = TRUE, !.waiting = S]
            asks == [n \in r.waiting |-> {}]
<1>1. /\ nextReq <= MaxRequests /\ req[c].op = "none" /\ Begin(c, r)
      /\ net' = net \cup Messages(c, r, asks) /\ UNCHANGED <<kbn, store, saved>>
  BY DEF DelBegin, Free
<1>2. S \in SUBSET Nodes
  BY PlacementSets DEF IInv, TypeOK
<1>3. /\ r \in Requests /\ r.op = "del" /\ r.rid = nextReq /\ r.key = k
      /\ r.clean = Undisturbed(k)
  <2>. DEFINE x == Request("del", k)
  <2>1. /\ x \in Requests /\ x.op = "del" /\ x.rid = nextReq /\ x.key = k
        /\ x.clean = Undisturbed(k)
    BY <1>1, RequestType
  <2>2. r = [x EXCEPT !.sent = TRUE, !.waiting = S]
    OBVIOUS
  <2>. HIDE DEF x, r, S
  <2>. QED BY <1>2, <2>1, <2>2 DEF Requests
<1>4. \A m \in Messages(c, r, asks) : m.op = r.op /\ m.key = r.key /\ m.rid = r.rid
  <2>. HIDE DEF r, asks
  <2>. QED BY DEF Messages
<1>. HIDE DEF r, asks
<1>5. Reads(r, promised[r.key], kbn[r.key].nodes, {m \in net' : m.rid = r.rid})
  BY <1>3 DEF Reads
<1>. QED BY <1>1, <1>3, <1>4, <1>5, BeginPromise

LEMMA GetBeginPromise ==
  ASSUME IInv, PInv, SettledOnly, NEW c \in Clients, NEW k \in Keys, GetBegin(c, k)
  PROVE  PInv'
<1>. DEFINE nodes == kbn[k].nodes
            from == [i \in DOMAIN nodes |-> FirstHealthy(nodes[i])]
            S == NodesOf(from)
            v == promised[k]
            r == [Request("get", k) EXCEPT !.sent = TRUE, !.size = Len(nodes),
                                           !.waiting = S, !.expect = v]
            asks == [n \in r.waiting |-> BlocksOn(from, n)]
<1>1. /\ nextReq <= MaxRequests /\ req[c].op = "none" /\ Begin(c, r) /\ kbn[k].mapped
      /\ \A i \in DOMAIN from : from[i] # {}
      /\ net' = net \cup Messages(c, r, asks) /\ UNCHANGED <<kbn, store, saved>>
  BY DEF GetBegin, Free
<1>2. nodes \in Placements /\ v \in Values
  BY DEF IInv, TypeOK
<1>3. from \in Placements /\ Len(from) = Len(nodes) /\ Len(nodes) \in 0 .. MaxBlocks
  BY <1>2, FromType, PlacementFacts
<1>4. S \in SUBSET Nodes
  BY <1>3, PlacementSets
<1>5. /\ r \in Requests /\ r.op = "get" /\ r.rid = nextReq /\ r.key = k
      /\ r.clean = Undisturbed(k) /\ r.size = Len(nodes) /\ r.waiting = S /\ r.expect = v
      /\ r.got = {}
  <2>. DEFINE x == Request("get", k)
             size == Len(nodes)
  <2>1. /\ x \in Requests /\ x.op = "get" /\ x.rid = nextReq /\ x.key = k
        /\ x.clean = Undisturbed(k) /\ x.got = {}
    BY <1>1, RequestType
  <2>2. r = [x EXCEPT !.sent = TRUE, !.size = size, !.waiting = S, !.expect = v]
    OBVIOUS
  <2>3. size \in 0 .. MaxBlocks
    BY <1>3
  <2>. HIDE DEF x, r, S, v, size
  <2>4. /\ r \in Requests /\ r.op = "get" /\ r.rid = nextReq /\ r.key = k
        /\ r.clean = Undisturbed(k) /\ r.size = size /\ r.waiting = S /\ r.expect = v
        /\ r.got = {}
    BY <1>2, <1>4, <2>1, <2>2, <2>3 DEF Requests
  <2>. QED BY <2>4 DEF size
<1>6. /\ \A m \in Messages(c, r, asks) :
           /\ m.op = r.op /\ m.key = r.key /\ m.rid = r.rid
           /\ m.node \in S /\ m.blocks = BlocksOn(from, m.node)
      /\ \A n \in S : \E m \in Messages(c, r, asks) : m.node = n
  <2>1. \A n \in S : asks[n] = BlocksOn(from, n)
    BY <1>5
  <2>2. asks \in [S -> SetsOfBlocks]
    BY <1>3, <1>5, PlacementSets
  <2>3. r.op # "none" /\ r.rid >= 1
    BY <1>5 DEF IInv, RidInv
  <2>. HIDE DEF r, asks, S, from
  <2>4. /\ \A m \in Messages(c, r, asks) :
             /\ m.op = r.op /\ m.key = r.key /\ m.rid = r.rid
             /\ m.node \in S /\ m.blocks = asks[m.node]
        /\ \A n \in S : \E m \in Messages(c, r, asks) : m.node = n
    <3>1. r \in Requests /\ S \in SUBSET Nodes
      BY <1>4, <1>5
    <3>2. /\ \A m \in Messages(c, r, asks) :
               /\ m.op = r.op /\ m.client = c /\ m.rid = r.rid /\ m.key = r.key
               /\ m.node \in S /\ m.blocks = asks[m.node]
          /\ \A n \in S : \E m \in Messages(c, r, asks) : m.node = n
      BY <2>2, <2>3, <3>1, MessagesType
    <3>. QED BY <3>2
  <2>. QED BY <2>1, <2>4
<1>7. \A m \in net : m.rid # r.rid
  BY <1>5 DEF IInv, RidInv, TypeOK, NodeRequests
<1>8. {m \in net' : m.rid = r.rid} = Messages(c, r, asks)
  <2>. HIDE DEF r, asks
  <2>. QED BY <1>1, <1>6, <1>7
<1>9. Reads(r, v, nodes, Messages(c, r, asks))
  <2>. SUFFICES ASSUME v # Unknown PROVE Reads(r, v, nodes, Messages(c, r, asks))
    BY <1>5 DEF Reads
  <2>1. v # Absent /\ Len(nodes) = v.size
    BY <1>1 DEF PInv, KeptInv, Kept
  <2>2. ASSUME NEW b \in BlockNums(v.size)
        PROVE  \E m \in Messages(c, r, asks) : b \in m.blocks
    <3>1. b + 1 \in DOMAIN from /\ b \in BlockNums(Len(from))
      BY <1>3, <2>1, <2>2, PlacementFacts, BlocksAssumption DEF BlockNums
    <3>2. PICK n \in from[b + 1] : TRUE
      BY <1>1, <3>1
    <3>3. n \in S /\ b \in BlocksOn(from, n)
      BY <1>3, <3>1, <3>2, PlacementSets DEF NodesOf
    <3>. HIDE DEF S, r, asks, from
    <3>4. PICK m \in Messages(c, r, asks) : m.node = n
      BY <1>6, <3>3
    <3>5. m.blocks = BlocksOn(from, n)
      BY <1>6, <3>4
    <3>. QED BY <3>3, <3>4, <3>5
  <2>3. ASSUME NEW m \in Messages(c, r, asks), NEW b \in m.blocks
        PROVE  b \in BlockNums(v.size) /\ m.node \in nodes[b + 1]
    <3>1. b \in BlocksOn(from, m.node)
      BY <1>6
    <3>2. b \in BlockNums(Len(from)) /\ m.node \in from[b + 1]
      BY <1>3, <3>1, PlacementSets
    <3>3. b + 1 \in DOMAIN nodes
      BY <1>2, <1>3, <3>2, PlacementFacts, BlocksAssumption DEF BlockNums
    <3>4. from[b + 1] \subseteq nodes[b + 1]
      BY <3>3 DEF FirstHealthy
    <3>. QED BY <1>3, <2>1, <3>2, <3>4
  <2>. HIDE DEF r, asks, nodes, v
  <2>. QED BY <1>5, <2>1, <2>2, <2>3 DEF Reads
<1>10. Reads(r, promised[r.key], kbn[r.key].nodes, {m \in net' : m.rid = r.rid})
  <2>. HIDE DEF r, asks
  <2>. QED BY <1>5, <1>8, <1>9
<1>11. r.op # "put" /\ r.op # "none" /\ r.clean = Undisturbed(r.key)
  BY <1>5
<1>12. /\ net \subseteq net'
       /\ \A m \in net' : m \in net \/ (m.op = r.op /\ m.key = r.key /\ m.rid = r.rid)
  <2>. HIDE DEF r, asks
  <2>. QED BY <1>1, <1>6
<1>. HIDE DEF r, asks
<1>. QED BY <1>1, <1>5, <1>10, <1>11, <1>12, BeginPromise
-----------------------------------------------------------------------------
(* Requests go on and end *)

LEMMA FollowsItself == \A x : Follows(x, x)
BY DEF Follows

LEMMA PutPlacePromise ==
  ASSUME IInv, PInv, NEW c \in Clients, PutPlace(c)
  PROVE  PInv'
<1>1. /\ req[c] \in Requests /\ ~req[c].sent /\ req[c].op = "put"
      /\ UNCHANGED <<kbn, store, saved, net, promised>>
  BY DEF PutPlace, IInv, TypeOK, ghosts
<1>2. \A d \in Clients \ {c} : req'[d] = req[d]
  BY DEF PutPlace, IInv, TypeOK
<1>3. Follows(req[c], req'[c])
  <2>. DEFINE r == req[c]
  <2>1. PICK j, chosen :
          req' = [req EXCEPT ![c] =
            IF r.cnt + 1 = Copies
            THEN [r EXCEPT !.place = Append(@, chosen),
                           !.chosen = {}, !.cnt = 0, !.cursor = 0]
            ELSE [r EXCEPT !.chosen = chosen, !.cnt = @ + 1, !.cursor = j]]
    BY DEF PutPlace
  <2>. DEFINE place == Append(r.place, chosen)
              cnt == r.cnt + 1
              y == req'[c]
  <2>2. \/ y = [r EXCEPT !.place = place, !.chosen = {}, !.cnt = 0, !.cursor = 0]
        \/ y = [r EXCEPT !.chosen = chosen, !.cnt = cnt, !.cursor = j]
    BY <2>1 DEF IInv, TypeOK
  <2>3. r \in Requests /\ ~r.sent /\ r.op = "put"
    BY <1>1
  <2>. HIDE DEF r, y, place, cnt
  <2>4. Follows(r, y)
    BY <2>2, <2>3 DEF Follows, Requests
  <2>. QED BY <2>4 DEF r, y
<1>4. \A d \in Clients : Follows(req[d], req'[d])
  BY <1>2, <1>3, FollowsItself
<1>. QED BY <1>1, <1>4, SameNothingNew, OthersKeep

LEMMA PutSendPromise ==
  ASSUME IInv, PInv, NEW c \in Clients, PutSend(c)
  PROVE  PInv'
<1>. DEFINE r == req[c]
            S == NodesOf(r.place)
            x == [r EXCEPT !.sent = TRUE, !.waiting = S]
            asks == [n \in S |-> BlocksOn(r.place, n)]
<1>1. /\ r \in Requests /\ r.op = "put" /\ UNCHANGED <<kbn, store, saved, promised>>
      /\ net' = net \cup Messages(c, r, asks)
      /\ req' = [req EXCEPT ![c].sent = TRUE, ![c].waiting = S]
  BY DEF PutSend, IInv, TypeOK, ghosts
<1>2. req'[c] = x /\ \A d \in Clients \ {c} : req'[d] = req[d]
  BY <1>1 DEF IInv, TypeOK
<1>3. /\ x.op = "put" /\ x.key = r.key /\ x.rid = r.rid /\ x.clean = r.clean
      /\ x.place = r.place /\ x.waiting = S
  <2>. HIDE DEF r, S
  <2>. QED BY <1>1 DEF Requests
<1>4. \A m \in Messages(c, r, asks) : m.op = r.op /\ m.key = r.key /\ m.rid = r.rid
  <2>. HIDE DEF r, asks
  <2>. QED BY DEF Messages
<1>. HIDE DEF x, asks
<1>5. /\ \A m \in net' : m \in net \/ (m.op = r.op /\ m.key = r.key /\ m.rid = r.rid)
      /\ \A m \in net' : m \in net \/ m.rid = r.rid
  BY <1>1, <1>4
<1>6. \A d \in Clients : Continues(req[d], req'[d])
  BY <1>1, <1>2, <1>3 DEF Continues
<1>7. CleanInv' /\ QuietInv'
  <2>1. \A m \in net' : \/ m \in net
                        \/ \E d \in Clients : /\ req[d].op = m.op /\ req[d].key = m.key
                                              /\ req[d].rid = m.rid
    BY <1>5
  <2>. QED BY <1>1, <1>6, <2>1, QuietKept DEF PInv
<1>9. StoredInv'
  <2>1. ASSUME NEW d \in Clients PROVE Stored(store', saved', req'[d])
    <3>1. CASE d = c
      BY <1>2, <1>3, <3>1 DEF Stored
    <3>2. CASE d # c
      BY <1>1, <1>2, <3>2 DEF PInv, StoredInv
    <3>. QED BY <3>1, <3>2
  <2>. QED BY <2>1 DEF StoredInv
<1>10. KeptInv'
  BY <1>1 DEF PInv, KeptInv
<1>11. GetInv'
  <2>1. ASSUME NEW d \in Clients
        PROVE  Reads(req'[d], promised'[req'[d].key], kbn'[req'[d].key].nodes,
                     {m \in net' : m.rid = req'[d].rid})
    <3>1. CASE d = c
      BY <1>2, <1>3, <3>1 DEF Reads
    <3>2. CASE d # c
      <4>1. req[d].op = "get" => {m \in net' : m.rid = req[d].rid} = MessagesOf(req[d].rid)
        <5>1. req[d].op = "get" => req[d].rid # r.rid
          BY <1>1, <3>2 DEF IInv, RidInv
        <5>. QED BY <1>1, <1>5, <5>1 DEF MessagesOf
      <4>2. Follows(req[d], req'[d])
        BY <1>2, <3>2, FollowsItself
      <4>. QED BY <1>1, <4>1, <4>2, ReadsKept DEF PInv
    <3>. QED BY <3>1, <3>2
  <2>. QED BY <2>1 DEF GetInv, MessagesOf
<1>. QED BY <1>7, <1>9, <1>10, <1>11 DEF PInv

(* A change that has ended: what is promised of its key, and the KBN's     *)
(* entry, are new.                                                         *)
LEMMA FinishPromise ==
  ASSUME IInv, PInv, NEW c \in Clients, Changes(req[c].op), req' = [req EXCEPT ![c] = NoReq],
         NEW v, NEW entry, kbn' = [kbn EXCEPT ![req[c].key] = entry],
         promised' = IF req[c].clean THEN [promised EXCEPT ![req[c].key] = v] ELSE promised,
         req[c].clean => Kept(store, saved, req[c].key, v, entry),
         \A m \in net : m.rid # req[c].rid,
         UNCHANGED <<store, saved, net>>
  PROVE  PInv'
<1>. DEFINE r == req[c]
<1>1. /\ r.key \in Keys /\ promised \in [Keys -> Values] /\ NoReq.op = "none" /\ ~NoReq.clean
      /\ \A d \in Clients : req[d].key \in Keys
      /\ kbn \in [Keys -> [mapped : BOOLEAN, nodes : Placements]]
  BY NoReqType DEF IInv, TypeOK, Requests
<1>2. req'[c] = NoReq /\ \A d \in Clients \ {c} : req'[d] = req[d]
  BY DEF IInv, TypeOK
<1>3. promised[r.key] = Unknown
  BY <1>1 DEF PInv, QuietInv, Undisturbed
<1>4. \A k \in Keys \ {r.key} : promised'[k] = promised[k] /\ kbn'[k] = kbn[k]
  BY <1>1
<1>5. kbn'[r.key] = entry /\ (promised'[r.key] # Unknown => promised'[r.key] = v /\ r.clean)
  BY <1>1, <1>3
<1>6. r.clean => /\ \A d \in Clients : (Changes(req[d].op) /\ req[d].key = r.key) => d = c
                 /\ \A m \in net : (Changes(m.op) /\ m.key = r.key) => m.rid = r.rid
  BY DEF PInv, CleanInv
<1>7. CleanInv'
  <2>. SUFFICES ASSUME NEW d \in Clients, Changes(req'[d].op), req'[d].clean
                PROVE  /\ \A e \in Clients : (Changes(req'[e].op) /\ req'[e].key = req'[d].key) => e = d
                       /\ \A m \in net' : (Changes(m.op) /\ m.key = req'[d].key) => m.rid = req'[d].rid
    BY DEF CleanInv, Changes
  <2>1. d # c
    BY <1>1, <1>2
  <2>2. /\ \A e \in Clients : (Changes(req[e].op) /\ req[e].key = req[d].key) => e = d
        /\ \A m \in net : (Changes(m.op) /\ m.key = req[d].key) => m.rid = req[d].rid
    BY <1>2, <2>1 DEF PInv, CleanInv
  <2>3. ~Changes(NoReq.op)
    BY <1>1, Distinct
  <2>. QED BY <1>2, <2>1, <2>2, <2>3
<1>8. QuietInv'
  <2>1. ASSUME NEW k \in Keys, promised'[k] # Unknown
        PROVE  /\ \A d \in Clients : req'[d].key = k => ~Changes(req'[d].op)
               /\ SettledOnly => \A m \in net' : m.key = k => ~Changes(m.op)
    <3>1. ~Changes(NoReq.op)
      BY <1>1, Distinct
    <3>2. CASE k = r.key
      BY <1>2, <1>5, <1>6, <2>1, <3>1, <3>2
    <3>3. CASE k # r.key
      <4>1. Undisturbed(k)
        BY <1>4, <2>1, <3>3 DEF PInv, QuietInv
      <4>. QED BY <1>2, <3>1, <4>1 DEF Undisturbed
    <3>. QED BY <3>2, <3>3
  <2>. QED BY <2>1 DEF QuietInv, Undisturbed, Changes, Unknown
<1>9. StoredInv'
  <2>1. ASSUME NEW d \in Clients PROVE Stored(store', saved', req'[d])
    BY <1>1, <1>2 DEF PInv, StoredInv, Stored
  <2>. QED BY <2>1 DEF StoredInv
<1>10. KeptInv'
  <2>1. ASSUME NEW k \in Keys PROVE Kept(store', saved', k, promised'[k], kbn'[k])
    <3>1. CASE promised'[k] = Unknown
      BY <3>1, Distinct DEF Kept
    <3>2. CASE k = r.key /\ promised'[k] # Unknown
      BY <1>5, <3>2
    <3>3. CASE k # r.key
      BY <1>4, <3>3 DEF PInv, KeptInv
    <3>. QED BY <3>1, <3>2, <3>3
  <2>. QED BY <2>1 DEF KeptInv
<1>11. GetInv'
  <2>1. ASSUME NEW d \in Clients
        PROVE  Reads(req'[d], promised'[req'[d].key], kbn'[req'[d].key].nodes,
                     {m \in net' : m.rid = req'[d].rid})
    <3>1. Follows(req[d], req'[d])
      BY <1>1, <1>2, FollowsItself DEF Follows
    <3>2. promised[req[d].key] # Unknown => req[d].key # r.key
      BY <1>3
    <3>3. {m \in net' : m.rid = req[d].rid} = MessagesOf(req[d].rid)
      BY DEF MessagesOf
    <3>. HIDE DEF r
    <3>. QED BY <1>1, <1>4, <3>1, <3>2, <3>3, ReadsKept DEF PInv
  <2>. QED BY <2>1 DEF GetInv, MessagesOf
<1>. QED BY <1>7, <1>8, <1>9, <1>10, <1>11 DEF PInv
LEMMA PutFinishPromise ==
  ASSUME IInv, PInv, NEW c \in Clients, PutFinish(c)
  PROVE  PInv'
<1>. DEFINE r == req[c]
            v == Value(r.rid, r.size)
            entry == Entry(r.place)
<1>1. /\ r \in Requests /\ r.op = "put" /\ r.sent /\ r.waiting = {}
      /\ req' = [req EXCEPT ![c] = NoReq] /\ kbn' = [kbn EXCEPT ![r.key] = entry]
      /\ promised' = IF r.clean THEN [promised EXCEPT ![r.key] = v] ELSE promised
      /\ UNCHANGED <<store, saved, net>>
  BY DEF PutFinish, IInv, TypeOK
<1>2. \A m \in net : m.rid # r.rid
  BY <1>1 DEF IInv, NetInv, MessageOf
<1>3. Placed(r) /\ r.rid \in Nat /\ r.rid >= 1 /\ Changes(r.op)
  BY <1>1, Distinct, BoundsAssumption DEF IInv, PlaceInv, RidInv, Requests
<1>4. v \notin {Absent, Unknown} /\ v.ver = r.rid /\ v.size = r.size
  BY <1>3, Distinct DEF Value
<1>5. entry.mapped /\ entry.nodes = r.place
  BY DEF Entry
<1>6. r.clean => Kept(store, saved, r.key, v, entry)
  <2>. SUFFICES ASSUME r.clean PROVE Kept(store, saved, r.key, v, entry)
    OBVIOUS
  <2>1. Stored(store, saved, r)
    BY DEF PInv, StoredInv
  <2>. HIDE DEF r, v, entry
  <2>2. \A n \in NodesOf(r.place) : Holds(store, saved, n, r.key, r.rid, r.place)
    BY <1>1, <2>1 DEF Stored
  <2>. QED BY <1>1, <1>3, <1>4, <1>5, <2>2 DEF Kept, Placed
<1>. HIDE DEF v, entry
<1>. QED BY <1>1, <1>2, <1>3, <1>6, FinishPromise

LEMMA DelFinishPromise ==
  ASSUME IInv, PInv, NEW c \in Clients, DelFinish(c)
  PROVE  PInv'
<1>. DEFINE r == req[c]
<1>1. /\ r.op = "del" /\ r.waiting = {}
      /\ req' = [req EXCEPT ![c] = NoReq] /\ kbn' = [kbn EXCEPT ![r.key] = NoEntry]
      /\ promised' = IF r.clean THEN [promised EXCEPT ![r.key] = Absent] ELSE promised
      /\ UNCHANGED <<store, saved, net>>
  BY DEF DelFinish, IInv, TypeOK
<1>2. \A m \in net : m.rid # r.rid
  BY <1>1 DEF IInv, NetInv, MessageOf
<1>3. Kept(store, saved, r.key, Absent, NoEntry)
  BY DEF Kept, NoEntry
<1>4. Changes(r.op)
  BY <1>1, Distinct
<1>. QED BY <1>1, <1>2, <1>3, <1>4, FinishPromise

LEMMA GetFinishPromise ==
  ASSUME IInv, PInv, NEW c \in Clients, GetFinish(c)
  PROVE  PInv'
<1>1. /\ req' = [req EXCEPT ![c] = NoReq] /\ UNCHANGED <<kbn, store, saved, net, promised>>
  BY DEF GetFinish, ghosts
<1>2. \A d \in Clients : Follows(req[d], req'[d])
  BY <1>1, NoReqType, FollowsItself DEF IInv, TypeOK, Follows
<1>. QED BY <1>1, <1>2, SameNothingNew, OthersKeep

-----------------------------------------------------------------------------
(* Answers *)

(* After a message of its request has failed a client has none. *)
LEMMA FailedPromise ==
  ASSUME IInv, PInv, NEW m \in net, FailedAnswer(m), net' \in {net, net \ {m}},
         promised' = promised, kbn' = kbn, \A k \in Keys : NothingNew(k)
  PROVE  PInv'
<1>1. \A c \in Clients : /\ Follows(req[c], req'[c])
                         /\ req'[c].op = "get" => req[c].rid # m.rid
  <2>1. CASE Awaited(m)
    <3>1. req' = [req EXCEPT ![m.client] = NoReq] /\ req[m.client].op # "none"
          /\ req[m.client].rid = m.rid /\ m.client \in Clients
      BY <2>1, AwaitedFacts DEF FailedAnswer
    <3>2. /\ req'[m.client] = NoReq
          /\ \A c \in Clients \ {m.client} : req'[c] = req[c]
      BY <3>1 DEF IInv, TypeOK
    <3>3. ASSUME NEW c \in Clients \ {m.client}, req[c].op # "none" PROVE req[c].rid # m.rid
      BY <3>1, <3>3 DEF IInv, RidInv
    <3>. QED BY <3>2, <3>3, NoReqType, FollowsItself DEF Follows
  <2>2. CASE ~Awaited(m)
    <3>1. req' = req
      BY <2>2 DEF FailedAnswer
    <3>2. \A c \in Clients : req[c].op = "get" => req[c].rid # m.rid
      BY <2>2 DEF IInv, NetInv, MessageOf, Awaited
    <3>. QED BY <3>1, <3>2, FollowsItself
  <2>. QED BY <2>1, <2>2
<1>2. net' \subseteq net /\ \A l \in net \ net' : l = m
  OBVIOUS
<1>3. \A c \in Clients : Follows(req[c], req'[c])
  BY <1>1
<1>4. ASSUME NEW c \in Clients, NEW l \in net \ net', req'[c].op = "get"
      PROVE  req[c].rid # l.rid
  <2>1. l = m
    BY <1>2
  <2>. QED BY <1>1, <1>4, <2>1
<1>. QED BY <1>2, <1>3, <1>4, OthersKeep

LEMMA NoAnswerPromise ==
  ASSUME IInv, PInv, NEW m \in net, NodeRefuses(m) \/ NodeFails(m) \/ TimesOut(m)
  PROVE  PInv'
<1>1. /\ FailedAnswer(m) /\ net' \in {net, net \ {m}}
      /\ UNCHANGED <<kbn, store, saved, promised>>
  BY DEF NodeRefuses, NodeFails, TimesOut, ghosts
<1>. QED BY <1>1, SameNothingNew, FailedPromise

LEMMA HealthPromise ==
  ASSUME IInv, PInv, NEW n \in Nodes,
         HealthCheck(n) \/ NodeStarts(n) \/ \E wiped \in BOOLEAN : NodeStops(n, wiped)
  PROVE  PInv'
<1>1. UNCHANGED <<kbn, req, net, promised>>
  BY DEF HealthCheck, NodeStarts, NodeStops, ghosts
<1>2. ASSUME NEW k \in Keys PROVE NothingNew(k)
  <2>1. store \in [Nodes -> [Keys -> Data]] /\ saved \in [Nodes -> [Keys -> Data]]
    BY DEF IInv, TypeOK
  <2>2. CASE HealthCheck(n) \/ NodeStarts(n)
    BY <2>2 DEF HealthCheck, NodeStarts, NothingNew
  <2>3. ASSUME NEW wiped \in BOOLEAN, NodeStops(n, wiped) PROVE NothingNew(k)
    <3>1. saved' = saved \/ saved' = [saved EXCEPT ![n] = [j \in Keys |-> NoData]]
      BY <2>3 DEF NodeStops
    <3>2. \A o \in Nodes : saved'[o][k] \in {NoData, saved[o][k]}
      BY <2>1, <3>1
    <3>3. \A o \in Nodes : store'[o][k] \in {store[o][k], saved'[o][k]}
      BY <2>1, <2>3 DEF NodeStops
    <3>. QED BY <3>2, <3>3 DEF NothingNew
  <2>. QED BY <2>2, <2>3
<1>3. \A d \in Clients : Follows(req[d], req'[d])
  BY <1>1, FollowsItself
<1>. QED BY <1>1, <1>2, <1>3, OthersKeep
(* The request of an awaited message, and those of all others, after the   *)
(* answer.                                                                 *)
LEMMA AnsweredFacts ==
  ASSUME IInv, NEW m \in net, NEW blocks, Answered(m, blocks), NEW c \in Clients
  PROVE  \/ /\ req'[c] = req[c]
            /\ req[c].op # "none" => req[c].rid # m.rid
         \/ /\ MessageOf(m, c, req[c]) /\ req[c].rid = m.rid /\ req[c].op # "none"
            /\ req'[c].op = req[c].op /\ req'[c].key = req[c].key /\ req'[c].rid = req[c].rid
            /\ req'[c].size = req[c].size /\ req'[c].place = req[c].place
            /\ req'[c].sent = req[c].sent /\ req'[c].clean = req[c].clean
            /\ req'[c].expect = req[c].expect
            /\ req'[c].waiting = req[c].waiting \ {m.node}
            /\ req'[c].got = req[c].got \cup blocks
<1>1. CASE Awaited(m) /\ c = m.client
  <2>. DEFINE r == req[c]
             y == req'[c]
  <2>1. r.op # "none" /\ r.rid = m.rid /\ r \in Requests
    BY <1>1, AwaitedFacts
  <2>2. y = [r EXCEPT !.waiting = @ \ {m.node}, !.got = @ \cup blocks]
    BY <1>1 DEF Answered, IInv, TypeOK
  <2>3. MessageOf(m, c, r)
    BY <2>1 DEF IInv, NetInv
  <2>. HIDE DEF r, y
  <2>4. /\ y.op = r.op /\ y.key = r.key /\ y.rid = r.rid /\ y.size = r.size
        /\ y.place = r.place /\ y.sent = r.sent /\ y.clean = r.clean
        /\ y.expect = r.expect /\ y.waiting = r.waiting \ {m.node}
        /\ y.got = r.got \cup blocks
    BY <2>1, <2>2 DEF Requests
  <2>. QED BY <2>1, <2>3, <2>4 DEF r, y
<1>2. CASE ~(Awaited(m) /\ c = m.client)
  <2>1. req'[c] = req[c]
    BY <1>2 DEF Answered, IInv, TypeOK
  <2>2. ASSUME req[c].op # "none", req[c].rid = m.rid PROVE FALSE
    <3>1. MessageOf(m, c, req[c])
      BY <2>2 DEF IInv, NetInv
    <3>. QED BY <1>2, <2>2, <3>1 DEF MessageOf, Awaited
  <2>. QED BY <2>1, <2>2
<1>. QED BY <1>1, <1>2

LEMMA NodeDelPromise ==
  ASSUME IInv, PInv, NEW m \in net, NodeDel(m)
  PROVE  PInv'
<1>1. /\ net' = net \ {m} /\ m.op = "del" /\ UNCHANGED <<kbn, saved, promised>>
      /\ store' = [store EXCEPT ![m.node][m.key] = NoData]
  BY DEF NodeDel, ghosts
<1>2. ASSUME NEW k \in Keys PROVE NothingNew(k)
  BY <1>1 DEF NothingNew, IInv, TypeOK
<1>3. CASE FailedAnswer(m)
  BY <1>1, <1>2, <1>3, FailedPromise
<1>4. CASE Answered(m, {})
  <2>1. ASSUME NEW c \in Clients
        PROVE  Follows(req[c], req'[c]) /\ (req'[c].op = "get" => req[c].rid # m.rid)
    <3>1. CASE /\ req'[c] = req[c]
               /\ req[c].op # "none" => req[c].rid # m.rid
      BY <3>1, FollowsItself
    <3>2. CASE ~(/\ req'[c] = req[c]
                 /\ req[c].op # "none" => req[c].rid # m.rid)
      <4>1. /\ MessageOf(m, c, req[c])
            /\ req'[c].op = req[c].op /\ req'[c].key = req[c].key /\ req'[c].rid = req[c].rid
            /\ req'[c].clean = req[c].clean
        BY <1>4, <3>2, AnsweredFacts
      <4>2. req[c].op = "del"
        BY <1>1, <4>1 DEF MessageOf
      <4>. QED BY <4>1, <4>2 DEF Follows
    <3>. QED BY <3>1, <3>2
  <2>2. net' \subseteq net /\ \A l \in net \ net' : l = m
    BY <1>1
  <2>. QED BY <1>1, <1>2, <2>1, <2>2, OthersKeep
<1>. QED BY <1>3, <1>4 DEF NodeDel

LEMMA NodePutPromise ==
  ASSUME IInv, PInv, SettledOnly, NEW m \in net, NodePut(m)
  PROVE  PInv'
<1>. DEFINE n == m.node
            k == m.key
            all == [ver |-> m.rid, blocks |-> m.blocks]
<1>1. /\ net' = net \ {m} /\ m.op = "put" /\ UNCHANGED <<kbn, promised>>
      /\ store' = [store EXCEPT ![n][k] = all]
      /\ saved' = [saved EXCEPT ![n] = store'[n]]
      /\ Answered(m, {})
  BY DEF NodePut, ghosts
<1>2. /\ n \in Nodes /\ k \in Keys
      /\ store \in [Nodes -> [Keys -> Data]] /\ saved \in [Nodes -> [Keys -> Data]]
      /\ \A c \in Clients : req[c].key \in Keys /\ req[c].place \in Placements
  BY DEF IInv, TypeOK, NodeRequests, Requests
<1>3. /\ \A o \in Nodes \ {n} : store'[o] = store[o] /\ saved'[o] = saved[o]
      /\ \A j \in Keys \ {k} : store'[n][j] = store[n][j]
      /\ store'[n][k] = all /\ saved'[n] = store'[n]
  BY <1>1, <1>2
<1>4. ASSUME NEW j \in Keys, j # k PROVE NothingNew(j)
  BY <1>3, <1>4 DEF NothingNew
<1>5. Changes(m.op)
  BY <1>1, Distinct
<1>6. promised[k] = Unknown
  BY <1>2, <1>5 DEF PInv, QuietInv, Undisturbed
<1>7. CleanInv' /\ QuietInv'
  <2>1. ASSUME NEW c \in Clients PROVE Continues(req[c], req'[c])
    BY <1>1, AnsweredFacts DEF Continues
  <2>. QED BY <1>1, <2>1, QuietKept DEF PInv
<1>8. StoredInv'
  <2>1. ASSUME NEW c \in Clients PROVE Stored(store', saved', req'[c])
    <3>1. CASE /\ req'[c] = req[c]
               /\ req[c].op # "none" => req[c].rid # m.rid
      <4>. SUFFICES ASSUME req[c].op = "put", req[c].clean
                    PROVE  Stored(store', saved', req'[c])
        BY <3>1 DEF Stored
      <4>1. req[c].key # k
        BY <1>5, <3>1, Distinct DEF PInv, CleanInv
      <4>2. NothingNew(req[c].key) /\ Follows(req[c], req'[c])
        BY <1>2, <1>4, <3>1, <4>1, FollowsItself
      <4>. QED BY <4>2, StoredKept DEF PInv
    <3>2. CASE ~(/\ req'[c] = req[c]
                 /\ req[c].op # "none" => req[c].rid # m.rid)
      <4>. DEFINE r == req[c]
                  y == req'[c]
      <4>1. /\ MessageOf(m, c, r) /\ r.rid = m.rid
            /\ y.op = r.op /\ y.key = r.key /\ y.rid = r.rid /\ y.place = r.place
            /\ y.sent = r.sent /\ y.clean = r.clean /\ y.waiting = r.waiting \ {n}
        BY <1>1, <3>2, AnsweredFacts
      <4>2. r.op = "put" /\ r.key = k /\ m.blocks = BlocksOn(r.place, n)
        BY <1>1, <4>1 DEF MessageOf
      <4>3. Stored(store, saved, r)
        BY DEF PInv, StoredInv
      <4>4. NodesOf(r.place) \subseteq Nodes
        BY <1>2, PlacementSets
      <4>. HIDE DEF r, y
      <4>5. ASSUME y.clean, y.sent, NEW o \in NodesOf(r.place) \ y.waiting
            PROVE  Holds(store', saved', o, k, r.rid, r.place)
        <5>1. CASE o = n
          BY <1>2, <1>3, <4>1, <4>2, <5>1 DEF Holds
        <5>2. CASE o # n
          <6>1. Holds(store, saved, o, k, r.rid, r.place)
            BY <4>1, <4>2, <4>3, <4>5, <5>2 DEF Stored
          <6>2. store'[o] = store[o] /\ saved'[o] = saved[o]
            BY <1>3, <4>4, <4>5, <5>2
          <6>. QED BY <6>1, <6>2 DEF Holds
        <5>. QED BY <5>1, <5>2
      <4>6. Stored(store', saved', y)
        BY <4>1, <4>2, <4>5 DEF Stored
      <4>. QED BY <4>6 DEF y
    <3>. QED BY <3>1, <3>2
  <2>. QED BY <2>1 DEF StoredInv
<1>9. KeptInv'
  <2>1. ASSUME NEW j \in Keys PROVE Kept(store', saved', j, promised'[j], kbn'[j])
    BY <1>1, <1>4, <1>6, KeptKept DEF PInv
  <2>. QED BY <2>1 DEF KeptInv
<1>10. GetInv'
  <2>1. ASSUME NEW c \in Clients
        PROVE  Reads(req'[c], promised'[req'[c].key], kbn'[req'[c].key].nodes,
                     {l \in net' : l.rid = req'[c].rid})
    <3>1. CASE /\ req'[c] = req[c]
               /\ req[c].op # "none" => req[c].rid # m.rid
      <4>1. req[c].op = "get" => {l \in net' : l.rid = req[c].rid} = MessagesOf(req[c].rid)
        BY <1>1, <3>1 DEF MessagesOf
      <4>2. Follows(req[c], req'[c])
        BY <3>1, FollowsItself
      <4>. QED BY <1>1, <4>1, <4>2, ReadsKept DEF PInv
    <3>2. CASE ~(/\ req'[c] = req[c]
                 /\ req[c].op # "none" => req[c].rid # m.rid)
      <4>1. MessageOf(m, c, req[c]) /\ req'[c].op = req[c].op
        BY <1>1, <3>2, AnsweredFacts
      <4>2. req'[c].op = "put"
        BY <1>1, <4>1 DEF MessageOf
      <4>. QED BY <4>2 DEF Reads
    <3>. QED BY <3>1, <3>2
  <2>. QED BY <2>1 DEF GetInv, MessagesOf
<1>. QED BY <1>7, <1>8, <1>9, <1>10 DEF PInv

LEMMA NodeGetPromise ==
  ASSUME IInv, PInv, NEW m \in net, NodeGet(m)
  PROVE  PInv'
<1>. DEFINE d == store[m.node][m.key]
            blocks == {<<b, d.ver>> : b \in m.blocks}
<1>1. /\ net' = net \ {m} /\ m.op = "get" /\ UNCHANGED <<kbn, store, saved, promised>>
      /\ (m.blocks \subseteq d.blocks /\ Answered(m, blocks)) \/ FailedAnswer(m)
  BY DEF NodeGet, ghosts
<1>2. CASE FailedAnswer(m)
  BY <1>1, <1>2, SameNothingNew, FailedPromise
<1>3. CASE m.blocks \subseteq d.blocks /\ Answered(m, blocks)
  <2>1. ASSUME NEW c \in Clients PROVE Continues(req[c], req'[c])
    BY <1>3, AnsweredFacts DEF Continues
  <2>2. CleanInv' /\ QuietInv'
    BY <1>1, <2>1, QuietKept DEF PInv
  <2>3. StoredInv'
    <3>1. ASSUME NEW c \in Clients PROVE Stored(store', saved', req'[c])
      <4>1. CASE req'[c] = req[c]
        BY <1>1, <4>1 DEF PInv, StoredInv
      <4>2. CASE req'[c] # req[c]
        <5>1. MessageOf(m, c, req[c]) /\ req'[c].op = req[c].op
          BY <1>3, <4>2, AnsweredFacts
        <5>. QED BY <1>1, <5>1 DEF MessageOf, Stored
      <4>. QED BY <4>1, <4>2
    <3>. QED BY <3>1 DEF StoredInv
  <2>4. KeptInv'
    BY <1>1 DEF PInv, KeptInv
  <2>5. GetInv'
    <3>1. ASSUME NEW c \in Clients
          PROVE  Reads(req'[c], promised'[req'[c].key], kbn'[req'[c].key].nodes,
                       {l \in net' : l.rid = req'[c].rid})
      <4>1. CASE /\ req'[c] = req[c]
                 /\ req[c].op # "none" => req[c].rid # m.rid
        <5>1. req[c].op = "get" => {l \in net' : l.rid = req[c].rid} = MessagesOf(req[c].rid)
          BY <1>1, <4>1 DEF MessagesOf
        <5>2. Follows(req[c], req'[c])
          BY <4>1, FollowsItself
        <5>. QED BY <1>1, <5>1, <5>2, ReadsKept DEF PInv
      <4>2. CASE ~(/\ req'[c] = req[c]
                   /\ req[c].op # "none" => req[c].rid # m.rid)
        <5>. DEFINE r == req[c]
                    y == req'[c]
                    k == r.key
                    v == promised[k]
                    place == kbn[k].nodes
                    asked == MessagesOf(r.rid)
        <5>1. /\ MessageOf(m, c, r) /\ r.rid = m.rid
              /\ y.op = r.op /\ y.key = k /\ y.rid = r.rid /\ y.size = r.size
              /\ y.expect = r.expect /\ y.got = r.got \cup blocks
          BY <1>3, <4>2, AnsweredFacts
        <5>2. Reads(r, v, place, asked) /\ m \in asked /\ r.op = "get" /\ m.key = k
          BY <1>1, <5>1 DEF PInv, GetInv, MessagesOf, MessageOf
        <5>3. {l \in net' : l.rid = y.rid} = asked \ {m}
          BY <1>1, <5>1 DEF MessagesOf
        <5>4. ASSUME r.expect # Unknown, NEW b \in m.blocks PROVE d.ver = v.ver
          <6>1. /\ b \in BlockNums(v.size) /\ m.node \in place[b + 1]
                /\ v \notin {Absent, Unknown}
            BY <5>2, <5>4 DEF Reads
          <6>2. place \in Placements /\ k \in Keys /\ Kept(store, saved, k, v, kbn[k])
            BY DEF IInv, TypeOK, Requests, PInv, KeptInv
          <6>3. Len(place) = v.size /\ \A n \in NodesOf(place) : Holds(store, saved, n, k, v.ver, place)
            BY <6>1, <6>2 DEF Kept
          <6>4. m.node \in NodesOf(place)
            <7>1. b + 1 \in DOMAIN place
              BY <6>1, <6>2, <6>3, PlacementFacts, BlocksAssumption DEF BlockNums
            <7>. QED BY <6>1, <7>1 DEF NodesOf
          <6>5. d \in {NoData, [ver |-> v.ver, blocks |-> BlocksOn(place, m.node)]}
            BY <5>2, <6>3, <6>4 DEF Holds
          <6>6. d.blocks # {}
            BY <1>3, <5>4
          <6>. QED BY <6>5, <6>6 DEF NoData
        <5>5. Reads(y, v, place, asked \ {m})
          <6>. HIDE DEF r, y, k, v, place, asked, d
          <6>. SUFFICES ASSUME r.expect # Unknown PROVE Reads(y, v, place, asked \ {m})
            BY <5>1 DEF Reads
          <6>1. /\ r.expect = v /\ v # Absent /\ r.size = v.size
                /\ \A g \in r.got : \E b \in BlockNums(v.size) : g = <<b, v.ver>>
                /\ \A b \in BlockNums(v.size) : <<b, v.ver>> \in r.got \/ \E l \in asked : b \in l.blocks
                /\ \A l \in asked : \A b \in l.blocks :
                     b \in BlockNums(v.size) /\ l.node \in place[b + 1]
            BY <5>2 DEF Reads
          <6>2. \A g \in y.got : \E b \in BlockNums(v.size) : g = <<b, v.ver>>
            BY <5>1, <5>2, <5>4, <6>1
          <6>3. ASSUME NEW b \in BlockNums(v.size)
                PROVE  <<b, v.ver>> \in y.got \/ \E l \in asked \ {m} : b \in l.blocks
            <7>1. CASE b \in m.blocks
              BY <5>1, <5>4, <7>1
            <7>2. CASE b \notin m.blocks
              BY <5>1, <6>1, <7>2
            <7>. QED BY <7>1, <7>2
          <6>. QED BY <5>1, <6>1, <6>2, <6>3 DEF Reads
        <5>. HIDE DEF y, v, place, asked
        <5>6. promised'[y.key] = v /\ kbn'[y.key].nodes = place
          BY <1>1, <5>1 DEF v, place
        <5>7. Reads(y, promised'[y.key], kbn'[y.key].nodes, {l \in net' : l.rid = y.rid})
          BY <5>3, <5>5, <5>6
        <5>. QED BY <5>7 DEF y
      <4>. QED BY <4>1, <4>2
    <3>. QED BY <3>1 DEF GetInv, MessagesOf
  <2>. QED BY <2>2, <2>3, <2>4, <2>5 DEF PInv
<1>. QED BY <1>1, <1>2, <1>3
-----------------------------------------------------------------------------
LEMMA InitPInv == Init => PInv
<1>. SUFFICES ASSUME Init PROVE PInv
  OBVIOUS
<1>1. \A c \in Clients : req[c] = NoReq /\ req[c].op = "none" /\ ~Changes(req[c].op)
  BY NoReqType, Distinct DEF Init
<1>2. net = {} /\ \A k \in Keys : promised[k] = Absent /\ ~kbn[k].mapped
  BY DEF Init, NoEntry
<1>3. CleanInv /\ QuietInv
  BY <1>1, <1>2 DEF CleanInv, QuietInv, Undisturbed
<1>4. StoredInv /\ GetInv
  BY <1>1 DEF StoredInv, Stored, GetInv, Reads
<1>5. KeptInv
  BY <1>2 DEF KeptInv, Kept
<1>. QED BY <1>3, <1>4, <1>5 DEF PInv

LEMMA NextPInv ==
  ASSUME SettledOnly, IInv, PInv, [Next]_vars
  PROVE  PInv'
<1>1. ASSUME NEW c \in Clients, NEW k \in Keys,
             (\E size \in 0 .. MaxBlocks : PutBegin(c, k, size)) \/ DelBegin(c, k) \/ GetBegin(c, k)
      PROVE  PInv'
  BY <1>1, PutBeginPromise, DelBeginPromise, GetBeginPromise
<1>2. ASSUME NEW c \in Clients, Handler(c) PROVE PInv'
  BY <1>2, PutPlacePromise, PutSendPromise, PutFinishPromise, DelFinishPromise, GetFinishPromise
     DEF Handler
<1>3. ASSUME NEW m \in net, Serve(m) \/ NodeFails(m) \/ TimesOut(m) PROVE PInv'
  BY <1>3, NodePutPromise, NodeDelPromise, NodeGetPromise, NoAnswerPromise DEF Serve
<1>4. ASSUME NEW n \in Nodes,
             HealthCheck(n) \/ NodeStarts(n) \/ \E wiped \in BOOLEAN : NodeStops(n, wiped)
      PROVE  PInv'
  BY <1>4, HealthPromise
<1>5. CASE UNCHANGED vars
  <2>1. UNCHANGED <<kbn, store, saved, req, net, promised>>
    BY <1>5 DEF vars, ghosts
  <2>2. \A c \in Clients : Follows(req[c], req'[c])
    BY <2>1, FollowsItself
  <2>. QED BY <2>1, <2>2, SameNothingNew, OthersKeep
<1>. QED BY <1>1, <1>2, <1>3, <1>4, <1>5 DEF Next

LEMMA PInvKeepsPromise == IInv /\ PInv => KbnKeepsPromise
<1>. SUFFICES ASSUME IInv, PInv, NEW k \in Keys
              PROVE  LET v == promised[k]
                     IN  /\ v = Absent => ~kbn[k].mapped
                         /\ v \notin {Absent, Unknown} =>
                              /\ kbn[k].mapped /\ Len(kbn[k].nodes) = v.size
                              /\ \A b \in BlockNums(v.size) :
                                   /\ Cardinality(kbn[k].nodes[b + 1]) = Copies
                                   /\ \A n \in kbn[k].nodes[b + 1] :
                                        \/ store[n][k] = NoData
                                        \/ store[n][k].ver = v.ver /\ b \in store[n][k].blocks
  BY DEF KbnKeepsPromise
<1>. DEFINE v == promised[k]
            place == kbn[k].nodes
<1>1. Kept(store, saved, k, v, kbn[k]) /\ place \in Placements
  BY DEF PInv, KeptInv, IInv, TypeOK
<1>2. v = Absent => ~kbn[k].mapped
  BY <1>1 DEF Kept
<1>3. ASSUME v \notin {Absent, Unknown}
      PROVE  /\ kbn[k].mapped /\ Len(place) = v.size
             /\ \A i \in DOMAIN place : Cardinality(place[i]) = Copies
             /\ \A n \in NodesOf(place) : Holds(store, saved, n, k, v.ver, place)
  BY <1>1, <1>3 DEF Kept
<1>4. ASSUME v \notin {Absent, Unknown}, NEW b \in BlockNums(v.size)
      PROVE  /\ Cardinality(place[b + 1]) = Copies
             /\ \A n \in place[b + 1] :
                  \/ store[n][k] = NoData
                  \/ store[n][k].ver = v.ver /\ b \in store[n][k].blocks
  <2>1. b + 1 \in DOMAIN place
    BY <1>1, <1>3, <1>4, PlacementFacts, BlocksAssumption DEF BlockNums
  <2>2. ASSUME NEW n \in place[b + 1]
        PROVE  \/ store[n][k] = NoData
               \/ store[n][k].ver = v.ver /\ b \in store[n][k].blocks
    <3>1. n \in NodesOf(place)
      BY <2>1 DEF NodesOf
    <3>2. b \in BlocksOn(place, n)
      BY <1>1, <1>3, <1>4, PlacementSets
    <3>3. Holds(store, saved, n, k, v.ver, place)
      BY <1>3, <1>4, <3>1
    <3>. HIDE DEF v, place
    <3>. QED BY <3>2, <3>3 DEF Holds
  <2>. QED BY <1>3, <1>4, <2>1, <2>2
<1>. QED BY <1>2, <1>3, <1>4

LEMMA PInvReads == IInv /\ PInv => ReadsPromise
<1>. SUFFICES ASSUME IInv, PInv, NEW c \in Clients, req[c].op = "get", req[c].waiting = {},
                     req[c].expect # Unknown
              PROVE  /\ req[c].size = req[c].expect.size
                     /\ req[c].got = {<<b, req[c].expect.ver>> : b \in BlockNums(req[c].expect.size)}
  BY DEF ReadsPromise
<1>. DEFINE r == req[c]
            v == promised[r.key]
<1>1. Reads(r, v, kbn[r.key].nodes, MessagesOf(r.rid))
  BY DEF PInv, GetInv
<1>2. MessagesOf(r.rid) = {}
  BY DEF MessagesOf, IInv, NetInv, MessageOf
<1>. QED BY <1>1, <1>2 DEF Reads

(* Whatever nodes, messages and clients there are: for a key whose last    *)
(* change was acknowledged and met no other, the KBN lists as many         *)
(* distinct nodes for each block as there are to be copies, and each has   *)
(* the block in that version or has lost its store.                        *)
THEOREM KbnPromiseKept == SettledOnly => (Spec => []KbnKeepsPromise)
<1>. SUFFICES ASSUME SettledOnly PROVE Spec => []KbnKeepsPromise
  OBVIOUS
<1>1. Init => IInv /\ PInv
  BY InitIInv, InitPInv
<1>2. (IInv /\ PInv) /\ [Next]_vars => (IInv /\ PInv)'
  BY NextIInv, NextPInv
<1>3. IInv /\ PInv => KbnKeepsPromise
  BY PInvKeepsPromise
<1>. QED BY <1>1, <1>2, <1>3, PTL DEF Spec

(* A GET that is answered gives exactly the blocks of that version,        *)
(* through every interleaving of requests, answers, failures and crashes.  *)
THEOREM ReadsAreRight == SettledOnly => (Spec => []ReadsPromise)
<1>. SUFFICES ASSUME SettledOnly PROVE Spec => []ReadsPromise
  OBVIOUS
<1>1. Init => IInv /\ PInv
  BY InitIInv, InitPInv
<1>2. (IInv /\ PInv) /\ [Next]_vars => (IInv /\ PInv)'
  BY NextIInv, NextPInv
<1>3. IInv /\ PInv => ReadsPromise
  BY PInvReads
<1>. QED BY <1>1, <1>2, <1>3, PTL DEF Spec
=============================================================================
