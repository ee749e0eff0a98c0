---------------------------- MODULE MasterServer ----------------------------
(***************************************************************************)
(* The master server (src/src/master/master_server.cpp) and the storage    *)
(* nodes behind it: PUT, GET and DEL requests of several clients, the      *)
(* key-block-node map (KBN), and the health check.                         *)
(*                                                                         *)
(* Every handler runs on a thread of its own and talks to the nodes        *)
(* through asynchronous requests; when_all ends early with the first one   *)
(* that fails, and the handler answers 500 while the others are still on   *)
(* their way.  A node replaces or drops all it has of a key at once; what  *)
(* happens inside it is the subject of module DiskStorage.                 *)
(*                                                                         *)
(* A PUT's payload is its number of blocks and the number of the request,  *)
(* which serves as its version.  promised, clean and expect are ghosts:    *)
(* they say what clients may rely on.                                      *)
(***************************************************************************)
EXTENDS Integers, FiniteSets, Sequences

CONSTANTS Nodes,        \* storage node ids
          Keys,
          Clients,      \* threads of the listener's pool, one per request
          RingOrder,    \* for each key and block number, the nodes as the ring meets them
          ReplicationFactor,
          MaxBlocks,    \* bound: blocks of a PUT
          MaxRequests,  \* bound: requests in all
          MaxFaults,    \* bound: failing or unanswered node requests
          MaxCrashes,   \* bound: crashes of nodes
          SettledOnly   \* promise only PUTs that no earlier message can meet

ASSUME KeysAssumption == Keys # {}
ASSUME NodesAssumption == Nodes \subseteq Nat /\ IsFiniteSet(Nodes)
ASSUME FactorAssumption == ReplicationFactor \in Nat \ {0}
ASSUME BlocksAssumption == MaxBlocks \in Nat
ASSUME RingAssumption ==
  \A k \in Keys, b \in 0 .. (MaxBlocks - 1) :
     /\ RingOrder[k][b] \in Seq(Nodes)
     /\ \A n \in Nodes : \E i \in DOMAIN RingOrder[k][b] : RingOrder[k][b][i] = n
ASSUME SettledAssumption == SettledOnly \in BOOLEAN
ASSUME BoundsAssumption == MaxRequests \in Nat /\ MaxFaults \in Nat /\ MaxCrashes \in Nat

BlockNums(size) == 0 .. (size - 1)
NoMap == <<>>                         \* what an empty PUT stores in the KBN
NoEntry == [mapped |-> FALSE, nodes |-> NoMap]
Entry(nodes) == [mapped |-> TRUE, nodes |-> nodes]

Value(ver, size) == [ver |-> ver, size |-> size]
Absent == Value(0, 0)
Unknown == Value(-1, 0)

NoData == [ver |-> 0, blocks |-> {}]

VARIABLES
  kbn,        \* keyBlockNodeMap: for each key, block number -> set of nodes
  healthy,    \* nodes whose isHealthy flag is set
  up,         \* nodes that run
  store,      \* store[n][k]: the version and blocks node n holds of key k
  saved,      \* saved[n]: the part of that which is in node n's file
  req,        \* the request each client has in progress
  net,        \* requests to nodes that are on their way
  promised,   \* the value a GET of a key has to give
  nextReq, faults, crashes

ghosts == <<promised>>
bounds == <<nextReq, faults, crashes>>
vars == <<kbn, healthy, up, store, saved, req, net, ghosts, bounds>>

NoReq == [op |-> "none", key |-> CHOOSE k \in Keys : TRUE, rid |-> 0, size |-> 0,
          place |-> NoMap, chosen |-> {}, cnt |-> 0, cursor |-> 0,
          sent |-> FALSE, waiting |-> {}, got |-> {},
          clean |-> FALSE, expect |-> Unknown]

Changes(op) == op \in {"put", "del"}

Init ==
  /\ kbn = [k \in Keys |-> NoEntry]
  /\ healthy = {} /\ up = Nodes
  /\ store = [n \in Nodes |-> [k \in Keys |-> NoData]]
  /\ saved = store
  /\ req = [c \in Clients |-> NoReq]
  /\ net = {}
  /\ promised = [k \in Keys |-> Absent]
  /\ nextReq = 1 /\ faults = 0 /\ crashes = 0

-----------------------------------------------------------------------------
(* Beginning a request *)

(* No other request, and no message of one, is about to change the key. *)
Undisturbed(k) ==
  /\ \A c \in Clients : req[c].key = k => ~Changes(req[c].op)
  /\ SettledOnly => \A m \in net : m.key = k => ~Changes(m.op)

(* A request that changes a key spoils what is promised of it and every    *)
(* request on it that is in progress.                                      *)
Begin(c, r) ==
  /\ req' = [d \in Clients |->
               IF d = c THEN r
               ELSE IF Changes(r.op) /\ req[d].op # "none" /\ req[d].key = r.key
                    THEN [req[d] EXCEPT !.clean = FALSE, !.expect = Unknown]
                    ELSE req[d]]
  /\ promised' = IF Changes(r.op) THEN [promised EXCEPT ![r.key] = Unknown] ELSE promised
  /\ nextReq' = nextReq + 1

Free(c) == req[c].op = "none" /\ nextReq <= MaxRequests

Request(op, k) ==
  [NoReq EXCEPT !.op = op, !.key = k, !.rid = nextReq, !.clean = Undisturbed(k)]

(* One request to each node of the function asks, about its blocks. *)
Messages(c, r, asks) ==
  {[op |-> r.op, client |-> c, rid |-> r.rid, node |-> n, key |-> r.key,
    blocks |-> asks[n]] : n \in DOMAIN asks}

-----------------------------------------------------------------------------
(* PUT: StoreEndpoint::putHandler *)

PutBegin(c, k, size) ==
  /\ Free(c)
  /\ Begin(c, [Request("put", k) EXCEPT !.size = size])
  /\ UNCHANGED <<kbn, healthy, up, store, saved, net, faults, crashes>>

Copies == IF ReplicationFactor < Cardinality(Nodes)
          THEN ReplicationFactor ELSE Cardinality(Nodes)

(* Mutant: a node met again counts as another copy. *)
EligibleAgain(r) == healthy

(* The nodes the walk along the ring stops at. *)
Eligible(r) == healthy \ r.chosen

(* Steps of the walk from position i to position j of a ring. *)
Steps(order, i, j) == (j - i + Len(order) - 1) % Len(order)

(* The walk goes on to the next node it stops at, and the block gets a     *)
(* copy there.  With too few healthy nodes it goes round the ring until    *)
(* the health check finds more.                                            *)
PutPlace(c) ==
  LET r     == req[c]
      order == RingOrder[r.key][Len(r.place)]
      stops == {j \in DOMAIN order : order[j] \in Eligible(r)}
  IN  /\ r.op = "put" /\ ~r.sent /\ Len(r.place) < r.size
      /\ \E j \in stops :
           /\ \A h \in stops : Steps(order, r.cursor, j) <= Steps(order, r.cursor, h)
           /\ LET chosen == r.chosen \cup {order[j]}
              IN  req' = [req EXCEPT ![c] =
                    IF r.cnt + 1 = Copies
                    THEN [r EXCEPT !.place = Append(@, chosen),
                                   !.chosen = {}, !.cnt = 0, !.cursor = 0]
                    ELSE [r EXCEPT !.chosen = chosen, !.cnt = @ + 1, !.cursor = j]]
      /\ UNCHANGED <<kbn, healthy, up, store, saved, net, ghosts, bounds>>

NodesOf(place) == UNION {place[i] : i \in DOMAIN place}
(* Mutant: blocks counted from 1. *)
BlocksOnFromOne(place, n) == {i \in DOMAIN place : n \in place[i]}

BlocksOn(place, n) == {i - 1 : i \in {j \in DOMAIN place : n \in place[j]}}

(* Each node is sent its list of blocks. *)
PutSend(c) ==
  LET r == req[c]
  IN  /\ r.op = "put" /\ ~r.sent /\ Len(r.place) = r.size
      /\ net' = net \cup Messages(c, r, [n \in NodesOf(r.place) |-> BlocksOn(r.place, n)])
      /\ req' = [req EXCEPT ![c].sent = TRUE, ![c].waiting = NodesOf(r.place)]
      /\ UNCHANGED <<kbn, healthy, up, store, saved, ghosts, bounds>>

(* All nodes have answered: the KBN takes the new placement. *)
PutFinish(c) ==
  LET r == req[c]
  IN  /\ r.op = "put" /\ r.sent /\ r.waiting = {}
      /\ kbn' = [kbn EXCEPT ![r.key] = Entry(r.place)]
      /\ promised' = IF r.clean THEN [promised EXCEPT ![r.key] = Value(r.rid, r.size)]
                                ELSE promised
      /\ req' = [req EXCEPT ![c] = NoReq]
      /\ UNCHANGED <<healthy, up, store, saved, net, bounds>>

-----------------------------------------------------------------------------
(* DEL: StoreEndpoint::deleteHandler *)

DelBegin(c, k) ==
  LET r == [Request("del", k) EXCEPT
              !.sent = TRUE, !.waiting = NodesOf(kbn[k].nodes)]
  IN  /\ Free(c) /\ kbn[k].mapped
      /\ Begin(c, r)
      /\ net' = net \cup Messages(c, r, [n \in r.waiting |-> {}])
      /\ UNCHANGED <<kbn, healthy, up, store, saved, faults, crashes>>

(* Mutant: the KBN keeps the entry of a deleted key. *)
DelFinishKeepsEntry(c) ==
  LET r == req[c]
  IN  /\ r.op = "del" /\ r.waiting = {}
      /\ promised' = IF r.clean THEN [promised EXCEPT ![r.key] = Absent] ELSE promised
      /\ req' = [req EXCEPT ![c] = NoReq]
      /\ UNCHANGED <<kbn, healthy, up, store, saved, net, bounds>>

DelFinish(c) ==
  LET r == req[c]
  IN  /\ r.op = "del" /\ r.waiting = {}
      /\ kbn' = [kbn EXCEPT ![r.key] = NoEntry]
      /\ promised' = IF r.clean THEN [promised EXCEPT ![r.key] = Absent] ELSE promised
      /\ req' = [req EXCEPT ![c] = NoReq]
      /\ UNCHANGED <<healthy, up, store, saved, net, bounds>>

-----------------------------------------------------------------------------
(* GET: StoreEndpoint::getHandler *)

(* The healthy node of a block's set with the lowest id. *)
FirstHealthy(nodes) ==
  {n \in nodes \cap healthy : \A o \in nodes \cap healthy : n <= o}

(* If some block has no healthy node the handler throws, and nothing       *)
(* happens; the same if the key has no entry.                              *)
GetBegin(c, k) ==
  LET nodes == kbn[k].nodes
      from  == [i \in DOMAIN nodes |-> FirstHealthy(nodes[i])]
      r     == [Request("get", k) EXCEPT
                  !.sent = TRUE, !.size = Len(nodes), !.waiting = NodesOf(from),
                  !.expect = promised[k]]
  IN  /\ Free(c) /\ kbn[k].mapped
      /\ \A i \in DOMAIN from : from[i] # {}
      /\ Begin(c, r)
      /\ net' = net \cup Messages(c, r, [n \in r.waiting |-> BlocksOn(from, n)])
      /\ UNCHANGED <<kbn, healthy, up, store, saved, faults, crashes>>

(* The blocks are put together in order and sent to the client. *)
GetFinish(c) ==
  /\ req[c].op = "get" /\ req[c].waiting = {}
  /\ req' = [req EXCEPT ![c] = NoReq]
  /\ UNCHANGED <<kbn, healthy, up, store, saved, net, ghosts, bounds>>

-----------------------------------------------------------------------------
(* The nodes' answers *)

Awaited(m) == req[m.client].rid = m.rid /\ m.node \in req[m.client].waiting

(* The answer is OK; a GET's blocks go into its block map. *)
Answered(m, blocks) ==
  req' = IF Awaited(m)
         THEN [req EXCEPT ![m.client].waiting = @ \ {m.node},
                          ![m.client].got = @ \cup blocks]
         ELSE req

(* Mutant: a failed answer is dropped. *)
FailedAnswerDropped(m) == req' = req

(* The first answer that is not OK makes when_all end: the client gets 500.*)
FailedAnswer(m) == req' = IF Awaited(m) THEN [req EXCEPT ![m.client] = NoReq] ELSE req

(* putHandler of the node: all it had of the key is replaced, and its      *)
(* whole table goes to its file.                                           *)
NodePut(m) ==
  /\ m.op = "put" /\ m.node \in up
  /\ store' = [store EXCEPT ![m.node][m.key] = [ver |-> m.rid, blocks |-> m.blocks]]
  /\ saved' = [saved EXCEPT ![m.node] = store'[m.node]]
  /\ net' = net \ {m}
  /\ Answered(m, {})
  /\ UNCHANGED <<kbn, healthy, up, ghosts, bounds>>

(* deleteHandler of the node, which leaves the file as it is; deleting     *)
(* what it does not have fails.                                            *)
NodeDel(m) ==
  /\ m.op = "del" /\ m.node \in up
  /\ store' = [store EXCEPT ![m.node][m.key] = NoData]
  /\ net' = net \ {m}
  /\ IF store[m.node][m.key] # NoData THEN Answered(m, {}) ELSE FailedAnswer(m)
  /\ UNCHANGED <<kbn, healthy, up, saved, ghosts, bounds>>

(* Mutant: the node answers with those of the blocks that it has. *)
NodeGetPartial(m) ==
  LET d == store[m.node][m.key]
  IN  /\ m.op = "get" /\ m.node \in up
      /\ net' = net \ {m}
      /\ Answered(m, {<<b, d.ver>> : b \in m.blocks \cap d.blocks})
      /\ UNCHANGED <<kbn, healthy, up, store, saved, ghosts, bounds>>

(* getHandler of the node: all the blocks asked for, or 500. *)
NodeGet(m) ==
  LET d == store[m.node][m.key]
  IN  /\ m.op = "get" /\ m.node \in up
      /\ net' = net \ {m}
      /\ IF m.blocks \subseteq d.blocks
         THEN Answered(m, {<<b, d.ver>> : b \in m.blocks})
         ELSE FailedAnswer(m)
      /\ UNCHANGED <<kbn, healthy, up, store, saved, ghosts, bounds>>

(* The node answers 500 without doing it, or is down.  What a refused      *)
(* overwrite does to the node's own blocks, which it may have freed or     *)
(* overwritten in part, is in DiskStorage.                                 *)
NodeFails(m) ==
  /\ m.node \in up /\ faults < MaxFaults
  /\ net' = net \ {m}
  /\ FailedAnswer(m)
  /\ faults' = faults + 1
  /\ UNCHANGED <<kbn, healthy, up, store, saved, ghosts, nextReq, crashes>>

NodeRefuses(m) ==
  /\ m.node \notin up
  /\ net' = net \ {m}
  /\ FailedAnswer(m)
  /\ UNCHANGED <<kbn, healthy, up, store, saved, ghosts, bounds>>

(* The master gives up waiting; the request may still arrive. *)
TimesOut(m) ==
  /\ Awaited(m) /\ faults < MaxFaults
  /\ FailedAnswer(m)
  /\ faults' = faults + 1
  /\ UNCHANGED <<kbn, healthy, up, store, saved, net, ghosts, nextReq, crashes>>

Serve(m) == NodePut(m) \/ NodeDel(m) \/ NodeGet(m) \/ NodeRefuses(m)

-----------------------------------------------------------------------------
(* Nodes and their health *)

(* checkNodeHealth: one node's answer, or the lack of it. *)
HealthCheck(n) ==
  /\ healthy' = IF n \in up THEN healthy \cup {n} ELSE healthy \ {n}
  /\ UNCHANGED <<kbn, up, store, saved, req, net, ghosts, bounds>>

(* A node stops.  It comes back with what its file holds, or with nothing  *)
(* (removeExistingStoreFile).                                              *)
NodeStops(n, wiped) ==
  /\ n \in up /\ crashes < MaxCrashes
  /\ up' = up \ {n}
  /\ saved' = IF wiped THEN [saved EXCEPT ![n] = [k \in Keys |-> NoData]] ELSE saved
  /\ store' = [store EXCEPT ![n] = saved'[n]]
  /\ crashes' = crashes + 1
  /\ UNCHANGED <<kbn, healthy, req, net, ghosts, nextReq, faults>>

NodeStarts(n) ==
  /\ n \notin up
  /\ up' = up \cup {n}
  /\ UNCHANGED <<kbn, healthy, store, saved, req, net, ghosts, bounds>>

-----------------------------------------------------------------------------
Handler(c) == PutPlace(c) \/ PutSend(c) \/ PutFinish(c) \/ DelFinish(c) \/ GetFinish(c)

Next ==
  \/ \E c \in Clients, k \in Keys :
       \/ \E size \in 0 .. MaxBlocks : PutBegin(c, k, size)
       \/ DelBegin(c, k) \/ GetBegin(c, k)
  \/ \E c \in Clients : Handler(c)
  \/ \E m \in net : Serve(m) \/ NodeFails(m) \/ TimesOut(m)
  \/ \E n \in Nodes :
       \/ HealthCheck(n) \/ NodeStarts(n)
       \/ \E wiped \in BOOLEAN : NodeStops(n, wiped)

(* Threads run, messages are answered, the health thread goes round, and   *)
(* docker starts a stopped node again.                                     *)
Fairness ==
  /\ \A c \in Clients : WF_vars(Handler(c))
  /\ \A c \in Clients, n \in Nodes :
       WF_vars(\E m \in net : m.client = c /\ m.node = n /\ Serve(m))
  /\ \A n \in Nodes : WF_vars(HealthCheck(n)) /\ WF_vars(NodeStarts(n))

Spec == Init /\ [][Next]_vars /\ Fairness

-----------------------------------------------------------------------------
(* Properties *)

(* Types of the master's maps, the nodes' stores, requests and messages. *)
Placements == UNION {[1 .. size -> SUBSET Nodes] : size \in 0 .. MaxBlocks}
SetsOfBlocks == SUBSET BlockNums(MaxBlocks)
Values == [ver : -1 .. MaxRequests, size : 0 .. MaxBlocks]

Data == [ver : 0 .. MaxRequests, blocks : SetsOfBlocks]
Requests ==
  [op : {"none", "put", "get", "del"}, key : Keys, rid : 0 .. MaxRequests,
   size : 0 .. MaxBlocks, place : Placements, chosen : SUBSET Nodes,
   cnt : 0 .. Cardinality(Nodes), cursor : Nat, sent : BOOLEAN,
   waiting : SUBSET Nodes, got : SUBSET (BlockNums(MaxBlocks) \X (0 .. MaxRequests)),
   clean : BOOLEAN, expect : Values]
NodeRequests ==
  [op : {"put", "get", "del"}, client : Clients, rid : 1 .. MaxRequests,
   node : Nodes, key : Keys, blocks : SetsOfBlocks]

TypeOK ==
  /\ kbn \in [Keys -> [mapped : BOOLEAN, nodes : Placements]]
  /\ healthy \subseteq Nodes /\ up \subseteq Nodes
  /\ store \in [Nodes -> [Keys -> Data]] /\ saved \in [Nodes -> [Keys -> Data]]
  /\ req \in [Clients -> Requests]
  /\ net \subseteq NodeRequests
  /\ promised \in [Keys -> Values]
  /\ nextReq \in Nat /\ faults \in Nat /\ crashes \in Nat

(* A GET that is answered gives exactly what the last acknowledged PUT of  *)
(* its key stored, unless a request changing the key overlapped it or the  *)
(* last change of the key was overlapped, failed, or begun with messages   *)
(* of earlier requests still on their way.  Nodes may crash, lose their    *)
(* store, be slow or fail at any moment: then the GET fails, but it never  *)
(* returns other bytes.                                                    *)
ReadsPromise ==
  \A c \in Clients :
    LET r == req[c]
    IN  (r.op = "get" /\ r.waiting = {} /\ r.expect # Unknown) =>
          /\ r.size = r.expect.size
          /\ r.got = {<<b, r.expect.ver>> : b \in BlockNums(r.expect.size)}

(* "for each key, we store a mapping from block number to a set of storage *)
(* node ids [...] the given block is stored on" (master_server.cpp:42-46): *)
(* for every key with a promise, the KBN lists each block on as many       *)
(* distinct nodes as the replication factor asks for, and each of them     *)
(* holds that block in the promised version or has lost its store.         *)
KbnKeepsPromise ==
  \A k \in Keys :
    LET v == promised[k]
    IN  /\ v = Absent => ~kbn[k].mapped
        /\ v \notin {Absent, Unknown} =>
             /\ kbn[k].mapped /\ Len(kbn[k].nodes) = v.size
             /\ \A b \in BlockNums(v.size) :
                  /\ Cardinality(kbn[k].nodes[b + 1]) = Copies
                  /\ \A n \in kbn[k].nodes[b + 1] :
                       \/ store[n][k] = NoData
                       \/ store[n][k].ver = v.ver /\ b \in store[n][k].blocks

(* Every request is answered, whatever nodes do meanwhile.  A PUT that has *)
(* too few healthy nodes waits for the health check to see them again.     *)
RequestsEnd == \A c \in Clients : req[c].op # "none" ~> req[c].op = "none"
=============================================================================
