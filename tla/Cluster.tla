------------------------------ MODULE Cluster ------------------------------
(***************************************************************************)
(* The whole of rackkey, one call at a time: the master, its map and its   *)
(* statistics, the storage nodes with what they hold and what is in their  *)
(* files, restarts of both, and every byte that goes from the one to the   *)
(* other (module Wire).                                                    *)
(*                                                                         *)
(* A request is one step here, with the nodes that do not carry it out     *)
(* chosen freely; MasterServer takes requests apart.  The nodes here are   *)
(* simple ones, which carry a request out as a whole or not at all: the    *)
(* steps of a PUT, failing file operations and a table that is not saved   *)
(* or not read are in DiskStorage.  The map a starting master builds is    *)
(* complete, as KbnSync shows for nodes that answer one after the other.   *)
(*                                                                         *)
(* promised, stray, lost, drifted and the counters have no counterpart in  *)
(* the code: promised is what a client of a name may rely on; stray and    *)
(* lost are the pairs of a node and a key on which the master's map does   *)
(* not agree with the node, because the node holds data the map does not   *)
(* know of or holds none where the map lists it; drifted are the nodes     *)
(* whose statistics are off.                                               *)
(***************************************************************************)
EXTENDS Wire

CONSTANTS Nodes,              \* storage node ids
          Names,              \* key names as clients write them
          Sizes,              \* sizes of the values of PUTs
          RingOrder,          \* [Keys \X block numbers -> nodes as the ring meets them]
          ReplicationFactor,
          MaxDataSize,        \* bound: what a node's data section holds; no PUT exceeds it
          MaxPuts,            \* bound: PUTs
          MaxFaults,          \* bound: requests a running node does not carry out
          MaxNodeStops,       \* bound: nodes that stop
          MaxMasterStops      \* bound: restarts of the master

ASSUME NodesAssumption == Nodes \subseteq Nat /\ Nodes # {} /\ IsFiniteSet(Nodes)
ASSUME FactorAssumption == ReplicationFactor \in Nat \ {0}
ASSUME ClusterBounds == {MaxPuts, MaxFaults, MaxNodeStops, MaxMasterStops} \subseteq Nat

(* What has a length or a size is below Word. *)
ASSUME WordAssumption ==
  Sizes \subseteq 0 .. (Word - 1) /\ {KeyLength, MaxDataSize} \subseteq 0 .. (Word - 1)

(* A name is what can stand at the end of a path. *)
ASSUME NamesAssumption == Names \subseteq Seq(Bytes \ {Nul, Slash}) \ {<<>>}

(* The master's key of a name. *)
KeyOf == [name \in Names |-> KeyIn(StorePath(name))]
Keys == {KeyOf[name] : name \in Names}

(* Every node has a place on the ring. *)
ASSUME RingAssumption ==
  \A key \in Keys : \A size \in Sizes : \A num \in 0 .. (CeilDiv(size, DataBlockSize) - 1) :
    RingOrder[<<key, num>>] \in Seq(Nodes) /\ ToSet(RingOrder[<<key, num>>]) = Nodes

(* The bytes of the PUT with number ver. *)
Payload(ver, size) == [i \in 1 .. size |-> (10 * ver + i) % Base]

(* What a GET gives that is not a value. *)
Absent == <<-1>>
Failed == <<-2>>
Unknown == <<-3>>          \* promised: nothing

NoStats == [blocks |-> 0, used |-> 0, free |-> 0, total |-> 0]

VARIABLES
  master,     \* "up", or "down" until its constructor has synced
  kbn,        \* keyBlockNodeMap: key -> block number -> set of nodes; while
              \* the master is down, nobody reads it and it is left as it was
  healthy,    \* nodes whose isHealthy flag is set
  stats,      \* StorageNode::stats of each node
  up,         \* nodes that run
  store,      \* store[n]: node n's keys and their buffers
  file,       \* file[n]: the keys and buffers node n would start with
  promised, stray, lost, drifted,
  nextVer, faults, nodeStops, masterStops

cluster == <<up, store, file>>
ghosts == <<promised, stray, lost, drifted>>
bounds == <<nextVer, faults, nodeStops, masterStops>>
vars == <<master, kbn, healthy, stats, cluster, ghosts, bounds>>

Init ==
  /\ master = "up" /\ kbn = <<>> /\ healthy = {}
  /\ stats = [n \in Nodes |-> NoStats]
  /\ up = Nodes
  /\ store = [n \in Nodes |-> <<>>] /\ file = store
  /\ promised = [name \in Names |-> Absent]
  /\ stray = {} /\ lost = {} /\ drifted = {}
  /\ nextVer = 1 /\ faults = 0 /\ nodeStops = 0 /\ masterStops = 0

-----------------------------------------------------------------------------
(* The storage node's handlers, as functions of its table.  The table's    *)
(* index is the hash of a key; the key's own name in it is EntryName.      *)

(* The key by which a node knows a key of the master's. *)
AtNode == [key \in Keys |-> KeyIn(StorePath(key))]

Without(f, k) == Restrict(f, DOMAIN f \ {k})

(* PUT: Block::deserialize and writeBlocks. *)
NodePut(table, key, payload) ==
  With(table, AtNode[key], NodeBuffer(DecodeBlocks(payload)))

(* GET: readBlocks finds all the blocks asked for, or throws. *)
NodeHas(table, key, nums) ==
  /\ AtNode[key] \in DOMAIN table
  /\ ToSet(nums) \subseteq ToSet(BlockNumsIn(table[AtNode[key]]))

NodeGet(table, key, request) ==
  EncodeBlocks(AtNode[key],
    BlocksNumbered(BlocksIn(table[AtNode[key]]), ToSet(DecodeNums(request))))

(* dataUsedSize, dataTotalSize *)
Used(table) == SumFunction([k \in DOMAIN table |-> Len(table[k])])
SizesOf(table) == [used |-> Used(table), total |-> MaxDataSize]

(* Mutant: keys are listed without their fixed size. *)
ListedKeyUnpadded(key) == EntryName(key)

(* The key under which getKeys lists an entry. *)
ListedKey(key) == FixedSize(EntryName(key), KeyLength)

(* /sync: the blocks of every listed key are looked up by that key, which  *)
(* throws if there is no entry for it.                                     *)
Answers(table) == \A k \in DOMAIN table : ListedKey(k) \in DOMAIN table

NodeSync(table) ==
  EncodeSyncInfo([k \in {ListedKey(j) : j \in DOMAIN table} |-> BlockNumsIn(table[k])],
                 SizesOf(table))

-----------------------------------------------------------------------------
(* The master's handlers *)

Serving == master = "up"

Listed(key) == IF key \in DOMAIN kbn THEN kbn[key] ELSE <<>>
NodesOf(blockNodes) == UNION {blockNodes[b] : b \in DOMAIN blockNodes}

(* How many blocks of a key the map lists on a node. *)
BlocksListed(key, n) == Cardinality({b \in DOMAIN Listed(key) : n \in Listed(key)[b]})

(* updateNodeDataSizes, from the answer of a node. *)
WithSizes(s, info) ==
  [s EXCEPT !.used = info.used, !.total = info.total,
            !.free = (info.total - info.used) % Word]

(* Mutant: a PUT does not subtract the blocks it replaces. *)
StatsAfterAddedOnly(n, key, added, table) ==
  WithSizes([stats[n] EXCEPT !.blocks = (@ + added) % Word],
            DecodeSizeInfo(EncodeSizeInfo(SizesOf(table)), 1))

(* The statistics of a node that has stored added blocks of a key, or      *)
(* deleted it.                                                             *)
StatsAfter(n, key, added, table) ==
  WithSizes([stats[n] EXCEPT !.blocks = (@ - BlocksListed(key, n) + added) % Word],
            DecodeSizeInfo(EncodeSizeInfo(SizesOf(table)), 1))

Copies == Min({ReplicationFactor, Cardinality(Nodes)})

(* The first healthy nodes along the ring, as many as copies are wanted. *)
Placement(key, num) ==
  LET order == RingOrder[<<key, num>>]
      Met(i) == {order[j] : j \in 1 .. i} \cap healthy
  IN  {n \in healthy : \E i \in DOMAIN order : order[i] = n /\ Cardinality(Met(i)) <= Copies}

(* A request changes a key: no name of that key keeps its promise but the  *)
(* one it gives a new one.                                                 *)
Promise(key, name, value) ==
  promised' = [s \in Names |->
                 IF KeyOf[s] # key THEN promised[s]
                 ELSE IF s = name THEN value ELSE Unknown]

Put(name, size, refusing) ==
  LET key     == KeyOf[name]
      value   == Payload(nextVer, size)
      blocks  == Split(value)
      placed  == [num \in {b.num : b \in ToSet(blocks)} |-> Placement(key, num)]
      targets == NodesOf(placed)
      done    == (targets \cap up) \ refusing
      sent    == [n \in targets |->
                    BlocksNumbered(blocks, {num \in DOMAIN placed : n \in placed[num]})]
      former  == NodesOf(Listed(key)) \X {key}
  IN  /\ Serving /\ nextVer <= MaxPuts
      /\ blocks # <<>> => Cardinality(healthy) >= Copies
      /\ refusing \subseteq targets \cap up /\ faults + Cardinality(refusing) <= MaxFaults
      /\ store' = [n \in Nodes |->
                     IF n \in done THEN NodePut(store[n], key, EncodeBlocks(key, sent[n]))
                     ELSE store[n]]
      /\ \A n \in Nodes : Used(store'[n]) <= MaxDataSize
      /\ file' = [n \in Nodes |->
                    IF n \in done THEN store'[n] ELSE file[n]]  \* writeBAT
      /\ stats' = [n \in Nodes |->
                     IF n \in done THEN StatsAfter(n, key, Len(sent[n]), store'[n]) ELSE stats[n]]
      /\ IF done = targets
         THEN /\ kbn' = With(kbn, key, placed)
              /\ Promise(key, name, value)
              /\ stray' = (stray \cup (former \ lost)) \ (targets \X {key})
              /\ lost' = lost \ (Nodes \X {key})
              /\ drifted' = drifted \cup {n \in done : <<n, key>> \in stray \cup lost}
         ELSE /\ Promise(key, name, Unknown)
              /\ stray' = stray \cup (done \X {key})
              /\ lost' = lost \ (done \X {key})
              /\ drifted' = drifted \cup done
              /\ UNCHANGED kbn
      /\ nextVer' = nextVer + 1 /\ faults' = faults + Cardinality(refusing)
      /\ UNCHANGED <<master, healthy, up, nodeStops, masterStops>>

(* The nodes that hold the key delete it, in memory only; deleting what    *)
(* is not there fails.                                                     *)
Delete(name, refusing) ==
  LET key   == KeyOf[name]
      asked == NodesOf(Listed(key))
      done  == {n \in (asked \cap up) \ refusing : AtNode[key] \in DOMAIN store[n]}
  IN  /\ Serving /\ key \in DOMAIN kbn
      /\ refusing \subseteq asked \cap up /\ faults + Cardinality(refusing) <= MaxFaults
      /\ store' = [n \in Nodes |->
                     IF n \in done THEN Without(store[n], AtNode[key]) ELSE store[n]]
      /\ stats' = [n \in Nodes |->
                     IF n \in done THEN StatsAfter(n, key, 0, store'[n]) ELSE stats[n]]
      /\ IF done = asked
         THEN /\ kbn' = Without(kbn, key)
              /\ promised' = [s \in Names |-> IF KeyOf[s] = key THEN Absent ELSE promised[s]]
              /\ UNCHANGED lost
         ELSE /\ Promise(key, name, Unknown)
              /\ lost' = lost \cup (done \X {key})
              /\ UNCHANGED kbn
      /\ stray' = stray \ (done \X {key})
      /\ drifted' = drifted \cup {n \in done : <<n, key>> \in stray}
      /\ faults' = faults + Cardinality(refusing)
      /\ UNCHANGED <<master, healthy, up, file, nextVer, nodeStops, masterStops>>

(* The numbers of a set, the lowest first. *)
InOrder(nums) ==
  [i \in 1 .. Cardinality(nums) |->
     CHOOSE m \in nums : Cardinality({k \in nums : k < m}) = i - 1]

(* The data of the blocks received, in the order of their numbers. *)
Joined(got) ==
  LET Data(num) == (CHOOSE b \in got : b.num = num).data
      inOrder == InOrder({b.num : b \in got})
  IN  FlattenSeq([i \in DOMAIN inOrder |-> Data(inOrder[i])])

(* GET: every block from the healthy node of its set with the lowest id;   *)
(* what the nodes send is put together in the order of the block numbers.  *)
Read(name) ==
  LET key    == KeyOf[name]
      nodes  == Listed(key)
      From(b) == Min(nodes[b] \cap healthy)
      Ask(n)  == InOrder({b \in DOMAIN nodes : From(b) = n})
      asked  == {From(b) : b \in DOMAIN nodes}
      got    == UNION {ToSet(DecodeBlocks(NodeGet(store[n], key, EncodeNums(Ask(n))))) : n \in asked}
  IN  IF key \notin DOMAIN kbn THEN Absent
      ELSE IF \E b \in DOMAIN nodes : nodes[b] \cap healthy = {} THEN Failed
      ELSE IF \E n \in asked : n \notin up \/ ~NodeHas(store[n], key, Ask(n)) THEN Failed
      ELSE Joined(got)

(* Mutant: keys are listed with their padding. *)
ListKeysPadded == DOMAIN kbn

(* /keys *)
ListKeys == {RemoveNullChars(key) : key \in DOMAIN kbn}

(* /stats: a row for every node, healthy or not. *)
StatsRows ==
  [n \in Nodes |->
     [status |-> IF n \in healthy THEN "running" ELSE "down",
      blocks |-> stats[n].blocks, used |-> stats[n].used,
      free |-> stats[n].free, total |-> stats[n].total]]

-----------------------------------------------------------------------------
(* Health, restarts *)

(* One round of checkNodeHealth. *)
HealthCheck ==
  /\ Serving
  /\ healthy' = up
  /\ UNCHANGED <<master, kbn, stats, cluster, ghosts, bounds>>

(* A node stops.  What it had deleted since it last wrote its table will   *)
(* come back with it.                                                      *)
NodeStops(n) ==
  LET returning == {n} \X (DOMAIN file[n] \ DOMAIN store[n])
  IN  /\ n \in up /\ nodeStops < MaxNodeStops
      /\ up' = up \ {n}
      /\ store' = [store EXCEPT ![n] = <<>>]
      /\ stray' = stray \cup returning
      /\ lost' = lost \ returning
      /\ drifted' = IF returning = {} THEN drifted ELSE drifted \cup {n}
      /\ nodeStops' = nodeStops + 1
      /\ UNCHANGED <<master, kbn, healthy, stats, file, promised, nextVer, faults, masterStops>>

(* Its store file is removed, by start-up or with the machine. *)
NodeLosesStore(n) ==
  /\ n \notin up /\ file[n] # <<>>
  /\ file' = [file EXCEPT ![n] = <<>>]
  /\ stray' = {p \in stray : p[1] # n}
  /\ lost' = lost \cup {<<n, key>> : key \in {k \in DOMAIN kbn : n \in NodesOf(kbn[k])}}
  /\ drifted' = drifted \cup {n}
  /\ UNCHANGED <<master, kbn, healthy, stats, up, store, promised, bounds>>

NodeStarts(n) ==
  /\ n \notin up
  /\ up' = up \cup {n}
  /\ store' = [store EXCEPT ![n] = file[n]]
  /\ UNCHANGED <<master, kbn, healthy, stats, file, ghosts, bounds>>

MasterStops ==
  /\ Serving /\ masterStops < MaxMasterStops
  /\ master' = "down"
  /\ masterStops' = masterStops + 1
  /\ UNCHANGED <<kbn, healthy, stats, cluster, ghosts, nextVer, faults, nodeStops>>

-----------------------------------------------------------------------------
(* The constructor of the master: syncWithStorageNodes *)

(* What the master reads from each node's answer. *)
Heard == [n \in Nodes |-> DecodeSyncInfo(NodeSync(store[n]))]

(* The map of all answers: every block, with every node that reports it. *)
MapOf(heard) ==
  LET Nums(n, key) == IF key \in DOMAIN heard[n].numsOf THEN ToSet(heard[n].numsOf[key]) ELSE {}
  IN  [key \in UNION {DOMAIN heard[n].numsOf : n \in Nodes} |->
         [num \in UNION {Nums(n, key) : n \in Nodes} |-> {n \in Nodes : num \in Nums(n, key)}]]

StatsOf(heard) ==
  [n \in Nodes |->
     LET numsOf == heard[n].numsOf
         blocks == SumFunction([k \in DOMAIN numsOf |-> Len(numsOf[k])])
     IN  WithSizes([NoStats EXCEPT !.blocks = blocks], heard[n].info)]

(* A table names a key of full length by one character less: its node      *)
(* cannot answer /sync, or lists another key in its place.                 *)
FullLength(key) == key[KeyLength] # Nul
HoldsFullLength(n) == \E key \in DOMAIN store[n] \cup DOMAIN file[n] : FullLength(key)

(* A promise outlives the master if the nodes hold nothing of the key that *)
(* the map did not know of, a copy of every block it did, and at least one *)
(* block, under a name that fits a table entry.                            *)
Survives(name) ==
  LET key == KeyOf[name]
  IN  /\ \A n \in Nodes : <<n, key>> \notin stray
      /\ promised[name] = Absent \/
           /\ ~FullLength(key)
           /\ DOMAIN Listed(key) # {}
           /\ \A b \in DOMAIN Listed(key) : \E n \in Listed(key)[b] : <<n, key>> \notin lost

(* Every node answers /sync. *)
StartSucceeds == up = Nodes /\ \A n \in Nodes : Answers(store[n])

(* A constructor that gets no answer from some node throws, which ends the *)
(* process: the master is down as before, until it is started once more.   *)
(* Nothing in the repository does that; docker restarts the nodes only.    *)
MasterStarts ==
  /\ master = "down" /\ StartSucceeds
  /\ master' = "up"
  /\ healthy' = {}
  /\ kbn' = MapOf(Heard) /\ stats' = StatsOf(Heard)
  /\ promised' = [s \in Names |-> IF Survives(s) THEN promised[s] ELSE Unknown]
  /\ stray' = {} /\ lost' = {}
  /\ drifted' = {n \in Nodes : HoldsFullLength(n)}
  /\ UNCHANGED <<cluster, bounds>>

-----------------------------------------------------------------------------
Next ==
  \/ \E name \in Names, refusing \in SUBSET Nodes :
       \/ \E size \in Sizes : Put(name, size, refusing)
       \/ Delete(name, refusing)
  \/ HealthCheck
  \/ \E n \in Nodes : NodeStops(n) \/ NodeLosesStore(n) \/ NodeStarts(n)
  \/ MasterStops \/ MasterStarts

(* docker starts the storage nodes that have stopped (restart: always).    *)
(* The master is started by hand.                                          *)
Fairness == \A n \in Nodes : WF_up(NodeStarts(n))

Spec == Init /\ [][Next]_vars /\ Fairness

-----------------------------------------------------------------------------
(* Properties *)

(* Types of the master's map and statistics, of the nodes' tables, ghosts. *)
IsTable(table) ==
  /\ DOMAIN table \subseteq [1 .. KeyLength -> Bytes]
  /\ \A key \in DOMAIN table : table[key] \in Seq(Bytes)

TypeOK ==
  /\ master \in {"up", "down"}
  /\ DOMAIN kbn \subseteq [1 .. KeyLength -> Bytes]
  /\ \A key \in DOMAIN kbn :
       DOMAIN kbn[key] \subseteq Nat /\ \A b \in DOMAIN kbn[key] : kbn[key][b] \subseteq Nodes
  /\ healthy \subseteq Nodes /\ up \subseteq Nodes
  /\ stats \in [Nodes -> [blocks : 0 .. (Word - 1), used : 0 .. (Word - 1),
                          free : 0 .. (Word - 1), total : 0 .. (Word - 1)]]
  /\ \A n \in Nodes : IsTable(store[n]) /\ IsTable(file[n])
  /\ DOMAIN promised = Names
  /\ stray \cup lost \subseteq Nodes \X Keys /\ drifted \subseteq Nodes

(* A GET gives the value of the last acknowledged PUT of its name, byte by *)
(* byte, or misses after a DEL, across overwrites that shrink a value or   *)
(* move it to other nodes, node restarts and losses, and restarts of the   *)
(* master.  It may only fail, and does not if every node listed for the    *)
(* key runs, is known to be healthy and has kept its store.  Promises end  *)
(* with requests that fail, and at a restart of the master with the keys   *)
(* that do not survive it.                                                 *)
Kept(name) ==
  LET key == KeyOf[name]
  IN  \A n \in NodesOf(Listed(key)) : n \in healthy \cap up /\ <<n, key>> \notin lost

ReadsBack ==
  Serving =>
    \A name \in Names :
      promised[name] # Unknown =>
        \/ Read(name) = promised[name]
        \/ Read(name) = Failed /\ ~Kept(name)

(* /keys lists the names that have a value, empty ones included, and no    *)
(* deleted one, under the same promises.                                   *)
KeysListed ==
  Serving =>
    \A name \in Names :
      (promised[name] # Unknown /\ Len(name) <= KeyLength) =>
        (name \in ListKeys <=> promised[name] # Absent)

(* A node's row in /stats counts the blocks and bytes the node holds, those*)
(* the master no longer knows of included, whatever its status, unless a   *)
(* request on it failed half way, it restarted with other data, a stray or *)
(* lost copy was replaced or it has a key of full length.                  *)
StatsSound ==
  Serving =>
    \A n \in up \ drifted :
      LET row == StatsRows[n]
      IN  /\ row.blocks = SumFunction([k \in DOMAIN store[n] |-> Len(BlockNumsIn(store[n][k]))])
          /\ row.used = Used(store[n])
          /\ row.free + row.used = row.total

(* A starting master learns of every key that is not of full length, and   *)
(* nothing else: for each block number the nodes whose buffer has it at a  *)
(* block's place.                                                          *)
NumsAtPlaces(buf) ==
  {UintAt(buf, i * (IntSize + DataBlockSize) + 1) :
     i \in 0 .. (CeilDiv(Len(buf), IntSize + DataBlockSize) - 1)}

Holders(key, num) == {n \in Nodes : key \in DOMAIN store[n] /\ num \in NumsAtPlaces(store[n][key])}

SyncFaithful ==
  [][MasterStarts =>
       /\ DOMAIN kbn' = {k \in UNION {DOMAIN store[n] : n \in Nodes} : ~FullLength(k)}
       /\ \A key \in DOMAIN kbn' :
            /\ \A num \in DOMAIN kbn'[key] : kbn'[key][num] = Holders(key, num) /\ Holders(key, num) # {}
            /\ \A n \in Nodes : key \in DOMAIN store[n] =>
                 NumsAtPlaces(store[n][key]) \subseteq DOMAIN kbn'[key]]_vars

(* Again and again there is a time when a master that is started comes up, *)
(* whatever nodes stop or lose their store meanwhile: then every node runs *)
(* and finds the blocks of each key it lists.  That someone starts the     *)
(* master then is not claimed.  A node with a key of full length may lack  *)
(* the key it lists and never answer.                                      *)
MasterCanStart == []<>(StartSucceeds \/ \E n \in Nodes : HoldsFullLength(n))
=============================================================================
