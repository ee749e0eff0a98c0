--------------------------- MODULE ClusterProofs ---------------------------
(***************************************************************************)
(* Theorems about Cluster, for every set of nodes and names, every ring,   *)
(* replication factor and width of bytes, integers, keys and blocks, and   *)
(* any number of requests, failures and restarts.                          *)
(*                                                                         *)
(* Four invariants, each resting on those before it:                       *)
(* Shape: every buffer of every node and file is one that a PUT laid down, *)
(*   and what a node has in memory is in its file too;                     *)
(* Traces: where the map and a node disagree about a key, the pair is in   *)
(*   stray or lost, and a node whose statistics are not off has, for every *)
(*   key, the blocks they count (Stats);                                   *)
(* Promises: a promised value is a value whose blocks the map places, and  *)
(*   every copy on the nodes it names is one of that value.                *)
(* What a GET gives is then what Wire's encoders and decoders make of it.  *)
(***************************************************************************)
EXTENDS Cluster, WireProofs

-----------------------------------------------------------------------------
(* Keys *)

LEMMA ClusterConstants ==
  /\ Nodes \subseteq Nat /\ Nodes # {} /\ IsFiniteSet(Nodes)
  /\ ReplicationFactor \in Nat /\ ReplicationFactor > 0
  /\ Sizes \subseteq 0 .. (Word - 1) /\ Sizes \subseteq Nat
  /\ KeyLength \in 0 .. (Word - 1) /\ KeyLength < Word
  /\ MaxDataSize \in 0 .. (Word - 1) /\ MaxDataSize \in Nat /\ MaxDataSize < Word
<1>1. Sizes \subseteq 0 .. (Word - 1) /\ KeyLength \in 0 .. (Word - 1) /\ MaxDataSize \in 0 .. (Word - 1)
  BY WordAssumption
<1>2. Word \in Nat
  BY WordType
<1>. QED BY <1>1, <1>2, NodesAssumption, FactorAssumption

LEMMA NameIs ==
  ASSUME NEW name \in Names
  PROVE  /\ name \in Seq(Bytes) /\ Len(name) \in Nat \ {0} /\ NamedTo(name, Len(name))
         /\ KeyOf[name] = Padded(name, Len(name)) /\ KeyOf[name] \in Keys
<1>1. name \in Seq(Bytes \ {Nul, Slash}) /\ name # <<>>
  BY NamesAssumption
<1>2. Len(name) \in Nat /\ \A i \in 1 .. Len(name) : name[i] \in Bytes \ {Nul, Slash}
  BY <1>1, SequenceIs
<1>3. Len(name) # 0
  BY <1>1, SequenceIs
<1>4. name \in Seq(Bytes)
  <2>1. name \in [1 .. Len(name) -> Bytes]
    <3>1. name = [i \in 1 .. Len(name) |-> name[i]]
      BY <1>1
    <3>. QED BY <1>2, <3>1
  <2>. QED BY <1>2, <2>1
<1>5. NamedTo(name, Len(name))
  BY <1>2, <1>3, <1>4 DEF NamedTo
<1>6. KeyOf[name] = KeyIn(StorePath(name))
  BY DEF KeyOf
<1>7. KeyIn(StorePath(name)) = Padded(name, Len(name))
  BY <1>5, KeyInPath
<1>8. KeyOf[name] \in Keys
  BY DEF Keys
<1>. QED BY <1>2, <1>3, <1>4, <1>5, <1>6, <1>7, <1>8

(* A key is a name with nulls after it; on its way to a node it stays what *)
(* it is.                                                                  *)
LEMMA KeyIs ==
  ASSUME NEW key \in Keys
  PROVE  /\ \E k \in 1 .. KeyLength : KeyTo(key, k) /\ Padded(key, k) = key
         /\ key \in Seq(Bytes) /\ Len(key) = KeyLength /\ key \in [1 .. KeyLength -> Bytes]
         /\ AtNode[key] = key
<1>1. PICK name \in Names : key = KeyOf[name]
  BY DEF Keys
<1>2. NamedTo(name, Len(name)) /\ key = Padded(name, Len(name))
  BY <1>1, NameIs
<1>3. PICK k \in 1 .. KeyLength :
        /\ NamedTo(key, k) /\ Padded(key, k) = key
        /\ \A i \in (k + 1) .. KeyLength : key[i] = Nul
  BY <1>2, PaddedNamed
<1>4. key \in Seq(Bytes)
  BY <1>3 DEF NamedTo
<1>5. Len(key) = KeyLength
  BY <1>2, Constants DEF Padded
<1>6. KeyTo(key, k)
  BY <1>3, <1>5 DEF KeyTo
<1>7. AtNode[key] = KeyIn(StorePath(key))
  BY DEF AtNode
<1>8. KeyIn(StorePath(key)) = key
  BY <1>3, KeyInPath
<1>9. key \in [1 .. KeyLength -> Bytes]
  BY <1>4, <1>5
<1>. QED BY <1>3, <1>4, <1>5, <1>6, <1>7, <1>8, <1>9

(* A node lists a key as it is if it is not of full length, and never      *)
(* lists a key of full length.                                             *)
LEMMA ListedKeyIs ==
  ASSUME NEW key \in Keys
  PROVE  /\ ListedKey(key)[KeyLength] = Nul
         /\ ~FullLength(key) => ListedKey(key) = key
<1>1. PICK k \in 1 .. KeyLength : KeyTo(key, k)
  BY KeyIs
<1>2. ListedKey(key) = [i \in 1 .. KeyLength |-> IF i = KeyLength THEN Nul ELSE key[i]]
  BY <1>1, EntryIs DEF ListedKey
<1>3. KeyLength \in 1 .. KeyLength
  BY Constants
<1>4. ListedKey(key)[KeyLength] = Nul
  BY <1>2, <1>3
<1>5. ASSUME ~FullLength(key) PROVE ListedKey(key) = key
  <2>1. key[KeyLength] = Nul
    BY <1>5 DEF FullLength
  <2>2. key = [i \in 1 .. KeyLength |-> key[i]]
    BY KeyIs
  <2>3. \A i \in 1 .. KeyLength : (IF i = KeyLength THEN Nul ELSE key[i]) = key[i]
    BY <2>1
  <2>. QED BY <1>2, <2>2, <2>3
<1>. QED BY <1>4, <1>5

(* The name in a key is listed in /keys; for a name that is not cut off    *)
(* that is the name itself, and no other key has it.                       *)
LEMMA NameBack ==
  ASSUME NEW name \in Names, Len(name) <= KeyLength
  PROVE  /\ RemoveNullChars(KeyOf[name]) = name
         /\ \A key \in Keys : RemoveNullChars(key) = name => key = KeyOf[name]
<1>. DEFINE m == Len(name)
<1>1. name \in Seq(Bytes) /\ m \in Nat \ {0} /\ NamedTo(name, m) /\ KeyOf[name] = Padded(name, m)
  BY NameIs
<1>2. ASSUME NEW key \in Keys, NEW k \in 1 .. KeyLength, KeyTo(key, k)
      PROVE  /\ RemoveNullChars(key) \in Seq(Bytes) /\ Len(RemoveNullChars(key)) = k
             /\ \A i \in 1 .. k : RemoveNullChars(key)[i] = key[i]
  BY <1>2, NameInKey
<1>3. RemoveNullChars(KeyOf[name]) = name
  <2>. DEFINE key == KeyOf[name]
  <2>1. PICK k \in 1 .. KeyLength :
          /\ NamedTo(key, k) /\ k = m
          /\ \A i \in 1 .. k : key[i] = name[i]
          /\ \A i \in (k + 1) .. KeyLength : key[i] = Nul
    BY <1>1, PaddedNamed
  <2>2. key \in Keys /\ Len(key) = KeyLength
    BY NameIs, KeyIs
  <2>3. KeyTo(key, k)
    BY <2>1, <2>2 DEF KeyTo
  <2>. HIDE DEF key
  <2>. DEFINE r == RemoveNullChars(key)
  <2>4. r \in Seq(Bytes) /\ Len(r) = m /\ \A i \in 1 .. m : r[i] = name[i]
    BY <1>2, <2>1, <2>2, <2>3
  <2>. HIDE DEF r
  <2>5. r = name
    BY ONLY <1>1, <2>4
  <2>. QED BY <2>5 DEF r, key
<1>4. ASSUME NEW key \in Keys, RemoveNullChars(key) = name PROVE key = KeyOf[name]
  <2>1. PICK k \in 1 .. KeyLength : KeyTo(key, k) /\ Padded(key, k) = key
    BY KeyIs
  <2>2. k = m /\ \A i \in 1 .. k : name[i] = key[i]
    BY <1>2, <1>4, <2>1
  <2>3. Padded(key, k) = Padded(name, m)
    <3>1. \A i \in 1 .. KeyLength : (IF i <= k THEN key[i] ELSE Nul) = IF i <= m THEN name[i] ELSE Nul
      BY <1>1, <2>2
    <3>. QED BY <3>1 DEF Padded
  <2>. QED BY <1>1, <2>1, <2>3
<1>. QED BY <1>3, <1>4

-----------------------------------------------------------------------------
(* Sums over a node's table *)

LEMMA SumBelow ==
  ASSUME NEW f, NEW g, NEW S, IsFiniteSet(S),
         \A x \in S : f[x] \in Nat /\ g[x] \in Nat /\ f[x] <= g[x]
  PROVE  SumFunctionOnSet(f, S) <= SumFunctionOnSet(g, S)
<1>. DEFINE F(s) == SumFunctionOnSet(f, s)
            G(s) == SumFunctionOnSet(g, s)
            Good == {T \in SUBSET S : F(T) <= G(T)}
<1>1. {} \in Good
  <2>1. F({}) = 0 /\ G({}) = 0
    BY SumEmpty
  <2>. HIDE DEF F, G
  <2>. QED BY <2>1
<1>2. ASSUME NEW T \in SUBSET S, T # {}, \A U \in SUBSET T : U # T => U \in Good
      PROVE  T \in Good
  <2>1. PICK x \in T : TRUE
    BY <1>2
  <2>2. IsFiniteSet(T) /\ IsFiniteSet(T \ {x})
    BY FS_Subset
  <2>3. F(T) = f[x] + F(T \ {x})
    BY <2>2, SumTakesOut
  <2>4. G(T) = g[x] + G(T \ {x})
    BY <2>2, SumTakesOut
  <2>5. F(T \ {x}) \in Nat /\ G(T \ {x}) \in Nat
    <3>1. \A y \in T \ {x} : f[y] \in Nat /\ g[y] \in Nat
      OBVIOUS
    <3>. QED BY <2>2, <3>1, SumTakesOut
  <2>6. T \ {x} \in Good
    BY <1>2, <2>1
  <2>7. f[x] \in Nat /\ g[x] \in Nat /\ f[x] <= g[x] /\ F(T \ {x}) <= G(T \ {x})
    BY <2>6
  <2>. HIDE DEF F, G
  <2>8. F(T) <= G(T)
    BY ONLY <2>3, <2>4, <2>5, <2>7
  <2>. QED BY <2>8
<1>3. \A T \in SUBSET S : T \in Good
  <2>. HIDE DEF Good
  <2>. QED BY <1>1, <1>2, BuildUp
<1>. QED BY <1>3

(* The sum of a function, with one summand less or another one. *)
LEMMA SumWithout ==
  ASSUME NEW f, IsFiniteSet(DOMAIN f), \A x \in DOMAIN f : f[x] \in Nat, NEW k
  PROVE  /\ SumFunction(f) \in Nat /\ SumFunction(Without(f, k)) \in Nat
         /\ SumFunction(Without(f, k)) = SumFunction(f) - (IF k \in DOMAIN f THEN f[k] ELSE 0)
<1>. DEFINE D == DOMAIN f
            g == Without(f, k)
<1>1. DOMAIN g = D \ {k} /\ \A x \in D \ {k} : g[x] = f[x]
  BY DEF Without, Restrict
<1>2. IsFiniteSet(D \ {k})
  BY FS_Subset
<1>. HIDE DEF g
<1>3. SumFunction(g) = SumFunctionOnSet(g, D \ {k}) /\ SumFunction(f) = SumFunctionOnSet(f, D)
  BY <1>1 DEF SumFunction
<1>4. SumFunctionOnSet(g, D \ {k}) = SumFunctionOnSet(f, D \ {k})
  <2>1. \A x \in D \ {k} : f[x] \in Nat /\ g[x] = f[x]
    BY <1>1
  <2>. QED BY <1>2, <2>1, SumSame
<1>5. SumFunctionOnSet(f, D) \in Nat /\ SumFunctionOnSet(f, D \ {k}) \in Nat
  <2>1. \A x \in D \ {k} : f[x] \in Nat
    OBVIOUS
  <2>. QED BY <1>2, <2>1, SumTakesOut
<1>6. CASE k \in D
  <2>1. SumFunctionOnSet(f, D) = f[k] + SumFunctionOnSet(f, D \ {k})
    BY <1>6, SumTakesOut
  <2>. QED BY <1>3, <1>4, <1>5, <1>6, <2>1 DEF g
<1>7. CASE k \notin D
  <2>1. D \ {k} = D
    BY <1>7
  <2>. QED BY <1>3, <1>4, <1>5, <1>7, <2>1 DEF g
<1>. QED BY <1>6, <1>7

LEMMA SumWith ==
  ASSUME NEW f, IsFiniteSet(DOMAIN f), \A x \in DOMAIN f : f[x] \in Nat, NEW k, NEW v \in Nat
  PROVE  /\ SumFunction(f) \in Nat /\ SumFunction(With(f, k, v)) \in Nat
         /\ SumFunction(With(f, k, v)) = SumFunction(f) - (IF k \in DOMAIN f THEN f[k] ELSE 0) + v
<1>. DEFINE D == DOMAIN f
            g == With(f, k, v)
            h == Without(f, k)
<1>1. /\ DOMAIN g = (D \ {k}) \cup {k} /\ g[k] = v /\ \A x \in D \ {k} : g[x] = f[x]
  BY DEF With
<1>2. DOMAIN h = D \ {k} /\ \A x \in D \ {k} : h[x] = f[x]
  BY DEF Without, Restrict
<1>3. IsFiniteSet(D \ {k})
  BY FS_Subset
<1>4. /\ SumFunction(f) \in Nat /\ SumFunction(h) \in Nat
      /\ SumFunction(h) = SumFunction(f) - (IF k \in D THEN f[k] ELSE 0)
  BY SumWithout
<1>. HIDE DEF g, h
<1>5. SumFunction(g) = SumFunctionOnSet(g, (D \ {k}) \cup {k})
  BY <1>1 DEF SumFunction
<1>6. SumFunctionOnSet(g, (D \ {k}) \cup {k}) = g[k] + SumFunctionOnSet(g, D \ {k})
  <2>. DEFINE S == D \ {k}
  <2>1. IsFiniteSet(S) /\ k \notin S /\ \A y \in S \cup {k} : g[y] \in Nat
    BY <1>1, <1>3
  <2>. HIDE DEF S
  <2>2. SumFunctionOnSet(g, S \cup {k}) = g[k] + SumFunctionOnSet(g, S)
    BY <2>1, SumAdds
  <2>. QED BY <2>2 DEF S
<1>7. SumFunctionOnSet(g, D \ {k}) = SumFunctionOnSet(h, D \ {k})
  <2>1. \A x \in D \ {k} : h[x] \in Nat /\ g[x] = h[x]
    BY <1>1, <1>2
  <2>. QED BY <1>3, <2>1, SumSame
<1>8. SumFunctionOnSet(h, D \ {k}) = SumFunction(h)
  BY <1>2 DEF SumFunction
<1>. DEFINE old == IF k \in D THEN f[k] ELSE 0
<1>9. old \in Nat
  OBVIOUS
<1>10. SumFunction(g) = v + SumFunction(h)
  BY <1>1, <1>5, <1>6, <1>7, <1>8
<1>. HIDE DEF old
<1>11. SumFunction(g) = SumFunction(f) - old + v
  BY <1>4, <1>9, <1>10 DEF old
<1>12. SumFunction(g) \in Nat
  BY <1>4, <1>10
<1>. QED BY <1>4, <1>11, <1>12 DEF g, old

-----------------------------------------------------------------------------
(* Tables *)

(* A buffer that a PUT has laid down. *)
IsBuffer(buf) ==
  /\ Laid(BlocksIn(buf)) /\ Ascending(BlocksIn(buf)) /\ Len(BlocksIn(buf)) # 0
  /\ NodeBuffer(BlocksIn(buf)) = buf

LEMMA BufferOf ==
  ASSUME NEW bs, Laid(bs), Ascending(bs), Len(bs) # 0
  PROVE  IsBuffer(NodeBuffer(bs)) /\ BlocksIn(NodeBuffer(bs)) = bs
<1>1. BlocksIn(NodeBuffer(bs)) = bs
  BY BufferRoundTrip
<1>. QED BY <1>1 DEF IsBuffer

(* The numbers found in a buffer are all different. *)
LEMMA BufferIs ==
  ASSUME NEW buf, IsBuffer(buf)
  PROVE  /\ buf \in Seq(Bytes) /\ Len(buf) \in Nat \ {0}
         /\ BlocksIn(buf) \in Seq(Blocks)
         /\ BlockNumsIn(buf) \in Seq(0 .. (Word - 1)) /\ Len(BlockNumsIn(buf)) \in Nat \ {0}
         /\ Len(BlockNumsIn(buf)) = Len(BlocksIn(buf))
         /\ ToSet(BlockNumsIn(buf)) = {b.num : b \in ToSet(BlocksIn(buf))}
         /\ IsFiniteSet(ToSet(BlockNumsIn(buf)))
         /\ Cardinality(ToSet(BlockNumsIn(buf))) = Len(BlockNumsIn(buf))
         /\ ToSet(BlockNumsIn(buf)) \subseteq 0 .. (Word - 1)
         /\ Len(BlockNumsIn(buf)) <= Len(buf)
<1>. DEFINE bs == BlocksIn(buf)
            nums == BlockNumsIn(buf)
            n == Len(bs)
<1>1. Laid(bs) /\ Ascending(bs) /\ n # 0 /\ NodeBuffer(bs) = buf
  BY DEF IsBuffer
<1>2. bs \in Seq(Blocks) /\ n \in Nat
  BY <1>1, SequenceIs DEF Laid
<1>. HIDE DEF bs
<1>3. buf \in Seq(Bytes) /\ Len(buf) \in Nat
  <2>1. NodeBuffer(bs) \in Seq(Bytes)
    BY <1>1, BufferLaid
  <2>. QED BY <1>1, <2>1
<1>4. n <= Len(buf)
  BY <1>1, BufferRoundTrip
<1>5. /\ nums = [i \in 1 .. n |-> bs[i].num] /\ nums \in Seq(0 .. (Word - 1))
      /\ Len(nums) = n /\ ToSet(nums) = {b.num : b \in ToSet(bs)}
  BY <1>1, NumsInBuffer
<1>. HIDE DEF nums, n
<1>6. \A i, j \in 1 .. n : nums[i] = nums[j] => i = j
  <2>. SUFFICES ASSUME NEW i \in 1 .. n, NEW j \in 1 .. n, nums[i] = nums[j] PROVE i = j
    OBVIOUS
  <2>1. bs[i].num = bs[j].num
    BY <1>5
  <2>. QED BY <1>1, <1>2, <2>1, AscendingDiffer DEF n
<1>7. DOMAIN nums = 1 .. n /\ \A i \in 1 .. n : nums[i] \in 0 .. (Word - 1)
  <2>. DEFINE W == 0 .. (Word - 1)
  <2>1. nums \in Seq(W)
    BY <1>5
  <2>. HIDE DEF W
  <2>2. DOMAIN nums = 1 .. n /\ \A i \in 1 .. n : nums[i] \in W
    BY <1>5, <2>1, SequenceIs
  <2>. QED BY <2>2 DEF W
<1>8. ToSet(nums) = {nums[i] : i \in 1 .. n}
  BY <1>7 DEF ToSet
<1>9. IsFiniteSet(ToSet(nums)) /\ Cardinality(ToSet(nums)) = n
  <2>. DEFINE S == ToSet(nums)
  <2>1. nums \in [1 .. n -> S] /\ \A x \in S : \E i \in 1 .. n : nums[i] = x
    BY <1>5, <1>8
  <2>. HIDE DEF S
  <2>. QED BY <1>2, <1>6, <2>1, CountedBy DEF S
<1>10. Len(buf) \in Nat \ {0} /\ n \in Nat \ {0}
  BY <1>1, <1>2, <1>3, <1>4
<1>11. ToSet(nums) \subseteq 0 .. (Word - 1)
  BY <1>7, <1>8
<1>12. /\ IsFiniteSet(ToSet(nums)) /\ Cardinality(ToSet(nums)) = Len(nums)
       /\ Len(nums) \in Nat \ {0} /\ Len(nums) <= Len(buf)
  BY <1>4, <1>5, <1>9, <1>10
<1>13. Len(nums) = Len(bs)
  BY <1>5 DEF n
<1>. QED BY <1>2, <1>3, <1>5, <1>10, <1>11, <1>12, <1>13 DEF bs, nums

(* What a node can have in its table. *)
GoodTable(table) ==
  /\ DOMAIN table \subseteq Keys /\ IsFiniteSet(DOMAIN table)
  /\ \A key \in DOMAIN table : IsBuffer(table[key])
  /\ Used(table) <= MaxDataSize

(* The number of blocks in a table. *)
BlocksHeld(table) == SumFunction([k \in DOMAIN table |-> Len(BlockNumsIn(table[k]))])

(* The number of blocks of a key in it. *)
BlocksOf(table, key) == IF key \in DOMAIN table THEN Len(BlockNumsIn(table[key])) ELSE 0

LEMMA TableIs ==
  ASSUME NEW table, GoodTable(table)
  PROVE  /\ Used(table) \in 0 .. (Word - 1) /\ Used(table) \in Nat
         /\ BlocksHeld(table) \in 0 .. (Word - 1) /\ BlocksHeld(table) \in Nat
         /\ \A key \in DOMAIN table : table[key] \in Seq(Bytes) /\ key \in Keys /\ IsBuffer(table[key])
         /\ \A key : BlocksOf(table, key) \in Nat
         /\ \A key \in DOMAIN table : Len(table[key]) < Word /\ Len(BlockNumsIn(table[key])) < Word
         /\ SizesOf(table) \in [used : 0 .. (Word - 1), total : 0 .. (Word - 1)]
<1>. DEFINE D == DOMAIN table
            f == [k \in D |-> Len(BlockNumsIn(table[k]))]
            g == [k \in D |-> Len(table[k])]
<1>1. IsFiniteSet(D) /\ \A key \in D : key \in Keys /\ IsBuffer(table[key])
  BY DEF GoodTable
<1>2. \A k \in D : table[k] \in Seq(Bytes) /\ g[k] \in Nat /\ f[k] \in Nat /\ f[k] <= g[k]
  BY <1>1, BufferIs
<1>3. DOMAIN f = D /\ DOMAIN g = D
  OBVIOUS
<1>4. Used(table) = SumFunctionOnSet(g, D) /\ BlocksHeld(table) = SumFunctionOnSet(f, D)
  BY DEF Used, BlocksHeld, SumFunction
<1>. HIDE DEF f, g
<1>5. SumFunctionOnSet(g, D) \in Nat /\ SumFunctionOnSet(f, D) \in Nat
      /\ SumFunctionOnSet(f, D) <= SumFunctionOnSet(g, D)
  BY <1>1, <1>2, SumTakesOut, SumBelow
<1>6. Used(table) <= MaxDataSize
  BY DEF GoodTable
<1>7. Used(table) \in 0 .. (Word - 1) /\ BlocksHeld(table) \in 0 .. (Word - 1)
  BY <1>4, <1>5, <1>6, ClusterConstants, WordType
<1>8. ASSUME NEW key \in D PROVE Len(table[key]) < Word /\ Len(BlockNumsIn(table[key])) < Word
  <2>1. SumFunctionOnSet(g, D) = g[key] + SumFunctionOnSet(g, D \ {key})
    BY <1>1, <1>2, SumTakesOut
  <2>2. SumFunctionOnSet(g, D \ {key}) \in Nat
    <3>1. IsFiniteSet(D \ {key}) /\ \A k \in D \ {key} : g[k] \in Nat
      BY <1>1, <1>2, FS_Subset
    <3>. QED BY <3>1, SumTakesOut
  <2>3. g[key] < Word
    BY <1>2, <1>4, <1>7, <2>1, <2>2, WordType
  <2>4. g[key] = Len(table[key]) /\ f[key] = Len(BlockNumsIn(table[key]))
    BY DEF f, g
  <2>5. f[key] <= g[key] /\ f[key] \in Nat /\ g[key] \in Nat
    BY <1>2
  <2>6. f[key] < Word
    BY <2>3, <2>5, WordType
  <2>. QED BY <2>3, <2>4, <2>6
<1>9. ASSUME NEW key PROVE BlocksOf(table, key) \in Nat
  BY <1>1, BufferIs DEF BlocksOf
<1>10. SizesOf(table) \in [used : 0 .. (Word - 1), total : 0 .. (Word - 1)]
  BY <1>7, ClusterConstants DEF SizesOf
<1>. QED BY <1>1, <1>2, <1>4, <1>5, <1>7, <1>8, <1>9, <1>10

LEMMA EmptyTable ==
  ASSUME NEW table, DOMAIN table = {}
  PROVE  GoodTable(table) /\ Used(table) = 0 /\ BlocksHeld(table) = 0
<1>. DEFINE f == [k \in DOMAIN table |-> Len(BlockNumsIn(table[k]))]
            g == [k \in DOMAIN table |-> Len(table[k])]
<1>1. DOMAIN f = {} /\ DOMAIN g = {}
  OBVIOUS
<1>. HIDE DEF f, g
<1>2. Used(table) = SumFunctionOnSet(g, {}) /\ BlocksHeld(table) = SumFunctionOnSet(f, {})
  BY <1>1 DEF Used, BlocksHeld, SumFunction, f, g
<1>3. Used(table) = 0 /\ BlocksHeld(table) = 0
  BY <1>2, SumEmpty
<1>4. IsFiniteSet(DOMAIN table)
  BY FS_EmptySet
<1>. QED BY <1>3, <1>4, ClusterConstants DEF GoodTable

LEMMA TableWith ==
  ASSUME NEW table, GoodTable(table), NEW key \in Keys, NEW buf, IsBuffer(buf),
         Used(With(table, key, buf)) <= MaxDataSize
  PROVE  /\ GoodTable(With(table, key, buf))
         /\ BlocksHeld(With(table, key, buf))
              = BlocksHeld(table) - BlocksOf(table, key) + Len(BlockNumsIn(buf))
<1>. DEFINE t == With(table, key, buf)
            f == [k \in DOMAIN table |-> Len(BlockNumsIn(table[k]))]
            v == Len(BlockNumsIn(buf))
<1>1. DOMAIN t = DOMAIN table \cup {key} /\ t[key] = buf
      /\ \A k \in DOMAIN table : k # key => t[k] = table[k]
  BY DEF With
<1>2. /\ DOMAIN table \subseteq Keys /\ IsFiniteSet(DOMAIN table)
      /\ \A k \in DOMAIN table : IsBuffer(table[k])
  BY DEF GoodTable
<1>3. IsFiniteSet(DOMAIN t)
  BY <1>1, <1>2, FS_AddElement
<1>4. \A k \in DOMAIN t : IsBuffer(t[k])
  BY <1>1, <1>2
<1>5. GoodTable(t)
  BY <1>1, <1>2, <1>3, <1>4 DEF GoodTable
<1>6. v \in Nat
  BY BufferIs
<1>7. [k \in DOMAIN t |-> Len(BlockNumsIn(t[k]))] = With(f, key, v)
  BY <1>1 DEF With
<1>8. DOMAIN f = DOMAIN table /\ \A k \in DOMAIN table : f[k] = Len(BlockNumsIn(table[k]))
  OBVIOUS
<1>9. \A k \in DOMAIN f : f[k] \in Nat
  BY <1>2, <1>8, BufferIs
<1>10. BlocksHeld(t) = SumFunction(With(f, key, v)) /\ BlocksHeld(table) = SumFunction(f)
  BY <1>7 DEF BlocksHeld
<1>. HIDE DEF f, v, t
<1>11. SumFunction(With(f, key, v)) = SumFunction(f) - (IF key \in DOMAIN f THEN f[key] ELSE 0) + v
  BY <1>2, <1>6, <1>8, <1>9, SumWith
<1>12. (IF key \in DOMAIN f THEN f[key] ELSE 0) = BlocksOf(table, key)
  BY <1>8 DEF BlocksOf
<1>. QED BY <1>5, <1>10, <1>11, <1>12 DEF t, v

LEMMA TableWithout ==
  ASSUME NEW table, GoodTable(table), NEW key
  PROVE  /\ GoodTable(Without(table, key))
         /\ BlocksHeld(Without(table, key)) = BlocksHeld(table) - BlocksOf(table, key)
<1>. DEFINE t == Without(table, key)
            f == [k \in DOMAIN table |-> Len(BlockNumsIn(table[k]))]
            g == [k \in DOMAIN table |-> Len(table[k])]
<1>1. DOMAIN t = DOMAIN table \ {key} /\ \A k \in DOMAIN t : t[k] = table[k]
  BY DEF Without, Restrict
<1>2. /\ DOMAIN table \subseteq Keys /\ IsFiniteSet(DOMAIN table)
      /\ \A k \in DOMAIN table : IsBuffer(table[k])
      /\ Used(table) <= MaxDataSize
  BY DEF GoodTable
<1>3. IsFiniteSet(DOMAIN t)
  BY <1>1, <1>2, FS_Subset
<1>4. \A k \in DOMAIN t : IsBuffer(t[k])
  BY <1>1, <1>2
<1>5. [k \in DOMAIN t |-> Len(BlockNumsIn(t[k]))] = Without(f, key)
      /\ [k \in DOMAIN t |-> Len(t[k])] = Without(g, key)
  BY <1>1 DEF Without, Restrict
<1>6. /\ DOMAIN f = DOMAIN table /\ \A k \in DOMAIN table : f[k] = Len(BlockNumsIn(table[k]))
      /\ DOMAIN g = DOMAIN table /\ \A k \in DOMAIN table : g[k] = Len(table[k])
  OBVIOUS
<1>7. (\A k \in DOMAIN f : f[k] \in Nat) /\ \A k \in DOMAIN g : g[k] \in Nat
  BY <1>2, <1>6, BufferIs
<1>8. /\ BlocksHeld(t) = SumFunction(Without(f, key)) /\ BlocksHeld(table) = SumFunction(f)
      /\ Used(t) = SumFunction(Without(g, key)) /\ Used(table) = SumFunction(g)
  BY <1>5 DEF BlocksHeld, Used
<1>. HIDE DEF f, g, t
<1>9. SumFunction(Without(f, key)) = SumFunction(f) - (IF key \in DOMAIN f THEN f[key] ELSE 0)
  BY <1>2, <1>6, <1>7, SumWithout
<1>10. /\ SumFunction(Without(g, key)) = SumFunction(g) - (IF key \in DOMAIN g THEN g[key] ELSE 0)
       /\ SumFunction(g) \in Nat /\ SumFunction(Without(g, key)) \in Nat
  BY <1>2, <1>6, <1>7, SumWithout
<1>11. (IF key \in DOMAIN f THEN f[key] ELSE 0) = BlocksOf(table, key)
  BY <1>6 DEF BlocksOf
<1>12. Used(t) <= MaxDataSize
  <2>. DEFINE old == IF key \in DOMAIN g THEN g[key] ELSE 0
  <2>1. old \in Nat
    BY <1>7
  <2>. HIDE DEF old
  <2>2. Used(t) = SumFunction(g) - old
    BY <1>8, <1>10 DEF old
  <2>. QED BY <1>2, <1>8, <1>10, <2>1, <2>2, ClusterConstants
<1>13. GoodTable(t)
  BY <1>1, <1>2, <1>3, <1>4, <1>12 DEF GoodTable
<1>. QED BY <1>8, <1>9, <1>11, <1>13 DEF t

-----------------------------------------------------------------------------
(* What the master is told *)

(* What the master reads in the answer of a node: the keys that are not of *)
(* full length, with the numbers of their blocks, and the sizes.           *)
NumsOf(table) == [k \in {j \in DOMAIN table : ~FullLength(j)} |-> BlockNumsIn(table[k])]

LEMMA HeardIs ==
  ASSUME NEW table, GoodTable(table), Answers(table)
  PROVE  DecodeSyncInfo(NodeSync(table)) = [numsOf |-> NumsOf(table), info |-> SizesOf(table)]
<1>. DEFINE D == {j \in DOMAIN table : ~FullLength(j)}
            L == {ListedKey(j) : j \in DOMAIN table}
            nums == NumsOf(table)
<1>1. /\ DOMAIN table \subseteq Keys /\ IsFiniteSet(DOMAIN table)
      /\ \A key \in DOMAIN table : IsBuffer(table[key]) /\ Len(BlockNumsIn(table[key])) < Word
      /\ SizesOf(table) \in [used : 0 .. (Word - 1), total : 0 .. (Word - 1)]
  BY TableIs DEF GoodTable
<1>2. L = D
  <2>1. ASSUME NEW j \in DOMAIN table PROVE ListedKey(j) \in D
    <3>1. ListedKey(j) \in DOMAIN table
      BY DEF Answers
    <3>2. ListedKey(j)[KeyLength] = Nul
      BY <1>1, ListedKeyIs
    <3>. QED BY <3>1, <3>2 DEF FullLength
  <2>2. ASSUME NEW j \in D PROVE j \in L
    <3>1. ListedKey(j) = j
      BY <1>1, ListedKeyIs
    <3>. QED BY <3>1
  <2>. QED BY <2>1, <2>2
<1>3. NodeSync(table) = EncodeSyncInfo(nums, SizesOf(table))
  BY <1>2 DEF NodeSync, NumsOf
<1>4. Reportable(nums)
  <2>1. IsFiniteSet(D)
    BY <1>1, FS_Subset
  <2>2. ASSUME NEW k \in D PROVE Reported(k, BlockNumsIn(table[k]))
    <3>1. k \in Seq(Bytes) /\ Len(k) = KeyLength
      BY <1>1, KeyIs
    <3>2. BlockNumsIn(table[k]) \in Seq(0 .. (Word - 1)) /\ Len(BlockNumsIn(table[k])) < Word
      BY <1>1, BufferIs
    <3>. QED BY <3>1, <3>2 DEF Reported
  <2>3. DOMAIN nums = D /\ nums = [k \in D |-> BlockNumsIn(table[k])]
    BY DEF NumsOf
  <2>. HIDE DEF nums, D
  <2>. QED BY <2>1, <2>2, <2>3 DEF Reportable
<1>. HIDE DEF nums
<1>5. DecodeSyncInfo(EncodeSyncInfo(nums, SizesOf(table))) = [numsOf |-> nums, info |-> SizesOf(table)]
  BY <1>1, <1>4, ReportRoundTrip
<1>. QED BY <1>3, <1>5 DEF nums

(* The statistics of a node, as the master keeps them. *)
Row == [blocks : 0 .. (Word - 1), used : 0 .. (Word - 1),
        free : 0 .. (Word - 1), total : 0 .. (Word - 1)]

RowOf(blocks, table) ==
  [blocks |-> blocks, used |-> Used(table), free |-> MaxDataSize - Used(table), total |-> MaxDataSize]

LEMMA ModWord ==
  ASSUME NEW i \in Int
  PROVE  /\ (i % Word) \in 0 .. (Word - 1)
         /\ i \in 0 .. (Word - 1) => (i % Word) = i
<1>. DEFINE W == Word
<1>1. W \in Nat \ {0}
  BY WordType
<1>. HIDE DEF W
<1>2. /\ (i % W) \in 0 .. (W - 1)
      /\ i \in 0 .. (W - 1) => (i % W) = i
  BY <1>1
<1>. QED BY <1>2 DEF W

LEMMA SizesTaken ==
  ASSUME NEW table, GoodTable(table), NEW s \in Row, NEW b \in 0 .. (Word - 1)
  PROVE  /\ RowOf(b, table) \in Row
         /\ WithSizes([s EXCEPT !.blocks = b], SizesOf(table)) = RowOf(b, table)
         /\ DecodeSizeInfo(EncodeSizeInfo(SizesOf(table)), 1) = SizesOf(table)
<1>1. /\ Used(table) \in Nat /\ Used(table) <= MaxDataSize /\ Used(table) \in 0 .. (Word - 1)
      /\ SizesOf(table) \in [used : 0 .. (Word - 1), total : 0 .. (Word - 1)]
  BY TableIs DEF GoodTable
<1>2. DecodeSizeInfo(EncodeSizeInfo(SizesOf(table)), 1) = SizesOf(table)
  BY <1>1, SizeInfoRoundTrip
<1>. DEFINE rest == MaxDataSize - Used(table)
            W == 0 .. (Word - 1)
<1>3. rest \in W /\ MaxDataSize \in W
  <2>1. rest \in Int /\ 0 <= rest /\ rest <= MaxDataSize
    BY <1>1, ClusterConstants
  <2>2. MaxDataSize \in Nat /\ MaxDataSize <= Word - 1 /\ Word \in Nat
    BY ClusterConstants, WordType
  <2>. HIDE DEF rest
  <2>. QED BY <2>1, <2>2
<1>4. (rest % Word) = rest
  <2>. HIDE DEF rest
  <2>1. rest \in Int
    BY <1>3
  <2>. QED BY <1>3, <2>1, ModWord
<1>. DEFINE old == [s EXCEPT !.blocks = b]
            u == Used(table)
<1>5. SizesOf(table).used = u /\ SizesOf(table).total = MaxDataSize
  BY DEF SizesOf
<1>6. old = [blocks |-> b, used |-> s.used, free |-> s.free, total |-> s.total]
  BY DEF Row
<1>7. WithSizes(old, SizesOf(table))
        = [old EXCEPT !.used = u, !.total = MaxDataSize, !.free = (rest % Word)]
  BY <1>5 DEF WithSizes
<1>8. RowOf(b, table) \in Row
  BY <1>1, <1>3 DEF RowOf, Row
<1>9. RowOf(b, table) = [blocks |-> b, used |-> u, free |-> rest, total |-> MaxDataSize]
  BY DEF RowOf
<1>. HIDE DEF old, u, rest, W
<1>10. WithSizes(old, SizesOf(table)) = RowOf(b, table)
  BY <1>4, <1>6, <1>7, <1>9
<1>. QED BY <1>2, <1>8, <1>10 DEF old

-----------------------------------------------------------------------------
(* The shape of a state *)

(* What node n holds, or would start with. *)
Holding(n) == IF n \in up THEN store[n] ELSE file[n]

(* The blocks that a map of blocks to nodes has on node n. *)
On(blockNodes, n) == {b \in DOMAIN blockNodes : n \in blockNodes[b]}

(* A map of blocks to nodes. *)
IsPlaced(blockNodes) ==
  /\ IsFiniteSet(DOMAIN blockNodes) /\ DOMAIN blockNodes \subseteq 0 .. (Word - 1)
  /\ \A b \in DOMAIN blockNodes : blockNodes[b] \subseteq Nodes

(* What a node has in memory is in its file too. *)
InFile(table, saved) == \A key \in DOMAIN table : key \in DOMAIN saved /\ saved[key] = table[key]

Basics ==
  /\ master \in {"up", "down"}
  /\ healthy \subseteq Nodes /\ up \subseteq Nodes
  /\ stats \in [Nodes -> Row]
  /\ store = [n \in Nodes |-> store[n]] /\ file = [n \in Nodes |-> file[n]]
  /\ DOMAIN promised = Names /\ nextVer \in Nat
  /\ stray \subseteq Nodes \X Keys /\ lost \subseteq Nodes \X Keys /\ drifted \subseteq Nodes

Tables ==
  \A n \in Nodes :
    /\ GoodTable(store[n]) /\ GoodTable(file[n])
    /\ InFile(store[n], file[n]) /\ (n \notin up => DOMAIN store[n] = {})

Maps ==
  /\ DOMAIN kbn \subseteq Keys
  /\ \A key \in DOMAIN kbn : IsPlaced(kbn[key])

Shape == Basics /\ Tables /\ Maps

LEMMA ShapeGivesTypes == Shape => TypeOK
<1>. SUFFICES ASSUME Shape PROVE TypeOK
  OBVIOUS
<1>1. ASSUME NEW table, GoodTable(table) PROVE IsTable(table)
  <2>1. \A key \in DOMAIN table : key \in Keys /\ table[key] \in Seq(Bytes)
    BY <1>1, TableIs
  <2>. QED BY <2>1, KeyIs DEF IsTable
<1>2. \A n \in Nodes : IsTable(store[n]) /\ IsTable(file[n])
  BY <1>1 DEF Shape, Tables
<1>3. DOMAIN kbn \subseteq [1 .. KeyLength -> Bytes]
  <2>1. \A key \in DOMAIN kbn : key \in Keys
    BY DEF Shape, Maps
  <2>. QED BY <2>1, KeyIs
<1>4. \A key \in DOMAIN kbn :
        DOMAIN kbn[key] \subseteq Nat /\ \A b \in DOMAIN kbn[key] : kbn[key][b] \subseteq Nodes
  <2>1. 0 .. (Word - 1) \subseteq Nat
    OBVIOUS
  <2>. QED BY <2>1 DEF Shape, Maps, IsPlaced
<1>5. /\ master \in {"up", "down"} /\ healthy \subseteq Nodes /\ up \subseteq Nodes
      /\ stats \in [Nodes -> Row] /\ DOMAIN promised = Names
      /\ stray \cup lost \subseteq Nodes \X Keys /\ drifted \subseteq Nodes
  BY DEF Shape, Basics
<1>. QED BY <1>2, <1>3, <1>4, <1>5 DEF TypeOK, Row

LEMMA InitShape == Init => Shape
<1>. SUFFICES ASSUME Init PROVE Shape
  OBVIOUS
<1>. USE DEF Init
<1>1. NoStats \in Row
  BY WordType DEF NoStats, Row
<1>2. Basics
  <2>1. store = [n \in Nodes |-> store[n]] /\ file = [n \in Nodes |-> file[n]]
    OBVIOUS
  <2>. QED BY <1>1, <2>1 DEF Basics
<1>3. Tables
  <2>. SUFFICES ASSUME NEW n \in Nodes
                PROVE  /\ GoodTable(store[n]) /\ GoodTable(file[n])
                       /\ InFile(store[n], file[n]) /\ (n \notin up => DOMAIN store[n] = {})
    BY DEF Tables
  <2>1. DOMAIN store[n] = {} /\ DOMAIN file[n] = {}
    OBVIOUS
  <2>2. GoodTable(store[n]) /\ GoodTable(file[n])
    BY <2>1, EmptyTable
  <2>. QED BY <2>1, <2>2 DEF InFile
<1>4. Maps
  <2>1. DOMAIN kbn = {}
    OBVIOUS
  <2>. QED BY <2>1 DEF Maps
<1>. QED BY <1>2, <1>3, <1>4 DEF Shape

LEMMA ListedIs ==
  ASSUME Shape, NEW key
  PROVE  /\ IsPlaced(Listed(key)) /\ NodesOf(Listed(key)) \subseteq Nodes
         /\ \A n : n \in NodesOf(Listed(key)) <=> On(Listed(key), n) # {}
         /\ \A n : IsFiniteSet(On(Listed(key), n)) /\ BlocksListed(key, n) \in Nat
                   /\ BlocksListed(key, n) = Cardinality(On(Listed(key), n))
                   /\ On(Listed(key), n) \subseteq 0 .. (Word - 1)
<1>. DEFINE m == Listed(key)
<1>1. IsPlaced(m)
  <2>1. CASE key \in DOMAIN kbn
    BY <2>1 DEF Shape, Maps, Listed
  <2>2. CASE key \notin DOMAIN kbn
    <3>1. DOMAIN m = {}
      BY <2>2 DEF Listed
    <3>. QED BY <3>1, FS_EmptySet DEF IsPlaced
  <2>. QED BY <2>1, <2>2
<1>2. \A n : BlocksListed(key, n) = Cardinality(On(m, n))
  BY DEF BlocksListed, On
<1>. HIDE DEF m
<1>3. NodesOf(m) \subseteq Nodes /\ \A n : n \in NodesOf(m) <=> On(m, n) # {}
  BY <1>1 DEF NodesOf, On, IsPlaced
<1>4. ASSUME NEW n PROVE IsFiniteSet(On(m, n)) /\ Cardinality(On(m, n)) \in Nat
                         /\ On(m, n) \subseteq 0 .. (Word - 1)
  <2>1. On(m, n) \subseteq DOMAIN m
    BY DEF On
  <2>2. IsFiniteSet(DOMAIN m) /\ DOMAIN m \subseteq 0 .. (Word - 1)
    BY <1>1 DEF IsPlaced
  <2>3. IsFiniteSet(On(m, n))
    BY <2>1, <2>2, FS_Subset
  <2>. QED BY <2>1, <2>2, <2>3, FS_CardinalityType
<1>. QED BY <1>1, <1>2, <1>3, <1>4 DEF m

LEMMA StatsAfterIs ==
  ASSUME Shape, NEW n \in Nodes, NEW key, NEW added \in Nat, NEW table, GoodTable(table)
  PROVE  /\ StatsAfter(n, key, added, table) \in Row
         /\ StatsAfter(n, key, added, table)
              = RowOf((stats[n].blocks - BlocksListed(key, n) + added) % Word, table)
<1>. DEFINE i == stats[n].blocks - BlocksListed(key, n) + added
            b == i % Word
<1>1. stats[n] \in Row /\ stats[n].blocks \in Nat
  <2>1. stats[n] \in Row
    BY DEF Shape, Basics
  <2>. QED BY <2>1 DEF Row
<1>2. b \in 0 .. (Word - 1)
  <2>1. i \in Int
    <3>. DEFINE c == BlocksListed(key, n)
    <3>1. c \in Nat
      BY ListedIs
    <3>. HIDE DEF c
    <3>2. stats[n].blocks - c + added \in Int
      BY <1>1, <3>1
    <3>. QED BY <3>2 DEF c
  <2>. QED BY <2>1, ModWord
<1>3. StatsAfter(n, key, added, table)
        = WithSizes([stats[n] EXCEPT !.blocks = b], DecodeSizeInfo(EncodeSizeInfo(SizesOf(table)), 1))
  BY <1>1 DEF StatsAfter, Row
<1>. HIDE DEF b
<1>4. StatsAfter(n, key, added, table) = RowOf(b, table) /\ RowOf(b, table) \in Row
  BY <1>1, <1>2, <1>3, SizesTaken
<1>. QED BY <1>4 DEF b

-----------------------------------------------------------------------------
(* A PUT *)

(* The nodes of the blocks of a value. *)
Placed(v, placed) ==
  /\ DOMAIN placed = 0 .. (SplitCount(v) - 1)
  /\ \A b \in DOMAIN placed : placed[b] \subseteq Nodes /\ placed[b] # {}

(* The blocks of a value that go to node n. *)
Piece(v, placed, n) == BlocksNumbered(Split(v), On(placed, n))

(* What a PUT does, once everything that is sent has been read again. *)
PutDone(key, name, v, placed, done) ==
  /\ v \in Seq(Bytes) /\ Len(v) < Word
  /\ Placed(v, placed) /\ done \subseteq NodesOf(placed) \cap up
  /\ store' = [n \in Nodes |->
                 IF n \in done THEN With(store[n], key, NodeBuffer(Piece(v, placed, n)))
                 ELSE store[n]]
  /\ \A n \in Nodes : Used(store'[n]) <= MaxDataSize
  /\ file' = [n \in Nodes |-> IF n \in done THEN store'[n] ELSE file[n]]
  /\ stats' = [n \in Nodes |->
                 IF n \in done THEN StatsAfter(n, key, Cardinality(On(placed, n)), store'[n])
                 ELSE stats[n]]
  /\ \/ /\ done = NodesOf(placed) /\ kbn' = With(kbn, key, placed) /\ Promise(key, name, v)
        /\ stray' = (stray \cup ((NodesOf(Listed(key)) \X {key}) \ lost)) \ (done \X {key})
        /\ lost' = lost \ (Nodes \X {key})
        /\ drifted' = drifted \cup {n \in done : <<n, key>> \in stray \cup lost}
     \/ /\ UNCHANGED kbn /\ Promise(key, name, Unknown)
        /\ stray' = stray \cup (done \X {key})
        /\ lost' = lost \ (done \X {key})
        /\ drifted' = drifted \cup done
  /\ nextVer' = nextVer + 1 /\ UNCHANGED <<master, healthy, up>>

LEMMA PayloadIs ==
  ASSUME NEW ver \in Nat, NEW size \in Nat
  PROVE  Payload(ver, size) \in Seq(Bytes) /\ Len(Payload(ver, size)) = size
<1>1. ASSUME NEW i \in 1 .. size PROVE (10 * ver + i) % Base \in Bytes
  <2>. DEFINE k == 10 * ver + i
  <2>1. k \in Nat
    OBVIOUS
  <2>. HIDE DEF k
  <2>2. k % Base \in 0 .. (Base - 1)
    BY <2>1, Constants
  <2>. QED BY <2>2 DEF k, Bytes
<1>2. Payload(ver, size) \in [1 .. size -> Bytes]
  BY <1>1 DEF Payload
<1>. QED BY <1>2

(* A block has a place as long as enough nodes are healthy. *)
LEMMA PlacementIs ==
  ASSUME NEW key \in Keys, NEW size \in Sizes, NEW num \in 0 .. (CeilDiv(size, DataBlockSize) - 1),
         healthy \subseteq Nodes, Cardinality(healthy) >= Copies
  PROVE  Placement(key, num) \subseteq Nodes /\ Placement(key, num) # {}
<1>. DEFINE order == RingOrder[<<key, num>>]
            Met(i) == {order[j] : j \in 1 .. i} \cap healthy
            first == {i \in 1 .. Len(order) : order[i] \in healthy}
<1>1. Placement(key, num)
        = {n \in healthy : \E i \in DOMAIN order : order[i] = n /\ Cardinality(Met(i)) <= Copies}
  BY DEF Placement
<1>2. order \in Seq(Nodes) /\ ToSet(order) = Nodes
  BY RingAssumption
<1>3. Len(order) \in Nat /\ DOMAIN order = 1 .. Len(order)
  BY <1>2, SequenceIs
<1>4. Copies \in Nat /\ Copies >= 1
  <2>1. Cardinality(Nodes) \in Nat /\ Cardinality(Nodes) # 0
    BY ClusterConstants, FS_CardinalityType, FS_EmptySet
  <2>2. \/ Copies = ReplicationFactor
        \/ Copies = Cardinality(Nodes)
    BY <2>1, ClusterConstants, MinOfTwo DEF Copies
  <2>. QED BY <2>1, <2>2, ClusterConstants
<1>5. healthy # {}
  BY <1>4, FS_EmptySet
<1>6. first # {} /\ first \subseteq Nat
  <2>1. PICK n \in healthy : TRUE
    BY <1>5
  <2>2. n \in ToSet(order)
    BY <1>2
  <2>3. \E i \in DOMAIN order : order[i] = n
    BY <2>2 DEF ToSet
  <2>. QED BY <1>3, <2>1, <2>3
<1>7. PICK i \in first : \A j \in first : i <= j
  <2>. HIDE DEF first
  <2>. QED BY <1>6, LeastExists
<1>8. i \in 1 .. Len(order) /\ order[i] \in healthy
  OBVIOUS
<1>9. Met(i) = {order[i]}
  <2>1. ASSUME NEW j \in 1 .. i, order[j] \in healthy PROVE j = i
    <3>1. j \in first
      BY <1>3, <1>8, <2>1
    <3>2. i <= j
      BY <1>7, <3>1
    <3>. QED BY <1>3, <1>8, <3>2
  <2>. QED BY <1>3, <1>8, <2>1
<1>10. Cardinality(Met(i)) = 1
  BY <1>9, FS_Singleton
<1>. HIDE DEF order, Met
<1>11. order[i] \in Placement(key, num)
  BY <1>1, <1>3, <1>4, <1>8, <1>10
<1>. QED BY <1>1, <1>11

LEMMA SplitNums ==
  ASSUME NEW v \in Seq(Bytes), Len(v) < Word
  PROVE  {b.num : b \in ToSet(Split(v))} = 0 .. (SplitCount(v) - 1)
<1>. DEFINE n == SplitCount(v)
<1>1. Len(Split(v)) = n /\ n \in Nat /\ Split(v) \in Seq(Blocks)
  BY SplitLaid
<1>2. DOMAIN Split(v) = 1 .. n
  BY <1>1, SequenceIs
<1>3. \A i \in 1 .. n : Split(v)[i].num = i - 1
  BY SplitBlock
<1>. HIDE DEF n
<1>4. ToSet(Split(v)) = {Split(v)[i] : i \in 1 .. n}
  BY <1>2 DEF ToSet
<1>5. ASSUME NEW m \in 0 .. (n - 1) PROVE m \in {b.num : b \in ToSet(Split(v))}
  <2>1. m + 1 \in 1 .. n /\ (m + 1) - 1 = m
    BY <1>1
  <2>2. Split(v)[m + 1].num = m
    BY <1>3, <2>1
  <2>3. Split(v)[m + 1] \in ToSet(Split(v))
    BY <1>4, <2>1
  <2>. QED BY <2>2, <2>3
<1>6. ASSUME NEW b \in ToSet(Split(v)) PROVE b.num \in 0 .. (n - 1)
  <2>1. PICK i \in 1 .. n : b = Split(v)[i]
    BY <1>4
  <2>. QED BY <1>1, <1>3, <2>1
<1>. QED BY <1>5, <1>6 DEF n

LEMMA PieceIs ==
  ASSUME NEW v \in Seq(Bytes), Len(v) < Word, NEW placed, Placed(v, placed), NEW n
  PROVE  /\ Piece(v, placed, n) \in Seq(Blocks)
         /\ IsFiniteSet(On(placed, n)) /\ Cardinality(On(placed, n)) \in Nat
         /\ Len(Piece(v, placed, n)) = Cardinality(On(placed, n))
         /\ n \in NodesOf(placed) =>
              /\ On(placed, n) # {} /\ IsBuffer(NodeBuffer(Piece(v, placed, n)))
              /\ BlocksIn(NodeBuffer(Piece(v, placed, n))) = Piece(v, placed, n)
              /\ Len(BlockNumsIn(NodeBuffer(Piece(v, placed, n)))) = Cardinality(On(placed, n))
<1>. DEFINE bs == Piece(v, placed, n)
            nums == On(placed, n)
<1>1. nums \subseteq 0 .. (SplitCount(v) - 1)
  BY DEF On, Placed
<1>2. Laid(bs) /\ Ascending(bs) /\ IsFiniteSet(nums) /\ Len(bs) = Cardinality(nums)
  <2>. HIDE DEF nums
  <2>1. bs = BlocksNumbered(Split(v), nums)
    BY DEF Piece, nums
  <2>2. /\ Laid(BlocksNumbered(Split(v), nums)) /\ Ascending(BlocksNumbered(Split(v), nums))
        /\ IsFiniteSet(nums) /\ Len(BlocksNumbered(Split(v), nums)) = Cardinality(nums)
    BY <1>1, SplitNumbered
  <2>. QED BY <2>1, <2>2
<1>3. bs \in Seq(Blocks) /\ Cardinality(nums) \in Nat
  BY <1>2, FS_CardinalityType DEF Laid
<1>4. ASSUME n \in NodesOf(placed)
      PROVE  /\ nums # {} /\ IsBuffer(NodeBuffer(bs)) /\ BlocksIn(NodeBuffer(bs)) = bs
             /\ Len(BlockNumsIn(NodeBuffer(bs))) = Cardinality(nums)
  <2>1. nums # {}
    BY <1>4 DEF NodesOf, On
  <2>. HIDE DEF nums, bs
  <2>2. Len(bs) # 0
    BY <1>2, <2>1, FS_EmptySet
  <2>3. IsBuffer(NodeBuffer(bs)) /\ BlocksIn(NodeBuffer(bs)) = bs
    BY <1>2, <2>2, BufferOf
  <2>4. Len(BlockNumsIn(NodeBuffer(bs))) = Len(BlocksIn(NodeBuffer(bs)))
    BY <2>3, BufferIs
  <2>. QED BY <1>2, <2>1, <2>3, <2>4
<1>. QED BY <1>2, <1>3, <1>4 DEF bs, nums

LEMMA PlacedIsPlaced ==
  ASSUME NEW v \in Seq(Bytes), Len(v) < Word, NEW placed, Placed(v, placed)
  PROVE  IsPlaced(placed) /\ NodesOf(placed) \subseteq Nodes
<1>1. SplitCount(v) \in Nat /\ SplitCount(v) <= Len(v) /\ Len(v) \in Nat /\ Word \in Nat
  BY BlockEnds, WordType
<1>2. 0 .. (SplitCount(v) - 1) \subseteq 0 .. (Word - 1)
  BY <1>1
<1>3. IsFiniteSet(0 .. (SplitCount(v) - 1))
  BY <1>1, FS_Interval
<1>. QED BY <1>2, <1>3 DEF Placed, IsPlaced, NodesOf

LEMMA PutIs ==
  ASSUME Shape, NEW name \in Names, NEW size \in Sizes, NEW refusing,
         Put(name, size, refusing)
  PROVE  \E v, placed, done : PutDone(KeyOf[name], name, v, placed, done)
<1>. DEFINE key == KeyOf[name]
            v == Payload(nextVer, size)
            blocks == Split(v)
            placed == [num \in {b.num : b \in ToSet(blocks)} |-> Placement(key, num)]
            targets == NodesOf(placed)
            done == (targets \cap up) \ refusing
            sent == [n \in targets |->
                      BlocksNumbered(blocks, {num \in DOMAIN placed : n \in placed[num]})]
            former == NodesOf(Listed(key)) \X {key}
<1>1. /\ blocks # <<>> => Cardinality(healthy) >= Copies
      /\ store' = [n \in Nodes |->
                     IF n \in done THEN NodePut(store[n], key, EncodeBlocks(key, sent[n]))
                     ELSE store[n]]
      /\ \A n \in Nodes : Used(store'[n]) <= MaxDataSize
      /\ file' = [n \in Nodes |->
                    IF n \in done THEN store'[n] ELSE file[n]]
      /\ stats' = [n \in Nodes |->
                     IF n \in done THEN StatsAfter(n, key, Len(sent[n]), store'[n]) ELSE stats[n]]
      /\ IF done = targets
         THEN /\ kbn' = With(kbn, key, placed)
              /\ Promise(key, name, v)
              /\ stray' = (stray \cup (former \ lost)) \ (targets \X {key})
              /\ lost' = lost \ (Nodes \X {key})
              /\ drifted' = drifted \cup {n \in done : <<n, key>> \in stray \cup lost}
         ELSE /\ Promise(key, name, Unknown)
              /\ stray' = stray \cup (done \X {key})
              /\ lost' = lost \ (done \X {key})
              /\ drifted' = drifted \cup done
              /\ UNCHANGED kbn
      /\ nextVer' = nextVer + 1 /\ UNCHANGED <<master, healthy, up>>
  BY DEF Put
<1>2. v \in Seq(Bytes) /\ Len(v) = size /\ Len(v) < Word
  BY PayloadIs, ClusterConstants, WordType DEF Shape, Basics
<1>3. key \in Keys /\ AtNode[key] = key /\ key \in Seq(Bytes) /\ Len(key) < Word
  BY NameIs, KeyIs, ClusterConstants
<1>4. {b.num : b \in ToSet(blocks)} = 0 .. (SplitCount(v) - 1)
  BY <1>2, SplitNums
<1>5. SplitCount(v) = CeilDiv(size, DataBlockSize)
  BY <1>2 DEF SplitCount
<1>. HIDE DEF key, v
<1>6. Placed(v, placed)
  <2>1. DOMAIN placed = 0 .. (SplitCount(v) - 1)
    BY <1>4
  <2>2. ASSUME NEW b \in 0 .. (SplitCount(v) - 1)
        PROVE  Placement(key, b) \subseteq Nodes /\ Placement(key, b) # {}
    <3>1. Len(blocks) # 0
      BY <1>2, SplitLaid
    <3>2. blocks # <<>>
      <4>. HIDE DEF blocks
      <4>1. Len(<<>>) = 0
        OBVIOUS
      <4>. QED BY <3>1, <4>1
    <3>3. healthy \subseteq Nodes
      BY DEF Shape, Basics
    <3>. QED BY <1>1, <1>3, <1>5, <3>2, <3>3, PlacementIs
  <2>. QED BY <1>4, <2>1, <2>2 DEF Placed
<1>. HIDE DEF placed
<1>7. targets \subseteq Nodes
  BY <1>6 DEF NodesOf, Placed
<1>8. ASSUME NEW n \in targets
      PROVE  /\ sent[n] = Piece(v, placed, n) /\ Len(sent[n]) = Cardinality(On(placed, n))
             /\ NodePut(store[n], key, EncodeBlocks(key, sent[n]))
                  = With(store[n], key, NodeBuffer(Piece(v, placed, n)))
  <2>1. sent[n] = Piece(v, placed, n)
    BY DEF Piece, On
  <2>2. sent[n] \in Seq(Blocks) /\ Len(sent[n]) = Cardinality(On(placed, n))
    BY <1>2, <1>6, <2>1, PieceIs
  <2>3. DecodeBlocks(EncodeBlocks(key, sent[n])) = sent[n]
    BY <1>3, <2>2, BlocksRoundTrip
  <2>. QED BY <1>3, <2>1, <2>2, <2>3 DEF NodePut
<1>. HIDE DEF sent
<1>9. store' = [n \in Nodes |->
                  IF n \in done THEN With(store[n], key, NodeBuffer(Piece(v, placed, n)))
                  ELSE store[n]]
  <2>1. \A n \in Nodes :
          (IF n \in done THEN NodePut(store[n], key, EncodeBlocks(key, sent[n])) ELSE store[n])
            = IF n \in done THEN With(store[n], key, NodeBuffer(Piece(v, placed, n))) ELSE store[n]
    BY <1>8
  <2>. QED BY <1>1, <2>1
<1>10. stats' = [n \in Nodes |->
                   IF n \in done THEN StatsAfter(n, key, Cardinality(On(placed, n)), store'[n])
                   ELSE stats[n]]
  <2>1. \A n \in Nodes :
          (IF n \in done THEN StatsAfter(n, key, Len(sent[n]), store'[n]) ELSE stats[n])
            = IF n \in done THEN StatsAfter(n, key, Cardinality(On(placed, n)), store'[n]) ELSE stats[n]
    BY <1>8
  <2>. QED BY <1>1, <2>1
<1>11. file' = [n \in Nodes |-> IF n \in done THEN store'[n] ELSE file[n]]
  BY <1>1
<1>12. done \subseteq NodesOf(placed) \cap up
  OBVIOUS
<1>13. \/ /\ done = NodesOf(placed) /\ kbn' = With(kbn, key, placed) /\ Promise(key, name, v)
          /\ stray' = (stray \cup ((NodesOf(Listed(key)) \X {key}) \ lost)) \ (done \X {key})
          /\ lost' = lost \ (Nodes \X {key})
          /\ drifted' = drifted \cup {n \in done : <<n, key>> \in stray \cup lost}
       \/ /\ UNCHANGED kbn /\ Promise(key, name, Unknown)
          /\ stray' = stray \cup (done \X {key})
          /\ lost' = lost \ (done \X {key})
          /\ drifted' = drifted \cup done
  <2>. HIDE DEF done
  <2>1. CASE done = targets
    BY <1>1, <2>1
  <2>2. CASE done # targets
    BY <1>1, <2>2
  <2>. QED BY <2>1, <2>2
<1>14. (\A n \in Nodes : Used(store'[n]) <= MaxDataSize)
       /\ nextVer' = nextVer + 1 /\ UNCHANGED <<master, healthy, up>>
  BY <1>1
<1>. HIDE DEF done
<1>15. PutDone(key, name, v, placed, done)
  BY <1>2, <1>6, <1>9, <1>10, <1>11, <1>12, <1>13, <1>14 DEF PutDone
<1>. QED BY <1>15 DEF key

LEMMA PutShape ==
  ASSUME Shape, NEW name \in Names, NEW v, NEW placed, NEW done,
         PutDone(KeyOf[name], name, v, placed, done)
  PROVE  Shape'
<1>. DEFINE key == KeyOf[name]
<1>1. key \in Keys
  BY NameIs
<1>. HIDE DEF key
<1>2. PutDone(key, name, v, placed, done)
  BY DEF key
<1>3. /\ v \in Seq(Bytes) /\ Len(v) < Word /\ Placed(v, placed)
      /\ done \subseteq NodesOf(placed) \cap up /\ done \subseteq Nodes
  BY <1>2, PlacedIsPlaced DEF PutDone
<1>4. ASSUME NEW n \in Nodes
      PROVE  /\ GoodTable(store'[n]) /\ GoodTable(file'[n])
             /\ InFile(store'[n], file'[n]) /\ (n \notin up' => DOMAIN store'[n] = {})
  <2>1. /\ GoodTable(store[n]) /\ GoodTable(file[n])
        /\ InFile(store[n], file[n]) /\ (n \notin up => DOMAIN store[n] = {})
    BY DEF Shape, Tables
  <2>2. CASE n \in done
    <3>. DEFINE buf == NodeBuffer(Piece(v, placed, n))
    <3>1. store'[n] = With(store[n], key, buf) /\ file'[n] = store'[n] /\ up' = up /\ n \in up
          /\ Used(store'[n]) <= MaxDataSize
      BY <1>2, <1>3, <2>2 DEF PutDone
    <3>2. IsBuffer(buf)
      BY <1>3, <2>2, PieceIs
    <3>3. GoodTable(store'[n])
      <4>. HIDE DEF buf
      <4>1. Used(With(store[n], key, buf)) <= MaxDataSize
        BY <3>1
      <4>2. GoodTable(With(store[n], key, buf))
        BY <1>1, <2>1, <3>2, <4>1, TableWith
      <4>. QED BY <3>1, <4>2
    <3>. QED BY <3>1, <3>3 DEF InFile
  <2>3. CASE n \notin done
    <3>1. store'[n] = store[n] /\ file'[n] = file[n] /\ up' = up
      BY <1>2, <2>3 DEF PutDone
    <3>. QED BY <2>1, <3>1
  <2>. QED BY <2>2, <2>3
<1>5. Tables'
  BY <1>4 DEF Tables
<1>6. stats' \in [Nodes -> Row]
  <2>1. ASSUME NEW n \in Nodes
        PROVE  (IF n \in done THEN StatsAfter(n, key, Cardinality(On(placed, n)), store'[n])
                ELSE stats[n]) \in Row
    <3>1. GoodTable(store'[n])
      BY <1>4
    <3>2. Cardinality(On(placed, n)) \in Nat
      BY <1>3, PieceIs
    <3>3. StatsAfter(n, key, Cardinality(On(placed, n)), store'[n]) \in Row
      BY <3>1, <3>2, StatsAfterIs
    <3>4. stats[n] \in Row
      BY DEF Shape, Basics
    <3>. QED BY <3>3, <3>4
  <2>. QED BY <1>2, <2>1 DEF PutDone
<1>7. stray' \subseteq Nodes \X Keys /\ lost' \subseteq Nodes \X Keys /\ drifted' \subseteq Nodes
  <2>1. NodesOf(Listed(key)) \subseteq Nodes
    BY ListedIs
  <2>2. stray \subseteq Nodes \X Keys /\ lost \subseteq Nodes \X Keys /\ drifted \subseteq Nodes
    BY DEF Shape, Basics
  <2>. QED BY <1>1, <1>2, <1>3, <2>1, <2>2 DEF PutDone
<1>8. store' = [n \in Nodes |-> store'[n]] /\ file' = [n \in Nodes |-> file'[n]]
  BY <1>2 DEF PutDone
<1>9. DOMAIN promised' = Names
  BY <1>2 DEF PutDone, Promise
<1>10. Basics'
  <2>1. master \in {"up", "down"} /\ healthy \subseteq Nodes /\ up \subseteq Nodes /\ nextVer \in Nat
    BY DEF Shape, Basics
  <2>. QED BY <1>2, <1>6, <1>7, <1>8, <1>9, <2>1 DEF PutDone, Basics
<1>11. Maps'
  <2>1. Maps /\ kbn' \in {kbn, With(kbn, key, placed)}
    BY <1>2 DEF PutDone, Shape
  <2>2. IsPlaced(placed)
    BY <1>3, PlacedIsPlaced
  <2>3. ASSUME kbn' = With(kbn, key, placed) PROVE Maps'
    <3>1. DOMAIN kbn' = DOMAIN kbn \cup {key}
          /\ \A k \in DOMAIN kbn' : kbn'[k] = IF k = key THEN placed ELSE kbn[k]
      BY <2>3 DEF With
    <3>. QED BY <1>1, <2>1, <2>2, <3>1 DEF Maps
  <2>4. ASSUME kbn' = kbn PROVE Maps'
    BY <2>1, <2>4 DEF Maps
  <2>. QED BY <2>1, <2>3, <2>4
<1>. QED BY <1>5, <1>10, <1>11 DEF Shape

(* What a DEL does. *)
DeleteDone(key, name, done) ==
  /\ key \in DOMAIN kbn /\ done \subseteq NodesOf(Listed(key)) \cap up
  /\ \A n \in done : key \in DOMAIN store[n]
  /\ store' = [n \in Nodes |-> IF n \in done THEN Without(store[n], key) ELSE store[n]]
  /\ stats' = [n \in Nodes |-> IF n \in done THEN StatsAfter(n, key, 0, store'[n]) ELSE stats[n]]
  /\ \/ /\ done = NodesOf(Listed(key)) /\ kbn' = Without(kbn, key) /\ UNCHANGED lost
        /\ promised' = [s \in Names |-> IF KeyOf[s] = key THEN Absent ELSE promised[s]]
     \/ UNCHANGED kbn /\ Promise(key, name, Unknown) /\ lost' = lost \cup (done \X {key})
  /\ stray' = stray \ (done \X {key})
  /\ drifted' = drifted \cup {n \in done : <<n, key>> \in stray}
  /\ UNCHANGED <<master, healthy, up, file, nextVer>>

LEMMA DeleteIs ==
  ASSUME NEW name \in Names, NEW refusing, Delete(name, refusing)
  PROVE  \E done : DeleteDone(KeyOf[name], name, done)
<1>. DEFINE key == KeyOf[name]
            asked == NodesOf(Listed(key))
            done == {n \in (asked \cap up) \ refusing : AtNode[key] \in DOMAIN store[n]}
<1>1. AtNode[key] = key
  BY NameIs, KeyIs
<1>2. /\ key \in DOMAIN kbn
      /\ store' = [n \in Nodes |->
                     IF n \in done THEN Without(store[n], AtNode[key]) ELSE store[n]]
      /\ stats' = [n \in Nodes |->
                     IF n \in done THEN StatsAfter(n, key, 0, store'[n]) ELSE stats[n]]
      /\ IF done = asked
         THEN /\ kbn' = Without(kbn, key)
              /\ promised' = [s \in Names |-> IF KeyOf[s] = key THEN Absent ELSE promised[s]]
              /\ UNCHANGED lost
         ELSE /\ Promise(key, name, Unknown)
              /\ lost' = lost \cup (done \X {key})
              /\ UNCHANGED kbn
      /\ stray' = stray \ (done \X {key})
      /\ drifted' = drifted \cup {n \in done : <<n, key>> \in stray}
      /\ UNCHANGED <<master, healthy, up, file, nextVer>>
  BY DEF Delete
<1>3. done \subseteq asked \cap up /\ \A n \in done : key \in DOMAIN store[n]
  BY <1>1
<1>. HIDE DEF key, done
<1>4. \/ /\ done = asked /\ kbn' = Without(kbn, key) /\ UNCHANGED lost
         /\ promised' = [s \in Names |-> IF KeyOf[s] = key THEN Absent ELSE promised[s]]
      \/ UNCHANGED kbn /\ Promise(key, name, Unknown) /\ lost' = lost \cup (done \X {key})
  <2>1. CASE done = asked
    BY <1>2, <2>1
  <2>2. CASE done # asked
    BY <1>2, <2>2
  <2>. QED BY <2>1, <2>2
<1>5. DeleteDone(key, name, done)
  BY <1>1, <1>2, <1>3, <1>4 DEF DeleteDone
<1>. QED BY <1>5 DEF key

LEMMA DeleteShape ==
  ASSUME Shape, NEW name \in Names, NEW done, DeleteDone(KeyOf[name], name, done)
  PROVE  Shape'
<1>. DEFINE key == KeyOf[name]
<1>1. key \in Keys
  BY NameIs
<1>. HIDE DEF key
<1>2. DeleteDone(key, name, done)
  BY DEF key
<1>3. done \subseteq Nodes
  BY <1>2, ListedIs DEF DeleteDone
<1>4. ASSUME NEW n \in Nodes
      PROVE  /\ GoodTable(store'[n]) /\ GoodTable(file'[n])
             /\ InFile(store'[n], file'[n]) /\ (n \notin up' => DOMAIN store'[n] = {})
  <2>1. /\ GoodTable(store[n]) /\ GoodTable(file[n])
        /\ InFile(store[n], file[n]) /\ (n \notin up => DOMAIN store[n] = {})
    BY DEF Shape, Tables
  <2>2. store'[n] \in {store[n], Without(store[n], key)} /\ file'[n] = file[n] /\ up' = up
    BY <1>2 DEF DeleteDone
  <2>3. GoodTable(Without(store[n], key))
    BY <2>1, TableWithout
  <2>4. DOMAIN Without(store[n], key) \subseteq DOMAIN store[n]
        /\ \A k \in DOMAIN Without(store[n], key) : Without(store[n], key)[k] = store[n][k]
    BY DEF Without, Restrict
  <2>. QED BY <2>1, <2>2, <2>3, <2>4 DEF InFile
<1>5. Tables'
  BY <1>4 DEF Tables
<1>6. stats' \in [Nodes -> Row]
  <2>1. ASSUME NEW n \in Nodes
        PROVE  (IF n \in done THEN StatsAfter(n, key, 0, store'[n]) ELSE stats[n]) \in Row
    <3>1. GoodTable(store'[n])
      BY <1>4
    <3>2. StatsAfter(n, key, 0, store'[n]) \in Row
      BY <3>1, StatsAfterIs
    <3>3. stats[n] \in Row
      BY DEF Shape, Basics
    <3>. QED BY <3>2, <3>3
  <2>. QED BY <1>2, <2>1 DEF DeleteDone
<1>7. stray' \subseteq Nodes \X Keys /\ lost' \subseteq Nodes \X Keys /\ drifted' \subseteq Nodes
  <2>1. stray \subseteq Nodes \X Keys /\ lost \subseteq Nodes \X Keys /\ drifted \subseteq Nodes
    BY DEF Shape, Basics
  <2>. QED BY <1>1, <1>2, <1>3, <2>1 DEF DeleteDone
<1>8. store' = [n \in Nodes |-> store'[n]] /\ file' = [n \in Nodes |-> file'[n]]
  BY <1>2 DEF DeleteDone, Shape, Basics
<1>9. DOMAIN promised' = Names
  BY <1>2 DEF DeleteDone, Promise
<1>10. Basics'
  <2>1. master \in {"up", "down"} /\ healthy \subseteq Nodes /\ up \subseteq Nodes /\ nextVer \in Nat
    BY DEF Shape, Basics
  <2>. QED BY <1>2, <1>6, <1>7, <1>8, <1>9, <2>1 DEF DeleteDone, Basics
<1>11. Maps'
  <2>1. Maps /\ kbn' \in {kbn, Without(kbn, key)}
    BY <1>2 DEF DeleteDone, Shape
  <2>2. DOMAIN Without(kbn, key) \subseteq DOMAIN kbn
        /\ \A k \in DOMAIN Without(kbn, key) : Without(kbn, key)[k] = kbn[k]
    BY DEF Without, Restrict
  <2>. QED BY <2>1, <2>2 DEF Maps
<1>. QED BY <1>5, <1>10, <1>11 DEF Shape

LEMMA NodeShape ==
  ASSUME Shape, NEW n \in Nodes, NodeStops(n) \/ NodeLosesStore(n) \/ NodeStarts(n)
  PROVE  Shape'
<1>1. /\ Basics /\ Tables /\ Maps /\ n \in Nodes
      /\ \A m \in Nodes : GoodTable(store[m]) /\ GoodTable(file[m])
                          /\ InFile(store[m], file[m]) /\ (m \notin up => DOMAIN store[m] = {})
  BY DEF Shape, Tables
<1>2. \A m \in Nodes : GoodTable(<<>>) /\ InFile(<<>>, file[m]) /\ DOMAIN <<>> = {}
  <2>1. DOMAIN <<>> = {}
    OBVIOUS
  <2>. QED BY <2>1, EmptyTable DEF InFile
<1>3. CASE NodeStops(n)
  <2>. DEFINE returning == {n} \X (DOMAIN file[n] \ DOMAIN store[n])
  <2>1. /\ up' = up \ {n} /\ store' = [store EXCEPT ![n] = <<>>]
        /\ stray' = stray \cup returning /\ lost' = lost \ returning
        /\ drifted' = (IF returning = {} THEN drifted ELSE drifted \cup {n})
        /\ UNCHANGED <<master, kbn, healthy, stats, file, promised, nextVer>>
    BY <1>3 DEF NodeStops
  <2>2. returning \subseteq Nodes \X Keys
    BY <1>1 DEF GoodTable
  <2>. HIDE DEF returning
  <2>3. Basics'
    <3>1. store' = [m \in Nodes |-> store'[m]]
      BY <1>1, <2>1 DEF Basics
    <3>2. stray' \subseteq Nodes \X Keys /\ lost' \subseteq Nodes \X Keys /\ drifted' \subseteq Nodes
      BY <1>1, <2>1, <2>2 DEF Basics
    <3>. QED BY <1>1, <2>1, <3>1, <3>2 DEF Basics
  <2>4. \A m \in Nodes : store'[m] = IF m = n THEN <<>> ELSE store[m]
    BY <1>1, <2>1 DEF Basics
  <2>5. Tables'
    BY <1>1, <1>2, <2>1, <2>4 DEF Tables
  <2>. QED BY <1>1, <2>1, <2>3, <2>5 DEF Shape, Maps
<1>4. CASE NodeLosesStore(n)
  <2>1. /\ n \notin up /\ file' = [file EXCEPT ![n] = <<>>]
        /\ stray' = {p \in stray : p[1] # n}
        /\ lost' = lost \cup {<<n, key>> : key \in {k \in DOMAIN kbn : n \in NodesOf(kbn[k])}}
        /\ drifted' = drifted \cup {n}
        /\ UNCHANGED <<master, kbn, healthy, stats, up, store, promised, nextVer>>
    BY <1>4 DEF NodeLosesStore, bounds
  <2>2. Basics'
    <3>1. file' = [m \in Nodes |-> file'[m]]
      BY <1>1, <2>1 DEF Basics
    <3>2. stray' \subseteq Nodes \X Keys /\ lost' \subseteq Nodes \X Keys /\ drifted' \subseteq Nodes
      BY <1>1, <2>1 DEF Basics, Maps
    <3>. QED BY <1>1, <2>1, <3>1, <3>2 DEF Basics
  <2>3. \A m \in Nodes : file'[m] = IF m = n THEN <<>> ELSE file[m]
    BY <1>1, <2>1 DEF Basics
  <2>4. InFile(store[n], <<>>)
    BY <1>1, <2>1 DEF InFile
  <2>5. Tables'
    BY <1>1, <1>2, <2>1, <2>3, <2>4 DEF Tables
  <2>. QED BY <1>1, <2>1, <2>2, <2>5 DEF Shape, Maps
<1>5. CASE NodeStarts(n)
  <2>1. /\ up' = up \cup {n} /\ store' = [store EXCEPT ![n] = file[n]]
        /\ UNCHANGED <<master, kbn, healthy, stats, file, promised, stray, lost, drifted, nextVer>>
    BY <1>5 DEF NodeStarts, ghosts, bounds
  <2>2. Basics'
    <3>1. store' = [m \in Nodes |-> store'[m]]
      BY <1>1, <2>1 DEF Basics
    <3>. QED BY <1>1, <2>1, <3>1 DEF Basics
  <2>3. \A m \in Nodes : store'[m] = IF m = n THEN file[n] ELSE store[m]
    BY <1>1, <2>1 DEF Basics
  <2>4. InFile(file[n], file[n])
    BY DEF InFile
  <2>5. Tables'
    BY <1>1, <2>1, <2>3, <2>4 DEF Tables
  <2>. QED BY <1>1, <2>1, <2>2, <2>5 DEF Shape, Maps
<1>. QED BY <1>3, <1>4, <1>5

LEMMA StillShape ==
  ASSUME Shape, HealthCheck \/ MasterStops \/ UNCHANGED vars
  PROVE  Shape'
<1>1. Basics'
  BY DEF Shape, Basics, HealthCheck, MasterStops, vars, cluster, ghosts, bounds
<1>2. Tables'
  BY DEF Shape, Tables, HealthCheck, MasterStops, vars, cluster, ghosts, bounds
<1>3. Maps'
  BY DEF Shape, Maps, HealthCheck, MasterStops, vars, cluster, ghosts, bounds
<1>. QED BY <1>1, <1>2, <1>3 DEF Shape

-----------------------------------------------------------------------------
(* The master starts *)

(* The blocks of a key that node n holds. *)
NumsHeld(n, key) == IF key \in DOMAIN store[n] THEN ToSet(BlockNumsIn(store[n][key])) ELSE {}

(* The keys that the nodes report. *)
KeysHeld == {k \in UNION {DOMAIN store[n] : n \in Nodes} : ~FullLength(k)}

StartDone ==
  /\ master' = "up" /\ up = Nodes /\ healthy' = {}
  /\ kbn' = [key \in KeysHeld |->
               [num \in UNION {NumsHeld(n, key) : n \in Nodes} |->
                  {n \in Nodes : num \in NumsHeld(n, key)}]]
  /\ \A n \in Nodes : Answers(store[n])
  /\ stats' = [n \in Nodes |->
                 RowOf(SumFunction([k \in DOMAIN NumsOf(store[n]) |-> Len(NumsOf(store[n])[k])]), store[n])]
  /\ stats' \in [Nodes -> Row]
  /\ promised' = [s \in Names |-> IF Survives(s) THEN promised[s] ELSE Unknown]
  /\ stray' = {} /\ lost' = {} /\ drifted' = {n \in Nodes : HoldsFullLength(n)}
  /\ UNCHANGED <<up, store, file, nextVer>>

LEMMA SumPart ==
  ASSUME NEW f, NEW S, IsFiniteSet(S), \A x \in S : f[x] \in Nat, NEW T \in SUBSET S
  PROVE  SumFunctionOnSet(f, T) <= SumFunctionOnSet(f, S)
<1>. DEFINE F(s) == SumFunctionOnSet(f, s)
            Good == {U \in SUBSET S : F(T \cap U) <= F(U)}
<1>1. ASSUME NEW U \in SUBSET S PROVE IsFiniteSet(U) /\ F(U) \in Nat
  <2>1. IsFiniteSet(U) /\ \A x \in U : f[x] \in Nat
    BY <1>1, FS_Subset
  <2>. QED BY <2>1, SumTakesOut
<1>2. {} \in Good
  <2>1. T \cap {} = {} /\ F({}) \in Nat
    BY <1>1
  <2>. HIDE DEF F
  <2>2. F(T \cap {}) <= F({})
    BY <2>1
  <2>. QED BY <2>2
<1>3. ASSUME NEW U \in SUBSET S, U # {}, \A V \in SUBSET U : V # U => V \in Good
      PROVE  U \in Good
  <2>1. PICK x \in U : TRUE
    BY <1>3
  <2>2. F(T \cap (U \ {x})) <= F(U \ {x})
    <3>1. U \ {x} \in Good
      BY <1>3, <2>1
    <3>. HIDE DEF F
    <3>. QED BY <3>1
  <2>3. F(U) = f[x] + F(U \ {x})
    <3>1. IsFiniteSet(U) /\ \A y \in U : f[y] \in Nat
      BY <1>1
    <3>. QED BY <3>1, SumTakesOut
  <2>4. f[x] \in Nat /\ F(U \ {x}) \in Nat /\ F(T \cap (U \ {x})) \in Nat /\ F(T \cap U) \in Nat
    BY <1>1
  <2>5. CASE x \in T
    <3>1. F(T \cap U) = f[x] + F((T \cap U) \ {x})
      <4>1. IsFiniteSet(T \cap U) /\ \A y \in T \cap U : f[y] \in Nat
        BY <1>1
      <4>. QED BY <2>5, <4>1, SumTakesOut
    <3>2. (T \cap U) \ {x} = T \cap (U \ {x})
      OBVIOUS
    <3>3. F(T \cap U) = f[x] + F(T \cap (U \ {x}))
      BY <3>1, <3>2
    <3>. DEFINE a == F(T \cap U)
                b == F(T \cap (U \ {x}))
                c == F(U \ {x})
                d == F(U)
                e == f[x]
    <3>4. a = e + b /\ d = e + c /\ b <= c /\ b \in Nat /\ c \in Nat /\ e \in Nat
      BY <2>2, <2>3, <2>4, <3>3
    <3>. HIDE DEF a, b, c, d, e
    <3>5. a <= d
      BY <3>4
    <3>. QED BY <3>5 DEF a, d
  <2>6. CASE x \notin T
    <3>1. T \cap (U \ {x}) = T \cap U
      BY <2>6
    <3>. DEFINE b == F(T \cap U)
                c == F(U \ {x})
                d == F(U)
                e == f[x]
    <3>2. d = e + c /\ b <= c /\ b \in Nat /\ c \in Nat /\ e \in Nat
      BY <2>2, <2>3, <2>4, <3>1
    <3>. HIDE DEF b, c, d, e
    <3>3. b <= d
      BY <3>2
    <3>. QED BY <3>3 DEF b, d
  <2>. QED BY <2>5, <2>6
<1>4. S \in Good
  <2>. HIDE DEF Good
  <2>. QED BY <1>2, <1>3, BuildUp
<1>5. T \cap S = T
  OBVIOUS
<1>. QED BY <1>4, <1>5

(* The number of blocks in a report. *)
LEMMA ReportedBlocks ==
  ASSUME NEW table, GoodTable(table)
  PROVE  LET sum == SumFunction([k \in DOMAIN NumsOf(table) |-> Len(NumsOf(table)[k])])
         IN  /\ sum \in 0 .. (Word - 1)
             /\ (\A k \in DOMAIN table : ~FullLength(k)) => sum = BlocksHeld(table)
<1>. DEFINE f == [k \in DOMAIN table |-> Len(BlockNumsIn(table[k]))]
            D == {j \in DOMAIN table : ~FullLength(j)}
            g == [k \in DOMAIN NumsOf(table) |-> Len(NumsOf(table)[k])]
            W == Word
<1>1. /\ IsFiniteSet(DOMAIN table) /\ \A k \in DOMAIN table : f[k] \in Nat
      /\ SumFunction(f) \in 0 .. (W - 1)
  <2>1. \A k \in DOMAIN table : IsBuffer(table[k]) /\ BlocksHeld(table) \in 0 .. (Word - 1)
    BY TableIs
  <2>2. IsFiniteSet(DOMAIN table) /\ BlocksHeld(table) \in 0 .. (Word - 1)
    BY TableIs DEF GoodTable
  <2>. QED BY <2>1, <2>2, BufferIs DEF BlocksHeld
<1>2. DOMAIN g = D /\ \A k \in D : g[k] = f[k]
  BY DEF NumsOf
<1>3. DOMAIN f = DOMAIN table /\ BlocksHeld(table) = SumFunction(f)
  BY DEF BlocksHeld
<1>. HIDE DEF f, g
<1>4. SumFunction(g) = SumFunctionOnSet(f, D)
  <2>1. IsFiniteSet(D) /\ \A k \in D : f[k] \in Nat /\ g[k] = f[k]
    BY <1>1, <1>2, FS_Subset
  <2>2. SumFunctionOnSet(g, D) = SumFunctionOnSet(f, D)
    BY <2>1, SumSame
  <2>. QED BY <1>2, <2>2 DEF SumFunction
<1>5. SumFunction(f) = SumFunctionOnSet(f, DOMAIN table)
  BY <1>3 DEF SumFunction
<1>6. SumFunctionOnSet(f, D) <= SumFunctionOnSet(f, DOMAIN table)
  BY <1>1, SumPart
<1>7. SumFunctionOnSet(f, D) \in Nat
  <2>1. IsFiniteSet(D) /\ \A k \in D : f[k] \in Nat
    BY <1>1, FS_Subset
  <2>. QED BY <2>1, SumTakesOut
<1>8. SumFunction(g) \in 0 .. (W - 1)
  <2>1. W \in Nat
    BY WordType
  <2>. HIDE DEF W
  <2>. QED BY <1>1, <1>4, <1>5, <1>6, <1>7, <2>1
<1>9. ASSUME \A k \in DOMAIN table : ~FullLength(k) PROVE SumFunction(g) = BlocksHeld(table)
  <2>1. D = DOMAIN table
    BY <1>9
  <2>. QED BY <1>3, <1>4, <1>5, <2>1
<1>. QED BY <1>8, <1>9 DEF g

LEMMA StartIs ==
  ASSUME Shape, MasterStarts
  PROVE  StartDone
<1>1. /\ master' = "up" /\ up = Nodes /\ healthy' = {}
      /\ \A n \in Nodes : Answers(store[n])
      /\ kbn' = MapOf(Heard) /\ stats' = StatsOf(Heard)
      /\ promised' = [s \in Names |-> IF Survives(s) THEN promised[s] ELSE Unknown]
      /\ stray' = {} /\ lost' = {} /\ drifted' = {n \in Nodes : HoldsFullLength(n)}
      /\ UNCHANGED <<up, store, file, nextVer>>
  BY DEF MasterStarts, StartSucceeds, cluster, bounds
<1>2. \A n \in Nodes : GoodTable(store[n])
  BY DEF Shape, Tables
<1>3. ASSUME NEW n \in Nodes
      PROVE  Heard[n] = [numsOf |-> NumsOf(store[n]), info |-> SizesOf(store[n])]
  <2>1. Heard[n] = DecodeSyncInfo(NodeSync(store[n]))
    BY DEF Heard
  <2>. QED BY <1>1, <1>2, <2>1, HeardIs
<1>. DEFINE Nums(n, key) == IF key \in DOMAIN Heard[n].numsOf THEN ToSet(Heard[n].numsOf[key]) ELSE {}
<1>4. ASSUME NEW n \in Nodes
      PROVE  Heard[n].numsOf = NumsOf(store[n]) /\ Heard[n].info = SizesOf(store[n])
  <2>. DEFINE h == Heard[n]
              a == NumsOf(store[n])
              b == SizesOf(store[n])
  <2>1. h = [numsOf |-> a, info |-> b]
    BY <1>3
  <2>. HIDE DEF h, a, b
  <2>2. h.numsOf = a /\ h.info = b
    BY <2>1
  <2>. QED BY <2>2 DEF h, a, b
<1>5. ASSUME NEW n \in Nodes
      PROVE  /\ DOMAIN NumsOf(store[n]) = {j \in DOMAIN store[n] : ~FullLength(j)}
             /\ \A key \in DOMAIN NumsOf(store[n]) : NumsOf(store[n])[key] = BlockNumsIn(store[n][key])
  BY DEF NumsOf
<1>6. UNION {DOMAIN Heard[n].numsOf : n \in Nodes} = KeysHeld
  <2>1. ASSUME NEW n \in Nodes
        PROVE  DOMAIN Heard[n].numsOf = {j \in DOMAIN store[n] : ~FullLength(j)}
    BY <1>4, <1>5
  <2>2. ASSUME NEW k
        PROVE  (\E n \in Nodes : k \in DOMAIN Heard[n].numsOf)
                 <=> (\E n \in Nodes : k \in DOMAIN store[n]) /\ ~FullLength(k)
    BY <2>1
  <2>3. ASSUME NEW k
        PROVE  k \in KeysHeld <=> (\E n \in Nodes : k \in DOMAIN store[n]) /\ ~FullLength(k)
    BY DEF KeysHeld
  <2>. QED BY <2>2, <2>3
<1>7. ASSUME NEW key \in KeysHeld, NEW n \in Nodes PROVE Nums(n, key) = NumsHeld(n, key)
  <2>1. ~FullLength(key)
    BY DEF KeysHeld
  <2>2. key \in DOMAIN Heard[n].numsOf <=> key \in DOMAIN store[n]
    BY <1>4, <1>5, <2>1
  <2>3. key \in DOMAIN store[n] => Heard[n].numsOf[key] = BlockNumsIn(store[n][key])
    BY <1>4, <1>5, <2>1
  <2>. QED BY <2>2, <2>3 DEF NumsHeld
<1>8. kbn' = [key \in UNION {DOMAIN Heard[n].numsOf : n \in Nodes} |->
               [num \in UNION {Nums(n, key) : n \in Nodes} |->
                  {n \in Nodes : num \in Nums(n, key)}]]
  BY <1>1 DEF MapOf
<1>. HIDE DEF Nums
<1>9. kbn' = [key \in KeysHeld |->
               [num \in UNION {NumsHeld(n, key) : n \in Nodes} |->
                  {n \in Nodes : num \in NumsHeld(n, key)}]]
  <2>1. ASSUME NEW key \in KeysHeld
        PROVE  [num \in UNION {Nums(n, key) : n \in Nodes} |-> {n \in Nodes : num \in Nums(n, key)}]
                 = [num \in UNION {NumsHeld(n, key) : n \in Nodes} |->
                      {n \in Nodes : num \in NumsHeld(n, key)}]
    <3>1. {Nums(n, key) : n \in Nodes} = {NumsHeld(n, key) : n \in Nodes}
      BY <1>7
    <3>2. \A num : {n \in Nodes : num \in Nums(n, key)} = {n \in Nodes : num \in NumsHeld(n, key)}
      BY <1>7
    <3>. QED BY <3>1, <3>2
  <2>. QED BY <1>6, <1>8, <2>1
<1>. DEFINE sum(n) == SumFunction([k \in DOMAIN NumsOf(store[n]) |-> Len(NumsOf(store[n])[k])])
<1>10. stats' = [n \in Nodes |-> RowOf(sum(n), store[n])] /\ stats' \in [Nodes -> Row]
  <2>1. stats' = [n \in Nodes |->
                   WithSizes([NoStats EXCEPT !.blocks =
                                SumFunction([k \in DOMAIN Heard[n].numsOf |-> Len(Heard[n].numsOf[k])])],
                             Heard[n].info)]
    BY <1>1 DEF StatsOf
  <2>2. ASSUME NEW n \in Nodes
        PROVE  /\ WithSizes([NoStats EXCEPT !.blocks =
                               SumFunction([k \in DOMAIN Heard[n].numsOf |-> Len(Heard[n].numsOf[k])])],
                            Heard[n].info) = RowOf(sum(n), store[n])
               /\ RowOf(sum(n), store[n]) \in Row
    <3>1. SumFunction([k \in DOMAIN Heard[n].numsOf |-> Len(Heard[n].numsOf[k])]) = sum(n)
      BY <1>4
    <3>2. sum(n) \in 0 .. (Word - 1)
      BY <1>2, ReportedBlocks
    <3>3. NoStats \in Row
      BY WordType DEF NoStats, Row
    <3>. HIDE DEF sum
    <3>4. /\ RowOf(sum(n), store[n]) \in Row
          /\ WithSizes([NoStats EXCEPT !.blocks = sum(n)], SizesOf(store[n])) = RowOf(sum(n), store[n])
      BY <1>2, <3>2, <3>3, SizesTaken
    <3>. QED BY <1>4, <3>1, <3>4
  <2>. HIDE DEF sum
  <2>3. stats' = [n \in Nodes |-> RowOf(sum(n), store[n])]
    BY <2>1, <2>2
  <2>. QED BY <2>2, <2>3
<1>. QED BY <1>1, <1>9, <1>10 DEF StartDone

LEMMA NumsHeldAre ==
  ASSUME Shape, NEW n \in Nodes, NEW key
  PROVE  NumsHeld(n, key) \subseteq 0 .. (Word - 1)
<1>1. CASE key \in DOMAIN store[n]
  <2>1. IsBuffer(store[n][key])
    BY <1>1 DEF Shape, Tables, GoodTable
  <2>. QED BY <1>1, <2>1, BufferIs DEF NumsHeld
<1>2. CASE key \notin DOMAIN store[n]
  BY <1>2 DEF NumsHeld
<1>. QED BY <1>1, <1>2

LEMMA StartShape ==
  ASSUME Shape, StartDone
  PROVE  Shape'
<1>1. Basics /\ Tables /\ Maps
  BY DEF Shape
<1>2. Basics'
  <2>1. DOMAIN promised' = Names
    BY DEF StartDone
  <2>. QED BY <1>1, <2>1 DEF StartDone, Basics
<1>3. Tables'
  BY <1>1 DEF StartDone, Tables
<1>4. Maps'
  <2>1. DOMAIN kbn' = KeysHeld
    BY DEF StartDone
  <2>2. KeysHeld \subseteq Keys
    BY <1>1 DEF KeysHeld, Tables, GoodTable
  <2>3. ASSUME NEW key \in KeysHeld PROVE IsPlaced(kbn'[key])
    <3>1. kbn'[key] = [num \in UNION {NumsHeld(n, key) : n \in Nodes} |->
                         {n \in Nodes : num \in NumsHeld(n, key)}]
      BY DEF StartDone
    <3>2. DOMAIN kbn'[key] \subseteq 0 .. (Word - 1)
      BY <3>1, NumsHeldAre
    <3>3. IsFiniteSet(DOMAIN kbn'[key])
      <4>1. IsFiniteSet(0 .. (Word - 1))
        BY WordType, FS_Interval
      <4>. QED BY <3>2, <4>1, FS_Subset
    <3>. QED BY <3>1, <3>2, <3>3 DEF IsPlaced
  <2>. QED BY <2>1, <2>2, <2>3 DEF Maps
<1>. QED BY <1>2, <1>3, <1>4 DEF Shape

(* What a step does: one of the following. *)
Steps ==
  \/ \E name \in Names :
       \/ \E v, placed, done : PutDone(KeyOf[name], name, v, placed, done)
       \/ \E done : DeleteDone(KeyOf[name], name, done)
  \/ HealthCheck \/ MasterStops \/ UNCHANGED vars
  \/ \E n \in Nodes : NodeStops(n) \/ NodeLosesStore(n) \/ NodeStarts(n)
  \/ MasterStarts /\ StartDone

LEMMA StepIs ==
  ASSUME Shape, [Next]_vars
  PROVE  Steps
<1>1. ASSUME NEW name \in Names, NEW refusing, NEW size \in Sizes, Put(name, size, refusing)
      PROVE  Steps
  BY <1>1, PutIs DEF Steps
<1>2. ASSUME NEW name \in Names, NEW refusing, Delete(name, refusing)
      PROVE  Steps
  BY <1>2, DeleteIs DEF Steps
<1>3. ASSUME MasterStarts PROVE Steps
  BY <1>3, StartIs DEF Steps
<1>4. CASE HealthCheck \/ MasterStops \/ UNCHANGED vars
  BY <1>4 DEF Steps
<1>5. CASE \E n \in Nodes : NodeStops(n) \/ NodeLosesStore(n) \/ NodeStarts(n)
  BY <1>5 DEF Steps
<1>. QED BY <1>1, <1>2, <1>3, <1>4, <1>5 DEF Next

LEMMA StepShape ==
  ASSUME Shape, Steps
  PROVE  Shape'
BY PutShape, DeleteShape, NodeShape, StillShape, StartShape DEF Steps

LEMMA ShapeHolds == Spec => []Shape
<1>1. Init => Shape
  BY InitShape
<1>2. Shape /\ [Next]_vars => Shape'
  BY StepIs, StepShape
<1>. QED BY <1>1, <1>2, PTL DEF Spec

(* Every variable has its type in every state: what a node holds is a      *)
(* buffer of blocks that a PUT laid down, and what the master's map lists  *)
(* are nodes there are, across restarts of both (the maps of               *)
(* master_server.cpp and disk_storage.cpp).                                *)
THEOREM TypesHold == Spec => []TypeOK
BY ShapeHolds, ShapeGivesTypes, PTL

-----------------------------------------------------------------------------
(* What the master learns *)

LEMMA NumsFound ==
  ASSUME NEW buf, Len(buf) \in Nat
  PROVE  NumsAtPlaces(buf) = ToSet(BlockNumsIn(buf))
<1>. DEFINE S == IntSize + DataBlockSize
            n == CeilDiv(Len(buf), S)
            nums == BlockNumsIn(buf)
<1>1. n \in Nat
  BY Constants DEF CeilDiv
<1>2. nums = [i \in 1 .. n |-> UintAt(buf, (i - 1) * S + 1)]
  BY DEF BlockNumsIn, BlocksIn
<1>3. NumsAtPlaces(buf) = {UintAt(buf, i * S + 1) : i \in 0 .. (n - 1)}
  BY DEF NumsAtPlaces
<1>. HIDE DEF n, nums, S
<1>4. ToSet(nums) = {UintAt(buf, (i - 1) * S + 1) : i \in 1 .. n}
  BY <1>2 DEF ToSet
<1>5. ASSUME NEW i \in 0 .. (n - 1) PROVE UintAt(buf, i * S + 1) \in ToSet(nums)
  <2>1. i + 1 \in 1 .. n /\ (i + 1) - 1 = i
    BY <1>1
  <2>. QED BY <1>4, <2>1
<1>6. ASSUME NEW i \in 1 .. n PROVE UintAt(buf, (i - 1) * S + 1) \in NumsAtPlaces(buf)
  <2>1. i - 1 \in 0 .. (n - 1)
    BY <1>1
  <2>. QED BY <1>3, <2>1
<1>. QED BY <1>3, <1>4, <1>5, <1>6 DEF nums

LEMMA StartFaithful ==
  ASSUME Shape, StartDone
  PROVE  /\ DOMAIN kbn' = KeysHeld
         /\ \A key \in DOMAIN kbn' :
              /\ \A num \in DOMAIN kbn'[key] : kbn'[key][num] = Holders(key, num) /\ Holders(key, num) # {}
              /\ \A n \in Nodes : key \in DOMAIN store[n] =>
                   NumsAtPlaces(store[n][key]) \subseteq DOMAIN kbn'[key]
<1>1. DOMAIN kbn' = KeysHeld
  BY DEF StartDone
<1>2. ASSUME NEW n \in Nodes, NEW key \in DOMAIN store[n]
      PROVE  NumsAtPlaces(store[n][key]) = ToSet(BlockNumsIn(store[n][key]))
  <2>1. IsBuffer(store[n][key])
    BY DEF Shape, Tables, GoodTable
  <2>. QED BY <2>1, BufferIs, NumsFound
<1>3. ASSUME NEW key, NEW num
      PROVE  Holders(key, num) = {n \in Nodes : num \in NumsHeld(n, key)}
  BY <1>2 DEF Holders, NumsHeld
<1>4. ASSUME NEW key \in KeysHeld
      PROVE  /\ DOMAIN kbn'[key] = UNION {NumsHeld(n, key) : n \in Nodes}
             /\ \A num \in DOMAIN kbn'[key] : kbn'[key][num] = {n \in Nodes : num \in NumsHeld(n, key)}
  BY DEF StartDone
<1>5. ASSUME NEW key \in KeysHeld, NEW num \in DOMAIN kbn'[key]
      PROVE  kbn'[key][num] = Holders(key, num) /\ Holders(key, num) # {}
  <2>1. PICK n \in Nodes : num \in NumsHeld(n, key)
    BY <1>4
  <2>. QED BY <1>3, <1>4, <2>1
<1>6. ASSUME NEW key \in KeysHeld, NEW n \in Nodes, key \in DOMAIN store[n]
      PROVE  NumsAtPlaces(store[n][key]) \subseteq DOMAIN kbn'[key]
  <2>1. NumsAtPlaces(store[n][key]) = NumsHeld(n, key)
    BY <1>2, <1>6 DEF NumsHeld
  <2>. QED BY <1>4, <2>1
<1>. QED BY <1>1, <1>5, <1>6

(* A master that starts learns from the answers of the nodes of exactly    *)
(* the keys they hold, those of full length apart, and for each block of   *)
(* the nodes that have it: what syncHandler and SyncInfo::serialize write  *)
(* is what SyncInfo::deserialize reads, and syncWithStorageNodes loses     *)
(* nothing of it.                                                          *)
THEOREM SyncIsFaithful == Spec => SyncFaithful
<1>1. Shape /\ [Next]_vars =>
        [MasterStarts =>
          /\ DOMAIN kbn' = {k \in UNION {DOMAIN store[n] : n \in Nodes} : ~FullLength(k)}
          /\ \A key \in DOMAIN kbn' :
               /\ \A num \in DOMAIN kbn'[key] : kbn'[key][num] = Holders(key, num) /\ Holders(key, num) # {}
               /\ \A n \in Nodes : key \in DOMAIN store[n] =>
                    NumsAtPlaces(store[n][key]) \subseteq DOMAIN kbn'[key]]_vars
  BY StartIs, StartFaithful DEF KeysHeld
<1>. QED BY <1>1, ShapeHolds, PTL DEF Spec, SyncFaithful

-----------------------------------------------------------------------------
(* What keeps a master from starting *)

(* When every node runs and none has a key of full length, every node      *)
(* finds the blocks of each key it lists, and a master that is started     *)
(* comes up: nothing else in a node's table can make it fail               *)
(* (createSyncResponsePayload, syncWithStorageNode).  This is what         *)
(* MasterCanStart leaves to the restarts of the nodes.                     *)
THEOREM OnlyFullKeysHinder ==
  Spec => []((up = Nodes /\ \A n \in Nodes : ~HoldsFullLength(n)) => StartSucceeds)
<1>1. ASSUME Shape, NEW n \in Nodes, ~HoldsFullLength(n)
      PROVE  Answers(store[n])
  <2>. SUFFICES ASSUME NEW key \in DOMAIN store[n]
                PROVE  ListedKey(key) \in DOMAIN store[n]
    BY DEF Answers
  <2>1. key \in Keys
    BY <1>1 DEF Shape, Tables, GoodTable
  <2>2. ~FullLength(key)
    BY <1>1 DEF HoldsFullLength
  <2>. QED BY <2>1, <2>2, ListedKeyIs
<1>2. Shape => ((up = Nodes /\ \A n \in Nodes : ~HoldsFullLength(n)) => StartSucceeds)
  BY <1>1 DEF StartSucceeds
<1>. QED BY <1>2, ShapeHolds, PTL

-----------------------------------------------------------------------------
(* Stray and lost data, and the statistics *)

(* How many blocks of a key node n holds. *)
Held(n, key) == BlocksOf(Holding(n), key)

(* What the ghosts stray and lost stand for. *)
Trace(n, key) ==
  /\ <<n, key>> \in lost => Held(n, key) = 0
  /\ <<n, key>> \notin lost /\ BlocksListed(key, n) # 0 => Held(n, key) # 0
  /\ <<n, key>> \notin stray /\ Held(n, key) # 0 /\ (n \notin drifted \/ ~FullLength(key)) =>
       BlocksListed(key, n) = Held(n, key)

Traces == \A n \in Nodes : \A key \in Keys : Trace(n, key)

(* What it means that a node's statistics are not off. *)
Balanced(n) ==
  /\ stats[n].blocks = BlocksHeld(Holding(n)) /\ stats[n].used = Used(Holding(n))
  /\ stats[n].free + stats[n].used = stats[n].total

Stats == \A n \in Nodes : n \notin drifted => Balanced(n)

LEMMA HoldingIs ==
  ASSUME Shape, NEW n \in Nodes
  PROVE  /\ GoodTable(Holding(n))
         /\ \A key : Held(n, key) \in Nat /\ (Held(n, key) # 0 <=> key \in DOMAIN Holding(n))
<1>1. GoodTable(Holding(n))
  BY DEF Shape, Tables, Holding
<1>. DEFINE table == Holding(n)
<1>2. \A key : Held(n, key) = BlocksOf(table, key)
  BY DEF Held
<1>. HIDE DEF table
<1>3. ASSUME NEW key PROVE BlocksOf(table, key) \in Nat /\ (BlocksOf(table, key) # 0 <=> key \in DOMAIN table)
  <2>1. GoodTable(table)
    BY <1>1 DEF table
  <2>2. CASE key \in DOMAIN table
    <3>1. IsBuffer(table[key])
      BY <2>1, <2>2, TableIs
    <3>2. Len(BlockNumsIn(table[key])) \in Nat \ {0}
      BY <3>1, BufferIs
    <3>. QED BY <2>2, <3>2 DEF BlocksOf
  <2>3. CASE key \notin DOMAIN table
    BY <2>3 DEF BlocksOf
  <2>. QED BY <2>2, <2>3
<1>. QED BY <1>1, <1>2, <1>3 DEF table

LEMMA TraceSame ==
  ASSUME NEW n, NEW key, Trace(n, key), Held(n, key)' = Held(n, key),
         BlocksListed(key, n)' = BlocksListed(key, n),
         <<n, key>> \in lost' <=> <<n, key>> \in lost,
         <<n, key>> \in stray' <=> <<n, key>> \in stray,
         n \in drifted => n \in drifted'
  PROVE  Trace(n, key)'
BY DEF Trace

LEMMA BalancedSame ==
  ASSUME NEW n, Balanced(n), stats'[n] = stats[n], Holding(n)' = Holding(n)
  PROVE  Balanced(n)'
<1>1. BlocksHeld(Holding(n))' = BlocksHeld(Holding(n)) /\ Used(Holding(n))' = Used(Holding(n))
  BY DEF BlocksHeld, Used
<1>. QED BY <1>1 DEF Balanced

(* After an answer of a node whose statistics were right, they are right.  *)
LEMMA BalancedAfter ==
  ASSUME Shape, NEW n \in Nodes, n \in up, Balanced(n), NEW key, NEW added \in Nat, NEW table,
         GoodTable(table), BlocksListed(key, n) = BlocksOf(store[n], key),
         BlocksHeld(table) = BlocksHeld(store[n]) - BlocksOf(store[n], key) + added
  PROVE  LET row == StatsAfter(n, key, added, table)
         IN  /\ row.blocks = BlocksHeld(table) /\ row.used = Used(table)
             /\ row.free + row.used = row.total
<1>. DEFINE b == stats[n].blocks - BlocksListed(key, n) + added
<1>1. stats[n].blocks = BlocksHeld(store[n])
  BY DEF Balanced, Holding
<1>2. BlocksHeld(table) \in 0 .. (Word - 1) /\ Used(table) \in Nat
  BY TableIs
<1>3. b = BlocksHeld(table)
  BY <1>1
<1>. HIDE DEF b
<1>4. (b % Word) = BlocksHeld(table)
  <2>1. b \in Int /\ b \in 0 .. (Word - 1)
    BY <1>2, <1>3
  <2>. QED BY <1>3, <2>1, ModWord
<1>5. StatsAfter(n, key, added, table) = RowOf((b % Word), table)
  BY StatsAfterIs DEF b
<1>6. StatsAfter(n, key, added, table) = RowOf(BlocksHeld(table), table)
  BY <1>4, <1>5
<1>. DEFINE c == BlocksHeld(table)
            u == Used(table)
<1>7. /\ RowOf(c, table).blocks = c /\ RowOf(c, table).used = u
      /\ RowOf(c, table).free = MaxDataSize - u /\ RowOf(c, table).total = MaxDataSize
  BY DEF RowOf
<1>8. (MaxDataSize - u) + u = MaxDataSize
  <2>1. u \in Nat /\ MaxDataSize \in Nat
    BY <1>2, ClusterConstants
  <2>. HIDE DEF u
  <2>. QED BY <2>1
<1>. HIDE DEF c, u
<1>9. RowOf(c, table).free + RowOf(c, table).used = RowOf(c, table).total
  BY <1>7, <1>8
<1>. QED BY <1>6, <1>7, <1>9 DEF c, u

(* Without stray or lost data, the map lists what is there. *)
LEMMA ListedIsHeld ==
  ASSUME Shape, Traces, NEW n \in Nodes, n \in up, n \notin drifted, NEW key \in Keys,
         <<n, key>> \notin stray, <<n, key>> \notin lost
  PROVE  BlocksListed(key, n) = BlocksOf(store[n], key)
<1>1. Held(n, key) = BlocksOf(store[n], key)
  BY DEF Held, Holding
<1>2. Trace(n, key)
  BY DEF Traces
<1>. QED BY <1>1, <1>2 DEF Trace

-----------------------------------------------------------------------------
LEMMA PutTraces ==
  ASSUME Shape, Shape', Traces, NEW name \in Names, NEW v, NEW placed, NEW done,
         PutDone(KeyOf[name], name, v, placed, done)
  PROVE  Traces'
<1>. DEFINE key == KeyOf[name]
<1>1. key \in Keys
  BY NameIs
<1>. HIDE DEF key
<1>2. PutDone(key, name, v, placed, done)
  BY DEF key
<1>. SUFFICES ASSUME NEW n \in Nodes, NEW k \in Keys PROVE Trace(n, k)'
  BY DEF Traces
<1>. DEFINE c == Cardinality(On(placed, n))
<1>3. Trace(n, k)
  BY DEF Traces
<1>4. /\ v \in Seq(Bytes) /\ Len(v) < Word /\ Placed(v, placed)
      /\ done \subseteq NodesOf(placed) \cap up /\ up' = up
  BY <1>2 DEF PutDone
<1>5. Held(n, k)' = IF n \in done /\ k = key THEN c ELSE Held(n, k)
  <2>1. CASE n \in done
    <3>. DEFINE buf == NodeBuffer(Piece(v, placed, n))
    <3>1. store'[n] = With(store[n], key, buf)
      BY <1>2, <2>1 DEF PutDone
    <3>2. Holding(n)' = store'[n] /\ Holding(n) = store[n]
      BY <1>4, <2>1 DEF Holding
    <3>3. Len(BlockNumsIn(buf)) = c
      BY <1>4, <2>1, PieceIs
    <3>. HIDE DEF buf
    <3>4. BlocksOf(store'[n], k) = IF k = key THEN c ELSE BlocksOf(store[n], k)
      <4>1. /\ DOMAIN store'[n] = DOMAIN store[n] \cup {key}
            /\ \A j \in DOMAIN store'[n] : store'[n][j] = IF j = key THEN buf ELSE store[n][j]
        BY <3>1 DEF With
      <4>. QED BY <3>3, <4>1 DEF BlocksOf
    <3>5. Held(n, k)' = BlocksOf(store'[n], k)
      BY <3>2 DEF Held, BlocksOf
    <3>6. Held(n, k) = BlocksOf(store[n], k)
      BY <3>2 DEF Held
    <3>. QED BY <2>1, <3>4, <3>5, <3>6
  <2>2. CASE n \notin done
    <3>1. store'[n] = store[n] /\ file'[n] = file[n] /\ up' = up
      BY <1>2, <2>2 DEF PutDone
    <3>. QED BY <2>2, <3>1 DEF Held, Holding, BlocksOf
  <2>. QED BY <2>1, <2>2
<1>6. c \in Nat /\ (n \in done => c # 0) /\ (n \notin NodesOf(placed) => c = 0)
  <2>1. IsFiniteSet(On(placed, n)) /\ c \in Nat /\ (n \in NodesOf(placed) => On(placed, n) # {})
    BY <1>4, PieceIs
  <2>2. n \notin NodesOf(placed) => On(placed, n) = {}
    BY DEF NodesOf, On
  <2>. QED BY <1>4, <2>1, <2>2, FS_EmptySet
<1>7. /\ Held(n, k) \in Nat /\ BlocksListed(k, n) \in Nat
      /\ (n \notin NodesOf(Listed(k)) => BlocksListed(k, n) = 0)
  <2>1. On(Listed(k), n) = {} => BlocksListed(k, n) = 0
    BY ListedIs, FS_EmptySet
  <2>. QED BY <2>1, HoldingIs, ListedIs
<1>. HIDE DEF c
<1>8. CASE /\ done = NodesOf(placed) /\ kbn' = With(kbn, key, placed)
           /\ stray' = (stray \cup ((NodesOf(Listed(key)) \X {key}) \ lost)) \ (done \X {key})
           /\ lost' = lost \ (Nodes \X {key})
           /\ drifted' = drifted \cup {m \in done : <<m, key>> \in stray \cup lost}
  <2>1. BlocksListed(k, n)' = IF k = key THEN c ELSE BlocksListed(k, n)
    <3>1. Listed(k)' = IF k = key THEN placed ELSE Listed(k)
      BY <1>8 DEF Listed, With
    <3>. QED BY <3>1 DEF BlocksListed, On, c
  <2>2. CASE k # key
    <3>1. /\ <<n, k>> \in lost' <=> <<n, k>> \in lost
          /\ <<n, k>> \in stray' <=> <<n, k>> \in stray
          /\ n \in drifted => n \in drifted'
      BY <1>8, <2>2
    <3>. QED BY <1>3, <1>5, <2>1, <2>2, <3>1, TraceSame
  <2>3. CASE k = key /\ n \in done
    <3>1. Held(n, k)' = c /\ BlocksListed(k, n)' = c /\ <<n, k>> \notin lost'
      BY <1>5, <1>8, <2>1, <2>3
    <3>. QED BY <1>6, <2>3, <3>1 DEF Trace
  <2>4. CASE k = key /\ n \notin done
    <3>1. Held(n, k)' = Held(n, k) /\ BlocksListed(k, n)' = 0 /\ <<n, k>> \notin lost'
      BY <1>5, <1>6, <1>8, <2>1, <2>4
    <3>2. ASSUME <<n, k>> \notin stray', n \notin drifted' \/ ~FullLength(k), Held(n, k) # 0 PROVE FALSE
      <4>1. <<n, k>> \notin stray /\ (n \notin NodesOf(Listed(k)) \/ <<n, k>> \in lost)
        BY <1>8, <2>4, <3>2
      <4>2. <<n, k>> \notin lost
        BY <1>3, <3>2 DEF Trace
      <4>3. n \notin drifted \/ ~FullLength(k)
        BY <1>8, <3>2
      <4>4. BlocksListed(k, n) = Held(n, k)
        BY <1>3, <3>2, <4>1, <4>3 DEF Trace
      <4>. QED BY <1>7, <3>2, <4>1, <4>2, <4>4
    <3>3. (FullLength(k))' <=> FullLength(k)
      BY DEF FullLength
    <3>. QED BY <3>1, <3>2, <3>3 DEF Trace
  <2>. QED BY <2>2, <2>3, <2>4
<1>9. CASE /\ kbn' = kbn
           /\ stray' = stray \cup (done \X {key})
           /\ lost' = lost \ (done \X {key})
           /\ drifted' = drifted \cup done
  <2>1. BlocksListed(k, n)' = BlocksListed(k, n)
    BY <1>9 DEF BlocksListed, Listed
  <2>2. CASE k # key \/ n \notin done
    <3>1. /\ <<n, k>> \in lost' <=> <<n, k>> \in lost
          /\ <<n, k>> \in stray' <=> <<n, k>> \in stray
          /\ n \in drifted => n \in drifted'
      BY <1>9, <2>2
    <3>. QED BY <1>3, <1>5, <2>1, <2>2, <3>1, TraceSame
  <2>3. CASE k = key /\ n \in done
    <3>1. Held(n, k)' = c /\ <<n, k>> \notin lost' /\ <<n, k>> \in stray'
      BY <1>5, <1>9, <2>3
    <3>. QED BY <1>6, <2>3, <3>1 DEF Trace
  <2>. QED BY <2>2, <2>3
<1>. QED BY <1>2, <1>8, <1>9 DEF PutDone

LEMMA WithoutIs ==
  ASSUME NEW table, NEW key, NEW k
  PROVE  BlocksOf(Without(table, key), k) = IF k = key THEN 0 ELSE BlocksOf(table, k)
BY DEF Without, Restrict, BlocksOf

LEMMA DeleteTraces ==
  ASSUME Shape, Shape', Traces, NEW name \in Names, NEW done, DeleteDone(KeyOf[name], name, done)
  PROVE  Traces'
<1>. DEFINE key == KeyOf[name]
<1>1. DeleteDone(key, name, done)
  OBVIOUS
<1>. HIDE DEF key
<1>. SUFFICES ASSUME NEW n \in Nodes, NEW k \in Keys PROVE Trace(n, k)'
  BY DEF Traces
<1>2. Trace(n, k)
  BY DEF Traces
<1>3. done \subseteq NodesOf(Listed(key)) \cap up /\ up' = up /\ file' = file
      /\ \A m \in done : key \in DOMAIN store[m]
  BY <1>1 DEF DeleteDone
<1>4. Held(n, k)' = IF n \in done /\ k = key THEN 0 ELSE Held(n, k)
  <2>1. CASE n \in done
    <3>1. store'[n] = Without(store[n], key)
      BY <1>1, <2>1 DEF DeleteDone
    <3>2. Holding(n)' = store'[n] /\ Holding(n) = store[n]
      BY <1>3, <2>1 DEF Holding
    <3>3. Held(n, k)' = BlocksOf(store'[n], k)
      BY <3>2 DEF Held, BlocksOf
    <3>4. Held(n, k) = BlocksOf(store[n], k)
      BY <3>2 DEF Held
    <3>. QED BY <2>1, <3>1, <3>3, <3>4, WithoutIs
  <2>2. CASE n \notin done
    <3>1. store'[n] = store[n]
      BY <1>1, <2>2 DEF DeleteDone
    <3>. QED BY <1>3, <2>2, <3>1 DEF Held, Holding, BlocksOf
  <2>. QED BY <2>1, <2>2
<1>5. /\ Held(n, k) \in Nat /\ BlocksListed(k, n) \in Nat
      /\ (n \notin NodesOf(Listed(k)) => BlocksListed(k, n) = 0)
      /\ (k = key /\ n \in done => Held(n, k) # 0)
  <2>1. On(Listed(k), n) = {} => BlocksListed(k, n) = 0
    BY ListedIs, FS_EmptySet
  <2>2. n \in done => Holding(n) = store[n]
    BY <1>3 DEF Holding
  <2>. QED BY <1>3, <2>1, <2>2, HoldingIs, ListedIs
<1>6. /\ <<n, k>> \in stray' <=> <<n, k>> \in stray /\ ~(k = key /\ n \in done)
      /\ n \in drifted => n \in drifted'
  BY <1>1 DEF DeleteDone
<1>7. CASE done = NodesOf(Listed(key)) /\ kbn' = Without(kbn, key) /\ lost' = lost
  <2>1. BlocksListed(k, n)' = IF k = key THEN 0 ELSE BlocksListed(k, n)
    <3>1. Listed(k)' = IF k = key THEN <<>> ELSE Listed(k)
      BY <1>7 DEF Listed, Without, Restrict
    <3>2. CASE k = key
      <4>1. BlocksListed(k, n)' = Cardinality({})
        BY <3>1, <3>2 DEF BlocksListed
      <4>. QED BY <3>2, <4>1, FS_EmptySet
    <3>3. CASE k # key
      BY <3>1, <3>3 DEF BlocksListed
    <3>. QED BY <3>2, <3>3
  <2>2. CASE k # key
    BY <1>2, <1>4, <1>6, <1>7, <2>1, <2>2, TraceSame
  <2>3. CASE k = key /\ n \in done
    <3>1. Held(n, k)' = 0 /\ BlocksListed(k, n)' = 0
      BY <1>4, <2>1, <2>3
    <3>. QED BY <3>1 DEF Trace
  <2>4. CASE k = key /\ n \notin done
    <3>1. BlocksListed(k, n) = 0
      BY <1>5, <1>7, <2>4
    <3>. QED BY <1>2, <1>4, <1>6, <1>7, <2>1, <2>4, <3>1, TraceSame
  <2>. QED BY <2>2, <2>3, <2>4
<1>8. CASE kbn' = kbn /\ lost' = lost \cup (done \X {key})
  <2>1. BlocksListed(k, n)' = BlocksListed(k, n)
    BY <1>8 DEF BlocksListed, Listed
  <2>2. CASE k # key \/ n \notin done
    <3>1. <<n, k>> \in lost' <=> <<n, k>> \in lost
      BY <1>8, <2>2
    <3>. QED BY <1>2, <1>4, <1>6, <2>1, <2>2, <3>1, TraceSame
  <2>3. CASE k = key /\ n \in done
    <3>1. Held(n, k)' = 0 /\ <<n, k>> \in lost'
      BY <1>4, <1>8, <2>3
    <3>. QED BY <3>1 DEF Trace
  <2>. QED BY <2>2, <2>3
<1>. QED BY <1>1, <1>7, <1>8 DEF DeleteDone

(* What a stopping or starting node holds. *)
LEMMA NodeTraces ==
  ASSUME Shape, Shape', Traces, NEW m \in Nodes, NodeStops(m) \/ NodeLosesStore(m) \/ NodeStarts(m)
  PROVE  Traces'
<1>. SUFFICES ASSUME NEW n \in Nodes, NEW k \in Keys PROVE Trace(n, k)'
  BY DEF Traces
<1>1. Trace(n, k) /\ Held(n, k) \in Nat /\ BlocksListed(k, n) \in Nat
  BY HoldingIs, ListedIs DEF Traces
<1>2. /\ store = [x \in Nodes |-> store[x]] /\ file = [x \in Nodes |-> file[x]]
      /\ InFile(store[n], file[n]) /\ kbn' = kbn
  BY DEF Shape, Basics, Tables, NodeStops, NodeLosesStore, NodeStarts
<1>3. BlocksListed(k, n)' = BlocksListed(k, n)
  BY <1>2 DEF BlocksListed, Listed
<1>4. CASE n # m \/ NodeStarts(m)
  <2>1. Holding(n)' = Holding(n)
    BY <1>2, <1>4 DEF Holding, NodeStops, NodeLosesStore, NodeStarts, bounds
  <2>2. Held(n, k)' = Held(n, k)
    BY <2>1 DEF Held, BlocksOf
  <2>3. /\ <<n, k>> \in lost' <=> <<n, k>> \in lost
        /\ <<n, k>> \in stray' <=> <<n, k>> \in stray
        /\ n \in drifted => n \in drifted'
    BY <1>4 DEF NodeStops, NodeLosesStore, NodeStarts, bounds, ghosts
  <2>. QED BY <1>1, <1>3, <2>2, <2>3, TraceSame
<1>5. CASE n = m /\ NodeStops(m)
  <2>1. Holding(n) = store[n] /\ Holding(n)' = file[n]
    BY <1>5 DEF NodeStops, Holding
  <2>2. Held(n, k) = BlocksOf(store[n], k) /\ Held(n, k)' = BlocksOf(file[n], k)
    BY <2>1 DEF Held, BlocksOf
  <2>3. CASE k \in DOMAIN file[n] \ DOMAIN store[n]
    <3>1. <<n, k>> \in stray' /\ <<n, k>> \notin lost'
      BY <1>5, <2>3 DEF NodeStops
    <3>2. Held(n, k)' # 0
      <4>1. IsBuffer(file[n][k])
        BY <2>3 DEF Shape, Tables, GoodTable
      <4>. QED BY <2>2, <2>3, <4>1, BufferIs DEF BlocksOf
    <3>. QED BY <3>1, <3>2 DEF Trace
  <2>4. CASE k \notin DOMAIN file[n] \ DOMAIN store[n]
    <3>1. /\ <<n, k>> \in lost' <=> <<n, k>> \in lost
          /\ <<n, k>> \in stray' <=> <<n, k>> \in stray
          /\ n \in drifted => n \in drifted'
      BY <1>5, <2>4 DEF NodeStops
    <3>2. BlocksOf(file[n], k) = BlocksOf(store[n], k)
      BY <1>2, <2>4 DEF InFile, BlocksOf
    <3>. QED BY <1>1, <1>3, <2>2, <3>1, <3>2, TraceSame
  <2>. QED BY <2>3, <2>4
<1>6. CASE n = m /\ NodeLosesStore(m)
  <2>1. Holding(n)' = <<>>
    BY <1>2, <1>6 DEF NodeLosesStore, Holding, bounds
  <2>2. Held(n, k)' = 0
    BY <2>1 DEF Held, BlocksOf
  <2>3. BlocksListed(k, n)' # 0 => <<n, k>> \in lost'
    <3>1. ASSUME BlocksListed(k, n) # 0 PROVE <<n, k>> \in lost'
      <4>1. On(Listed(k), n) # {}
        BY <3>1, ListedIs, FS_EmptySet
      <4>2. n \in NodesOf(Listed(k))
        BY <4>1, ListedIs
      <4>3. k \in DOMAIN kbn /\ n \in NodesOf(kbn[k])
        BY <4>2 DEF Listed, NodesOf
      <4>. QED BY <1>6, <4>3 DEF NodeLosesStore
    <3>. QED BY <1>3, <3>1
  <2>. QED BY <2>2, <2>3 DEF Trace
<1>. QED BY <1>4, <1>5, <1>6

LEMMA StillTraces ==
  ASSUME Traces, HealthCheck \/ MasterStops \/ UNCHANGED vars
  PROVE  Traces'
<1>. SUFFICES ASSUME NEW n \in Nodes, NEW k \in Keys PROVE Trace(n, k)'
  BY DEF Traces
<1>1. Trace(n, k)
  BY DEF Traces
<1>2. UNCHANGED <<kbn, up, store, file, stray, lost, drifted>>
  BY DEF HealthCheck, MasterStops, vars, cluster, ghosts, bounds
<1>3. Held(n, k)' = Held(n, k) /\ BlocksListed(k, n)' = BlocksListed(k, n)
  BY <1>2 DEF Held, BlocksOf, Holding, BlocksListed, Listed
<1>. QED BY <1>1, <1>2, <1>3, TraceSame

(* What the master then lists is what the nodes hold. *)
LEMMA StartLists ==
  ASSUME Shape, StartDone, NEW n \in Nodes, NEW key \in Keys
  PROVE  /\ Held(n, key)' = BlocksOf(store[n], key)
         /\ On(Listed(key), n)' = IF FullLength(key) THEN {} ELSE NumsHeld(n, key)
         /\ BlocksListed(key, n)' = IF FullLength(key) THEN 0 ELSE BlocksOf(store[n], key)
<1>1. up = Nodes /\ up' = up /\ store' = store
  BY DEF StartDone
<1>2. Holding(n)' = store[n]
  BY <1>1 DEF Holding
<1>3. Held(n, key)' = BlocksOf(store[n], key)
  BY <1>2 DEF Held, BlocksOf
<1>4. On(Listed(key), n)' = IF FullLength(key) THEN {} ELSE NumsHeld(n, key)
  <2>1. CASE key \in KeysHeld
    <3>1. Listed(key)' = [num \in UNION {NumsHeld(x, key) : x \in Nodes} |->
                            {x \in Nodes : num \in NumsHeld(x, key)}]
      BY <2>1 DEF StartDone, Listed
    <3>2. ~FullLength(key)
      BY <2>1 DEF KeysHeld
    <3>. QED BY <3>1, <3>2 DEF On
  <2>2. CASE key \notin KeysHeld
    <3>1. DOMAIN Listed(key)' = {}
      BY <2>2 DEF StartDone, Listed
    <3>2. On(Listed(key), n)' = {}
      BY <3>1 DEF On
    <3>3. ~FullLength(key) => NumsHeld(n, key) = {}
      BY <2>2 DEF KeysHeld, NumsHeld
    <3>. QED BY <3>2, <3>3
  <2>. QED BY <2>1, <2>2
<1>5. Cardinality(NumsHeld(n, key)) = BlocksOf(store[n], key)
  <2>1. CASE key \in DOMAIN store[n]
    <3>1. IsBuffer(store[n][key])
      BY <2>1 DEF Shape, Tables, GoodTable
    <3>. QED BY <2>1, <3>1, BufferIs DEF NumsHeld, BlocksOf
  <2>2. CASE key \notin DOMAIN store[n]
    BY <2>2, FS_EmptySet DEF NumsHeld, BlocksOf
  <2>. QED BY <2>1, <2>2
<1>6. BlocksListed(key, n)' = Cardinality(On(Listed(key), n)')
  BY DEF BlocksListed, On
<1>. QED BY <1>3, <1>4, <1>5, <1>6, FS_EmptySet

LEMMA StartTraces ==
  ASSUME Shape, StartDone
  PROVE  Traces'
<1>. SUFFICES ASSUME NEW n \in Nodes, NEW k \in Keys PROVE Trace(n, k)'
  BY DEF Traces
<1>. DEFINE h == BlocksOf(store[n], k)
<1>1. Held(n, k)' = h /\ BlocksListed(k, n)' = IF FullLength(k) THEN 0 ELSE h
  BY StartLists
<1>2. <<n, k>> \notin lost' /\ <<n, k>> \notin stray'
  BY DEF StartDone
<1>3. n \notin drifted' /\ h # 0 => ~FullLength(k)
  BY DEF StartDone, HoldsFullLength, BlocksOf
<1>4. (FullLength(k))' <=> FullLength(k)
  BY DEF FullLength
<1>. HIDE DEF h
<1>. QED BY <1>1, <1>2, <1>3, <1>4 DEF Trace

LEMMA BalancedPut ==
  ASSUME Shape, Shape', Traces, Stats, NEW name \in Names, NEW v, NEW placed, NEW done,
         PutDone(KeyOf[name], name, v, placed, done)
  PROVE  Stats'
<1>. DEFINE key == KeyOf[name]
<1>1. key \in Keys
  BY NameIs
<1>. HIDE DEF key
<1>2. PutDone(key, name, v, placed, done)
  BY DEF key
<1>. SUFFICES ASSUME NEW n \in Nodes, n \notin drifted' PROVE Balanced(n)'
  BY DEF Stats
<1>3. /\ v \in Seq(Bytes) /\ Len(v) < Word /\ Placed(v, placed)
      /\ done \subseteq NodesOf(placed) \cap up /\ up' = up
  BY <1>2 DEF PutDone
<1>4. n \notin drifted /\ Balanced(n) /\ (n \in done => <<n, key>> \notin stray \cup lost)
  BY <1>2 DEF PutDone, Stats
<1>5. CASE n \notin done
  <2>1. Holding(n)' = Holding(n) /\ stats'[n] = stats[n]
    BY <1>2, <1>5 DEF PutDone, Holding
  <2>. QED BY <1>4, <2>1, BalancedSame
<1>6. CASE n \in done
  <2>. DEFINE buf == NodeBuffer(Piece(v, placed, n))
              c == Cardinality(On(placed, n))
              table == store'[n]
  <2>1. n \in up /\ n \in up'
    BY <1>3, <1>6
  <2>2. table = With(store[n], key, buf) /\ stats'[n] = StatsAfter(n, key, c, table)
    BY <1>2, <1>6 DEF PutDone
  <2>3. GoodTable(table) /\ GoodTable(store[n]) /\ Used(table) <= MaxDataSize
    BY <1>2 DEF Shape, Tables, PutDone
  <2>4. IsBuffer(buf) /\ Len(BlockNumsIn(buf)) = c /\ c \in Nat
    BY <1>3, <1>6, PieceIs
  <2>5. BlocksListed(key, n) = BlocksOf(store[n], key)
    BY <1>1, <1>4, <1>6, <2>1, ListedIsHeld
  <2>. HIDE DEF buf, c
  <2>6. BlocksHeld(table) = BlocksHeld(store[n]) - BlocksOf(store[n], key) + c
    <3>1. Used(With(store[n], key, buf)) <= MaxDataSize
      BY <2>2, <2>3
    <3>2. BlocksHeld(With(store[n], key, buf))
            = BlocksHeld(store[n]) - BlocksOf(store[n], key) + Len(BlockNumsIn(buf))
      BY <1>1, <2>3, <2>4, <3>1, TableWith
    <3>. QED BY <2>2, <2>4, <3>2
  <2>. HIDE DEF table
  <2>7. /\ StatsAfter(n, key, c, table).blocks = BlocksHeld(table)
        /\ StatsAfter(n, key, c, table).used = Used(table)
        /\ StatsAfter(n, key, c, table).free + StatsAfter(n, key, c, table).used
             = StatsAfter(n, key, c, table).total
    BY <1>4, <2>1, <2>3, <2>4, <2>5, <2>6, BalancedAfter
  <2>8. Holding(n)' = table
    BY <2>1 DEF Holding, table
  <2>9. BlocksHeld(Holding(n))' = BlocksHeld(table) /\ Used(Holding(n))' = Used(table)
    BY <2>8 DEF BlocksHeld, Used
  <2>. QED BY <2>2, <2>7, <2>9 DEF Balanced
<1>. QED BY <1>5, <1>6

LEMMA BalancedDelete ==
  ASSUME Shape, Shape', Traces, Stats, NEW name \in Names, NEW done,
         DeleteDone(KeyOf[name], name, done)
  PROVE  Stats'
<1>. DEFINE key == KeyOf[name]
<1>1. key \in Keys
  BY NameIs
<1>. HIDE DEF key
<1>2. DeleteDone(key, name, done)
  BY DEF key
<1>. SUFFICES ASSUME NEW n \in Nodes, n \notin drifted' PROVE Balanced(n)'
  BY DEF Stats
<1>3. done \subseteq NodesOf(Listed(key)) \cap up /\ up' = up /\ file' = file
  BY <1>2 DEF DeleteDone
<1>4. n \notin drifted /\ Balanced(n) /\ (n \in done => <<n, key>> \notin stray)
  BY <1>2 DEF DeleteDone, Stats
<1>5. CASE n \notin done
  <2>1. store'[n] = store[n] /\ stats'[n] = stats[n]
    BY <1>2, <1>5 DEF DeleteDone
  <2>2. Holding(n)' = Holding(n)
    BY <1>3, <2>1 DEF Holding
  <2>. QED BY <1>4, <2>1, <2>2, BalancedSame
<1>6. CASE n \in done
  <2>. DEFINE table == store'[n]
  <2>1. n \in up /\ n \in up' /\ key \in DOMAIN store[n]
    BY <1>2, <1>3, <1>6 DEF DeleteDone
  <2>2. table = Without(store[n], key) /\ stats'[n] = StatsAfter(n, key, 0, table)
    BY <1>2, <1>6 DEF DeleteDone
  <2>3. GoodTable(table) /\ GoodTable(store[n])
    BY DEF Shape, Tables
  <2>4. <<n, key>> \notin lost
    <3>1. Held(n, key) # 0
      BY <2>1, HoldingIs DEF Holding
    <3>2. Trace(n, key)
      BY <1>1 DEF Traces
    <3>. QED BY <3>1, <3>2 DEF Trace
  <2>5. BlocksListed(key, n) = BlocksOf(store[n], key)
    BY <1>1, <1>4, <1>6, <2>1, <2>4, ListedIsHeld
  <2>6. BlocksHeld(table) = BlocksHeld(store[n]) - BlocksOf(store[n], key) + 0
    <3>. DEFINE a == BlocksHeld(store[n])
                b == BlocksOf(store[n], key)
    <3>1. BlocksHeld(Without(store[n], key)) = a - b
      BY <2>3, TableWithout
    <3>2. a \in Nat /\ b \in Nat
      BY <2>3, TableIs
    <3>. HIDE DEF a, b
    <3>3. a - b = a - b + 0
      BY <3>2
    <3>. QED BY <2>2, <3>1, <3>3 DEF a, b
  <2>. HIDE DEF table
  <2>7. /\ StatsAfter(n, key, 0, table).blocks = BlocksHeld(table)
        /\ StatsAfter(n, key, 0, table).used = Used(table)
        /\ StatsAfter(n, key, 0, table).free + StatsAfter(n, key, 0, table).used
             = StatsAfter(n, key, 0, table).total
    <3>1. 0 \in Nat
      OBVIOUS
    <3>. QED BY <1>4, <2>1, <2>3, <2>5, <2>6, <3>1, BalancedAfter
  <2>8. Holding(n)' = table
    BY <2>1 DEF Holding, table
  <2>9. BlocksHeld(Holding(n))' = BlocksHeld(table) /\ Used(Holding(n))' = Used(table)
    BY <2>8 DEF BlocksHeld, Used
  <2>. QED BY <2>2, <2>7, <2>9 DEF Balanced
<1>. QED BY <1>5, <1>6

LEMMA BalancedNode ==
  ASSUME Shape, Stats, NEW m \in Nodes, NodeStops(m) \/ NodeLosesStore(m) \/ NodeStarts(m)
  PROVE  Stats'
<1>. SUFFICES ASSUME NEW n \in Nodes, n \notin drifted' PROVE Balanced(n)'
  BY DEF Stats
<1>1. stats' = stats
  BY DEF NodeStops, NodeLosesStore, NodeStarts
<1>2. /\ store = [x \in Nodes |-> store[x]] /\ file = [x \in Nodes |-> file[x]]
      /\ InFile(store[n], file[n])
  BY DEF Shape, Basics, Tables
<1>3. n \notin drifted
  BY DEF NodeStops, NodeLosesStore, NodeStarts, ghosts
<1>4. Balanced(n)
  BY <1>3 DEF Stats
<1>5. CASE n # m \/ NodeStarts(m)
  <2>1. Holding(n)' = Holding(n)
    BY <1>2, <1>5 DEF Holding, NodeStops, NodeLosesStore, NodeStarts, bounds
  <2>. QED BY <1>1, <1>4, <2>1, BalancedSame
<1>6. CASE n = m /\ NodeStops(m)
  <2>1. Holding(n) = store[n] /\ Holding(n)' = file[n]
    BY <1>6 DEF NodeStops, Holding
  <2>2. DOMAIN file[n] \ DOMAIN store[n] = {}
    <3>. DEFINE R == DOMAIN file[n] \ DOMAIN store[n]
    <3>1. drifted' = IF {n} \X R = {} THEN drifted ELSE drifted \cup {n}
      BY <1>6 DEF NodeStops
    <3>2. {n} \X R = {}
      BY <3>1
    <3>3. ASSUME NEW r \in R PROVE FALSE
      <4>1. <<n, r>> \in {n} \X R
        BY <3>3
      <4>. QED BY <3>2, <4>1
    <3>. QED BY <3>3
  <2>3. DOMAIN file[n] = DOMAIN store[n] /\ \A k \in DOMAIN store[n] : file[n][k] = store[n][k]
    BY <1>2, <2>2 DEF InFile
  <2>4. BlocksHeld(file[n]) = BlocksHeld(store[n]) /\ Used(file[n]) = Used(store[n])
    BY <2>3 DEF BlocksHeld, Used
  <2>5. BlocksHeld(Holding(n))' = BlocksHeld(file[n]) /\ Used(Holding(n))' = Used(file[n])
    BY <2>1 DEF BlocksHeld, Used
  <2>. QED BY <1>1, <1>4, <2>1, <2>4, <2>5 DEF Balanced
<1>7. CASE n = m /\ NodeLosesStore(m)
  BY <1>7 DEF NodeLosesStore
<1>. QED BY <1>5, <1>6, <1>7

LEMMA BalancedStill ==
  ASSUME Stats, HealthCheck \/ MasterStops \/ UNCHANGED vars
  PROVE  Stats'
<1>1. UNCHANGED <<up, store, file, stats, drifted>>
  BY DEF HealthCheck, MasterStops, vars, cluster, ghosts, bounds
<1>2. \A n : Holding(n)' = Holding(n)
  BY <1>1 DEF Holding
<1>. QED BY <1>1, <1>2, BalancedSame DEF Stats

LEMMA BalancedStart ==
  ASSUME Shape, StartDone
  PROVE  Stats'
<1>. SUFFICES ASSUME NEW n \in Nodes, n \notin drifted' PROVE Balanced(n)'
  BY DEF Stats
<1>. DEFINE table == store[n]
            sum == SumFunction([k \in DOMAIN NumsOf(table) |-> Len(NumsOf(table)[k])])
<1>1. GoodTable(table) /\ up' = Nodes /\ store' = store /\ stats'[n] = RowOf(sum, table)
  BY DEF Shape, Tables, StartDone
<1>2. \A k \in DOMAIN table : ~FullLength(k)
  BY DEF StartDone, HoldsFullLength
<1>. HIDE DEF table
<1>3. sum = BlocksHeld(table)
  BY <1>1, <1>2, ReportedBlocks
<1>4. Holding(n)' = table
  BY <1>1 DEF Holding, table
<1>5. BlocksHeld(Holding(n))' = BlocksHeld(table) /\ Used(Holding(n))' = Used(table)
  BY <1>4 DEF BlocksHeld, Used
<1>. HIDE DEF sum
<1>. DEFINE c == BlocksHeld(table)
            u == Used(table)
<1>6. /\ stats'[n].blocks = c /\ stats'[n].used = u
      /\ stats'[n].free = MaxDataSize - u /\ stats'[n].total = MaxDataSize
  BY <1>1, <1>3 DEF RowOf
<1>7. (MaxDataSize - u) + u = MaxDataSize
  <2>1. u \in Nat /\ MaxDataSize \in Nat
    BY <1>1, TableIs, ClusterConstants
  <2>. HIDE DEF u
  <2>. QED BY <2>1
<1>8. stats'[n].free + stats'[n].used = stats'[n].total
  <2>. HIDE DEF u
  <2>. QED BY <1>6, <1>7
<1>. QED BY <1>5, <1>6, <1>8 DEF Balanced

(* What the master keeps of the nodes agrees with what they hold. *)
LEMMA InitBooks == Init => Traces /\ Stats
<1>. SUFFICES ASSUME Init PROVE Traces /\ Stats
  OBVIOUS
<1>1. ASSUME NEW n \in Nodes, NEW key \in Keys PROVE Trace(n, key)
  <2>1. Holding(n) = <<>> /\ lost = {} /\ Listed(key) = <<>>
    BY DEF Init, Holding, Listed
  <2>2. Held(n, key) = 0
    BY <2>1 DEF Held, BlocksOf
  <2>3. BlocksListed(key, n) = Cardinality({})
    BY <2>1 DEF BlocksListed
  <2>. QED BY <2>1, <2>2, <2>3, FS_EmptySet DEF Trace
<1>2. ASSUME NEW n \in Nodes PROVE Balanced(n)
  <2>1. DOMAIN Holding(n) = {} /\ stats[n] = NoStats
    BY DEF Init, Holding
  <2>2. Used(Holding(n)) = 0 /\ BlocksHeld(Holding(n)) = 0
    BY <2>1, EmptyTable
  <2>. QED BY <2>1, <2>2 DEF Balanced, NoStats
<1>. QED BY <1>1, <1>2 DEF Traces, Stats

LEMMA StepBooks ==
  ASSUME Shape, Shape', Traces, Stats, Steps
  PROVE  Traces' /\ Stats'
<1>1. Traces'
  BY PutTraces, DeleteTraces, NodeTraces, StillTraces, StartTraces DEF Steps
<1>2. Stats'
  BY BalancedPut, BalancedDelete, BalancedNode, BalancedStill, BalancedStart DEF Steps
<1>. QED BY <1>1, <1>2

LEMMA BooksHold == Spec => [](Traces /\ Stats)
<1>1. Traces /\ Stats /\ Shape /\ Shape' /\ [Next]_vars => (Traces /\ Stats)'
  BY StepIs, StepBooks
<1>. QED BY <1>1, InitBooks, ShapeHolds, PTL DEF Spec

(* The row of a running node in /stats agrees with what the node holds,    *)
(* unless the node's statistics are off: what putHandler, deleteHandler    *)
(* and the start-up sync add to and subtract from numBlocks is never more  *)
(* or less than what is on the node, and nothing wraps.                    *)
THEOREM StatsAreSound == Spec => []StatsSound
<1>1. Shape /\ Stats => StatsSound
  <2>. SUFFICES ASSUME Shape, Stats, NEW n \in up \ drifted
                PROVE  LET row == StatsRows[n]
                       IN  /\ row.blocks = SumFunction([k \in DOMAIN store[n] |-> Len(BlockNumsIn(store[n][k]))])
                           /\ row.used = Used(store[n])
                           /\ row.free + row.used = row.total
    BY DEF StatsSound
  <2>1. n \in Nodes /\ Balanced(n) /\ Holding(n) = store[n]
    BY DEF Stats, Holding, Shape, Basics
  <2>2. /\ StatsRows[n].blocks = stats[n].blocks /\ StatsRows[n].used = stats[n].used
        /\ StatsRows[n].free = stats[n].free /\ StatsRows[n].total = stats[n].total
    BY <2>1 DEF StatsRows
  <2>. QED BY <2>1, <2>2 DEF Balanced, BlocksHeld
<1>. QED BY <1>1, ShapeHolds, BooksHold, PTL

-----------------------------------------------------------------------------
(* Promises *)

(* What a promise of a value rests on: the map has every block of it, and  *)
(* a node listed for one holds its blocks, if it holds anything, now and   *)
(* after a restart.                                                        *)
ValueKept(key, v) ==
  /\ v \in Seq(Bytes) /\ Len(v) < Word
  /\ key \in DOMAIN kbn /\ Placed(v, kbn[key])
  /\ \A n \in Nodes : On(kbn[key], n) # {} /\ key \in DOMAIN file[n] =>
       /\ <<n, key>> \notin stray /\ (n \in up => key \in DOMAIN store[n])
       /\ file[n][key] = NodeBuffer(Piece(v, kbn[key], n))

PromiseKept(name, v) ==
  promised[name] = v =>
    IF v = Absent THEN KeyOf[name] \notin DOMAIN kbn
    ELSE v = Unknown \/ ValueKept(KeyOf[name], v)

Promises == \A name \in Names : \A v : PromiseKept(name, v)

LEMMA KeptSame ==
  ASSUME NEW key, NEW v, ValueKept(key, v), key \in DOMAIN kbn', kbn'[key] = kbn[key],
         \A n \in Nodes : On(kbn[key], n) # {} /\ key \in DOMAIN file'[n] =>
           /\ key \in DOMAIN file[n] /\ file'[n][key] = file[n][key]
           /\ n \in up' => key \in DOMAIN store'[n]
           /\ <<n, key>> \notin stray'
  PROVE  ValueKept(key, v)'
<1>1. /\ v \in Seq(Bytes) /\ Len(v) < Word /\ key \in DOMAIN kbn /\ Placed(v, kbn[key])
      /\ \A n \in Nodes : On(kbn[key], n) # {} /\ key \in DOMAIN file[n] =>
           /\ <<n, key>> \notin stray /\ (n \in up => key \in DOMAIN store[n])
           /\ file[n][key] = NodeBuffer(Piece(v, kbn[key], n))
  BY DEF ValueKept
<1>2. Placed(v, kbn'[key])
  BY <1>1
<1>3. ASSUME NEW n \in Nodes, On(kbn'[key], n) # {}, key \in DOMAIN file'[n]
      PROVE  /\ <<n, key>> \notin stray' /\ (n \in up' => key \in DOMAIN store'[n])
             /\ file'[n][key] = NodeBuffer(Piece(v, kbn'[key], n))
  BY <1>1, <1>3
<1>. QED BY <1>1, <1>2, <1>3 DEF ValueKept

LEMMA ValuesDiffer ==
  ASSUME NEW v \in Seq(Bytes)
  PROVE  v # Absent /\ v # Unknown /\ v # Failed
<1>. SUFFICES ASSUME v \in {Absent, Unknown, Failed} PROVE FALSE
  OBVIOUS
<1>1. Len(v) = 1 /\ v[1] \in {-1, -2, -3}
  BY DEF Absent, Unknown, Failed
<1>2. v[1] \in Bytes
  BY <1>1, SequenceIs
<1>. QED BY <1>1, <1>2 DEF Bytes

LEMMA ResultsDiffer == Absent # Unknown /\ Absent # Failed /\ Unknown # Failed
BY DEF Absent, Unknown, Failed

LEMMA InitPromises == Init => Promises
<1>. SUFFICES ASSUME Init, NEW name \in Names, NEW v PROVE PromiseKept(name, v)
  BY DEF Promises
<1>1. promised[name] = Absent /\ DOMAIN kbn = {}
  BY DEF Init
<1>. QED BY <1>1 DEF PromiseKept

LEMMA PutPromises ==
  ASSUME Shape, Shape', Promises, NEW name \in Names, NEW v, NEW placed, NEW done,
         PutDone(KeyOf[name], name, v, placed, done)
  PROVE  Promises'
<1>. DEFINE key == KeyOf[name]
<1>1. PutDone(key, name, v, placed, done)
  OBVIOUS
<1>. SUFFICES ASSUME NEW s \in Names, NEW w, promised'[s] = w PROVE PromiseKept(s, w)'
  BY DEF Promises, PromiseKept
<1>. DEFINE k == KeyOf[s]
<1>2. /\ v \in Seq(Bytes) /\ Len(v) < Word /\ Placed(v, placed)
      /\ done \subseteq NodesOf(placed) \cap up /\ up' = up
  BY <1>1 DEF PutDone
<1>3. CASE k # key
  <2>1. promised'[s] = promised[s]
    BY <1>1, <1>3 DEF PutDone, Promise
  <2>2. PromiseKept(s, w) /\ promised[s] = w
    BY <2>1 DEF Promises
  <2>. HIDE DEF key, k
  <2>3. (k \in DOMAIN kbn' <=> k \in DOMAIN kbn) /\ (k \in DOMAIN kbn => kbn'[k] = kbn[k])
    <3>1. kbn' = kbn \/ kbn' = With(kbn, key, placed)
      BY <1>1 DEF PutDone
    <3>2. CASE kbn' = kbn
      BY <3>2
    <3>3. CASE kbn' = With(kbn, key, placed)
      <4>1. k \in DOMAIN kbn' <=> k \in DOMAIN kbn
        BY <1>3, <3>3 DEF With
      <4>2. k \in DOMAIN kbn => kbn'[k] = kbn[k]
        BY <1>3, <3>3 DEF With
      <4>. QED BY <4>1, <4>2
    <3>. QED BY <3>1, <3>2, <3>3
  <2>4. ASSUME ValueKept(k, w) PROVE ValueKept(k, w)'
    <3>1. ASSUME NEW n \in Nodes, On(kbn[k], n) # {}, k \in DOMAIN file'[n]
          PROVE  /\ k \in DOMAIN file[n] /\ file'[n][k] = file[n][k]
                 /\ n \in up' => k \in DOMAIN store'[n]
                 /\ <<n, k>> \notin stray'
      <4>1. <<n, k>> \in stray' <=> <<n, k>> \in stray
        BY <1>1, <1>3 DEF PutDone
      <4>2. CASE n \in done
        <5>1. store'[n] = With(store[n], key, NodeBuffer(Piece(v, placed, n))) /\ file'[n] = store'[n]
          BY <1>1, <4>2 DEF PutDone
        <5>2. k \in DOMAIN store[n] /\ file'[n][k] = store[n][k]
          BY <1>3, <3>1, <5>1 DEF With
        <5>3. k \in DOMAIN file[n] /\ file[n][k] = store[n][k]
          BY <5>2 DEF Shape, Tables, InFile
        <5>4. k \in DOMAIN store'[n]
          BY <3>1, <5>1
        <5>. QED BY <2>4, <3>1, <4>1, <5>2, <5>3, <5>4 DEF ValueKept
      <4>3. CASE n \notin done
        <5>1. store'[n] = store[n] /\ file'[n] = file[n]
          BY <1>1, <4>3 DEF PutDone
        <5>. QED BY <1>2, <2>4, <3>1, <4>1, <5>1 DEF ValueKept
      <4>. QED BY <4>2, <4>3
    <3>2. k \in DOMAIN kbn' /\ kbn'[k] = kbn[k]
      BY <2>3, <2>4 DEF ValueKept
    <3>. QED BY <2>4, <3>1, <3>2, KeptSame
  <2>. QED BY <2>2, <2>3, <2>4 DEF PromiseKept, k
<1>4. CASE k = key /\ w = Unknown
  BY <1>4, ResultsDiffer DEF PromiseKept
<1>5. CASE k = key /\ w # Unknown
  <2>1. /\ s = name /\ w = v /\ done = NodesOf(placed) /\ kbn' = With(kbn, key, placed)
        /\ stray' = (stray \cup ((NodesOf(Listed(key)) \X {key}) \ lost)) \ (done \X {key})
    BY <1>1, <1>5 DEF PutDone, Promise
  <2>. HIDE DEF key, k
  <2>2. key \in DOMAIN kbn' /\ kbn'[key] = placed
    BY <2>1 DEF With
  <2>3. ASSUME NEW n \in Nodes, On(placed, n) # {}, key \in DOMAIN file'[n]
        PROVE  /\ <<n, key>> \notin stray' /\ (n \in up' => key \in DOMAIN store'[n])
               /\ file'[n][key] = NodeBuffer(Piece(v, placed, n))
    <3>1. n \in done
      BY <2>1, <2>3 DEF NodesOf, On
    <3>2. store'[n] = With(store[n], key, NodeBuffer(Piece(v, placed, n))) /\ file'[n] = store'[n]
      BY <1>1, <3>1 DEF PutDone
    <3>. QED BY <2>1, <3>1, <3>2 DEF With
  <2>4. ValueKept(key, v)'
    BY <1>2, <2>2, <2>3 DEF ValueKept
  <2>5. v # Absent
    BY <1>2, ValuesDiffer
  <2>. QED BY <1>5, <2>1, <2>4, <2>5 DEF PromiseKept, k
<1>. QED BY <1>3, <1>4, <1>5

LEMMA DeletePromises ==
  ASSUME Shape, Shape', Promises, NEW name \in Names, NEW done, DeleteDone(KeyOf[name], name, done)
  PROVE  Promises'
<1>. DEFINE key == KeyOf[name]
<1>1. DeleteDone(key, name, done)
  OBVIOUS
<1>. SUFFICES ASSUME NEW s \in Names, NEW w, promised'[s] = w PROVE PromiseKept(s, w)'
  BY DEF Promises, PromiseKept
<1>. DEFINE k == KeyOf[s]
<1>2. up' = up /\ file' = file /\ stray' = stray \ (done \X {key})
  BY <1>1 DEF DeleteDone
<1>3. CASE k # key
  <2>1. promised'[s] = promised[s]
    BY <1>1, <1>3 DEF DeleteDone, Promise
  <2>2. PromiseKept(s, w) /\ promised[s] = w
    BY <2>1 DEF Promises
  <2>. HIDE DEF key, k
  <2>3. (k \in DOMAIN kbn' <=> k \in DOMAIN kbn) /\ (k \in DOMAIN kbn => kbn'[k] = kbn[k])
    <3>1. kbn' = kbn \/ kbn' = Without(kbn, key)
      BY <1>1 DEF DeleteDone
    <3>. QED BY <1>3, <3>1 DEF Without, Restrict
  <2>4. ASSUME ValueKept(k, w) PROVE ValueKept(k, w)'
    <3>1. ASSUME NEW n \in Nodes, On(kbn[k], n) # {}, k \in DOMAIN file'[n]
          PROVE  /\ k \in DOMAIN file[n] /\ file'[n][k] = file[n][k]
                 /\ n \in up' => k \in DOMAIN store'[n]
                 /\ <<n, k>> \notin stray'
      <4>1. k \in DOMAIN store'[n] <=> k \in DOMAIN store[n]
        <5>1. store'[n] = store[n] \/ store'[n] = Without(store[n], key)
          BY <1>1 DEF DeleteDone
        <5>. QED BY <1>3, <5>1 DEF Without, Restrict
      <4>. QED BY <1>2, <2>4, <3>1, <4>1 DEF ValueKept
    <3>2. k \in DOMAIN kbn' /\ kbn'[k] = kbn[k]
      BY <2>3, <2>4 DEF ValueKept
    <3>. QED BY <2>4, <3>1, <3>2, KeptSame
  <2>. QED BY <2>2, <2>3, <2>4 DEF PromiseKept, k
<1>4. CASE k = key
  <2>1. w = Unknown \/ (w = Absent /\ key \notin DOMAIN kbn')
    BY <1>1, <1>4 DEF DeleteDone, Promise, Without, Restrict
  <2>. QED BY <1>4, <2>1, ResultsDiffer DEF PromiseKept
<1>. QED BY <1>3, <1>4

LEMMA NodePromises ==
  ASSUME Shape, Promises, NEW m \in Nodes, NodeStops(m) \/ NodeLosesStore(m) \/ NodeStarts(m)
  PROVE  Promises'
<1>. SUFFICES ASSUME NEW s \in Names, NEW w, promised'[s] = w PROVE PromiseKept(s, w)'
  BY DEF Promises, PromiseKept
<1>. DEFINE k == KeyOf[s]
<1>1. promised' = promised /\ kbn' = kbn
  BY DEF NodeStops, NodeLosesStore, NodeStarts, ghosts
<1>2. PromiseKept(s, w) /\ promised[s] = w
  BY <1>1 DEF Promises
<1>3. store = [x \in Nodes |-> store[x]] /\ file = [x \in Nodes |-> file[x]]
  BY DEF Shape, Basics
<1>. HIDE DEF k
<1>4. ASSUME ValueKept(k, w) PROVE ValueKept(k, w)'
  <2>1. ASSUME NEW n \in Nodes, On(kbn[k], n) # {}, k \in DOMAIN file'[n]
        PROVE  /\ k \in DOMAIN file[n] /\ file'[n][k] = file[n][k]
               /\ n \in up' => k \in DOMAIN store'[n]
               /\ <<n, k>> \notin stray'
    <3>1. k \in DOMAIN file[n] => <<n, k>> \notin stray /\ (n \in up => k \in DOMAIN store[n])
      BY <1>4, <2>1 DEF ValueKept
    <3>2. CASE NodeStops(m)
      <4>1. /\ up' = up \ {m} /\ store' = [store EXCEPT ![m] = <<>>] /\ file' = file
            /\ stray' = stray \cup ({m} \X (DOMAIN file[m] \ DOMAIN store[m])) /\ m \in up
        BY <3>2 DEF NodeStops
      <4>2. <<n, k>> \notin stray'
        BY <2>1, <3>1, <4>1
      <4>3. n \in up' => store'[n] = store[n] /\ n \in up
        BY <1>3, <4>1
      <4>. QED BY <2>1, <3>1, <4>1, <4>2, <4>3
    <3>3. CASE NodeLosesStore(m)
      <4>1. /\ up' = up /\ store' = store /\ file' = [file EXCEPT ![m] = <<>>]
            /\ stray' = {p \in stray : p[1] # m}
        BY <3>3 DEF NodeLosesStore
      <4>2. n # m /\ file'[n] = file[n]
        BY <1>3, <2>1, <4>1
      <4>. QED BY <2>1, <3>1, <4>1, <4>2
    <3>4. CASE NodeStarts(m)
      <4>1. up' = up \cup {m} /\ store' = [store EXCEPT ![m] = file[m]] /\ file' = file /\ stray' = stray
        BY <3>4 DEF NodeStarts, ghosts
      <4>2. store'[n] = IF n = m THEN file[n] ELSE store[n]
        BY <1>3, <4>1
      <4>. QED BY <2>1, <3>1, <4>1, <4>2
    <3>. QED BY <3>2, <3>3, <3>4
  <2>2. k \in DOMAIN kbn' /\ kbn'[k] = kbn[k]
    BY <1>1, <1>4 DEF ValueKept
  <2>. QED BY <1>4, <2>1, <2>2, KeptSame
<1>. QED BY <1>1, <1>2, <1>4 DEF PromiseKept, k

LEMMA StillPromises ==
  ASSUME Promises, HealthCheck \/ MasterStops \/ UNCHANGED vars
  PROVE  Promises'
<1>1. UNCHANGED <<promised, kbn, up, store, file, stray>>
  BY DEF HealthCheck, MasterStops, vars, cluster, ghosts, bounds
<1>. QED BY <1>1 DEF Promises, PromiseKept, ValueKept

(* The numbers in a buffer of a value's blocks. *)
LEMMA PieceNums ==
  ASSUME NEW v \in Seq(Bytes), Len(v) < Word, NEW placed, Placed(v, placed), NEW n
  PROVE  /\ {b.num : b \in ToSet(Piece(v, placed, n))} = On(placed, n)
         /\ ToSet(BlockNumsIn(NodeBuffer(Piece(v, placed, n)))) = On(placed, n)
<1>. DEFINE bs == Piece(v, placed, n)
            nums == On(placed, n)
<1>1. nums \subseteq 0 .. (SplitCount(v) - 1)
  BY DEF On, Placed
<1>. HIDE DEF nums
<1>2. bs = BlocksNumbered(Split(v), nums)
  BY DEF Piece, nums
<1>. HIDE DEF bs
<1>3. Laid(bs) /\ {b.num : b \in ToSet(bs)} = nums
  BY <1>1, <1>2, SplitNumbered
<1>4. ToSet(BlockNumsIn(NodeBuffer(bs))) = {b.num : b \in ToSet(bs)}
  BY <1>3, NumsInBuffer
<1>. QED BY <1>3, <1>4 DEF bs, nums

LEMMA StartPromises ==
  ASSUME Shape, Shape', Traces, Promises, StartDone
  PROVE  Promises'
<1>. SUFFICES ASSUME NEW s \in Names, NEW w, promised'[s] = w PROVE PromiseKept(s, w)'
  BY DEF Promises, PromiseKept
<1>. DEFINE key == KeyOf[s]
<1>1. key \in Keys
  BY NameIs
<1>2. CASE ~Survives(s)
  <2>1. w = Unknown
    BY <1>2 DEF StartDone
  <2>. QED BY <2>1, ResultsDiffer DEF PromiseKept
<1>3. CASE Survives(s)
  <2>1. promised[s] = w /\ PromiseKept(s, w)
    BY <1>3 DEF StartDone, Promises
  <2>2. /\ \A n \in Nodes : <<n, key>> \notin stray
        /\ w = Absent \/
             /\ ~FullLength(key) /\ DOMAIN Listed(key) # {}
             /\ \A b \in DOMAIN Listed(key) : \E n \in Listed(key)[b] : <<n, key>> \notin lost
    BY <1>3, <2>1 DEF Survives
  <2>. HIDE DEF key
  <2>3. up = Nodes /\ file' = file /\ store' = store /\ stray' = {}
        /\ \A n \in Nodes : Holding(n) = store[n]
    BY DEF StartDone, Holding
  <2>4. ASSUME NEW n \in Nodes, key \in DOMAIN store[n], ~FullLength(key)
        PROVE  BlocksListed(key, n) # 0 /\ key \in DOMAIN kbn /\ On(Listed(key), n) # {}
    <3>1. Held(n, key) # 0
      BY <2>3, <2>4, HoldingIs
    <3>2. BlocksListed(key, n) = Held(n, key)
      BY <1>1, <2>2, <2>4, <3>1 DEF Traces, Trace
    <3>3. On(Listed(key), n) # {}
      BY <3>1, <3>2, ListedIs, FS_EmptySet
    <3>4. key \in DOMAIN kbn
      BY <3>3 DEF On, Listed
    <3>. QED BY <3>1, <3>2, <3>3, <3>4
  <2>5. CASE w = Absent
    <3>1. key \notin DOMAIN kbn
      BY <2>1, <2>5 DEF PromiseKept, key
    <3>2. key \notin KeysHeld
      BY <2>4, <3>1 DEF KeysHeld
    <3>3. key \notin DOMAIN kbn'
      BY <3>2 DEF StartDone
    <3>. QED BY <2>5, <3>3 DEF PromiseKept, key
  <2>6. CASE w # Absent /\ w # Unknown
    <3>. DEFINE old == kbn[key]
                new == kbn'[key]
    <3>1. ValueKept(key, w)
      BY <2>1, <2>6 DEF PromiseKept, key
    <3>2. /\ w \in Seq(Bytes) /\ Len(w) < Word /\ key \in DOMAIN kbn /\ Placed(w, old)
          /\ Listed(key) = old /\ ~FullLength(key) /\ DOMAIN old # {}
          /\ \A b \in DOMAIN old : \E n \in old[b] : <<n, key>> \notin lost
      BY <2>2, <2>6, <3>1 DEF ValueKept, Listed
    <3>3. ASSUME NEW n \in Nodes, key \in DOMAIN store[n]
          PROVE  On(old, n) # {} /\ NumsHeld(n, key) = On(old, n)
                 /\ file[n][key] = NodeBuffer(Piece(w, old, n))
      <4>1. On(old, n) # {}
        BY <2>4, <3>2, <3>3
      <4>2. key \in DOMAIN file[n] /\ file[n][key] = store[n][key]
        BY <3>3 DEF Shape, Tables, InFile
      <4>3. file[n][key] = NodeBuffer(Piece(w, old, n))
        BY <3>1, <4>1, <4>2 DEF ValueKept
      <4>4. NumsHeld(n, key) = On(old, n)
        BY <3>2, <3>3, <4>2, <4>3, PieceNums DEF NumsHeld
      <4>. QED BY <4>1, <4>3, <4>4
    <3>4. ASSUME NEW b \in DOMAIN old
          PROVE  \E n \in Nodes : key \in DOMAIN store[n] /\ b \in NumsHeld(n, key)
      <4>1. PICK n \in old[b] : <<n, key>> \notin lost
        BY <3>2
      <4>2. n \in Nodes /\ b \in On(old, n)
        BY <3>2 DEF Placed, On
      <4>3. BlocksListed(key, n) # 0
        <5>1. IsFiniteSet(On(old, n)) /\ BlocksListed(key, n) = Cardinality(On(old, n))
          BY <3>2, ListedIs
        <5>. QED BY <4>2, <5>1, FS_EmptySet
      <4>4. Held(n, key) # 0
        BY <1>1, <4>1, <4>2, <4>3 DEF Traces, Trace
      <4>5. key \in DOMAIN store[n]
        BY <2>3, <4>2, <4>4, HoldingIs
      <4>. QED BY <3>3, <4>2, <4>5
    <3>5. key \in KeysHeld
      BY <3>2, <3>4 DEF KeysHeld
    <3>6. key \in DOMAIN kbn' /\ new = [num \in UNION {NumsHeld(n, key) : n \in Nodes} |->
                                          {n \in Nodes : num \in NumsHeld(n, key)}]
      BY <3>5 DEF StartDone
    <3>7. ASSUME NEW n \in Nodes PROVE NumsHeld(n, key) \subseteq DOMAIN old
      BY <3>3 DEF NumsHeld, On
    <3>8. DOMAIN new = DOMAIN old
      BY <3>4, <3>6, <3>7
    <3>9. \A b \in DOMAIN new : new[b] \subseteq Nodes /\ new[b] # {}
      BY <3>6
    <3>10. Placed(w, new)
      BY <3>2, <3>8, <3>9 DEF Placed
    <3>11. ASSUME NEW n \in Nodes, On(new, n) # {}
           PROVE  /\ key \in DOMAIN store[n] /\ file[n][key] = NodeBuffer(Piece(w, new, n))
      <4>1. On(new, n) = NumsHeld(n, key)
        BY <3>6 DEF On
      <4>2. key \in DOMAIN store[n]
        BY <3>11, <4>1 DEF NumsHeld
      <4>3. On(new, n) = On(old, n)
        BY <3>3, <4>1, <4>2
      <4>4. Piece(w, new, n) = Piece(w, old, n)
        BY <4>3 DEF Piece
      <4>. QED BY <3>3, <4>2, <4>4
    <3>12. ValueKept(key, w)'
      BY <2>3, <3>2, <3>6, <3>10, <3>11 DEF ValueKept
    <3>. QED BY <2>6, <3>12 DEF PromiseKept, key
  <2>7. CASE w = Unknown
    BY <2>7, ResultsDiffer DEF PromiseKept
  <2>. QED BY <2>5, <2>6, <2>7
<1>. QED BY <1>2, <1>3

LEMMA StepPromises ==
  ASSUME Shape, Shape', Traces, Promises, Steps
  PROVE  Promises'
BY PutPromises, DeletePromises, NodePromises, StillPromises, StartPromises DEF Steps

LEMMA PromisesHold == Spec => []Promises
<1>1. Promises /\ Traces /\ Shape /\ Shape' /\ [Next]_vars => Promises'
  BY StepIs, StepPromises
<1>. QED BY <1>1, InitPromises, ShapeHolds, BooksHold, PTL DEF Spec

(* A name is listed by /keys as long as its last change put a value there, *)
(* an empty one too, and no longer when that deleted it: the master's map  *)
(* has the key then, and RemoveNullChars gives back the name.              *)
THEOREM ListingIsRight == Spec => []KeysListed
<1>1. Shape /\ Promises => KeysListed
  <2>. SUFFICES ASSUME Shape, Promises, NEW name \in Names, promised[name] # Unknown,
                       Len(name) <= KeyLength
                PROVE  name \in ListKeys <=> promised[name] # Absent
    BY DEF KeysListed
  <2>. DEFINE key == KeyOf[name]
              v == promised[name]
  <2>1. PromiseKept(name, v)
    BY DEF Promises
  <2>2. RemoveNullChars(key) = name /\ \A k \in Keys : RemoveNullChars(k) = name => k = key
    BY NameBack
  <2>3. DOMAIN kbn \subseteq Keys
    BY DEF Shape, Maps
  <2>4. name \in ListKeys <=> key \in DOMAIN kbn
    BY <2>2, <2>3 DEF ListKeys
  <2>5. CASE v = Absent
    BY <2>1, <2>4, <2>5 DEF PromiseKept
  <2>6. CASE v # Absent
    BY <2>1, <2>4, <2>6 DEF PromiseKept, ValueKept
  <2>. QED BY <2>5, <2>6
<1>. QED BY <1>1, ShapeHolds, PromisesHold, PTL

-----------------------------------------------------------------------------
(* Reading back *)

(* InOrder has every member of a set of numbers. *)
LEMMA OrderIs ==
  ASSUME NEW S \in SUBSET Nat, IsFiniteSet(S)
  PROVE  InOrder(S) \in [1 .. Cardinality(S) -> S] /\ ToSet(InOrder(S)) = S
<1>. DEFINE c == Cardinality(S)
            o == InOrder(S)
<1>1. c \in Nat
  BY FS_CardinalityType
<1>2. /\ \A m \in S : Cardinality(Below(S, m)) \in 0 .. (c - 1)
      /\ \A i \in 0 .. (c - 1) : \E m \in S : Cardinality(Below(S, m)) = i
      /\ \A m \in S, k \in S : Cardinality(Below(S, m)) = Cardinality(Below(S, k)) => m = k
  BY RanksAreAll
<1>3. o = [i \in 1 .. c |-> CHOOSE m \in S : Cardinality(Below(S, m)) = i - 1]
  BY DEF InOrder, Below
<1>. HIDE DEF c, o
<1>4. ASSUME NEW i \in 1 .. c PROVE o[i] \in S /\ Cardinality(Below(S, o[i])) = i - 1
  <2>1. i - 1 \in 0 .. (c - 1)
    BY <1>1
  <2>2. \E m \in S : Cardinality(Below(S, m)) = i - 1
    BY <1>2, <2>1
  <2>. QED BY <1>3, <2>2
<1>5. o \in [1 .. c -> S]
  BY <1>3, <1>4
<1>6. ASSUME NEW m \in S PROVE \E i \in 1 .. c : o[i] = m
  <2>. DEFINE r == Cardinality(Below(S, m))
  <2>1. r \in 0 .. (c - 1)
    BY <1>2
  <2>. HIDE DEF r
  <2>2. r + 1 \in 1 .. c /\ (r + 1) - 1 = r
    BY <1>1, <2>1
  <2>3. o[r + 1] \in S /\ Cardinality(Below(S, o[r + 1])) = r
    BY <1>4, <2>2
  <2>4. o[r + 1] = m
    BY <1>2, <2>3 DEF r
  <2>. QED BY <2>2, <2>4
<1>7. ToSet(o) = S
  BY <1>5, <1>6 DEF ToSet
<1>. QED BY <1>5, <1>7 DEF c, o

LEMMA OrderOfAll ==
  ASSUME NEW n \in Nat
  PROVE  InOrder(0 .. (n - 1)) = [i \in 1 .. n |-> i - 1]
<1>. DEFINE S == 0 .. (n - 1)
<1>1. Cardinality(S) = n
  BY FS_Interval
<1>2. ASSUME NEW m \in S PROVE Cardinality({k \in S : k < m}) = m
  <2>1. {k \in S : k < m} = 0 .. (m - 1)
    OBVIOUS
  <2>2. Cardinality(0 .. (m - 1)) = m
    BY FS_Interval
  <2>. QED BY <2>1, <2>2
<1>3. InOrder(S) = [i \in 1 .. n |-> CHOOSE m \in S : Cardinality({k \in S : k < m}) = i - 1]
  BY <1>1 DEF InOrder
<1>4. ASSUME NEW i \in 1 .. n
      PROVE  (CHOOSE m \in S : Cardinality({k \in S : k < m}) = i - 1) = i - 1
  <2>1. i - 1 \in S
    OBVIOUS
  <2>2. \A m \in S : Cardinality({k \in S : k < m}) = i - 1 <=> m = i - 1
    BY <1>2
  <2>. HIDE DEF S
  <2>. QED BY <2>1, <2>2
<1>. HIDE DEF S
<1>5. InOrder(S) = [i \in 1 .. n |-> i - 1]
  BY <1>3, <1>4
<1>. QED BY <1>5 DEF S

LEMMA LeastOf ==
  ASSUME NEW S \in SUBSET Nat, S # {}
  PROVE  Min(S) \in S
<1>1. PICK m \in S : \A k \in S : m <= k
  BY LeastExists
<1>2. Min(S) = m
  BY <1>1, LeastMember
<1>. QED BY <1>2

(* What a node sends for some of the blocks it holds. *)
LEMMA GetIs ==
  ASSUME NEW v \in Seq(Bytes), Len(v) < Word, NEW placed, Placed(v, placed), NEW n \in NodesOf(placed),
         NEW key \in Keys, NEW table, table[key] = NodeBuffer(Piece(v, placed, n)),
         NEW nums, nums \subseteq On(placed, n)
  PROVE  /\ ToSet(InOrder(nums)) = nums
         /\ ToSet(DecodeBlocks(NodeGet(table, key, EncodeNums(InOrder(nums)))))
              = {b \in ToSet(Split(v)) : b.num \in nums}
<1>. DEFINE bs == Piece(v, placed, n)
            W == 0 .. (Word - 1)
<1>1. bs \in Seq(Blocks) /\ IsFiniteSet(On(placed, n)) /\ BlocksIn(NodeBuffer(bs)) = bs
  BY PieceIs
<1>2. On(placed, n) \subseteq W
  BY PlacedIsPlaced DEF On, IsPlaced
<1>3. IsFiniteSet(nums) /\ nums \subseteq W /\ nums \in SUBSET Nat
  BY <1>1, <1>2, FS_Subset
<1>4. InOrder(nums) \in [1 .. Cardinality(nums) -> nums] /\ ToSet(InOrder(nums)) = nums
      /\ Cardinality(nums) \in Nat
  BY <1>3, OrderIs, FS_CardinalityType
<1>5. InOrder(nums) \in Seq(W)
  <2>. HIDE DEF W
  <2>1. InOrder(nums) \in [1 .. Cardinality(nums) -> W]
    BY <1>3, <1>4
  <2>. QED BY <1>4, <2>1
<1>6. DecodeNums(EncodeNums(InOrder(nums))) = InOrder(nums)
  BY <1>5, NumsRoundTrip
<1>7. AtNode[key] = key /\ key \in Seq(Bytes) /\ Len(key) < Word
  BY KeyIs, ClusterConstants
<1>. DEFINE part == BlocksNumbered(bs, nums)
<1>8. NodeGet(table, key, EncodeNums(InOrder(nums))) = EncodeBlocks(key, part)
  BY <1>1, <1>4, <1>6, <1>7 DEF NodeGet
<1>9. part \in Seq(Blocks) /\ ToSet(part) = {b \in ToSet(bs) : b.num \in nums}
  <2>. HIDE DEF bs
  <2>. QED BY <1>1, NumberedHas
<1>10. DecodeBlocks(EncodeBlocks(key, part)) = part
  BY <1>7, <1>9, BlocksRoundTrip
<1>11. ToSet(bs) = {b \in ToSet(Split(v)) : b.num \in On(placed, n)}
  <2>1. Split(v) \in Seq(Blocks)
    BY SplitLaid
  <2>. QED BY <2>1, NumberedHas DEF Piece
<1>. HIDE DEF part, bs
<1>12. {b \in ToSet(bs) : b.num \in nums} = {b \in ToSet(Split(v)) : b.num \in nums}
  BY <1>11
<1>. QED BY <1>4, <1>8, <1>9, <1>10, <1>12

(* The value of a key comes out of its blocks. *)
LEMMA BlocksJoined ==
  ASSUME NEW v \in Seq(Bytes), Len(v) < Word, NEW got, got = ToSet(Split(v))
  PROVE  Joined(got) = v
<1>. DEFINE n == SplitCount(v)
            Data(num) == (CHOOSE b \in got : b.num = num).data
            inOrder == InOrder({b.num : b \in got})
            parts == [i \in DOMAIN inOrder |-> Data(inOrder[i])]
<1>1. n \in Nat /\ Len(Split(v)) = n /\ Split(v) \in Seq(Blocks)
  BY SplitLaid
<1>2. DOMAIN Split(v) = 1 .. n
  BY <1>1, SequenceIs
<1>3. inOrder = [i \in 1 .. n |-> i - 1]
  <2>1. {b.num : b \in got} = 0 .. (n - 1)
    BY SplitNums
  <2>. HIDE DEF n
  <2>. QED BY <1>1, <2>1, OrderOfAll
<1>4. ASSUME NEW i \in 1 .. n PROVE Data(i - 1) = Split(v)[i].data
  <2>1. Split(v)[i] \in got /\ Split(v)[i].num = i - 1
    BY <1>2, SplitBlock DEF ToSet
  <2>2. ASSUME NEW b \in got, b.num = i - 1 PROVE b = Split(v)[i]
    <3>1. PICK j \in 1 .. n : b = Split(v)[j]
      BY <1>2 DEF ToSet
    <3>2. b.num = j - 1
      BY <3>1, SplitBlock
    <3>3. j = i
      BY <1>1, <2>2, <3>2
    <3>. QED BY <3>1, <3>3
  <2>3. (CHOOSE b \in got : b.num = i - 1) = Split(v)[i]
    BY <2>1, <2>2
  <2>. QED BY <2>3
<1>. HIDE DEF inOrder, Data
<1>5. parts = [i \in 1 .. n |-> Data(i - 1)]
  BY <1>3
<1>. HIDE DEF parts, n
<1>6. Len(parts) = n /\ (n = 0 => parts = <<>>) /\ \A i \in 1 .. n : parts[i] = Split(v)[i].data
  <2>1. \A i \in 1 .. n : parts[i] = Split(v)[i].data
    BY <1>4, <1>5
  <2>2. Len(parts) = n
    BY <1>1, <1>5
  <2>3. n = 0 => parts = <<>>
    BY <1>5
  <2>. QED BY <2>1, <2>2, <2>3
<1>7. FlattenSeq(parts) = v
  BY <1>6, SplitJoins DEF n
<1>. QED BY <1>7 DEF parts, inOrder, Data, Joined

LEMMA ReadValue ==
  ASSUME Shape, Traces, NEW name \in Names, NEW v, ValueKept(KeyOf[name], v)
  PROVE  Read(name) = v \/ (Read(name) = Failed /\ ~Kept(name))
<1>. DEFINE key == KeyOf[name]
            nodes == kbn[key]
            From(b) == Min(nodes[b] \cap healthy)
            Of(n) == {b \in DOMAIN nodes : From(b) = n}
            asked == {From(b) : b \in DOMAIN nodes}
            Sends(n) == ToSet(DecodeBlocks(NodeGet(store[n], key, EncodeNums(InOrder(Of(n))))))
            got == UNION {Sends(n) : n \in asked}
<1>1. key \in Keys
  BY NameIs
<1>2. /\ v \in Seq(Bytes) /\ Len(v) < Word /\ key \in DOMAIN kbn /\ Placed(v, nodes)
      /\ Listed(key) = nodes
      /\ \A n \in Nodes : On(nodes, n) # {} /\ key \in DOMAIN file[n] =>
           /\ <<n, key>> \notin stray /\ (n \in up => key \in DOMAIN store[n])
           /\ file[n][key] = NodeBuffer(Piece(v, nodes, n))
  BY DEF ValueKept, Listed
<1>3. Read(name) =
        IF \E b \in DOMAIN nodes : nodes[b] \cap healthy = {} THEN Failed
        ELSE IF \E n \in asked : n \notin up \/ ~NodeHas(store[n], key, InOrder(Of(n))) THEN Failed
        ELSE Joined(got)
  BY <1>2 DEF Read
<1>4. Kept(name) => \A n \in NodesOf(nodes) : n \in healthy /\ n \in up /\ <<n, key>> \notin lost
  BY <1>2 DEF Kept
<1>. HIDE DEF key, nodes
<1>5. healthy \subseteq Nodes /\ Nodes \subseteq Nat
  BY ClusterConstants DEF Shape, Basics
<1>6. CASE \E b \in DOMAIN nodes : nodes[b] \cap healthy = {}
  <2>1. PICK b \in DOMAIN nodes : nodes[b] \cap healthy = {}
    BY <1>6
  <2>2. PICK n \in nodes[b] : TRUE
    BY <1>2 DEF Placed
  <2>3. n \in NodesOf(nodes) /\ n \notin healthy
    BY <2>1 DEF NodesOf
  <2>. QED BY <1>3, <1>4, <1>6, <2>3
<1>7. CASE ~ \E b \in DOMAIN nodes : nodes[b] \cap healthy = {}
  <2>1. ASSUME NEW b \in DOMAIN nodes
        PROVE  From(b) \in nodes[b] /\ From(b) \in healthy /\ From(b) \in Nodes
    <3>1. nodes[b] \cap healthy \in SUBSET Nat /\ nodes[b] \cap healthy # {}
      BY <1>5, <1>7
    <3>2. From(b) \in nodes[b] \cap healthy
      BY <3>1, LeastOf
    <3>. QED BY <1>5, <3>2
  <2>2. ASSUME NEW n \in asked
        PROVE  n \in NodesOf(nodes) /\ n \in Nodes /\ Of(n) \subseteq On(nodes, n) /\ On(nodes, n) # {}
    BY <2>1 DEF NodesOf, On
  <2>3. ASSUME NEW n \in asked, n \in up, key \in DOMAIN store[n]
        PROVE  store[n][key] = NodeBuffer(Piece(v, nodes, n))
    <3>1. key \in DOMAIN file[n] /\ file[n][key] = store[n][key]
      BY <2>2, <2>3 DEF Shape, Tables, InFile
    <3>. QED BY <1>2, <2>2, <3>1
  <2>4. ASSUME NEW n \in asked, n \in up, key \in DOMAIN store[n]
        PROVE  /\ NodeHas(store[n], key, InOrder(Of(n)))
               /\ Sends(n) = {b \in ToSet(Split(v)) : b.num \in Of(n)}
    <3>. DEFINE table == store[n]
                nums == Of(n)
    <3>1. table[key] = NodeBuffer(Piece(v, nodes, n)) /\ n \in NodesOf(nodes)
          /\ nums \subseteq On(nodes, n) /\ key \in DOMAIN table
      BY <2>2, <2>3, <2>4
    <3>. HIDE DEF table, nums
    <3>2. /\ ToSet(InOrder(nums)) = nums
          /\ ToSet(DecodeBlocks(NodeGet(table, key, EncodeNums(InOrder(nums)))))
               = {b \in ToSet(Split(v)) : b.num \in nums}
      BY <1>1, <1>2, <3>1, GetIs
    <3>3. ToSet(BlockNumsIn(table[key])) = On(nodes, n)
      BY <1>2, <3>1, PieceNums
    <3>4. AtNode[key] = key
      BY <1>1, KeyIs
    <3>5. NodeHas(table, key, InOrder(nums))
      BY <3>1, <3>2, <3>3, <3>4 DEF NodeHas
    <3>. QED BY <3>2, <3>5 DEF table, nums
  <2>5. CASE \E n \in asked : n \notin up \/ ~NodeHas(store[n], key, InOrder(Of(n)))
    <3>1. PICK n \in asked : n \notin up \/ ~NodeHas(store[n], key, InOrder(Of(n)))
      BY <2>5
    <3>2. Read(name) = Failed
      BY <1>3, <1>7, <2>5
    <3>3. CASE n \notin up
      BY <1>4, <2>2, <3>2, <3>3
    <3>4. CASE n \in up
      <4>1. key \notin DOMAIN store[n]
        BY <2>4, <3>1, <3>4
      <4>2. n \in Nodes /\ Holding(n) = store[n]
        BY <2>2, <3>4 DEF Holding
      <4>3. Held(n, key) = 0
        BY <4>1, <4>2, HoldingIs
      <4>4. BlocksListed(key, n) # 0
        <5>1. /\ IsFiniteSet(On(nodes, n)) /\ BlocksListed(key, n) = Cardinality(On(nodes, n))
              /\ On(nodes, n) # {}
          BY <1>2, <2>2, ListedIs
        <5>. QED BY <5>1, FS_EmptySet
      <4>5. <<n, key>> \in lost
        BY <1>1, <4>2, <4>3, <4>4 DEF Traces, Trace
      <4>. QED BY <1>4, <2>2, <3>2, <4>5
    <3>. QED BY <3>3, <3>4
  <2>6. CASE ~ \E n \in asked : n \notin up \/ ~NodeHas(store[n], key, InOrder(Of(n)))
    <3>1. ASSUME NEW n \in asked
          PROVE  Sends(n) = {b \in ToSet(Split(v)) : b.num \in Of(n)}
      <4>1. n \in up /\ NodeHas(store[n], key, InOrder(Of(n)))
        BY <2>6
      <4>2. key \in DOMAIN store[n]
        BY <1>1, <4>1, KeyIs DEF NodeHas
      <4>. QED BY <2>4, <4>1, <4>2
    <3>2. \A b \in ToSet(Split(v)) : b.num \in DOMAIN nodes
      BY <1>2, SplitNums DEF Placed
    <3>. HIDE DEF Sends
    <3>3. got = ToSet(Split(v))
      <4>1. ASSUME NEW b \in ToSet(Split(v)) PROVE b \in got
        <5>1. b.num \in DOMAIN nodes /\ From(b.num) \in asked /\ b.num \in Of(From(b.num))
          BY <3>2
        <5>2. b \in Sends(From(b.num))
          BY <3>1, <5>1
        <5>. QED BY <5>1, <5>2
      <4>2. ASSUME NEW b \in got PROVE b \in ToSet(Split(v))
        <5>1. PICK n \in asked : b \in Sends(n)
          OBVIOUS
        <5>. QED BY <3>1, <5>1
      <4>. QED BY <4>1, <4>2
    <3>4. Read(name) = Joined(got)
      BY <1>3, <1>7, <2>6 DEF Sends
    <3>. HIDE DEF got
    <3>5. Joined(got) = v
      BY <1>2, <3>3, BlocksJoined
    <3>. QED BY <3>4, <3>5
  <2>. QED BY <2>5, <2>6
<1>. QED BY <1>6, <1>7

(* A GET gives byte by byte the value of the last acknowledged PUT of its  *)
(* name, misses after a DEL, and fails only if a node that the map lists   *)
(* for the key is down, not known to be healthy or has lost the data:      *)
(* split, placed, encoded, stored, cut out of the buffers, sent back and   *)
(* joined by getHandler, whatever overwrites, restarts and losses lie      *)
(* between.                                                                *)
THEOREM ValuesReadBack == Spec => []ReadsBack
<1>1. Shape /\ Traces /\ Promises => ReadsBack
  <2>. SUFFICES ASSUME Shape, Traces, Promises, NEW name \in Names, promised[name] # Unknown
                PROVE  \/ Read(name) = promised[name]
                       \/ Read(name) = Failed /\ ~Kept(name)
    BY DEF ReadsBack
  <2>. DEFINE v == promised[name]
  <2>1. PromiseKept(name, v)
    BY DEF Promises
  <2>. HIDE DEF v
  <2>2. v = promised[name] /\ v # Unknown
    BY DEF v
  <2>3. CASE v = Absent
    <3>1. KeyOf[name] \notin DOMAIN kbn
      BY <2>1, <2>2, <2>3 DEF PromiseKept
    <3>2. Read(name) = Absent
      BY <3>1 DEF Read
    <3>. QED BY <2>2, <2>3, <3>2
  <2>4. CASE v # Absent
    <3>1. ValueKept(KeyOf[name], v)
      BY <2>1, <2>2, <2>4 DEF PromiseKept
    <3>2. Read(name) = v \/ (Read(name) = Failed /\ ~Kept(name))
      BY <3>1, ReadValue
    <3>. QED BY <2>2, <3>2
  <2>. QED BY <2>3, <2>4
<1>. QED BY <1>1, ShapeHolds, BooksHold, PromisesHold, PTL
=============================================================================
