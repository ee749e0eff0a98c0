------------------------- MODULE FreeSpaceMapProofs -------------------------
(***************************************************************************)
(* Theorems about FreeSpaceMap, for every width of a byte, every capacity  *)
(* and every set of lengths.                                               *)
(*                                                                         *)
(* A bit is named twice: by its byte and position, as the code does, and   *)
(* by the number of its block, as the callers do.  The first lemmas go     *)
(* from the one to the other; the steps of the scan then only count.       *)
(***************************************************************************)
EXTENDS FreeSpaceMap, TLAPS

-----------------------------------------------------------------------------
(* Bytes, bits and blocks *)

(* The map has NumEntries bytes, hence that many times BitsPerByte blocks. *)
LEMMA MapFacts ==
  /\ BitsPerByte \in Nat /\ BitsPerByte > 0
  /\ NumEntries \in Nat
  /\ MapSize \in Nat /\ MapSize = BitsPerByte * NumEntries
<1>1. BitsPerByte \in Nat /\ BitsPerByte > 0
  BY BitsAssumption
<1>2. \A a, d \in Nat : d > 0 => (a \div d) \in Nat
  OBVIOUS
<1>3. BlockCapacity + BitsPerByte - 1 \in Nat
  BY <1>1, CapacityAssumption
<1>4. NumEntries \in Nat
  BY <1>1, <1>2, <1>3 DEF NumEntries, NumEntriesFor, CeilDiv
<1>5. MapSize = BitsPerByte * NumEntries
  BY DEF MapSize, MapSizeFor, NumEntries
<1>6. \A a, b \in Nat : a * b \in Nat
  OBVIOUS
<1>. QED BY <1>1, <1>4, <1>5, <1>6

(* Bytes follow each other without overlap. *)
LEMMA BytesInOrder ==
  ASSUME NEW i \in Int, NEW j \in Int, i < j
  PROVE  /\ BitsPerByte * i \in Int /\ BitsPerByte * j \in Int
         /\ BitsPerByte * i + BitsPerByte <= BitsPerByte * j
<1>1. \A w, a, k \in Int : w * (a + k) = w * a + w * k
  OBVIOUS
<1>2. \A w, k \in Int : (w > 0 /\ k >= 1) => w * k >= w
  OBVIOUS
<1>3. PICK k \in Int : k >= 1 /\ j = i + k
  <2>1. j - i \in Int /\ j - i >= 1 /\ j = i + (j - i)
    OBVIOUS
  <2>. QED BY <2>1
<1>4. BitsPerByte * j = BitsPerByte * i + BitsPerByte * k /\ BitsPerByte * k >= BitsPerByte
  BY <1>1, <1>2, <1>3, MapFacts
<1>5. \A a, b \in Int : a * b \in Int
  OBVIOUS
<1>6. BitsPerByte * i \in Int /\ BitsPerByte * j \in Int /\ BitsPerByte * k \in Int
  BY <1>3, <1>5, MapFacts
<1>. QED BY <1>4, <1>6, MapFacts

(* The first block of a byte, and the byte after it. *)
LEMMA FirstBlock ==
  ASSUME NEW i \in Int
  PROVE  /\ BitsPerByte * i \in Int
         /\ BitsPerByte * (i + 1) = BitsPerByte * i + BitsPerByte
<1>1. \A w, a \in Int : w * (a + 1) = w * a + w /\ w * a \in Int
  OBVIOUS
<1>. QED BY <1>1, MapFacts

(* A block's number tells its byte and its bit. *)
LEMMA BlockInjective ==
  ASSUME NEW i \in Int, NEW j \in Int, NEW p \in Bits, NEW q \in Bits,
         Block(i, p) = Block(j, q)
  PROVE  i = j /\ p = q
<1>1. p \in 0 .. (BitsPerByte - 1) /\ q \in 0 .. (BitsPerByte - 1)
  BY DEF Bits
<1>2. BitsPerByte * i + p = BitsPerByte * j + q
  BY DEF Block
<1>3. CASE i < j
  BY <1>1, <1>2, <1>3, BytesInOrder, MapFacts
<1>4. CASE j < i
  BY <1>1, <1>2, <1>4, BytesInOrder, MapFacts
<1>5. CASE i = j
  BY <1>1, <1>2, <1>5, FirstBlock, MapFacts
<1>. QED BY <1>3, <1>4, <1>5

(* The bits of the map are its blocks. *)
LEMMA BlockInMap ==
  ASSUME NEW i \in Entries, NEW p \in Bits
  PROVE  Block(i, p) \in 0 .. (MapSize - 1)
<1>1. i \in Nat /\ i < NumEntries /\ NumEntries \in Nat
  BY MapFacts DEF Entries
<1>2. BitsPerByte * i + BitsPerByte <= MapSize
  BY <1>1, BytesInOrder, MapFacts
<1>3. BitsPerByte * i \in Nat
  <2>1. \A a, b \in Nat : a * b \in Nat
    OBVIOUS
  <2>. QED BY <1>1, <2>1, MapFacts
<1>. QED BY <1>2, <1>3, MapFacts DEF Block, Bits

(* Division by the width of a byte. *)
LEMMA Division ==
  ASSUME NEW b \in Nat
  PROVE  /\ b \div BitsPerByte \in Nat /\ b % BitsPerByte \in Bits
         /\ b = BitsPerByte * (b \div BitsPerByte) + (b % BitsPerByte)
<1>1. \A a, d \in Nat : d > 0 => /\ a \div d \in Nat /\ a % d \in 0 .. (d - 1)
                                 /\ a = d * (a \div d) + (a % d)
  OBVIOUS
<1>. QED BY <1>1, MapFacts DEF Bits

LEMMA EveryBlock ==
  ASSUME NEW b \in 0 .. (MapSize - 1)
  PROVE  \E i \in Entries, p \in Bits : b = Block(i, p)
<1>. DEFINE i == b \div BitsPerByte
<1>1. b \in Nat /\ b < MapSize
  BY MapFacts
<1>2. i \in Nat /\ b % BitsPerByte \in Bits /\ b = Block(i, b % BitsPerByte)
  BY <1>1, Division DEF Block
<1>3. i < NumEntries
  <2>1. CASE NumEntries < i
    BY <1>1, <1>2, <2>1, BytesInOrder, MapFacts, Division DEF Bits
  <2>2. CASE NumEntries = i
    BY <1>1, <1>2, <2>2, MapFacts, Division DEF Bits
  <2>. QED BY <1>2, <2>1, <2>2, MapFacts
<1>. QED BY <1>2, <1>3, MapFacts DEF Entries

(* A block is mapped if its bit is set. *)
LEMMA MappedBit ==
  ASSUME NEW i \in Entries, NEW p \in Bits
  PROVE  Block(i, p) \in Mapped <=> p \in bitMap[i]
<1>1. \A j \in Entries, q \in Bits : Block(i, p) = Block(j, q) => i = j /\ p = q
  BY BlockInjective, MapFacts DEF Entries
<1>. QED BY <1>1, BlockInMap DEF Mapped, IsMapped

-----------------------------------------------------------------------------
(* The bits of a run *)

(* Whole bytes from byte j on and a tail hold the run that starts with j.  *)
LEMMA WholeAndTail ==
  ASSUME NEW j \in Int, NEW m \in Nat, NEW i \in Int, NEW p \in Bits
  PROVE  LET end == j + m \div BitsPerByte
         IN  (i \in j .. (end - 1) \/ (i = end /\ p < m % BitsPerByte))
               <=> Block(i, p) \in Extent(BitsPerByte * j, m)
<1>. DEFINE d == m \div BitsPerByte
            t == m % BitsPerByte
            end == j + d
<1>1. d \in Nat /\ t \in Nat /\ t < BitsPerByte /\ m = BitsPerByte * d + t
  BY Division, MapFacts DEF Bits
<1>2. p \in Nat /\ p < BitsPerByte
  BY MapFacts DEF Bits
<1>3. /\ BitsPerByte * j \in Int /\ BitsPerByte * i \in Int /\ BitsPerByte * d \in Int
      /\ BitsPerByte * end = BitsPerByte * j + BitsPerByte * d
  <2>1. \A w, a, k \in Int : w * (a + k) = w * a + w * k /\ w * a \in Int
    OBVIOUS
  <2>. QED BY <1>1, <2>1, MapFacts
<1>4. Block(i, p) \in Extent(BitsPerByte * j, m) <=>
        /\ BitsPerByte * j <= BitsPerByte * i + p
        /\ BitsPerByte * i + p < BitsPerByte * end + t
  BY <1>1, <1>2, <1>3, MapFacts DEF Block, Extent
<1>5. CASE i < j
  BY <1>1, <1>2, <1>3, <1>4, <1>5, BytesInOrder, MapFacts
<1>6. CASE j <= i /\ i < end
  <2>1. BitsPerByte * j <= BitsPerByte * i
    BY <1>3, <1>6, BytesInOrder, MapFacts
  <2>2. BitsPerByte * i + BitsPerByte <= BitsPerByte * end
    BY <1>1, <1>6, BytesInOrder
  <2>. QED BY <1>1, <1>2, <1>3, <1>4, <1>6, <2>1, <2>2, MapFacts
<1>7. CASE i = end
  <2>1. BitsPerByte * j <= BitsPerByte * end
    <3>1. CASE d = 0
      BY <1>3, <3>1
    <3>2. CASE d > 0
      BY <1>1, <1>3, <3>2, BytesInOrder, MapFacts
    <3>. QED BY <1>1, <3>1, <3>2
  <2>. QED BY <1>1, <1>2, <1>3, <1>4, <1>7, <2>1, MapFacts
<1>8. CASE end < i
  <2>1. BitsPerByte * end + BitsPerByte <= BitsPerByte * i
    BY <1>1, <1>8, BytesInOrder
  <2>. QED BY <1>1, <1>2, <1>3, <1>4, <1>8, <2>1, MapFacts
<1>. QED BY <1>1, <1>5, <1>6, <1>7, <1>8

(* RunBits are the bits of the run, at every alignment: the unaligned      *)
(* head, the whole bytes and the tail leave out no block and add none.     *)
LEMMA RunBitsExact ==
  ASSUME NEW s \in Nat, NEW n \in Nat, NEW i \in Int, NEW p \in Bits
  PROVE  p \in RunBits(s, n, i) <=> Block(i, p) \in Extent(s, n)
<1>. DEFINE W == BitsPerByte
            first == s \div W
            r == s % W
            head == IF r # 0 THEN SmallerOf(n, W - r) ELSE 0
            next == IF r # 0 THEN first + 1 ELSE first
            whole == (n - head) \div W
            tail == (n - head) % W
<1>1. first \in Nat /\ r \in Nat /\ r < W /\ W \in Nat /\ W > 0 /\ W * first \in Int
      /\ s = W * first + r /\ W * next \in Int
  BY Division, MapFacts, FirstBlock DEF Bits
<1>2. p \in Nat /\ p < W
  BY MapFacts DEF Bits
<1>3. head \in Nat /\ head <= n /\ n - head \in Nat
  BY <1>1 DEF SmallerOf
<1>4. whole \in Nat /\ tail \in Nat /\ next \in Nat
  BY <1>1, <1>3, Division DEF Bits
<1>5. p \in RunBits(s, n, i) <=>
        \/ r # 0 /\ i = first /\ p \in r .. (r + head - 1)
        \/ ~(r # 0 /\ i = first) /\
             (i \in next .. (next + whole - 1) \/ (i = next + whole /\ p < tail))
  <2>1. p \in 0 .. (tail - 1) <=> p < tail
    BY <1>2, <1>4
  <2>2. i = next + whole => i \notin next .. (next + whole - 1)
    BY <1>4
  <2>3. RunBits(s, n, i) = CASE r # 0 /\ i = first -> r .. (r + head - 1)
                             [] i \in next .. (next + whole - 1) -> Bits
                             [] i = next + whole -> 0 .. (tail - 1)
                             [] OTHER -> {}
    BY DEF RunBits
  <2>4. CASE r # 0 /\ i = first
    <3>1. i \notin next .. (next + whole - 1) /\ i # next + whole
      BY <1>1, <1>4, <2>4
    <3>2. RunBits(s, n, i) = r .. (r + head - 1)
      BY <2>3, <2>4, <3>1
    <3>. QED BY <2>4, <3>2
  <2>5. CASE ~(r # 0 /\ i = first) /\ i \in next .. (next + whole - 1)
    <3>1. RunBits(s, n, i) = Bits
      BY <2>2, <2>3, <2>5
    <3>. QED BY <2>5, <3>1
  <2>6. CASE ~(r # 0 /\ i = first) /\ i = next + whole
    <3>1. RunBits(s, n, i) = 0 .. (tail - 1)
      BY <2>2, <2>3, <2>6
    <3>. QED BY <2>1, <2>2, <2>6, <3>1
  <2>7. CASE /\ ~(r # 0 /\ i = first)
             /\ i \notin next .. (next + whole - 1) /\ i # next + whole
    <3>1. RunBits(s, n, i) = {}
      BY <2>3, <2>7
    <3>. QED BY <2>7, <3>1
  <2>. QED BY <2>4, <2>5, <2>6, <2>7
<1>6. (i \in next .. (next + whole - 1) \/ (i = next + whole /\ p < tail))
        <=> Block(i, p) \in Extent(W * next, n - head)
  BY <1>3, <1>4, WholeAndTail
<1>7. CASE r = 0
  BY <1>1, <1>5, <1>6, <1>7
<1>8. CASE r # 0 /\ i = first
  BY <1>1, <1>2, <1>3, <1>5, <1>8 DEF SmallerOf, Block, Extent
<1>9. CASE r # 0 /\ i # first
  <2>1. W * next = W * first + W /\ W * i \in Int
    BY <1>1, <1>9, FirstBlock
  <2>2. CASE i < first
    BY <1>1, <1>2, <1>3, <1>5, <1>6, <1>9, <2>1, <2>2, BytesInOrder DEF Block, Extent
  <2>3. CASE first < i /\ head = n
    <3>1. W * first + W <= W * i
      BY <1>1, <2>3, BytesInOrder
    <3>2. n <= W - r
      BY <1>1, <1>9, <2>3 DEF SmallerOf
    <3>. QED BY <1>1, <1>2, <1>3, <1>5, <1>6, <1>9, <2>1, <2>3, <3>1, <3>2 DEF Block, Extent
  <2>4. CASE first < i /\ head # n
    <3>1. head = W - r
      BY <1>9, <2>4 DEF SmallerOf
    <3>2. W * first + W <= W * i
      BY <1>1, <2>4, BytesInOrder
    <3>. QED BY <1>1, <1>2, <1>3, <1>5, <1>6, <1>9, <2>1, <3>1, <3>2 DEF Block, Extent
  <2>. QED BY <1>1, <1>9, <2>2, <2>3, <2>4
<1>. QED BY <1>7, <1>8, <1>9

LEMMA RunBitsType ==
  ASSUME NEW s \in Nat, NEW n \in Nat, NEW i \in Int
  PROVE  RunBits(s, n, i) \subseteq Bits
<1>. DEFINE r == s % BitsPerByte
            head == IF r # 0 THEN SmallerOf(n, BitsPerByte - r) ELSE 0
            tail == (n - head) % BitsPerByte
<1>1. BitsPerByte \in Nat /\ r \in Nat /\ r < BitsPerByte
  BY Division, MapFacts DEF Bits
<1>2. head \in Nat /\ r + head <= BitsPerByte /\ n - head \in Nat
  BY <1>1 DEF SmallerOf
<1>3. tail \in Nat /\ tail < BitsPerByte
  BY <1>2, Division, MapFacts DEF Bits
<1>4. r .. (r + head - 1) \subseteq Bits /\ 0 .. (tail - 1) \subseteq Bits
  BY <1>1, <1>2, <1>3 DEF Bits
<1>. HIDE DEF head, tail, r
<1>5. \/ RunBits(s, n, i) = r .. (r + head - 1) \/ RunBits(s, n, i) = Bits
      \/ RunBits(s, n, i) = 0 .. (tail - 1) \/ RunBits(s, n, i) = {}
  BY DEF RunBits, head, tail, r
<1>. QED BY <1>4, <1>5

(* MappedBit, after a step. *)
LEMMA MappedBitNext ==
  ASSUME NEW i \in Entries, NEW p \in Bits
  PROVE  Block(i, p) \in Mapped' <=> p \in bitMap'[i]
<1>1. \A j \in Entries, q \in Bits : Block(i, p) = Block(j, q) => i = j /\ p = q
  BY BlockInjective, MapFacts DEF Entries
<1>. QED BY <1>1, BlockInMap DEF Mapped, IsMapped

(* Allocating or freeing a run changes the blocks of the run alone. *)
LEMMA RunChanges ==
  ASSUME TypeOK, NEW s \in 0 .. (MapSize - 1), NEW n \in Nat, s + n <= MapSize
  PROVE  /\ AllocateNBlocks(s, n) => Mapped' = Mapped \cup Extent(s, n)
         /\ FreeNBlocks(s, n) => Mapped' = Mapped \ Extent(s, n)
<1>1. s \in Nat /\ MapSize \in Nat /\ \A i \in Entries : i \in Int
  BY MapFacts DEF Entries
<1>2. /\ Mapped \subseteq 0 .. (MapSize - 1) /\ Mapped' \subseteq 0 .. (MapSize - 1)
      /\ Extent(s, n) \subseteq 0 .. (MapSize - 1)
  BY <1>1 DEF Mapped, Extent
<1>3. ASSUME NEW b \in 0 .. (MapSize - 1)
      PROVE  /\ AllocateNBlocks(s, n) => (b \in Mapped' <=> b \in Mapped \cup Extent(s, n))
             /\ FreeNBlocks(s, n) => (b \in Mapped' <=> b \in Mapped \ Extent(s, n))
  <2>1. PICK i \in Entries, p \in Bits : b = Block(i, p)
    BY EveryBlock
  <2>2. /\ b \in Mapped <=> p \in bitMap[i]
        /\ b \in Mapped' <=> p \in bitMap'[i]
        /\ b \in Extent(s, n) <=> p \in RunBits(s, n, i)
    BY <1>1, <2>1, MappedBit, MappedBitNext, RunBitsExact
  <2>. QED BY <2>2 DEF AllocateNBlocks, FreeNBlocks
<1>. QED BY <1>2, <1>3

-----------------------------------------------------------------------------
(* The scan *)

(* What the loop keeps besides its invariant: the length it was asked for, *)
(* and that it stops at the first bit past the last byte.                  *)
LoopInv ==
  /\ scanning => N \in Lengths
  /\ index = NumEntries => pos = 0

IInv == TypeOK /\ LoopInv /\ ScanInv

Here == Block(index, pos)
Start == IF contiguousCount = 0 THEN Here ELSE currStartBlock

(* The loop invariant, in the names just given. *)
LEMMA ScanInvNamed ==
  ScanInv <=>
    (scanning => /\ Start + contiguousCount = Here
                 /\ Extent(Start, contiguousCount) \cap Mapped = {}
                 /\ N > 0 => /\ contiguousCount < N
                             /\ \A s \in 0 .. (Start - 1) : s \notin Fits(Mapped, MapSize, N))
BY DEF ScanInv, Start, Here

(* Where the loop stands, in blocks. *)
LEMMA AtBitFacts ==
  ASSUME TypeOK, AtBit
  PROVE  /\ index \in Entries /\ pos \in Bits
         /\ Here \in 0 .. (MapSize - 1)
         /\ Block(index, pos + 1) = Here + 1
         /\ Here \in Mapped <=> pos \in bitMap[index]
<1>1. index \in Entries /\ pos \in Bits
  BY MapFacts DEF TypeOK, AtBit, Entries, Bits
<1>2. index \in Int /\ pos \in Int /\ BitsPerByte * index \in Int
  BY <1>1, FirstBlock, MapFacts DEF Entries, Bits
<1>. QED BY <1>1, <1>2, BlockInMap, MappedBit DEF Here, Block

(* Where the section being counted starts, in a type-correct state. *)
LEMMA StartFacts ==
  ASSUME IInv, scanning, Here \in Nat
  PROVE  /\ Start \in Nat /\ contiguousCount \in Nat /\ N \in Nat
         /\ Start + contiguousCount = Here
         /\ \A b \in Mapped : ~(Start <= b /\ b < Here)
         /\ N > 0 => /\ contiguousCount < N
                     /\ \A s \in Nat : s < Start => s \notin Fits(Mapped, MapSize, N)
<1>1. Start \in Nat /\ contiguousCount \in Nat /\ N \in Nat
  BY MapFacts DEF IInv, TypeOK, Start
<1>2. /\ Start + contiguousCount = Here
      /\ Extent(Start, contiguousCount) \cap Mapped = {}
      /\ N > 0 => /\ contiguousCount < N
                  /\ \A s \in 0 .. (Start - 1) : s \notin Fits(Mapped, MapSize, N)
  BY ScanInvNamed DEF IInv
<1>3. \A b \in Mapped : b \in Int
  BY MapFacts DEF Mapped
<1>. QED BY <1>1, <1>2, <1>3 DEF Extent

(* Nothing is being scanned when the map is changed, or after an answer.   *)
LEMMA NotScanning ==
  ASSUME ~scanning', N' = 0, index' = 0, pos' = 0, contiguousCount' = 0, currStartBlock' = 0,
         bitMap' \in [Entries -> SUBSET Bits],
         result' \in {None} \cup 0 .. (MapSize - 1)
  PROVE  (scanning' \in BOOLEAN) => IInv'
<1>1. 0 \in 0 .. NumEntries /\ 0 \in 0 .. BitsPerByte /\ 0 \in 0 .. MapSize
  BY MapFacts
<1>. QED BY <1>1 DEF IInv, TypeOK, LoopInv, ScanInv

LEMMA InitIInv == Init => IInv
<1>1. 0 \in 0 .. NumEntries /\ 0 \in 0 .. BitsPerByte /\ 0 \in 0 .. MapSize
  BY MapFacts
<1>2. ASSUME Init PROVE TypeOK
  <2>1. bitMap \in [Entries -> SUBSET Bits]
    BY <1>2 DEF Init
  <2>. QED BY <1>1, <1>2, <2>1 DEF Init, TypeOK
<1>3. Init => LoopInv
  BY DEF Init, LoopInv
<1>4. Init => ScanInv
  BY DEF Init, ScanInv
<1>. QED BY <1>2, <1>3, <1>4 DEF IInv

(* A call starts with an empty section at the first block. *)
LEMMA FindCallStep ==
  ASSUME IInv, NEW n \in Lengths, FindCall(n)
  PROVE  IInv'
<1>1. /\ n \in Nat /\ scanning' = TRUE /\ N' = n /\ index' = 0 /\ pos' = 0
      /\ currStartBlock' = 0 /\ contiguousCount' = 0 /\ bitMap' = bitMap /\ result' = result
  BY LengthsAssumption DEF FindCall
<1>2. 0 \in 0 .. NumEntries /\ 0 \in 0 .. BitsPerByte /\ 0 \in 0 .. MapSize
  BY MapFacts
<1>3. TypeOK' /\ LoopInv'
  BY <1>1, <1>2 DEF IInv, TypeOK, LoopInv
<1>4. Block(0, 0) = 0
  BY FirstBlock, MapFacts DEF Block
<1>5. ScanInv'
  BY <1>1, <1>4 DEF ScanInv, Extent
<1>. QED BY <1>3, <1>5 DEF IInv

(* The bit that completes a section: the section is the first that fits.   *)
LEMMA FoundFits ==
  ASSUME IInv, ScanFound
  PROVE  /\ result' \in FirstFits(Mapped, MapSize, N) /\ result' \in 0 .. (MapSize - 1)
         /\ result' = Start
<1>1. /\ Here \in 0 .. (MapSize - 1) /\ Here \notin Mapped
      /\ contiguousCount + 1 = N /\ scanning /\ result' = Start
  BY AtBitFacts DEF ScanFound, IInv, Return, SectionStart, Start, Here, AtBit
<1>2. /\ Start \in Nat /\ contiguousCount \in Nat /\ N \in Nat
      /\ Start + contiguousCount = Here
      /\ \A b \in Mapped : ~(Start <= b /\ b < Here)
      /\ N > 0 => \A s \in Nat : s < Start => s \notin Fits(Mapped, MapSize, N)
  BY <1>1, MapFacts, StartFacts
<1>3. Start + N = Here + 1 /\ N > 0 /\ Start \in 0 .. (MapSize - 1) /\ Start + N <= MapSize
  BY <1>1, <1>2, MapFacts
<1>4. Extent(Start, N) \cap Mapped = {}
  BY <1>1, <1>2, <1>3, MapFacts DEF Extent, Mapped
<1>5. Start \in Fits(Mapped, MapSize, N)
  BY <1>3, <1>4 DEF Fits
<1>6. \A t \in Fits(Mapped, MapSize, N) : Start <= t
  BY <1>2, <1>3, MapFacts DEF Fits
<1>. QED BY <1>1, <1>3, <1>5, <1>6 DEF FirstFits

(* The scan reaches the end: no run fits. *)
LEMMA NoneFits ==
  ASSUME IInv, ScanExhausted
  PROVE  FirstFits(Mapped, MapSize, N) = {}
<1>1. scanning /\ index = NumEntries /\ pos = 0
  BY DEF ScanExhausted, IInv, LoopInv
<1>2. Here = MapSize /\ MapSize \in Nat
  BY <1>1, MapFacts DEF Here, Block
<1>3. /\ Start \in Nat /\ contiguousCount \in Nat /\ N \in Nat
      /\ Start + contiguousCount = Here
      /\ N > 0 => /\ contiguousCount < N
                  /\ \A s \in Nat : s < Start => s \notin Fits(Mapped, MapSize, N)
  BY <1>1, <1>2, StartFacts
<1>4. ASSUME N > 0, NEW s \in Fits(Mapped, MapSize, N) PROVE FALSE
  <2>1. s \in Nat /\ s + N <= MapSize
    BY <1>2, <1>4 DEF Fits
  <2>2. s < Start
    BY <1>2, <1>3, <1>4, <2>1
  <2>. QED BY <1>3, <1>4, <2>1, <2>2
<1>. QED BY <1>3, <1>4 DEF FirstFits

(* A free bit prolongs the section. *)
LEMMA FreeStep ==
  ASSUME IInv, ScanFree
  PROVE  IInv'
<1>1. /\ index \in Entries /\ pos \in Bits /\ Here \in 0 .. (MapSize - 1)
      /\ Block(index, pos + 1) = Here + 1 /\ Here \notin Mapped
  BY AtBitFacts DEF ScanFree, IInv
<1>2. /\ scanning /\ scanning' = TRUE /\ N' = N /\ index' = index /\ pos' = pos + 1
      /\ bitMap' = bitMap /\ result' = result /\ currStartBlock' = Start
      /\ contiguousCount' = contiguousCount + 1 /\ contiguousCount + 1 # N
  BY DEF ScanFree, AtBit, SectionStart, Start, Here, IInv, TypeOK
<1>3. /\ Start \in Nat /\ contiguousCount \in Nat /\ N \in Nat
      /\ Start + contiguousCount = Here
      /\ \A b \in Mapped : ~(Start <= b /\ b < Here)
      /\ N > 0 => /\ contiguousCount < N
                  /\ \A s \in Nat : s < Start => s \notin Fits(Mapped, MapSize, N)
  BY <1>1, <1>2, MapFacts, StartFacts
<1>4. /\ Start \in 0 .. MapSize /\ contiguousCount + 1 \in Nat
      /\ pos + 1 \in 0 .. BitsPerByte
  BY <1>1, <1>3, MapFacts DEF Bits
<1>5. TypeOK'
  BY <1>2, <1>4 DEF IInv, TypeOK
<1>6. LoopInv'
  BY <1>1, <1>2, MapFacts DEF IInv, LoopInv, Entries
<1>7. Mapped' = Mapped /\ Here' = Here + 1 /\ Start' = Start
  BY <1>1, <1>2, <1>3 DEF Mapped, IsMapped, Here, Start
<1>8. Extent(Start, contiguousCount + 1) \cap Mapped = {}
  BY <1>1, <1>3, MapFacts DEF Extent, Mapped
<1>9. ScanInv'
  <2>1. /\ Start' + contiguousCount' = Here'
        /\ Extent(Start', contiguousCount') \cap Mapped' = {}
    BY <1>1, <1>2, <1>3, <1>7, <1>8
  <2>2. N' > 0 => /\ contiguousCount' < N'
                 /\ \A s \in 0 .. (Start' - 1) : s \notin Fits(Mapped', MapSize, N')
    BY <1>2, <1>3, <1>7
  <2>. QED BY <2>1, <2>2 DEF ScanInv, Start, Here
<1>. QED BY <1>5, <1>6, <1>9 DEF IInv

(* An allocated bit ends the section: no run that fits starts in it.       *)
LEMMA AllocatedStep ==
  ASSUME IInv, ScanAllocated
  PROVE  IInv'
<1>1. /\ index \in Entries /\ pos \in Bits /\ Here \in 0 .. (MapSize - 1)
      /\ Block(index, pos + 1) = Here + 1 /\ Here \in Mapped
  BY AtBitFacts DEF ScanAllocated, IInv
<1>2. /\ scanning /\ scanning' = TRUE /\ N' = N /\ index' = index /\ pos' = pos + 1
      /\ bitMap' = bitMap /\ result' = result /\ currStartBlock' = currStartBlock
      /\ contiguousCount' = 0
  BY DEF ScanAllocated, AtBit, IInv, TypeOK
<1>3. /\ Start \in Nat /\ contiguousCount \in Nat /\ N \in Nat
      /\ Start + contiguousCount = Here
      /\ N > 0 => /\ contiguousCount < N
                  /\ \A s \in Nat : s < Start => s \notin Fits(Mapped, MapSize, N)
  BY <1>1, <1>2, MapFacts, StartFacts
<1>4. pos + 1 \in 0 .. BitsPerByte
  BY <1>1, MapFacts DEF Bits
<1>5. TypeOK'
  BY <1>2, <1>4 DEF IInv, TypeOK
<1>6. LoopInv'
  BY <1>1, <1>2, MapFacts DEF IInv, LoopInv, Entries
<1>7. Mapped' = Mapped /\ Here' = Here + 1 /\ Start' = Here + 1
  BY <1>1, <1>2 DEF Mapped, IsMapped, Here, Start
<1>8. ASSUME N > 0, NEW s \in 0 .. Here PROVE s \notin Fits(Mapped, MapSize, N)
  <2>1. CASE s < Start
    BY <1>1, <1>3, <1>8, <2>1
  <2>2. CASE Start <= s
    <3>1. Here \in Extent(s, N)
      BY <1>1, <1>3, <1>8, <2>2, MapFacts DEF Extent
    <3>. QED BY <1>1, <3>1 DEF Fits
  <2>. QED BY <1>1, <1>3, <2>1, <2>2
<1>9. ScanInv'
  <2>1. /\ Start' + contiguousCount' = Here'
        /\ Extent(Start', contiguousCount') \cap Mapped' = {}
    BY <1>1, <1>2, <1>7 DEF Extent
  <2>2. N' > 0 => /\ contiguousCount' < N'
                 /\ \A s \in 0 .. (Start' - 1) : s \notin Fits(Mapped', MapSize, N')
    BY <1>1, <1>2, <1>3, <1>7, <1>8
  <2>. QED BY <2>1, <2>2 DEF ScanInv, Start, Here
<1>. QED BY <1>5, <1>6, <1>9 DEF IInv

(* The next byte begins with the block after the last of this one.         *)
LEMMA NextEntryStep ==
  ASSUME IInv, ScanNextEntry
  PROVE  IInv'
<1>1. /\ scanning /\ scanning' = scanning /\ N' = N /\ index' = index + 1 /\ pos' = 0
      /\ bitMap' = bitMap /\ result' = result /\ currStartBlock' = currStartBlock
      /\ contiguousCount' = contiguousCount /\ index < NumEntries /\ pos = BitsPerByte
  BY DEF ScanNextEntry
<1>2. index + 1 \in 0 .. NumEntries /\ 0 \in 0 .. BitsPerByte /\ index \in Int
  BY <1>1, MapFacts DEF IInv, TypeOK
<1>3. TypeOK' /\ LoopInv'
  BY <1>1, <1>2 DEF IInv, TypeOK, LoopInv
<1>4. Block(index + 1, 0) = Block(index, BitsPerByte)
  BY <1>2, FirstBlock, MapFacts DEF Block
<1>5. Mapped' = Mapped /\ Here' = Here
  BY <1>1, <1>4 DEF Mapped, IsMapped, Here
<1>6. ScanInv'
  BY <1>1, <1>4, <1>5 DEF IInv, ScanInv, Here
<1>. QED BY <1>3, <1>6 DEF IInv

(* An answer is given, or a run allocated or freed. *)
LEMMA ReturnStep ==
  ASSUME IInv, ScanFound \/ ScanExhausted
  PROVE  IInv'
<1>1. result' \in {None} \cup 0 .. (MapSize - 1)
  BY FoundFits DEF ScanExhausted, Return
<1>2. bitMap' \in [Entries -> SUBSET Bits]
  BY DEF ScanFound, ScanExhausted, Return, IInv, TypeOK
<1>3. /\ scanning' = FALSE /\ N' = 0 /\ index' = 0 /\ pos' = 0
      /\ contiguousCount' = 0 /\ currStartBlock' = 0
  BY DEF ScanFound, ScanExhausted, Return
<1>. QED BY <1>1, <1>2, <1>3, NotScanning

LEMMA ChangeStep ==
  ASSUME IInv, NEW n \in Lengths, NEW s \in 0 .. (MapSize - 1),
         AllocateNBlocks(s, n) \/ FreeNBlocks(s, n)
  PROVE  IInv'
<1>1. s \in Nat /\ n \in Nat /\ \A i \in Entries : i \in Int
  BY MapFacts, LengthsAssumption DEF Entries
<1>2. \A i \in Entries : RunBits(s, n, i) \subseteq Bits
  BY <1>1, RunBitsType
<1>3. bitMap' \in [Entries -> SUBSET Bits]
  BY <1>2 DEF IInv, TypeOK, AllocateNBlocks, FreeNBlocks
<1>4. ~scanning /\ UNCHANGED <<scanVars, result>>
  BY DEF AllocateNBlocks, FreeNBlocks
<1>. QED BY <1>3, <1>4 DEF IInv, TypeOK, LoopInv, ScanInv, scanVars

LEMMA NextIInv == IInv /\ [Next]_vars => IInv'
<1>. SUFFICES ASSUME IInv, [Next]_vars PROVE IInv'
  OBVIOUS
<1>1. CASE Scan
  BY <1>1, ReturnStep, FreeStep, AllocatedStep, NextEntryStep DEF Scan
<1>2. CASE \E n \in Lengths : FindCall(n)
  BY <1>2, FindCallStep
<1>3. CASE \E n \in Lengths, s \in 0 .. (MapSize - 1) : AllocateNBlocks(s, n) \/ FreeNBlocks(s, n)
  BY <1>3, ChangeStep
<1>4. CASE UNCHANGED vars
  BY <1>4 DEF vars, scanVars, IInv, TypeOK, LoopInv, ScanInv, Mapped, IsMapped
<1>. QED BY <1>1, <1>2, <1>3, <1>4 DEF Next

LEMMA SpecIInv == Spec => []IInv
BY InitIInv, NextIInv, PTL DEF Spec

-----------------------------------------------------------------------------
(* The scan never leaves the bitmap, and no mask reaches past its byte     *)
(* (free_space.cpp, all of it).                                            *)
THEOREM MapTypeCorrect == Spec => []TypeOK
<1>1. IInv => TypeOK
  BY DEF IInv
<1>. QED BY <1>1, SpecIInv, PTL

(* The loop of findNFreeBlocks counts a free run that ends where it        *)
(* stands, and has passed no run that was long enough.                     *)
THEOREM ScanKeepsItsInvariant == Spec => []ScanInv
<1>1. IInv => ScanInv
  BY DEF IInv
<1>. QED BY <1>1, SpecIInv, PTL

(* The bytes implement the abstract allocator: findNFreeBlocks answers     *)
(* with the first run that fits or with nothing if there is none, and      *)
(* allocateNBlocks and freeNBlocks change their run only.                  *)
THEOREM ImplementsAllocator == Spec => AllocatorSpec
<1>. USE DEF Allocator!vars
<1>1. Init => Allocator!Init
  <2>1. Init => Mapped = {}
    BY DEF Init, Mapped, IsMapped
  <2>. QED BY <2>1 DEF Init, Allocator!Init, Allocator!None, None
<1>2. IInv /\ [Next]_vars => [Allocator!Next]_(Allocator!vars)
  <2>. SUFFICES ASSUME IInv, [Next]_vars
                PROVE  Allocator!Next \/ UNCHANGED <<Mapped, result>>
    OBVIOUS
  <2>1. bitMap' = bitMap => Mapped' = Mapped
    BY DEF Mapped, IsMapped
  <2>fits. Allocator!FirstFits(Mapped, MapSize, N) = FirstFits(Mapped, MapSize, N)
    BY DEF Allocator!FirstFits, Allocator!Fits, Allocator!Extent, FirstFits, Fits, Extent
  <2>run. \A s, n \in Int : Allocator!Extent(s, n) = Extent(s, n)
    BY DEF Allocator!Extent, Extent
  <2>2. CASE ScanFound
    <3>1. N \in Lengths /\ Mapped' = Mapped
      BY <2>1, <2>2 DEF ScanFound, AtBit, Return, IInv, LoopInv
    <3>2. Allocator!Find(N)
      BY <2>2, <2>fits, <3>1, FoundFits DEF Allocator!Find
    <3>. QED BY <3>1, <3>2 DEF Allocator!Next
  <2>3. CASE ScanExhausted
    <3>1. N \in Lengths /\ Mapped' = Mapped /\ result' = None
      BY <2>1, <2>3 DEF ScanExhausted, Return, IInv, LoopInv
    <3>2. Allocator!Find(N)
      BY <2>3, <2>fits, <3>1, NoneFits DEF Allocator!Find, Allocator!None, None
    <3>. QED BY <3>1, <3>2 DEF Allocator!Next
  <2>4. CASE ScanFree \/ ScanAllocated \/ ScanNextEntry
    BY <2>1, <2>4 DEF ScanFree, ScanAllocated, ScanNextEntry
  <2>5. CASE \E n \in Lengths : FindCall(n)
    BY <2>1, <2>5 DEF FindCall
  <2>6. ASSUME NEW n \in Lengths, NEW s \in 0 .. (MapSize - 1),
               AllocateNBlocks(s, n) \/ FreeNBlocks(s, n)
        PROVE  Allocator!Next
    <3>1. TypeOK /\ n \in Nat /\ s + n <= MapSize /\ result' = result
      BY <2>6, LengthsAssumption DEF IInv, AllocateNBlocks, FreeNBlocks
    <3>2. Allocator!Allocate(s, n) \/ Allocator!Free(s, n)
      BY <2>6, <2>run, <3>1, RunChanges DEF Allocator!Allocate, Allocator!Free
    <3>. QED BY <3>2 DEF Allocator!Next
  <2>7. CASE UNCHANGED vars
    BY <2>1, <2>7 DEF vars
  <2>. QED BY <2>2, <2>3, <2>4, <2>5, <2>6, <2>7 DEF Next, Scan
<1>. QED BY <1>1, <1>2, SpecIInv, PTL DEF Spec, AllocatorSpec, Allocator!Spec

(* A map of whole bytes hands out blocks of the store only: with the       *)
(* capacity rounded up to bytes, the scan would go past it                 *)
(* (free_space.cpp:41-49).                                                 *)
THEOREM FindsWithinCapacity ==
  ASSUME MapSize = BlockCapacity
  PROVE  Spec => FoundWithinCapacity
<1>1. IInv /\ [Next]_vars =>
        [scanning /\ ~scanning' /\ result' # None => result' + N <= BlockCapacity]_vars
  <2>. SUFFICES ASSUME IInv, Next, scanning, ~scanning', result' # None
                PROVE  result' + N <= BlockCapacity
    OBVIOUS
  <2>1. ScanFound
    BY DEF Next, Scan, ScanFree, ScanAllocated, ScanNextEntry, ScanExhausted, Return,
       FindCall, AllocateNBlocks, FreeNBlocks
  <2>. QED BY <2>1, FoundFits DEF FirstFits, Fits
<1>. QED BY <1>1, SpecIInv, PTL DEF Spec, FoundWithinCapacity
=============================================================================
