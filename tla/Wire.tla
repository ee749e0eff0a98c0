-------------------------------- MODULE Wire --------------------------------
(***************************************************************************)
(* What the programs of rackkey say to each other and to the store file,   *)
(* byte by byte: key names and request paths, the blocks of a value, the   *)
(* payloads of src/src/shared/block.cpp and payloads.cpp, and the layout   *)
(* of a key's buffer on a storage node.  This module has no state.         *)
(*                                                                         *)
(* A byte is a number below Base, a text or a buffer a sequence of bytes,  *)
(* an integer field IntSize bytes with the lowest first.  A map of the     *)
(* code is a function whose domain is the set of keys it has.              *)
(***************************************************************************)
EXTENDS Extents, SequencesExt

CONSTANTS Base,           \* 256
          IntSize,        \* bytes of an integer field, 4
          KeyLength,      \* config keyLengthMax, 50
          DataBlockSize   \* config dataBlockSize, 4096

ASSUME BaseAssumption == Base \in Nat \ {0, 1}
ASSUME IntSizeAssumption == IntSize \in Nat \ {0}
ASSUME KeyLengthAssumption == KeyLength \in Nat \ {0}
ASSUME DataBlockAssumption == DataBlockSize \in Nat \ {0}

Bytes == 0 .. (Base - 1)

(* The powers of Base.  Unsigned arithmetic is modulo Word.                *)
Power[i \in 0 .. IntSize] == IF i = 0 THEN 1 ELSE Base * Power[i - 1]
Word == Power[IntSize]

Nul == 0
Slash == 47

-----------------------------------------------------------------------------
(* Integer fields *)

Uint(n) ==
  LET rest[i \in 0 .. IntSize] == IF i = 0 THEN n ELSE rest[i - 1] \div Base
  IN  [i \in 1 .. IntSize |-> rest[i - 1] % Base]

(* The integer whose field begins at position at of a buffer. *)
UintAt(buf, at) ==
  LET top[i \in 0 .. IntSize] ==
        IF i = 0 THEN 0 ELSE Base * top[i - 1] + buf[at + IntSize - i]
  IN  top[IntSize]

UintsAt(buf, at, n) == [i \in 1 .. n |-> UintAt(buf, at + (i - 1) * IntSize)]

-----------------------------------------------------------------------------
(* Key names *)

(* StringUtils::fixedSize: cut off or filled up with nulls. *)
FixedSize(s, size) == [i \in 1 .. size |-> IF i <= Len(s) THEN s[i] ELSE Nul]

(* StringUtils::removeNullChars *)
RemoveNullChars(s) == FlattenSeq([i \in DOMAIN s |-> IF s[i] = Nul THEN <<>> ELSE <<s[i]>>])

(* A C string ends at its first null. *)
CString(s) ==
  LET nuls == {i \in DOMAIN s : s[i] = Nul}
  IN  IF nuls = {} THEN s ELSE SubSeq(s, 1, Min(nuls) - 1)

(* The name a BAT entry keeps of a key: strncpy into one character less    *)
(* than the field has.                                                     *)
EntryName(key) == CString(SubSeq(key, 1, KeyLength - 1))

(* ApiUtils::parsePath: <<endpoint, key>>. *)
ParsePath(uri) ==
  LET clean   == IF Last(uri) = Slash THEN Front(uri) ELSE uri
      slashes == {i \in DOMAIN clean : clean[i] = Slash}
  IN  IF slashes \subseteq {1} THEN <<clean, <<>>>>
      ELSE <<SubSeq(clean, 1, Max(slashes) - 1),
             SubSeq(clean, Max(slashes) + 1, Len(clean))>>

(* A path to the store, as it arrives: the network ends it at a null. *)
StorePath(name) == CString(<<Slash, 115, Slash>> \o name)

(* Mutant: short keys are not filled up. *)
KeyInUnpadded(uri) == ParsePath(uri)[2]

(* The key by which the servers know the name in a path. *)
KeyIn(uri) == FixedSize(ParsePath(uri)[2], KeyLength)

-----------------------------------------------------------------------------
(* Blocks *)

(* Mutant: the last, short block of a value is left out. *)
SplitFullBlocks(value) ==
  [i \in 1 .. (Len(value) \div DataBlockSize) |->
     [num |-> i - 1,
      data |-> SubSeq(value, (i - 1) * DataBlockSize + 1,
                      Min({i * DataBlockSize, Len(value)}))]]

(* A value's blocks, numbered from 0; all but the last are full. *)
Split(value) ==
  [i \in 1 .. CeilDiv(Len(value), DataBlockSize) |->
     [num |-> i - 1,
      data |-> SubSeq(value, (i - 1) * DataBlockSize + 1,
                      Min({i * DataBlockSize, Len(value)}))]]

(* Block::serialize, for every block of a list. *)
EncodeBlocks(key, blocks) ==
  FlattenSeq([i \in DOMAIN blocks |->
    Uint(Len(key)) \o key \o Uint(blocks[i].num) \o Uint(Len(blocks[i].data)) \o blocks[i].data])

(* One round of the loop of Block::deserialize: the block at the reader's  *)
(* position is added to those it has read.                                 *)
NextBlock(buf, reader) ==
  LET num  == reader.at + IntSize + UintAt(buf, reader.at)
      data == num + 2 * IntSize
      end  == data + UintAt(buf, num + IntSize)
  IN  IF reader.at > Len(buf) THEN reader
      ELSE [at     |-> end,
            blocks |-> Append(reader.blocks,
                              [num |-> UintAt(buf, num), data |-> SubSeq(buf, data, end - 1)])]

(* Block::deserialize, whose loop ends before Len(buf) rounds. *)
DecodeBlocks(buf) ==
  LET read[i \in 0 .. Len(buf)] ==
        IF i = 0 THEN [at |-> 1, blocks |-> <<>>] ELSE NextBlock(buf, read[i - 1])
  IN  read[Len(buf)].blocks

(* The buffer of a key on a node: its block numbers and data, in turn. *)
NodeBuffer(blocks) ==
  FlattenSeq([i \in DOMAIN blocks |-> Uint(blocks[i].num) \o blocks[i].data])

(* The blocks found in such a buffer, whose lengths are not in it: every   *)
(* block is taken to be full while there are bytes left.                   *)
BlocksIn(buf) ==
  LET Place(i) == (i - 1) * (IntSize + DataBlockSize) + 1
      Ends(i)  == Min({i * (IntSize + DataBlockSize), Len(buf)})
  IN  [i \in 1 .. CeilDiv(Len(buf), IntSize + DataBlockSize) |->
         [num |-> UintAt(buf, Place(i)), data |-> SubSeq(buf, Place(i) + IntSize, Ends(i))]]

(* The blocks of a list that have one of the numbers, in their order. *)
BlocksNumbered(blocks, nums) ==
  FlattenSeq([i \in DOMAIN blocks |-> IF blocks[i].num \in nums THEN <<blocks[i]>> ELSE <<>>])

(* The same walk, for the numbers alone (DiskStorage::getBlockNums). *)
BlockNumsIn(buf) == [i \in DOMAIN BlocksIn(buf) |-> BlocksIn(buf)[i].num]

-----------------------------------------------------------------------------
(* Payloads *)

(* BlockNumList *)
EncodeNums(nums) == FlattenSeq([i \in DOMAIN nums |-> Uint(nums[i])])
DecodeNums(buf) == UintsAt(buf, 1, Len(buf) \div IntSize)

(* SizeInfo *)
SizeOfSizeInfo == 2 * IntSize
EncodeSizeInfo(info) == Uint(info.used) \o Uint(info.total)
DecodeSizeInfo(buf, at) == [used |-> UintAt(buf, at), total |-> UintAt(buf, at + IntSize)]

(* SyncInfo: each key, the number of its blocks, their numbers; at the end *)
(* the sizes.                                                              *)
EncodeSyncInfo(numsOf, info) ==
  LET keys == SetToSeq(DOMAIN numsOf)
      Entry(k) == k \o Uint(Len(numsOf[k])) \o EncodeNums(numsOf[k])
  IN  FlattenSeq([i \in DOMAIN keys |-> Entry(keys[i])]) \o EncodeSizeInfo(info)

(* f with the value v for k, whether it had one or not. *)
With(f, k, v) == [j \in DOMAIN f \cup {k} |-> IF j = k THEN v ELSE f[j]]

(* Mutant: the last key before the sizes is not read. *)
NextKeyDropsLast(buf, end, reader) ==
  LET count == reader.at + KeyLength
      n     == UintAt(buf, count)
      next  == count + (n + 1) * IntSize
  IN  IF reader.at >= end \/ next >= end THEN reader
      ELSE [at     |-> next,
            numsOf |-> With(reader.numsOf, SubSeq(buf, reader.at, count - 1),
                            UintsAt(buf, count + IntSize, n))]

(* One round of its reader's loop: a key with its numbers is added. *)
NextKey(buf, end, reader) ==
  LET count == reader.at + KeyLength
      n     == UintAt(buf, count)
  IN  IF reader.at >= end THEN reader
      ELSE [at     |-> count + (n + 1) * IntSize,
            numsOf |-> With(reader.numsOf, SubSeq(buf, reader.at, count - 1),
                            UintsAt(buf, count + IntSize, n))]

DecodeSyncInfo(buf) ==
  LET end == Len(buf) - SizeOfSizeInfo + 1
      read[i \in 0 .. Len(buf)] ==
        IF i = 0 THEN [at |-> 1, numsOf |-> <<>>] ELSE NextKey(buf, end, read[i - 1])
  IN  [numsOf |-> read[Len(buf)].numsOf, info |-> DecodeSizeInfo(buf, end)]
=============================================================================
