----------------------------- MODULE WireProofs -----------------------------
(***************************************************************************)
(* Theorems about Wire, for every width of bytes, integers, keys and blocks: *)
(* what one side encodes the other decodes.  A decoder is a loop that reads *)
(* a buffer from a position; each proof says what it has read after i of its *)
(* rounds, and that a round that finds an encoded item where it stands reads *)
(* that item and stands behind it.                                         *)
(***************************************************************************)
EXTENDS Wire, DataFacts

-----------------------------------------------------------------------------
(* Integer fields *)

LEMMA Constants ==
  /\ Base \in Nat /\ Base > 1 /\ IntSize \in Nat /\ IntSize > 0
  /\ KeyLength \in Nat /\ KeyLength > 0 /\ DataBlockSize \in Nat /\ DataBlockSize > 0
BY BaseAssumption, IntSizeAssumption, KeyLengthAssumption, DataBlockAssumption

LEMMA PowerType ==
  /\ Power[0] = 1
  /\ \A i \in 1 .. IntSize : Power[i] = Base * Power[i - 1]
  /\ \A i \in 0 .. IntSize : Power[i] \in Nat /\ Power[i] > 0
<1>. DEFINE F == [i \in 1 .. IntSize |-> [x \in Nat |-> Base * x]]
            Steps(p) == p = [i \in 0 .. IntSize |-> IF i = 0 THEN 1 ELSE Base * p[i - 1]]
<1>1. PICK g : Iterates(Nat, IntSize, 1, F, g)
  <2>1. \A i \in 1 .. IntSize : \A x \in Nat : F[i][x] \in Nat
    BY Constants
  <2>. HIDE DEF F
  <2>. QED BY <2>1, Constants, IterationExists
<1>2. Steps(g)
  <2>1. g \in [0 .. IntSize -> Nat] /\ g[0] = 1
    BY <1>1 DEF Iterates
  <2>2. ASSUME NEW i \in 1 .. IntSize PROVE g[i] = Base * g[i - 1]
    <3>1. i - 1 \in 0 .. IntSize
      BY Constants
    <3>2. g[i] = F[i][g[i - 1]]
      <4>. HIDE DEF F
      <4>. QED BY <1>1 DEF Iterates
    <3>. QED BY <2>1, <3>1, <3>2
  <2>. QED BY <2>1, <2>2, Constants
<1>3. Steps(Power)
  <2>1. Power = CHOOSE p : Steps(p)
    BY DEF Power
  <2>. HIDE DEF Steps
  <2>. QED BY <1>2, <2>1
<1>4. Power[0] = 1 /\ \A i \in 1 .. IntSize : Power[i] = Base * Power[i - 1]
  BY <1>3, Constants
<1>. DEFINE Good == {i \in 0 .. IntSize : Power[i] \in Nat /\ Power[i] > 0}
<1>5. ASSUME NEW i \in 1 .. IntSize, i - 1 \in Good PROVE i \in Good
  <2>1. Power[i - 1] \in Nat /\ Power[i - 1] > 0 /\ Power[i] = Base * Power[i - 1]
    BY <1>4, <1>5
  <2>2. Power[i] \in Nat /\ Power[i] > 0
    BY ONLY <2>1, Constants
  <2>. QED BY <2>2, Constants
<1>6. \A i \in 0 .. IntSize : i \in Good
  <2>1. 0 \in Good
    BY <1>4, Constants
  <2>. HIDE DEF Good
  <2>. QED BY <1>5, <2>1, Constants, CountUp
<1>. QED BY <1>4, <1>6

LEMMA WordType == Word \in Nat /\ Word > 1
<1>1. Word = Base * Power[IntSize - 1]
  BY PowerType, Constants DEF Word
<1>2. Power[IntSize - 1] \in Nat /\ Power[IntSize - 1] > 0
  BY PowerType, Constants
<1>. QED BY ONLY <1>1, <1>2, Constants

(* What is left of a number after some of its bytes. *)
Rests(n, rest) ==
  /\ rest \in [0 .. IntSize -> Nat] /\ rest[0] = n
  /\ \A i \in 1 .. IntSize : rest[i] = rest[i - 1] \div Base

LEMMA UintIs ==
  ASSUME NEW n \in Nat
  PROVE  \E rest : Rests(n, rest) /\ Uint(n) = [i \in 1 .. IntSize |-> rest[i - 1] % Base]
<1>. DEFINE F == [i \in 1 .. IntSize |-> [x \in Nat |-> x \div Base]]
            Steps(p) == p = [i \in 0 .. IntSize |-> IF i = 0 THEN n ELSE p[i - 1] \div Base]
            rest == CHOOSE p : Steps(p)
<1>1. PICK g : Iterates(Nat, IntSize, n, F, g)
  <2>1. \A x \in Nat : x \div Base \in Nat
    BY Constants
  <2>2. \A i \in 1 .. IntSize : \A x \in Nat : F[i][x] \in Nat
    BY <2>1
  <2>. HIDE DEF F
  <2>. QED BY <2>2, Constants, IterationExists
<1>2. g \in [0 .. IntSize -> Nat] /\ g[0] = n
  BY <1>1 DEF Iterates
<1>3. ASSUME NEW i \in 1 .. IntSize PROVE g[i] = g[i - 1] \div Base
  <2>1. i - 1 \in 0 .. IntSize
    BY Constants
  <2>2. g[i] = F[i][g[i - 1]]
    <3>. HIDE DEF F
    <3>. QED BY <1>1 DEF Iterates
  <2>. QED BY <1>2, <2>1, <2>2
<1>4. Steps(g)
  BY <1>2, <1>3, Constants
<1>5. Steps(rest)
  <2>. HIDE DEF Steps
  <2>. QED BY <1>4
<1>6. Uint(n) = [i \in 1 .. IntSize |-> rest[i - 1] % Base]
  BY DEF Uint
<1>. HIDE DEF rest
<1>. DEFINE Good == {i \in 0 .. IntSize : rest[i] = g[i]}
<1>7. ASSUME NEW i \in 1 .. IntSize, i - 1 \in Good PROVE i \in Good
  <2>1. i \in 0 .. IntSize /\ i # 0
    BY Constants
  <2>2. rest[i] = rest[i - 1] \div Base
    BY <1>5, <2>1
  <2>. QED BY <1>3, <1>7, <2>1, <2>2
<1>8. \A i \in 0 .. IntSize : i \in Good
  <2>1. 0 \in Good
    BY <1>2, <1>5, Constants
  <2>. HIDE DEF Good
  <2>. QED BY <1>7, <2>1, Constants, CountUp
<1>9. rest = g
  <2>1. \A i \in 0 .. IntSize : rest[i] = g[i]
    BY <1>8
  <2>2. rest = [i \in 0 .. IntSize |-> rest[i]]
    BY <1>5
  <2>. QED BY <1>2, <2>1, <2>2
<1>10. Rests(n, rest)
  BY <1>2, <1>3, <1>9 DEF Rests
<1>. QED BY <1>6, <1>10

LEMMA UintType ==
  ASSUME NEW n \in Nat
  PROVE  Uint(n) \in Seq(Bytes) /\ Len(Uint(n)) = IntSize
<1>1. PICK rest : Rests(n, rest) /\ Uint(n) = [i \in 1 .. IntSize |-> rest[i - 1] % Base]
  BY UintIs
<1>2. ASSUME NEW i \in 1 .. IntSize PROVE rest[i - 1] % Base \in Bytes
  <2>1. rest[i - 1] \in Nat
    BY <1>1, Constants DEF Rests
  <2>. QED BY <2>1, Constants DEF Bytes
<1>3. Uint(n) \in [1 .. IntSize -> Bytes]
  BY <1>1, <1>2
<1>. QED BY <1>3, Constants

LEMMA DivMod ==
  ASSUME NEW r \in Nat, NEW b \in Nat \ {0}
  PROVE  r = b * (r \div b) + (r % b) /\ r \div b \in Nat /\ r % b \in 0 .. (b - 1)
<1>1. r \in Int /\ b \in Int /\ b > 0
  OBVIOUS
<1>2. r = b * (r \div b) + (r % b)
  BY ONLY <1>1
<1>3. r \div b \in Nat
  OBVIOUS
<1>4. r % b \in 0 .. (b - 1)
  OBVIOUS
<1>. QED BY <1>2, <1>3, <1>4

(* Division by Base once more. *)
LEMMA DivideOnce ==
  ASSUME NEW r \in Nat, NEW q \in Nat, q = r \div Base, NEW p \in Nat, p > 0, r < Base * p
  PROVE  q < p /\ r = Base * q + (r % Base)
<1>1. Base * q <= r /\ r = Base * q + (r % Base)
  <2>1. r = Base * q + (r % Base) /\ r % Base \in 0 .. (Base - 1)
    BY BaseAssumption, DivMod
  <2>2. Base * q \in Nat
    BY Constants
  <2>. QED BY ONLY <2>1, <2>2, r \in Nat, Constants
<1>2. ASSUME q >= p PROVE FALSE
  <2>1. Base * q >= Base * p
    BY <1>2, Constants
  <2>2. Base * q \in Nat /\ Base * p \in Nat
    BY Constants
  <2>. QED BY <1>1, <2>1, <2>2
<1>. QED BY <1>1, <1>2

(* A number below Word that is written to a buffer is read from it again.  *)
LEMMA UintAtOf ==
  ASSUME NEW n \in 0 .. (Word - 1), NEW buf, NEW at \in Nat \ {0},
         \A i \in 1 .. IntSize : buf[at + i - 1] = Uint(n)[i]
  PROVE  UintAt(buf, at) = n
<1>0. n \in Nat /\ n < Word
  BY WordType
<1>1. PICK rest : Rests(n, rest) /\ Uint(n) = [i \in 1 .. IntSize |-> rest[i - 1] % Base]
  BY <1>0, UintIs
<1>2. \A i \in 0 .. IntSize : rest[i] \in Nat
  BY <1>1 DEF Rests
(* rest[i] has IntSize - i digits left. *)
<1>. DEFINE Small == {i \in 0 .. IntSize : rest[i] < Power[IntSize - i]}
<1>3. ASSUME NEW i \in 1 .. IntSize, i - 1 \in Small PROVE i \in Small
  <2>1. i - 1 \in 0 .. IntSize /\ i \in 0 .. IntSize
        /\ IntSize - i \in 0 .. IntSize /\ IntSize - i + 1 \in 1 .. IntSize
    BY Constants
  <2>2. Power[IntSize - i + 1] = Base * Power[IntSize - i]
    <3>1. Power[IntSize - i + 1] = Base * Power[(IntSize - i + 1) - 1]
      BY <2>1, PowerType
    <3>2. (IntSize - i + 1) - 1 = IntSize - i
      BY Constants
    <3>. QED BY <3>1, <3>2
  <2>3. rest[i - 1] < Base * Power[IntSize - i]
    <3>1. IntSize - (i - 1) = IntSize - i + 1
      BY Constants
    <3>. QED BY <1>3, <2>2, <3>1
  <2>4. rest[i] = rest[i - 1] \div Base
    BY <1>1 DEF Rests
  <2>5. rest[i] < Power[IntSize - i]
    BY <1>2, <2>1, <2>3, <2>4, PowerType, DivideOnce
  <2>. QED BY <2>1, <2>5
<1>4. \A i \in 0 .. IntSize : i \in Small
  <2>1. 0 \in Small
    <3>1. rest[0] = n /\ IntSize - 0 = IntSize
      BY <1>1, Constants DEF Rests
    <3>. QED BY <1>0, <3>1, Constants DEF Word
  <2>. HIDE DEF Small
  <2>. QED BY <1>3, <2>1, Constants, CountUp
<1>5. ASSUME NEW i \in 1 .. IntSize PROVE rest[i - 1] = Base * rest[i] + (rest[i - 1] % Base)
  <2>1. i - 1 \in 0 .. IntSize /\ i \in 0 .. IntSize
    BY Constants
  <2>2. rest[i] = rest[i - 1] \div Base
    BY <1>1 DEF Rests
  <2>3. rest[i - 1] \in Nat /\ rest[i] \in Nat
    BY <1>2, <2>1
  <2>. QED BY <2>2, <2>3, BaseAssumption, DivMod
<1>6. rest[IntSize] = 0
  <2>1. IntSize \in Small /\ rest[IntSize] \in Nat
    BY <1>2, <1>4, Constants
  <2>2. rest[IntSize] < Power[IntSize - IntSize] /\ IntSize - IntSize = 0
    BY <2>1, Constants
  <2>. QED BY <2>1, <2>2, PowerType
<1>. HIDE DEF Small
<1>. DEFINE Steps(t) == t = [i \in 0 .. IntSize |->
                               IF i = 0 THEN 0 ELSE Base * t[i - 1] + buf[at + IntSize - i]]
            top == CHOOSE t : Steps(t)
            back == [i \in 0 .. IntSize |-> rest[IntSize - i]]
<1>7. ASSUME NEW i \in 1 .. IntSize
      PROVE  back[i] = Base * back[i - 1] + buf[at + IntSize - i]
  <2>. DEFINE j == IntSize - i + 1
  <2>1. i \in 0 .. IntSize /\ i - 1 \in 0 .. IntSize /\ j \in 1 .. IntSize
        /\ IntSize - (i - 1) = j /\ IntSize - i = j - 1 /\ at + IntSize - i = at + j - 1
    BY Constants
  <2>. HIDE DEF j
  <2>2. back[i] = rest[j - 1] /\ back[i - 1] = rest[j]
    BY <2>1
  <2>3. buf[at + j - 1] = rest[j - 1] % Base
    BY <1>1, <2>1
  <2>4. rest[j - 1] = Base * rest[j] + (rest[j - 1] % Base)
    BY <1>5, <2>1
  <2>5. buf[at + IntSize - i] = buf[at + j - 1]
    BY <2>1
  <2>. QED BY ONLY <2>2, <2>3, <2>4, <2>5
<1>8. back[0] = 0 /\ back[IntSize] = n
  <2>1. 0 \in 0 .. IntSize /\ IntSize \in 0 .. IntSize
        /\ IntSize - 0 = IntSize /\ IntSize - IntSize = 0
    BY Constants
  <2>. QED BY <1>1, <1>6, <2>1 DEF Rests
<1>. HIDE DEF back
<1>9. Steps([i \in 0 .. IntSize |-> back[i]])
  <2>. DEFINE k == [i \in 0 .. IntSize |-> back[i]]
  <2>1. ASSUME NEW i \in 0 .. IntSize
        PROVE  k[i] = IF i = 0 THEN 0 ELSE Base * k[i - 1] + buf[at + IntSize - i]
    <3>1. i # 0 => i \in 1 .. IntSize /\ i - 1 \in 0 .. IntSize
      BY Constants
    <3>. QED BY <1>7, <1>8, <3>1
  <2>. HIDE DEF k
  <2>2. k = [i \in 0 .. IntSize |-> k[i]]
    BY DEF k
  <2>3. Steps(k)
    BY <2>1, <2>2
  <2>. QED BY <2>3 DEF k
<1>10. Steps(top)
  <2>. HIDE DEF Steps
  <2>. QED BY <1>9
<1>11. UintAt(buf, at) = top[IntSize]
  BY DEF UintAt
<1>. HIDE DEF top
<1>. DEFINE Good == {i \in 0 .. IntSize : top[i] = back[i]}
<1>12. ASSUME NEW i \in 1 .. IntSize, i - 1 \in Good PROVE i \in Good
  <2>1. i \in 0 .. IntSize /\ i # 0
    BY Constants
  <2>2. top[i] = Base * top[i - 1] + buf[at + IntSize - i]
    BY <1>10, <2>1
  <2>. QED BY <1>7, <1>12, <2>1, <2>2
<1>13. \A i \in 0 .. IntSize : i \in Good
  <2>1. 0 \in Good
    BY <1>8, <1>10, Constants
  <2>. HIDE DEF Good
  <2>. QED BY <1>12, <2>1, Constants, CountUp
<1>14. IntSize \in Good
  <2>. HIDE DEF Good
  <2>. QED BY <1>13, Constants
<1>. QED BY <1>8, <1>11, <1>14

-----------------------------------------------------------------------------
(* What a buffer holds where *)

(* The buffer holds s from position at on. *)
Holds(buf, at, s) == \A i \in 1 .. Len(s) : buf[at + i - 1] = s[i]

LEMMA HoldsBoth ==
  ASSUME NEW T, NEW s \in Seq(T), NEW t \in Seq(T), NEW buf, NEW at \in Nat \ {0},
         Holds(buf, at, s \o t)
  PROVE  Holds(buf, at, s) /\ Holds(buf, at + Len(s), t)
<1>1. Len(s \o t) = Len(s) + Len(t) /\ Len(s) \in Nat /\ Len(t) \in Nat
  OBVIOUS
<1>2. ASSUME NEW i \in 1 .. Len(s) PROVE buf[at + i - 1] = s[i]
  <2>1. i \in 1 .. Len(s \o t) /\ (s \o t)[i] = s[i]
    BY <1>1
  <2>. QED BY <2>1 DEF Holds
<1>3. ASSUME NEW i \in 1 .. Len(t) PROVE buf[at + Len(s) + i - 1] = t[i]
  <2>1. Len(s) + i \in 1 .. Len(s \o t) /\ (s \o t)[Len(s) + i] = t[i]
    BY <1>1
  <2>2. at + Len(s) + i - 1 = at + (Len(s) + i) - 1
    BY <1>1
  <2>. QED BY <2>1, <2>2 DEF Holds
<1>. QED BY <1>2, <1>3 DEF Holds

LEMMA HoldsSubSeq ==
  ASSUME NEW T, NEW s \in Seq(T), NEW buf \in Seq(T), NEW at \in Nat \ {0},
         Holds(buf, at, s), at + Len(s) - 1 <= Len(buf)
  PROVE  SubSeq(buf, at, at + Len(s) - 1) = s
<1>. DEFINE sub == SubSeq(buf, at, at + Len(s) - 1)
<1>1. Len(s) \in Nat /\ Len(buf) \in Nat
  OBVIOUS
<1>2. sub \in Seq(T) /\ Len(sub) = Len(s)
  BY <1>1, SubSeqProperties
<1>3. ASSUME NEW i \in 1 .. Len(s) PROVE sub[i] = s[i]
  <2>1. sub[i] = buf[at + i - 1]
    BY <1>1, SubSeqProperties
  <2>. QED BY <2>1 DEF Holds
<1>. HIDE DEF sub
<1>4. sub = s
  BY <1>2, <1>3, SeqEqual
<1>. QED BY <1>4 DEF sub

LEMMA HoldsUint ==
  ASSUME NEW n \in 0 .. (Word - 1), NEW buf, NEW at \in Nat \ {0}, Holds(buf, at, Uint(n))
  PROVE  UintAt(buf, at) = n
<1>1. Len(Uint(n)) = IntSize
  BY WordType, UintType
<1>. QED BY <1>1, UintAtOf DEF Holds

LEMMA JoinsHolds ==
  ASSUME NEW parts, NEW off, NEW whole, Joins(parts, off, whole), Len(parts) \in Nat,
         NEW i \in 1 .. Len(parts), Len(parts[i]) \in Nat
  PROVE  /\ off[i - 1] \in Nat /\ off[i] \in Nat /\ off[i] = off[i - 1] + Len(parts[i])
         /\ off[i] <= Len(whole)
         /\ Holds(whole, off[i - 1] + 1, parts[i])
<1>1. i - 1 \in 0 .. Len(parts) /\ i \in 0 .. Len(parts) /\ Len(parts) \in 1 .. Len(parts)
  OBVIOUS
<1>2. off[i - 1] \in Nat /\ off[i] \in Nat /\ off[i] = off[i - 1] + Len(parts[i])
  BY <1>1 DEF Joins
<1>3. off[i] <= Len(whole)
  BY <1>1 DEF Joins
<1>4. ASSUME NEW j \in 1 .. Len(parts[i]) PROVE whole[(off[i - 1] + 1) + j - 1] = parts[i][j]
  <2>1. (off[i - 1] + 1) + j - 1 = off[i - 1] + j
    BY <1>2
  <2>. QED BY <2>1 DEF Joins
<1>. QED BY <1>2, <1>3, <1>4 DEF Holds

LEMMA OneMore ==
  ASSUME NEW i \in Int, NEW k \in Int
  PROVE  (i - 1) * k + k = i * k
OBVIOUS

(* Where parts of the same length end. *)
Even(parts, m, size) == \A i \in 1 .. m : Len(parts[i]) = size

LEMMA JoinsEven ==
  ASSUME NEW n \in Nat, NEW parts, Len(parts) = n, NEW off, NEW whole,
         Joins(parts, off, whole), NEW m \in 0 .. n, NEW size \in Nat, Even(parts, m, size)
  PROVE  \A i \in 0 .. m : off[i] = i * size
<1>. DEFINE Good == {i \in 0 .. m : off[i] = i * size}
<1>1. 0 \in Good
  BY DEF Joins
<1>2. ASSUME NEW i \in 1 .. m, i - 1 \in Good PROVE i \in Good
  <2>1. i \in 1 .. n /\ i \in 0 .. m /\ off[i - 1] = (i - 1) * size
    BY <1>2
  <2>2. off[i] = off[i - 1] + size
    BY <2>1 DEF Joins, Even
  <2>3. (i - 1) * size + size = i * size
    BY <2>1, OneMore
  <2>. QED BY <2>1, <2>2, <2>3
<1>3. \A i \in 0 .. m : i \in Good
  <2>1. m \in Nat
    OBVIOUS
  <2>. HIDE DEF Good
  <2>. QED BY <1>1, <1>2, <2>1, CountUp
<1>. QED BY <1>3

-----------------------------------------------------------------------------
(* Lists of numbers *)

LEMMA NumsEncoded ==
  ASSUME NEW nums \in Seq(0 .. (Word - 1))
  PROVE  /\ EncodeNums(nums) \in Seq(Bytes)
         /\ Len(EncodeNums(nums)) = Len(nums) * IntSize
         /\ \A i \in 1 .. Len(nums) :
              Holds(EncodeNums(nums), (i - 1) * IntSize + 1, Uint(nums[i]))
<1>. DEFINE n == Len(nums)
            parts == [i \in DOMAIN nums |-> Uint(nums[i])]
<1>1. n \in Nat /\ DOMAIN nums = 1 .. n /\ \A i \in 1 .. n : nums[i] \in 0 .. (Word - 1)
  BY SequenceIs
<1>2. ASSUME NEW i \in 1 .. n
      PROVE  parts[i] = Uint(nums[i]) /\ parts[i] \in Seq(Bytes) /\ Len(parts[i]) = IntSize
  <2>1. nums[i] \in Nat
    BY <1>1, WordType
  <2>. QED BY <1>1, <2>1, UintType
<1>3. Len(parts) = n /\ (n = 0 => parts = <<>>)
  BY <1>1
<1>. HIDE DEF parts, n
<1>4. FlattenSeq(parts) \in Seq(Bytes) /\ \E off : Joins(parts, off, FlattenSeq(parts))
  BY <1>1, <1>2, <1>3, FlattenJoins
<1>5. PICK off : Joins(parts, off, FlattenSeq(parts))
  BY <1>4
<1>6. \A i \in 0 .. n : off[i] = i * IntSize
  <2>1. n \in 0 .. n /\ IntSize \in Nat
    BY <1>1, Constants
  <2>2. Even(parts, n, IntSize)
    BY <1>2 DEF Even
  <2>. QED BY <1>1, <1>3, <1>5, <2>1, <2>2, JoinsEven
<1>7. ASSUME NEW i \in 1 .. n PROVE Holds(FlattenSeq(parts), (i - 1) * IntSize + 1, Uint(nums[i]))
  <2>1. i - 1 \in 0 .. n
    BY <1>1
  <2>2. Holds(FlattenSeq(parts), off[i - 1] + 1, parts[i])
    BY <1>1, <1>2, <1>3, <1>5, Constants, JoinsHolds
  <2>. QED BY <1>2, <1>6, <2>1, <2>2
<1>8. Len(FlattenSeq(parts)) = n * IntSize
  BY <1>1, <1>3, <1>5, <1>6 DEF Joins
<1>9. EncodeNums(nums) = FlattenSeq(parts)
  BY DEF EncodeNums, parts
<1>. QED BY <1>4, <1>7, <1>8, <1>9 DEF n

LEMMA HoldsWithin ==
  ASSUME NEW buf, NEW at \in Nat \ {0}, NEW s, NEW p \in Nat \ {0}, NEW t,
         Len(s) \in Nat, Len(t) \in Nat, p + Len(t) - 1 <= Len(s),
         Holds(buf, at, s), Holds(s, p, t)
  PROVE  Holds(buf, at + p - 1, t)
<1>. SUFFICES ASSUME NEW i \in 1 .. Len(t) PROVE buf[(at + p - 1) + i - 1] = t[i]
  BY DEF Holds
<1>1. p + i - 1 \in 1 .. Len(s) /\ (at + p - 1) + i - 1 = at + (p + i - 1) - 1
  OBVIOUS
<1>2. s[p + i - 1] = t[i]
  BY DEF Holds
<1>3. buf[at + (p + i - 1) - 1] = s[p + i - 1]
  BY <1>1 DEF Holds
<1>. QED BY <1>1, <1>2, <1>3

LEMMA UintsOf ==
  ASSUME NEW nums \in Seq(0 .. (Word - 1)), NEW buf, NEW at \in Nat \ {0},
         Holds(buf, at, EncodeNums(nums))
  PROVE  UintsAt(buf, at, Len(nums)) = nums
<1>. DEFINE n == Len(nums)
            enc == EncodeNums(nums)
<1>1. n \in Nat /\ DOMAIN nums = 1 .. n /\ \A i \in 1 .. n : nums[i] \in 0 .. (Word - 1)
  BY SequenceIs
<1>2. Len(enc) = n * IntSize /\ \A i \in 1 .. n : Holds(enc, (i - 1) * IntSize + 1, Uint(nums[i]))
  BY NumsEncoded
<1>. HIDE DEF n, enc
<1>3. ASSUME NEW i \in 1 .. n PROVE UintAt(buf, at + (i - 1) * IntSize) = nums[i]
  <2>. DEFINE p == (i - 1) * IntSize + 1
  <2>1. i \in Nat /\ i - 1 \in Nat /\ i <= n
    BY <1>1
  <2>2. (i - 1) * IntSize \in Nat /\ (i - 1) * IntSize + IntSize = i * IntSize
        /\ i * IntSize <= n * IntSize /\ n * IntSize \in Nat /\ i * IntSize \in Nat
    BY ONLY <1>1, <2>1, Constants
  <2>3. p \in Nat \ {0} /\ p + IntSize - 1 <= Len(enc) /\ at + p - 1 = at + (i - 1) * IntSize
        /\ at + p - 1 \in Nat \ {0} /\ Len(enc) \in Nat
    BY <1>2, <2>2, Constants
  <2>4. nums[i] \in 0 .. (Word - 1) /\ nums[i] \in Nat
    BY <1>1, WordType
  <2>5. Len(Uint(nums[i])) = IntSize
    BY <2>4, UintType
  <2>6. Holds(enc, p, Uint(nums[i]))
    BY <1>2
  <2>. HIDE DEF p
  <2>7. Holds(buf, at + p - 1, Uint(nums[i]))
    BY <2>3, <2>5, <2>6, Constants, HoldsWithin DEF enc
  <2>8. UintAt(buf, at + p - 1) = nums[i]
    BY <2>3, <2>4, <2>7, HoldsUint
  <2>. QED BY <2>3, <2>8
<1>. DEFINE uints == UintsAt(buf, at, n)
<1>4. uints = [i \in 1 .. n |-> nums[i]]
  BY <1>3 DEF UintsAt
<1>5. nums = [i \in 1 .. n |-> nums[i]]
  BY <1>1
<1>. QED BY <1>4, <1>5 DEF n

(* A list of block numbers that fit their fields arrives as it was sent    *)
(* (BlockNumList::serialize and deserialize, both ends of a GET).          *)
THEOREM NumsRoundTrip ==
  ASSUME NEW nums \in Seq(0 .. (Word - 1))
  PROVE  DecodeNums(EncodeNums(nums)) = nums
<1>. DEFINE enc == EncodeNums(nums)
            n == Len(nums)
<1>1. n \in Nat /\ Len(enc) = n * IntSize
  BY SequenceIs, NumsEncoded
<1>2. Len(enc) \div IntSize = n
  <2>1. IntSize \in Nat \ {0} /\ n * IntSize \in Nat /\ IntSize * n = n * IntSize
    BY <1>1, Constants
  <2>. HIDE DEF enc, n
  <2>2. IntSize * n <= n * IntSize /\ n * IntSize < IntSize * n + IntSize
    BY <2>1
  <2>. QED BY <1>1, <2>1, <2>2, QuotientIs
<1>3. Holds(enc, 1, enc)
  <2>1. \A i \in 1 .. Len(enc) : 1 + i - 1 = i
    OBVIOUS
  <2>. QED BY <2>1 DEF Holds
<1>4. UintsAt(enc, 1, n) = nums
  BY <1>3, UintsOf
<1>. QED BY <1>2, <1>4 DEF DecodeNums

-----------------------------------------------------------------------------
(* Blocks on the wire *)

(* What a block can be. *)
Blocks == {b \in [num : 0 .. (Word - 1), data : Seq(Bytes)] : Len(b.data) < Word}

LEMMA LenBoth ==
  ASSUME NEW T, NEW s \in Seq(T), NEW t \in Seq(T)
  PROVE  s \o t \in Seq(T) /\ Len(s \o t) = Len(s) + Len(t) /\ Len(s) \in Nat /\ Len(t) \in Nat
OBVIOUS

(* How a block of a key is sent. *)
Sent(key, b) == Uint(Len(key)) \o key \o Uint(b.num) \o Uint(Len(b.data)) \o b.data

LEMMA BlockType ==
  ASSUME NEW b \in Blocks
  PROVE  /\ b.num \in 0 .. (Word - 1) /\ b.num \in Nat
         /\ b.data \in Seq(Bytes) /\ Len(b.data) \in 0 .. (Word - 1) /\ Len(b.data) \in Nat
         /\ Uint(b.num) \in Seq(Bytes) /\ Len(Uint(b.num)) = IntSize
         /\ b = [num |-> b.num, data |-> b.data]
<1>1. b.num \in 0 .. (Word - 1) /\ b.data \in Seq(Bytes) /\ Len(b.data) < Word
      /\ b = [num |-> b.num, data |-> b.data]
  BY DEF Blocks
<1>2. Len(b.data) \in Nat
  BY <1>1
<1>3. b.num \in Nat
  BY <1>1, WordType
<1>4. Len(b.data) \in 0 .. (Word - 1)
  BY <1>1, <1>2, WordType
<1>. QED BY <1>1, <1>2, <1>3, <1>4, UintType

LEMMA SentType ==
  ASSUME NEW key \in Seq(Bytes), NEW b \in Blocks
  PROVE  /\ Sent(key, b) \in Seq(Bytes)
         /\ Len(Sent(key, b)) = IntSize + Len(key) + IntSize + IntSize + Len(b.data)
         /\ Len(Sent(key, b)) \in Nat \ {0}
<1>1. /\ Uint(Len(key)) \in Seq(Bytes) /\ Len(Uint(Len(key))) = IntSize
      /\ Uint(Len(b.data)) \in Seq(Bytes) /\ Len(Uint(Len(b.data))) = IntSize
  <2>1. Len(key) \in Nat
    OBVIOUS
  <2>. QED BY <2>1, BlockType, UintType
<1>2. /\ Uint(b.num) \in Seq(Bytes) /\ Len(Uint(b.num)) = IntSize /\ b.data \in Seq(Bytes)
  BY BlockType
<1>. DEFINE a == Uint(Len(key))
            c == Uint(b.num)
            d == Uint(Len(b.data))
            e == b.data
<1>3. a \in Seq(Bytes) /\ c \in Seq(Bytes) /\ d \in Seq(Bytes) /\ e \in Seq(Bytes)
      /\ Len(a) = IntSize /\ Len(c) = IntSize /\ Len(d) = IntSize
  BY <1>1, <1>2
<1>4. Sent(key, b) = a \o key \o c \o d \o e
  BY DEF Sent
<1>. HIDE DEF a, c, d, e
<1>5. a \o key \in Seq(Bytes) /\ Len(a \o key) = Len(a) + Len(key)
  BY <1>3, LenBoth
<1>6. a \o key \o c \in Seq(Bytes) /\ Len(a \o key \o c) = Len(a \o key) + Len(c)
  BY <1>3, <1>5, LenBoth
<1>7. a \o key \o c \o d \in Seq(Bytes) /\ Len(a \o key \o c \o d) = Len(a \o key \o c) + Len(d)
  BY <1>3, <1>6, LenBoth
<1>8. /\ a \o key \o c \o d \o e \in Seq(Bytes)
      /\ Len(a \o key \o c \o d \o e) = Len(a \o key \o c \o d) + Len(e)
  BY <1>3, <1>7, LenBoth
<1>9. Len(Sent(key, b)) = IntSize + Len(key) + IntSize + IntSize + Len(e)
  BY <1>3, <1>4, <1>5, <1>6, <1>7, <1>8
<1>10. IntSize + Len(key) + IntSize + IntSize + Len(e) \in Nat \ {0}
  <2>1. Len(key) \in Nat /\ Len(e) \in Nat
    BY <1>3
  <2>. QED BY <2>1, Constants
<1>. QED BY <1>4, <1>8, <1>9, <1>10 DEF e

(* A reader that has come to position at and has read these blocks. *)
ReaderAt(at, blocks) == [at |-> at, blocks |-> blocks]

(* A round of the reader's loop reads one block. *)
LEMMA NextBlockReads ==
  ASSUME NEW key \in Seq(Bytes), Len(key) < Word, NEW b \in Blocks,
         NEW buf \in Seq(Bytes), NEW at \in Nat \ {0}, NEW blocks,
         Holds(buf, at, Sent(key, b)), at + Len(Sent(key, b)) - 1 <= Len(buf)
  PROVE  NextBlock(buf, ReaderAt(at, blocks)) = ReaderAt(at + Len(Sent(key, b)), Append(blocks, b))
<1>. DEFINE a == Uint(Len(key))
            c == Uint(b.num)
            d == Uint(Len(b.data))
            e == b.data
            num  == at + IntSize + Len(key)
            data == num + 2 * IntSize
            end  == data + Len(e)
<1>0. Len(key) \in 0 .. (Word - 1) /\ Len(key) \in Nat /\ Len(buf) \in Nat
  <2>1. Len(key) \in Nat /\ Len(buf) \in Nat
    OBVIOUS
  <2>. QED BY <2>1, WordType
<1>1. a \in Seq(Bytes) /\ Len(a) = IntSize /\ d \in Seq(Bytes) /\ Len(d) = IntSize
  BY <1>0, BlockType, UintType
<1>2. c \in Seq(Bytes) /\ Len(c) = IntSize /\ e \in Seq(Bytes) /\ Len(e) \in Nat
  BY BlockType
<1>3. Sent(key, b) = a \o key \o c \o d \o e
  BY DEF Sent
<1>4. Len(Sent(key, b)) = IntSize + Len(key) + IntSize + IntSize + Len(e)
  BY SentType
<1>. HIDE DEF a, c, d, e
<1>5. end = at + Len(Sent(key, b)) /\ num \in Nat \ {0} /\ data \in Nat \ {0}
      /\ num + IntSize \in Nat \ {0}
  <2>1. Len(Sent(key, b)) = Len(key) + 3 * IntSize + Len(e)
    BY <1>0, <1>2, <1>4, Constants
  <2>. QED BY ONLY <1>0, <1>2, <2>1, Constants, at \in Nat \ {0}
<1>6. Holds(buf, at, a \o key \o c \o d) /\ Holds(buf, at + Len(a \o key \o c \o d), e)
  <2>1. a \o key \o c \o d \in Seq(Bytes)
    BY <1>1, <1>2
  <2>. QED BY <1>2, <1>3, <2>1, HoldsBoth
<1>7. Holds(buf, at, a \o key \o c) /\ Holds(buf, at + Len(a \o key \o c), d)
  <2>1. a \o key \o c \in Seq(Bytes)
    BY <1>1, <1>2
  <2>. QED BY <1>1, <1>6, <2>1, HoldsBoth
<1>8. Holds(buf, at, a \o key) /\ Holds(buf, at + Len(a \o key), c)
  <2>1. a \o key \in Seq(Bytes)
    BY <1>1, <1>2
  <2>. QED BY <1>2, <1>7, <2>1, HoldsBoth
<1>9. Holds(buf, at, a)
  BY <1>1, <1>8, HoldsBoth
<1>10. at + Len(a \o key) = num /\ at + Len(a \o key \o c) = num + IntSize
       /\ at + Len(a \o key \o c \o d) = data
  <2>1. Len(a \o key) = Len(a) + Len(key) /\ a \o key \in Seq(Bytes)
    BY <1>1, LenBoth
  <2>2. Len(a \o key \o c) = Len(a \o key) + Len(c) /\ a \o key \o c \in Seq(Bytes)
    BY <1>2, <2>1, LenBoth
  <2>3. Len(a \o key \o c \o d) = Len(a \o key \o c) + Len(d)
    BY <1>1, <2>2, LenBoth
  <2>. QED BY <1>0, <1>1, <1>2, <2>1, <2>2, <2>3, Constants
<1>11. UintAt(buf, at) = Len(key)
  BY <1>0, <1>9, HoldsUint DEF a
<1>12. UintAt(buf, num) = b.num
  <2>1. Holds(buf, num, c)
    BY <1>8, <1>10
  <2>. HIDE DEF num
  <2>. QED BY <1>5, <2>1, BlockType, HoldsUint DEF c
<1>13. UintAt(buf, num + IntSize) = Len(e)
  <2>1. Holds(buf, num + IntSize, d)
    BY <1>7, <1>10
  <2>2. Len(e) \in 0 .. (Word - 1)
    BY BlockType DEF e
  <2>. HIDE DEF num
  <2>. QED BY <1>5, <2>1, <2>2, HoldsUint DEF d, e
<1>14. SubSeq(buf, data, end - 1) = e
  <2>1. Holds(buf, data, e)
    BY <1>6, <1>10
  <2>2. data + Len(e) - 1 <= Len(buf)
    BY <1>5
  <2>3. end - 1 = data + Len(e) - 1
    <3>. HIDE DEF data
    <3>. QED BY <1>2, <1>5
  <2>. HIDE DEF data, end
  <2>4. SubSeq(buf, data, data + Len(e) - 1) = e
    BY <1>2, <1>5, <2>1, <2>2, HoldsSubSeq
  <2>. QED BY <2>3, <2>4
<1>15. ~ (at > Len(buf))
  BY <1>0, <1>2, <1>4, Constants
<1>. DEFINE reader == ReaderAt(at, blocks)
<1>16. reader.at = at /\ reader.blocks = blocks
  BY DEF ReaderAt
<1>17. [num |-> b.num, data |-> e] = b
  BY BlockType DEF e
<1>. HIDE DEF reader
<1>18. NextBlock(buf, reader) = [at |-> end, blocks |-> Append(blocks, [num |-> b.num, data |-> e])]
  BY <1>11, <1>12, <1>13, <1>14, <1>15, <1>16 DEF NextBlock
<1>. QED BY <1>5, <1>17, <1>18 DEF reader, ReaderAt

LEMMA OneMoreRead ==
  ASSUME NEW T, NEW s \in Seq(T), NEW i \in 1 .. Len(s)
  PROVE  Append(SubSeq(s, 1, i - 1), s[i]) = SubSeq(s, 1, i)
<1>. DEFINE a == SubSeq(s, 1, i - 1)
            c == SubSeq(s, 1, i)
<1>0. i \in Nat /\ Len(s) \in Nat /\ \A j \in 1 .. Len(s) : s[j] \in T
  OBVIOUS
<1>1. a \in Seq(T) /\ Len(a) = i - 1 /\ \A j \in 1 .. (i - 1) : a[j] = s[j]
  <2>1. /\ a \in Seq(T) /\ Len(a) = (IF 1 <= i - 1 THEN i - 1 - 1 + 1 ELSE 0)
        /\ \A j \in 1 .. (i - 1 - 1 + 1) : a[j] = s[1 + j - 1]
    <3>1. 1 \in Int /\ i - 1 \in Int /\ \A j \in 1 .. (i - 1) : s[j] \in T
      BY <1>0
    <3>. QED BY <3>1, SubSeqProperties
  <2>2. i - 1 - 1 + 1 = i - 1 /\ \A j \in 1 .. (i - 1) : 1 + j - 1 = j
    BY <1>0
  <2>. HIDE DEF a
  <2>. QED BY <1>0, <2>1, <2>2
<1>2. c \in Seq(T) /\ Len(c) = i /\ \A j \in 1 .. i : c[j] = s[j]
  <2>1. /\ c \in Seq(T) /\ Len(c) = (IF 1 <= i THEN i - 1 + 1 ELSE 0)
        /\ \A j \in 1 .. (i - 1 + 1) : c[j] = s[1 + j - 1]
    <3>1. 1 \in Int /\ i \in Int /\ \A j \in 1 .. i : s[j] \in T
      BY <1>0
    <3>. QED BY <3>1, SubSeqProperties
  <2>2. i - 1 + 1 = i /\ \A j \in 1 .. i : 1 + j - 1 = j
    BY <1>0
  <2>. HIDE DEF c
  <2>. QED BY <1>0, <2>1, <2>2
<1>. HIDE DEF a, c
<1>3. s[i] \in T
  BY <1>0
<1>. DEFINE d == Append(a, s[i])
<1>4. d \in Seq(T) /\ Len(d) = i /\ d[i] = s[i] /\ \A j \in 1 .. (i - 1) : d[j] = a[j]
  BY <1>0, <1>1, <1>3
<1>5. ASSUME NEW j \in 1 .. Len(d) PROVE d[j] = c[j]
  <2>1. j \in 1 .. i
    BY <1>4
  <2>2. j = i \/ j \in 1 .. (i - 1)
    BY <1>0, <2>1
  <2>. HIDE DEF d
  <2>. QED BY <1>1, <1>2, <1>4, <2>1, <2>2
<1>. HIDE DEF d
<1>6. d = c
  BY <1>2, <1>4, <1>5, SeqEqual
<1>. QED BY <1>6 DEF a, c, d

LEMMA EncodedBlocks ==
  ASSUME NEW key \in Seq(Bytes), NEW bs \in Seq(Blocks)
  PROVE  /\ EncodeBlocks(key, bs) \in Seq(Bytes)
         /\ \E off : Joins([i \in 1 .. Len(bs) |-> Sent(key, bs[i])], off, EncodeBlocks(key, bs))
<1>. DEFINE n == Len(bs)
            parts == [i \in 1 .. n |-> Sent(key, bs[i])]
<1>1. n \in Nat /\ DOMAIN bs = 1 .. n /\ \A i \in 1 .. n : bs[i] \in Blocks
  BY SequenceIs
<1>2. \A i \in 1 .. n : parts[i] \in Seq(Bytes)
  BY <1>1, SentType
<1>3. Len(parts) = n /\ (n = 0 => parts = <<>>)
  BY <1>1
<1>4. EncodeBlocks(key, bs) = FlattenSeq(parts)
  BY <1>1 DEF EncodeBlocks, Sent
<1>. HIDE DEF parts, n
<1>5. FlattenSeq(parts) \in Seq(Bytes) /\ \E off : Joins(parts, off, FlattenSeq(parts))
  BY <1>1, <1>2, <1>3, FlattenJoins
<1>. QED BY <1>4, <1>5 DEF parts, n

(* Blocks that are sent arrive, in their order and with their numbers,     *)
(* however many there are and whatever bytes the key and the data consist  *)
(* of (Block::serialize, Block::deserialize).                              *)
THEOREM BlocksRoundTrip ==
  ASSUME NEW key \in Seq(Bytes), Len(key) < Word, NEW bs \in Seq(Blocks)
  PROVE  DecodeBlocks(EncodeBlocks(key, bs)) = bs
<1>. DEFINE buf == EncodeBlocks(key, bs)
            n == Len(bs)
            parts == [i \in 1 .. n |-> Sent(key, bs[i])]
            len == Len(buf)
<1>1. n \in Nat /\ DOMAIN bs = 1 .. n /\ \A i \in 1 .. n : bs[i] \in Blocks
  BY SequenceIs
<1>2. buf \in Seq(Bytes) /\ \E off : Joins(parts, off, buf)
  BY EncodedBlocks
<1>3. PICK off : Joins(parts, off, buf)
  BY <1>2
<1>4. Len(parts) = n
  BY <1>1
<1>5. ASSUME NEW i \in 1 .. n
      PROVE  /\ parts[i] = Sent(key, bs[i]) /\ bs[i] \in Blocks
             /\ Len(parts[i]) \in Nat \ {0}
  <2>1. parts[i] = Sent(key, bs[i])
    OBVIOUS
  <2>. HIDE DEF parts
  <2>. QED BY <1>1, <2>1, SentType
<1>6. len \in Nat
  BY <1>2
<1>. HIDE DEF buf, n, parts, len
<1>7. ASSUME NEW i \in 1 .. n
      PROVE  /\ off[i - 1] \in Nat /\ off[i] \in Nat /\ off[i] = off[i - 1] + Len(parts[i])
             /\ off[i] <= len /\ Holds(buf, off[i - 1] + 1, parts[i])
  <2>1. Len(parts) \in Nat /\ i \in 1 .. Len(parts) /\ Len(parts[i]) \in Nat
    BY <1>1, <1>4, <1>5
  <2>. QED BY <1>3, <2>1, JoinsHolds DEF len
<1>8. off[0] = 0 /\ off[n] = len
  BY <1>3, <1>4 DEF Joins, len
(* The reader after i rounds, of which the first n read something. *)
<1>. DEFINE at(i) == IF i <= n THEN off[i] + 1 ELSE len + 1
            reader == [i \in 0 .. len |->
                        [at |-> at(i), blocks |-> SubSeq(bs, 1, IF i <= n THEN i ELSE n)]]
            start == [at |-> 1, blocks |-> <<>>]
            Reads(r) == r = [i \in 0 .. len |->
                               IF i = 0 THEN start ELSE NextBlock(buf, r[i - 1])]
            read == CHOOSE r : Reads(r)
<1>9. n <= len
  <2>. DEFINE Good == {i \in 0 .. n : off[i] \in Nat /\ i <= off[i]}
  <2>1. ASSUME NEW i \in 1 .. n, i - 1 \in Good PROVE i \in Good
    <3>1. i - 1 <= off[i - 1] /\ i \in 0 .. n /\ i \in Nat
      BY <1>1, <2>1
    <3>2. off[i] \in Nat /\ off[i - 1] \in Nat /\ off[i] = off[i - 1] + Len(parts[i])
      BY <1>7
    <3>3. Len(parts[i]) \in Nat \ {0}
      BY <1>5
    <3>4. i <= off[i]
      BY ONLY <3>1, <3>2, <3>3
    <3>. QED BY <3>1, <3>2, <3>4
  <2>2. 0 \in Good
    BY <1>1, <1>8
  <2>3. \A i \in 0 .. n : i \in Good
    <3>. HIDE DEF Good
    <3>. QED BY <1>1, <2>1, <2>2, CountUp
  <2>4. n \in Good
    <3>. HIDE DEF Good
    <3>. QED BY <1>1, <2>3
  <2>. QED BY <1>8, <2>4
<1>10. reader[0] = start
  <2>1. SubSeq(bs, 1, 0) = <<>>
    BY SubSeqEmpty
  <2>. QED BY <1>1, <1>6, <1>8, <2>1
<1>11. ASSUME NEW i \in 1 .. len PROVE reader[i] = NextBlock(buf, reader[i - 1])
  <2>1. i - 1 \in 0 .. len /\ i \in 0 .. len /\ i \in Nat
    BY <1>6
  <2>2. CASE i <= n
    <3>1. i \in 1 .. n /\ i - 1 <= n
      BY <1>1, <2>1, <2>2
    <3>2. reader[i] = [at |-> off[i] + 1, blocks |-> SubSeq(bs, 1, i)]
      BY <2>1, <2>2
    <3>3. reader[i - 1] = [at |-> off[i - 1] + 1, blocks |-> SubSeq(bs, 1, i - 1)]
      BY <2>1, <3>1
    <3>4. /\ off[i - 1] \in Nat /\ off[i] \in Nat /\ off[i] = off[i - 1] + Len(Sent(key, bs[i]))
          /\ off[i] <= len /\ Holds(buf, off[i - 1] + 1, Sent(key, bs[i]))
          /\ bs[i] \in Blocks /\ Len(Sent(key, bs[i])) \in Nat
      BY <1>5, <1>7, <3>1
    <3>. HIDE DEF reader
    <3>. DEFINE p == off[i - 1] + 1
                more == Len(Sent(key, bs[i]))
    <3>5. p \in Nat \ {0} /\ p + more - 1 <= len /\ p + more = off[i] + 1
      <4>1. more \in Nat /\ off[i] = off[i - 1] + more /\ off[i - 1] \in Nat /\ off[i] <= len
        BY <3>4
      <4>. HIDE DEF more
      <4>. QED BY ONLY <1>6, <4>1
    <3>6. Holds(buf, p, Sent(key, bs[i]))
      BY <3>4
    <3>. HIDE DEF p
    <3>7. NextBlock(buf, [at |-> p, blocks |-> SubSeq(bs, 1, i - 1)])
            = [at |-> p + more, blocks |-> Append(SubSeq(bs, 1, i - 1), bs[i])]
      <4>. DEFINE b == bs[i]
                  sofar == SubSeq(bs, 1, i - 1)
      <4>1. b \in Blocks /\ Holds(buf, p, Sent(key, b)) /\ p + Len(Sent(key, b)) - 1 <= Len(buf)
        BY <3>4, <3>5, <3>6 DEF len
      <4>. HIDE DEF b, sofar
      <4>2. NextBlock(buf, [at |-> p, blocks |-> sofar])
              = [at |-> p + Len(Sent(key, b)), blocks |-> Append(sofar, b)]
        <5>1. buf \in Seq(Bytes) /\ p \in Nat \ {0}
          BY <1>2, <3>5
        <5>2. NextBlock(buf, ReaderAt(p, sofar))
                = ReaderAt(p + Len(Sent(key, b)), Append(sofar, b))
          BY <4>1, <5>1, NextBlockReads
        <5>. QED BY <5>2 DEF ReaderAt
      <4>. QED BY <4>2 DEF b, sofar
    <3>8. Append(SubSeq(bs, 1, i - 1), bs[i]) = SubSeq(bs, 1, i)
      BY <1>1, <3>1, OneMoreRead DEF n
    <3>. QED BY <3>2, <3>3, <3>5, <3>7, <3>8 DEF p
  <2>3. CASE ~ (i <= n)
    <3>1. reader[i] = [at |-> len + 1, blocks |-> SubSeq(bs, 1, n)]
      BY <2>1, <2>3
    <3>2. reader[i - 1] = [at |-> len + 1, blocks |-> SubSeq(bs, 1, n)]
      <4>1. CASE i - 1 <= n
        <5>1. i - 1 = n
          BY <1>1, <2>1, <2>3, <4>1
        <5>. QED BY <1>8, <2>1, <4>1, <5>1
      <4>2. CASE ~ (i - 1 <= n)
        BY <2>1, <4>2
      <4>. QED BY <4>1, <4>2
    <3>. HIDE DEF reader
    <3>3. reader[i - 1].at = len + 1 /\ len + 1 > len
      BY <1>6, <3>2
    <3>4. NextBlock(buf, reader[i - 1]) = reader[i - 1]
      BY <3>3 DEF NextBlock, len
    <3>. QED BY <3>1, <3>2, <3>4
  <2>. QED BY <2>2, <2>3
<1>12. DOMAIN reader = 0 .. len
  OBVIOUS
<1>13. reader[len].blocks = bs
  <2>1. reader[len].blocks = SubSeq(bs, 1, IF len <= n THEN len ELSE n)
    BY <1>6
  <2>2. (IF len <= n THEN len ELSE n) = n
    BY <1>1, <1>6, <1>9
  <2>3. SubSeq(bs, 1, n) = bs
    BY DEF n
  <2>. QED BY <2>1, <2>2, <2>3
<1>14. Reads([i \in 0 .. len |-> reader[i]])
  <2>. DEFINE k == [i \in 0 .. len |-> reader[i]]
  <2>1. ASSUME NEW i \in 0 .. len
        PROVE  k[i] = IF i = 0 THEN start ELSE NextBlock(buf, k[i - 1])
    <3>1. i # 0 => i \in 1 .. len /\ i - 1 \in 0 .. len
      BY <1>6
    <3>. HIDE DEF reader, start
    <3>. QED BY <1>10, <1>11, <3>1
  <2>. HIDE DEF k, reader, start
  <2>2. k = [i \in 0 .. len |-> k[i]]
    BY DEF k
  <2>3. Reads(k)
    BY <2>1, <2>2
  <2>. QED BY <2>3 DEF k
<1>. HIDE DEF reader
<1>15. Reads(read)
  <2>. HIDE DEF Reads
  <2>. QED BY <1>14
<1>16. DecodeBlocks(buf) = read[len].blocks
  BY DEF DecodeBlocks, len
<1>. HIDE DEF read, start
<1>. DEFINE Good == {i \in 0 .. len : read[i] = reader[i]}
<1>17. ASSUME NEW i \in 1 .. len, i - 1 \in Good PROVE i \in Good
  <2>1. i \in 0 .. len /\ i # 0
    BY <1>6
  <2>2. read[i] = NextBlock(buf, read[i - 1])
    BY <1>15, <2>1
  <2>. QED BY <1>11, <1>17, <2>1, <2>2
<1>18. \A i \in 0 .. len : i \in Good
  <2>1. 0 \in Good
    BY <1>6, <1>10, <1>15
  <2>. HIDE DEF Good
  <2>. QED BY <1>6, <1>17, <2>1, CountUp
<1>19. len \in Good
  <2>. HIDE DEF Good
  <2>. QED BY <1>6, <1>18
<1>. QED BY <1>13, <1>16, <1>19 DEF buf

-----------------------------------------------------------------------------
(* Blocks in a node's buffer *)

(* Blocks as a node lays them down: none is empty, all but the last full.  *)
Laid(bs) ==
  /\ bs \in Seq(Blocks)
  /\ \A i \in 1 .. Len(bs) :
       /\ Len(bs[i].data) \in 1 .. DataBlockSize
       /\ i < Len(bs) => Len(bs[i].data) = DataBlockSize

Stride == IntSize + DataBlockSize

LEMMA StrideType == Stride \in Nat \ {0} /\ Stride \in Nat /\ Stride > 0
BY Constants DEF Stride

LEMMA MinOfTwo ==
  ASSUME NEW a \in Int, NEW b \in Int
  PROVE  (a <= b => Min({a, b}) = a) /\ (b <= a => Min({a, b}) = b)
<1>1. ASSUME NEW m \in {a, b}, \A y \in {a, b} : m <= y PROVE Min({a, b}) = m
  BY <1>1 DEF Min
<1>. QED BY <1>1

(* The number of blocks, from the length of their buffer. *)
LEMMA BlockCount ==
  ASSUME NEW n \in Nat, NEW len \in Nat, len <= n * Stride,
         n # 0 => (n - 1) * Stride < len
  PROVE  CeilDiv(len, Stride) = n
<1>. DEFINE a == len + Stride - 1
<1>1. n * Stride \in Nat /\ (n - 1) * Stride = n * Stride - Stride /\ Stride * n = n * Stride
  BY ONLY StrideType, n \in Nat
<1>2. a \in Nat /\ Stride * n <= a /\ a < Stride * n + Stride
  <2>1. CASE n = 0
    BY <1>1, <2>1, StrideType
  <2>2. CASE n # 0
    BY <1>1, <2>2, StrideType
  <2>. QED BY <2>1, <2>2
<1>. HIDE DEF a
<1>3. a \div Stride = n
  BY <1>2, StrideType, QuotientIs
<1>. QED BY <1>3 DEF CeilDiv, a

LEMMA BufferLaid ==
  ASSUME NEW bs, Laid(bs)
  PROVE  /\ NodeBuffer(bs) \in Seq(Bytes)
         /\ \E off : /\ off \in [0 .. Len(bs) -> Nat] /\ off[Len(bs)] = Len(NodeBuffer(bs))
                     /\ \A i \in 0 .. Len(bs) : off[i] <= i * Stride
                                                  /\ (i < Len(bs) => off[i] = i * Stride)
                     /\ \A i \in 1 .. Len(bs) :
                          /\ off[i] = off[i - 1] + IntSize + Len(bs[i].data)
                          /\ off[i] <= Len(NodeBuffer(bs))
                          /\ Holds(NodeBuffer(bs), off[i - 1] + 1, Uint(bs[i].num))
                          /\ Holds(NodeBuffer(bs), off[i - 1] + 1 + IntSize, bs[i].data)
<1>. DEFINE n == Len(bs)
            parts == [i \in DOMAIN bs |-> Uint(bs[i].num) \o bs[i].data]
            buf == NodeBuffer(bs)
<1>1. n \in Nat /\ DOMAIN bs = 1 .. n /\ \A i \in 1 .. n : bs[i] \in Blocks
  BY SequenceIs DEF Laid
<1>2. ASSUME NEW i \in 1 .. n
      PROVE  /\ parts[i] = Uint(bs[i].num) \o bs[i].data /\ parts[i] \in Seq(Bytes)
             /\ Len(parts[i]) = IntSize + Len(bs[i].data) /\ Len(parts[i]) \in Nat
             /\ Uint(bs[i].num) \in Seq(Bytes) /\ Len(Uint(bs[i].num)) = IntSize
             /\ bs[i].data \in Seq(Bytes) /\ Len(bs[i].data) \in Nat
  <2>1. parts[i] = Uint(bs[i].num) \o bs[i].data
    BY <1>1
  <2>2. /\ Uint(bs[i].num) \in Seq(Bytes) /\ Len(Uint(bs[i].num)) = IntSize
        /\ bs[i].data \in Seq(Bytes) /\ Len(bs[i].data) \in Nat
    BY <1>1, BlockType
  <2>. HIDE DEF parts
  <2>3. parts[i] \in Seq(Bytes) /\ Len(parts[i]) = IntSize + Len(bs[i].data)
    BY <2>1, <2>2, LenBoth
  <2>. QED BY <2>1, <2>2, <2>3, Constants
<1>3. Len(parts) = n /\ (n = 0 => parts = <<>>) /\ buf = FlattenSeq(parts)
  <2>1. Len(parts) = n
    BY <1>1
  <2>2. n = 0 => parts = <<>>
    BY <1>1
  <2>3. buf = FlattenSeq(parts)
    BY DEF NodeBuffer
  <2>. QED BY <2>1, <2>2, <2>3
<1>. HIDE DEF parts, n, buf
<1>4. buf \in Seq(Bytes) /\ \E off : Joins(parts, off, buf)
  BY <1>1, <1>2, <1>3, FlattenJoins
<1>5. PICK off : Joins(parts, off, buf)
  BY <1>4
<1>6. ASSUME NEW i \in 1 .. n
      PROVE  /\ off[i - 1] \in Nat /\ off[i] \in Nat
             /\ off[i] = off[i - 1] + IntSize + Len(bs[i].data) /\ off[i] <= Len(buf)
             /\ Holds(buf, off[i - 1] + 1, Uint(bs[i].num))
             /\ Holds(buf, off[i - 1] + 1 + IntSize, bs[i].data)
  <2>1. Len(parts) \in Nat /\ i \in 1 .. Len(parts) /\ Len(parts[i]) \in Nat
    BY <1>1, <1>2, <1>3
  <2>2. /\ off[i - 1] \in Nat /\ off[i] \in Nat /\ off[i] = off[i - 1] + Len(parts[i])
        /\ off[i] <= Len(buf) /\ Holds(buf, off[i - 1] + 1, parts[i])
    BY <1>5, <2>1, JoinsHolds
  <2>3. off[i - 1] + 1 \in Nat \ {0}
    BY <2>2
  <2>4. /\ Holds(buf, off[i - 1] + 1, Uint(bs[i].num))
        /\ Holds(buf, (off[i - 1] + 1) + Len(Uint(bs[i].num)), bs[i].data)
    BY <1>2, <2>2, <2>3, HoldsBoth
  <2>5. off[i] = off[i - 1] + IntSize + Len(bs[i].data)
    <3>. DEFINE d == Len(bs[i].data)
    <3>1. Len(parts[i]) = IntSize + d /\ d \in Nat
      BY <1>2
    <3>. HIDE DEF d
    <3>2. off[i] = off[i - 1] + IntSize + d
      BY <2>2, <3>1, Constants
    <3>. QED BY <3>2 DEF d
  <2>6. off[i - 1] + 1 + IntSize = (off[i - 1] + 1) + Len(Uint(bs[i].num))
    BY <1>2
  <2>. QED BY <2>2, <2>4, <2>5, <2>6
<1>7. off \in [0 .. n -> Nat] /\ off[n] = Len(buf) /\ off[0] = 0
  BY <1>3, <1>5 DEF Joins
<1>8. \A i \in 1 .. n : /\ Len(bs[i].data) \in 1 .. DataBlockSize
                        /\ i < n => Len(bs[i].data) = DataBlockSize
  BY DEF Laid, n
<1>. DEFINE InPlace(i) == off[i] <= i * Stride /\ (i < n => off[i] = i * Stride)
            Good == {i \in 0 .. n : InPlace(i)}
<1>9. ASSUME NEW i \in 1 .. n, i - 1 \in Good PROVE i \in Good
  <2>1. i \in 0 .. n /\ i \in Nat /\ i - 1 < n /\ i <= n
    BY <1>1
  <2>2. off[i - 1] = (i - 1) * Stride
    BY <1>9, <2>1
  <2>3. (i - 1) * Stride + Stride = i * Stride /\ (i - 1) * Stride \in Int
    BY <2>1, StrideType, OneMore
  <2>4. off[i] = (i - 1) * Stride + IntSize + Len(bs[i].data)
    BY <1>6, <2>2
  <2>. DEFINE d == Len(bs[i].data)
              before == (i - 1) * Stride
              after == i * Stride
  <2>5. d \in 1 .. DataBlockSize /\ (i < n => d = DataBlockSize)
    BY <1>8
  <2>. HIDE DEF d, before, after
  <2>6. before + Stride = after /\ before \in Int /\ off[i] = before + IntSize + d
    BY <2>3, <2>4 DEF d, before, after
  <2>7. off[i] <= after
    BY <2>5, <2>6, Constants DEF Stride
  <2>8. i < n => off[i] = after
    BY <2>5, <2>6, Constants DEF Stride
  <2>. QED BY <2>1, <2>7, <2>8 DEF after
<1>10. \A i \in 0 .. n : i \in Good
  <2>1. 0 \in Good
    BY <1>1, <1>7, StrideType
  <2>. HIDE DEF Good
  <2>. QED BY <1>1, <1>9, <2>1, CountUp
<1>11. \A i \in 0 .. n : InPlace(i)
  BY <1>10
<1>. QED BY <1>4, <1>6, <1>7, <1>11 DEF n, buf

(* What writeBlocks lays down for a key readBlocks finds again, though no  *)
(* lengths are stored, as long as no block is empty and all but the last   *)
(* are full.                                                               *)
THEOREM BufferRoundTrip ==
  ASSUME NEW bs, Laid(bs)
  PROVE  /\ BlocksIn(NodeBuffer(bs)) = bs
         /\ Len(bs) <= Len(NodeBuffer(bs))
         /\ CeilDiv(Len(NodeBuffer(bs)), Stride) = Len(bs)
<1>. DEFINE n == Len(bs)
            buf == NodeBuffer(bs)
            len == Len(buf)
<1>1. n \in Nat /\ DOMAIN bs = 1 .. n /\ \A i \in 1 .. n : bs[i] \in Blocks
  BY SequenceIs DEF Laid
<1>2. buf \in Seq(Bytes)
  BY BufferLaid
<1>3. PICK off : /\ off \in [0 .. n -> Nat] /\ off[n] = len
                 /\ \A i \in 0 .. n : off[i] <= i * Stride /\ (i < n => off[i] = i * Stride)
                 /\ \A i \in 1 .. n :
                      /\ off[i] = off[i - 1] + IntSize + Len(bs[i].data) /\ off[i] <= len
                      /\ Holds(buf, off[i - 1] + 1, Uint(bs[i].num))
                      /\ Holds(buf, off[i - 1] + 1 + IntSize, bs[i].data)
  BY BufferLaid
<1>4. len \in Nat
  BY <1>2
<1>5. \A i \in 1 .. n : Len(bs[i].data) \in Nat \ {0}
  BY DEF Laid
<1>. HIDE DEF n, buf, len
<1>6. n # 0 => (n - 1) * Stride < len
  <2>. SUFFICES ASSUME n # 0 PROVE (n - 1) * Stride < len
    OBVIOUS
  <2>1. n \in 1 .. n /\ n - 1 \in 0 .. n /\ n - 1 < n
    BY <1>1
  <2>2. off[n - 1] = (n - 1) * Stride
    BY <1>3, <2>1
  <2>3. off[n] = off[n - 1] + IntSize + Len(bs[n].data) /\ off[n - 1] \in Nat
    BY <1>3, <2>1
  <2>4. Len(bs[n].data) \in Nat \ {0}
    BY <1>5, <2>1
  <2>. QED BY <1>3, <2>2, <2>3, <2>4, Constants
<1>7. CeilDiv(len, Stride) = n
  <2>1. len <= n * Stride
    BY <1>1, <1>3
  <2>. QED BY <1>1, <1>4, <1>6, <2>1, BlockCount
<1>8. n <= len
  <2>1. CASE n = 0
    BY <1>4, <2>1
  <2>2. CASE n # 0
    <3>1. (n - 1) * Stride >= n - 1
      <4>1. n - 1 \in Nat
        BY <1>1, <2>2
      <4>. DEFINE k == n - 1
      <4>2. k * Stride >= k
        <5>. HIDE DEF k
        <5>. QED BY <4>1, StrideType DEF k
      <4>. QED BY <4>2
    <3>. QED BY <1>1, <1>4, <1>6, <2>2, <3>1, StrideType
  <2>. QED BY <2>1, <2>2
<1>. DEFINE Place(i) == (i - 1) * Stride + 1
            Ends(i) == Min({i * Stride, len})
<1>9. ASSUME NEW i \in 1 .. n
      PROVE  [num |-> UintAt(buf, Place(i)), data |-> SubSeq(buf, Place(i) + IntSize, Ends(i))] = bs[i]
  <2>1. i \in 0 .. n /\ i - 1 \in 0 .. n /\ i - 1 < n /\ i \in Nat /\ i <= n
    BY <1>1
  <2>2. off[i - 1] = (i - 1) * Stride /\ off[i - 1] \in Nat /\ off[i] \in Nat
    BY <1>3, <2>1
  <2>3. Place(i) = off[i - 1] + 1
    BY <2>2
  <2>4. i * Stride \in Int
    BY <2>1, StrideType
  <2>5. Ends(i) = off[i]
    <3>1. CASE i < n
      <4>1. off[i] = i * Stride /\ off[i] <= len
        BY <1>3, <2>1, <3>1
      <4>. QED BY <1>4, <2>4, <4>1, MinOfTwo
    <3>2. CASE ~ (i < n)
      <4>1. i = n
        BY <1>1, <2>1, <3>2
      <4>2. len <= i * Stride /\ off[i] = len
        BY <1>3, <2>1, <4>1
      <4>. QED BY <1>4, <2>4, <4>2, MinOfTwo
    <3>. QED BY <3>1, <3>2
  <2>6. /\ off[i] = off[i - 1] + IntSize + Len(bs[i].data) /\ off[i] <= len
        /\ Holds(buf, off[i - 1] + 1, Uint(bs[i].num))
        /\ Holds(buf, off[i - 1] + 1 + IntSize, bs[i].data)
    BY <1>3
  <2>. HIDE DEF Place, Ends
  <2>. DEFINE b == bs[i]
              p == off[i - 1] + 1
              d == p + IntSize
  <2>7. b \in Blocks /\ Len(b.data) \in Nat
    BY <1>1, <1>5
  <2>8. p \in Nat \ {0} /\ d \in Nat \ {0} /\ d + Len(b.data) - 1 = off[i]
        /\ Place(i) = p /\ Place(i) + IntSize = d
    <3>. HIDE DEF b
    <3>1. off[i] = off[i - 1] + IntSize + Len(b.data)
      BY <2>6 DEF b
    <3>. DEFINE c == Len(b.data)
                o == off[i - 1]
    <3>2. off[i] = o + IntSize + c /\ c \in Nat /\ o \in Nat /\ p = o + 1 /\ d = o + 1 + IntSize
      BY <2>2, <2>7, <3>1
    <3>3. Place(i) = p
      BY <2>3
    <3>. HIDE DEF c, o, p, d
    <3>4. p \in Nat \ {0} /\ d \in Nat \ {0} /\ p + IntSize = d
      BY <3>2, Constants
    <3>5. d + c - 1 = off[i]
      BY <3>2, Constants
    <3>. QED BY <3>3, <3>4, <3>5 DEF c
  <2>9. Holds(buf, p, Uint(b.num)) /\ Holds(buf, d, b.data)
    BY <2>6
  <2>. HIDE DEF b, p, d
  <2>10. UintAt(buf, p) = b.num
    BY <2>7, <2>8, <2>9, BlockType, HoldsUint
  <2>11. SubSeq(buf, d, off[i]) = b.data
    <3>1. b.data \in Seq(Bytes) /\ d + Len(b.data) - 1 <= Len(buf)
      BY <2>6, <2>7, <2>8, BlockType DEF len
    <3>2. SubSeq(buf, d, d + Len(b.data) - 1) = b.data
      BY <1>2, <2>8, <2>9, <3>1, HoldsSubSeq
    <3>. QED BY <2>8, <3>2
  <2>12. [num |-> b.num, data |-> b.data] = b
    BY <2>7, BlockType
  <2>. QED BY <2>5, <2>8, <2>10, <2>11, <2>12 DEF b
<1>10. BlocksIn(buf) = [i \in 1 .. n |->
           [num |-> UintAt(buf, Place(i)), data |-> SubSeq(buf, Place(i) + IntSize, Ends(i))]]
  BY <1>7 DEF BlocksIn, Stride, len
<1>. HIDE DEF Place, Ends
<1>11. BlocksIn(buf) = [i \in 1 .. n |-> bs[i]]
  BY <1>9, <1>10
<1>12. bs = [i \in 1 .. n |-> bs[i]]
  BY <1>1 DEF Laid
<1>. QED BY <1>7, <1>8, <1>11, <1>12 DEF n, buf, len

-----------------------------------------------------------------------------
(* The blocks of a value *)

LEMMA Scale ==
  ASSUME NEW i \in Int, NEW j \in Int, i <= j, NEW k \in Nat
  PROVE  i * k <= j * k /\ i * k \in Int /\ j * k \in Int
<1>1. (j - i) * k >= 0
  <2>. DEFINE d == j - i
  <2>1. d \in Nat
    OBVIOUS
  <2>. HIDE DEF d
  <2>2. d * k >= 0
    BY <2>1
  <2>. QED BY <2>2 DEF d
<1>2. (j - i) * k = j * k - i * k
  OBVIOUS
<1>. QED BY <1>1, <1>2

(* Where the i-th block of a value ends. *)
BlockEnd(v, i) == Min({i * DataBlockSize, Len(v)})

(* The number of blocks of a value. *)
SplitCount(v) == CeilDiv(Len(v), DataBlockSize)

LEMMA BlockEnds ==
  ASSUME NEW v, Len(v) \in Nat
  PROVE  /\ SplitCount(v) \in Nat /\ SplitCount(v) <= Len(v)
         /\ \A i \in 1 .. SplitCount(v) :
              /\ (i - 1) * DataBlockSize \in Nat /\ (i - 1) * DataBlockSize < Len(v)
              /\ BlockEnd(v, i) \in Nat
              /\ i < SplitCount(v) => BlockEnd(v, i) = i * DataBlockSize
              /\ i = SplitCount(v) => BlockEnd(v, i) = Len(v)
              /\ BlockEnd(v, i) > (i - 1) * DataBlockSize
              /\ BlockEnd(v, i) <= (i - 1) * DataBlockSize + DataBlockSize
              /\ BlockEnd(v, i) <= Len(v)
         /\ SplitCount(v) = 0 => Len(v) = 0
<1>. DEFINE c == SplitCount(v)
            len == Len(v)
            D == DataBlockSize
<1>1. c \in Nat /\ len <= D * c /\ D * c < len + D /\ D \in Nat /\ D > 0 /\ len \in Nat
  <2>1. len \in Nat /\ D \in Nat \ {0} /\ D \in Nat /\ D > 0
    BY Constants
  <2>2. c = (len + D - 1) \div D
    BY DEF SplitCount, CeilDiv
  <2>. HIDE DEF c, len, D
  <2>. QED BY <2>1, <2>2, CeilDivBounds
<1>. HIDE DEF c, len, D
<1>2. D * c = c * D /\ c * D \in Nat
  BY <1>1
<1>3. ASSUME NEW i \in 1 .. c
      PROVE  /\ (i - 1) * D \in Nat /\ (i - 1) * D < len
             /\ i * D = (i - 1) * D + D
             /\ i < c => i * D < len
             /\ i = c => len <= i * D
  <2>. DEFINE a == (i - 1) * D
              b == i * D
              e == (c - 1) * D
  <2>1. i - 1 \in Nat /\ i \in Int /\ c - 1 \in Int /\ i - 1 <= c - 1
    BY <1>1
  <2>2. a \in Nat /\ b \in Int /\ e \in Int /\ b = a + D /\ c * D = e + D
    BY <1>1, <2>1, OneMore
  <2>3. a <= e
    BY <1>1, <2>1, Scale
  <2>4. i < c => b <= e
    BY <1>1, <2>1, Scale
  <2>5. i = c => b = c * D
    OBVIOUS
  <2>. HIDE DEF a, b, e
  <2>6. a \in Nat /\ a < len /\ b = a + D /\ (i < c => b < len)
    BY <1>1, <1>2, <2>2, <2>3, <2>4
  <2>7. i = c => len <= b
    BY <1>1, <1>2, <2>5
  <2>. QED BY <2>6, <2>7 DEF a, b
<1>4. ASSUME NEW i \in 1 .. c
      PROVE  /\ BlockEnd(v, i) \in Nat
             /\ i < c => BlockEnd(v, i) = i * D
             /\ i = c => BlockEnd(v, i) = len
             /\ BlockEnd(v, i) > (i - 1) * D
             /\ BlockEnd(v, i) <= (i - 1) * D + D
             /\ BlockEnd(v, i) <= len
  <2>1. BlockEnd(v, i) = Min({i * D, len})
    BY DEF BlockEnd, D, len
  <2>2. i * D \in Int /\ len \in Int
    BY <1>1, <1>3
  <2>. DEFINE a == (i - 1) * D
              b == i * D
  <2>3. /\ a \in Nat /\ a < len /\ b = a + D
        /\ i < c => b < len
        /\ i = c => len <= b
    BY <1>3
  <2>4. b \in Int /\ BlockEnd(v, i) = Min({b, len})
    BY <2>1, <2>2
  <2>. HIDE DEF a, b
  <2>5. CASE i < c
    <3>1. BlockEnd(v, i) = b
      BY <1>1, <2>3, <2>4, <2>5, MinOfTwo
    <3>. QED BY <1>1, <2>3, <2>5, <3>1 DEF a, b
  <2>6. CASE i = c
    <3>1. BlockEnd(v, i) = len
      BY <1>1, <2>3, <2>4, <2>6, MinOfTwo
    <3>. QED BY <1>1, <2>3, <2>6, <3>1 DEF a, b
  <2>. QED BY <1>1, <2>5, <2>6
<1>5. c <= len
  <2>1. CASE c = 0
    BY <1>1, <2>1
  <2>2. CASE c # 0
    <3>1. c \in 1 .. c /\ c - 1 \in Nat
      BY <1>1, <2>2
    <3>2. (c - 1) * D < len
      BY <1>3, <3>1
    <3>3. (c - 1) * 1 <= (c - 1) * D
      <4>. DEFINE k == c - 1
      <4>1. k \in Nat
        BY <3>1
      <4>. HIDE DEF k
      <4>2. k <= k * D
        BY <1>1, <4>1
      <4>. QED BY <4>1, <4>2 DEF k
    <3>. QED BY <1>1, <3>1, <3>2, <3>3
  <2>. QED BY <2>1, <2>2
<1>6. c = 0 => len = 0
  BY <1>1
<1>. QED BY <1>1, <1>3, <1>4, <1>5, <1>6 DEF c, len, D

LEMMA SplitBlock ==
  ASSUME NEW v \in Seq(Bytes), Len(v) < Word, NEW i \in 1 .. SplitCount(v)
  PROVE  /\ Split(v)[i] \in Blocks /\ Split(v)[i].num = i - 1
         /\ Len(Split(v)[i].data) \in 1 .. DataBlockSize
         /\ i < SplitCount(v) => Len(Split(v)[i].data) = DataBlockSize
         /\ Len(Split(v)[i].data) = BlockEnd(v, i) - (i - 1) * DataBlockSize
         /\ \A j \in 1 .. Len(Split(v)[i].data) :
              Split(v)[i].data[j] = v[(i - 1) * DataBlockSize + j]
<1>. DEFINE a == (i - 1) * DataBlockSize
            e == BlockEnd(v, i)
            data == SubSeq(v, a + 1, e)
<1>1. Len(v) \in Nat
  OBVIOUS
<1>2. /\ a \in Nat /\ e \in Nat /\ e > a /\ e <= a + DataBlockSize /\ e <= Len(v)
      /\ SplitCount(v) \in Nat /\ SplitCount(v) <= Len(v)
  BY <1>1, BlockEnds
<1>3. i < SplitCount(v) => e = a + DataBlockSize
  <2>1. i < SplitCount(v) => e = i * DataBlockSize
    BY <1>1, BlockEnds
  <2>2. a + DataBlockSize = i * DataBlockSize
    BY <1>2, Constants, OneMore
  <2>. QED BY <2>1, <2>2
<1>4. Split(v)[i] = [num |-> i - 1, data |-> data]
  BY DEF Split, BlockEnd, SplitCount
<1>. HIDE DEF a, e
<1>5. data \in Seq(Bytes) /\ Len(data) = e - a /\ \A j \in 1 .. (e - a) : data[j] = v[a + j]
  <2>1. a + 1 \in 1 .. Len(v) + 1 /\ e \in 0 .. Len(v)
    BY <1>1, <1>2
  <2>2. data \in Seq(Bytes)
    <3>1. \A j \in (a + 1) .. e : j \in 1 .. Len(v)
      BY <1>1, <1>2
    <3>. QED BY <1>2, <3>1
  <2>3. Len(data) = e - a
    BY <1>2
  <2>. QED BY <1>2, <2>2, <2>3
<1>. HIDE DEF data
<1>6. Len(data) \in 1 .. DataBlockSize /\ Len(data) < Word
  BY <1>1, <1>2, <1>5, Constants, WordType
<1>7. i < SplitCount(v) => Len(data) = DataBlockSize
  BY <1>2, <1>3, <1>5, Constants
<1>8. i - 1 \in 0 .. (Word - 1)
  BY <1>1, <1>2, WordType
<1>9. [num |-> i - 1, data |-> data] \in Blocks
  BY <1>5, <1>6, <1>8 DEF Blocks
<1>. QED BY <1>4, <1>5, <1>6, <1>7, <1>9 DEF a, e

LEMMA SplitLaid ==
  ASSUME NEW v \in Seq(Bytes), Len(v) < Word
  PROVE  /\ Len(Split(v)) = SplitCount(v) /\ SplitCount(v) \in Nat
         /\ Split(v) \in Seq(Blocks) /\ Laid(Split(v))
<1>1. SplitCount(v) \in Nat
  BY BlockEnds
<1>2. Split(v) = [i \in 1 .. SplitCount(v) |-> Split(v)[i]]
  BY DEF Split, SplitCount
<1>3. \A i \in 1 .. SplitCount(v) : Split(v)[i] \in Blocks
  BY SplitBlock
<1>4. Len(Split(v)) = SplitCount(v)
  BY <1>1, <1>2
<1>5. Split(v) \in Seq(Blocks)
  <2>1. Split(v) \in [1 .. SplitCount(v) -> Blocks]
    BY <1>2, <1>3
  <2>. QED BY <1>1, <2>1
<1>6. \A i \in 1 .. Len(Split(v)) :
        /\ Len(Split(v)[i].data) \in 1 .. DataBlockSize
        /\ i < Len(Split(v)) => Len(Split(v)[i].data) = DataBlockSize
  BY <1>4, SplitBlock
<1>. QED BY <1>1, <1>4, <1>5, <1>6 DEF Laid

(* The blocks of a value, put together again, are the value. *)
LEMMA SplitJoins ==
  ASSUME NEW v \in Seq(Bytes), Len(v) < Word, NEW parts, Len(parts) = SplitCount(v),
         \A i \in 1 .. SplitCount(v) : parts[i] = Split(v)[i].data,
         SplitCount(v) = 0 => parts = <<>>
  PROVE  FlattenSeq(parts) = v
<1>. DEFINE n == SplitCount(v)
            whole == FlattenSeq(parts)
            D == DataBlockSize
<1>1. n \in Nat /\ Len(v) \in Nat /\ (n = 0 => Len(v) = 0)
  BY BlockEnds
<1>2. \A i \in 1 .. n : parts[i] \in Seq(Bytes)
  <2>. SUFFICES ASSUME NEW i \in 1 .. n PROVE parts[i] \in Seq(Bytes)
    OBVIOUS
  <2>1. Split(v)[i] \in Blocks
    BY SplitBlock
  <2>. QED BY <2>1, BlockType
<1>3. whole \in Seq(Bytes) /\ \E off : Joins(parts, off, whole)
  <2>1. Len(parts) = n /\ (n = 0 => parts = <<>>)
    OBVIOUS
  <2>. HIDE DEF n
  <2>. QED BY <1>1, <1>2, <2>1, FlattenJoins
<1>4. PICK off : Joins(parts, off, whole)
  BY <1>3
<1>5. \A i \in 0 .. n : off[i] \in Nat
  BY <1>4 DEF Joins
<1>6. off[0] = 0 /\ off[n] = Len(whole)
  BY <1>4 DEF Joins
<1>. DEFINE Good == {i \in 0 .. n : i # 0 => off[i] = BlockEnd(v, i)}
<1>7. ASSUME NEW i \in 1 .. n, i - 1 \in Good PROVE i \in Good /\ off[i - 1] = (i - 1) * D
  <2>1. i \in 0 .. n /\ i - 1 \in 0 .. n /\ i # 0
    BY <1>1
  <2>2. off[i - 1] = (i - 1) * D
    <3>1. CASE i = 1
      <4>1. i - 1 = 0 /\ 0 * D = 0
        BY <3>1, Constants
      <4>. QED BY <1>6, <4>1
    <3>2. CASE i # 1
      <4>1. i - 1 \in 1 .. n /\ i - 1 < n /\ i - 1 # 0
        BY <1>1, <3>2
      <4>2. off[i - 1] = BlockEnd(v, i - 1)
        BY <1>7, <4>1
      <4>3. BlockEnd(v, i - 1) = (i - 1) * D
        BY <1>1, <4>1, BlockEnds
      <4>. QED BY <4>2, <4>3
    <3>. QED BY <3>1, <3>2
  <2>3. off[i] = off[i - 1] + Len(parts[i])
    BY <1>4 DEF Joins
  <2>4. Len(parts[i]) = BlockEnd(v, i) - (i - 1) * D
    BY SplitBlock
  <2>5. BlockEnd(v, i) \in Nat /\ (i - 1) * D \in Nat
    BY <1>1, BlockEnds
  <2>6. off[i] = BlockEnd(v, i)
    <3>. DEFINE a == (i - 1) * D
    <3>1. off[i] = a + (BlockEnd(v, i) - a) /\ a \in Nat
      BY <2>2, <2>3, <2>4, <2>5
    <3>. HIDE DEF a
    <3>. QED BY <2>5, <3>1
  <2>. QED BY <2>1, <2>2, <2>6
<1>8. \A i \in 0 .. n : i \in Good
  <2>1. 0 \in Good
    BY <1>1
  <2>. HIDE DEF Good, n
  <2>. QED BY <1>1, <1>7, <2>1, CountUp
<1>9. Len(whole) = Len(v)
  <2>1. CASE n = 0
    BY <1>1, <1>6, <2>1
  <2>2. CASE n # 0
    <3>1. n \in 0 .. n /\ n \in 1 .. n
      BY <1>1, <2>2
    <3>2. off[n] = BlockEnd(v, n)
      BY <1>8, <2>2, <3>1
    <3>3. BlockEnd(v, n) = Len(v)
      BY <1>1, <3>1, BlockEnds
    <3>. QED BY <1>6, <3>2, <3>3
  <2>. QED BY <2>1, <2>2
<1>10. ASSUME NEW p \in 1 .. Len(whole) PROVE whole[p] = v[p]
  <2>1. PICK i \in 1 .. n : off[i - 1] < p /\ p <= off[i]
    <3>1. Len(parts) = n
      OBVIOUS
    <3>. HIDE DEF n, whole
    <3>. QED BY <1>1, <1>4, <3>1, JoinsCovers
  <2>2. i - 1 \in Good /\ i - 1 \in 0 .. n /\ i \in 0 .. n
    BY <1>1, <1>8
  <2>3. off[i - 1] = (i - 1) * D
    BY <1>7, <2>2
  <2>4. /\ off[i] = off[i - 1] + Len(parts[i])
        /\ \A j \in 1 .. Len(parts[i]) : whole[off[i - 1] + j] = parts[i][j]
    BY <1>4 DEF Joins
  <2>5. off[i - 1] \in Nat /\ off[i] \in Nat /\ Len(parts[i]) \in Nat
    BY <1>2, <1>5, <2>2
  <2>. DEFINE j == p - off[i - 1]
  <2>6. j \in 1 .. Len(parts[i]) /\ off[i - 1] + j = p
    BY <2>1, <2>4, <2>5, <1>3
  <2>7. parts[i][j] = v[(i - 1) * D + j]
    <3>. HIDE DEF j
    <3>1. Len(parts[i]) = Len(Split(v)[i].data) /\ parts[i][j] = Split(v)[i].data[j]
      OBVIOUS
    <3>2. j \in 1 .. Len(Split(v)[i].data)
      BY <2>6, <3>1
    <3>3. Split(v)[i].data[j] = v[(i - 1) * D + j]
      BY <3>2, SplitBlock
    <3>. QED BY <3>1, <3>3
  <2>8. (i - 1) * D + j = p
    BY <2>3, <2>6
  <2>. QED BY <2>4, <2>6, <2>7, <2>8
<1>. HIDE DEF whole
<1>11. whole \in Seq(Bytes) /\ v \in Seq(Bytes)
  BY <1>3
<1>12. whole = v
  BY ONLY <1>9, <1>10, <1>11
<1>. QED BY <1>12 DEF whole

-----------------------------------------------------------------------------
(* Blocks picked by their numbers *)

(* Blocks in the order of their numbers, none of which is there twice. *)
Ascending(bs) == \A i, j \in 1 .. Len(bs) : i < j => bs[i].num < bs[j].num

LEMMA AscendingDiffer ==
  ASSUME NEW bs \in Seq(Blocks), Ascending(bs), NEW i \in 1 .. Len(bs), NEW j \in 1 .. Len(bs),
         bs[i].num = bs[j].num
  PROVE  i = j
<1>1. bs[i].num \in Nat /\ bs[j].num \in Nat /\ i \in Nat /\ j \in Nat
  BY BlockType, SequenceIs
<1>2. (i < j => bs[i].num < bs[j].num) /\ (j < i => bs[j].num < bs[i].num)
  BY DEF Ascending
<1>. QED BY <1>1, <1>2

(* The blocks with one of some numbers: where each of them comes from.     *)
Chosen(bs, nums) == {i \in 1 .. Len(bs) : bs[i].num \in nums}

LEMMA NumberedPicks ==
  ASSUME NEW bs \in Seq(Blocks), NEW nums
  PROVE  /\ BlocksNumbered(bs, nums) \in Seq(Blocks)
         /\ \E pos : Picks(bs, Chosen(bs, nums), BlocksNumbered(bs, nums), pos)
<1>. DEFINE n == Len(bs)
            parts == [i \in DOMAIN bs |-> IF bs[i].num \in nums THEN <<bs[i]>> ELSE <<>>]
            kept == Chosen(bs, nums)
<1>1. n \in Nat /\ DOMAIN bs = 1 .. n /\ \A i \in 1 .. n : bs[i] \in Blocks
  BY SequenceIs
<1>2. Len(parts) = n /\ (n = 0 => parts = <<>>)
  <2>1. Len(parts) = n
    BY <1>1
  <2>2. n = 0 => parts = <<>>
    BY <1>1
  <2>. QED BY <2>1, <2>2
<1>3. kept \subseteq 1 .. n
  BY DEF Chosen
<1>4. ASSUME NEW i \in 1 .. n PROVE parts[i] = IF i \in kept THEN <<bs[i]>> ELSE <<>>
  BY <1>1 DEF Chosen
<1>5. BlocksNumbered(bs, nums) = FlattenSeq(parts)
  BY DEF BlocksNumbered
<1>6. \A i \in kept : bs[i] \in Blocks
  BY <1>1, <1>3
<1>. HIDE DEF parts, kept, n
<1>7. FlattenSeq(parts) \in Seq(Blocks) /\ \E pos : Picks(bs, kept, FlattenSeq(parts), pos)
  BY <1>1, <1>2, <1>3, <1>4, <1>6, FilterPicks
<1>. QED BY <1>5, <1>7 DEF kept

LEMMA NumberedHas ==
  ASSUME NEW bs \in Seq(Blocks), NEW nums
  PROVE  /\ BlocksNumbered(bs, nums) \in Seq(Blocks)
         /\ ToSet(BlocksNumbered(bs, nums)) = {b \in ToSet(bs) : b.num \in nums}
<1>. DEFINE sub == BlocksNumbered(bs, nums)
<1>1. PICK pos : Picks(bs, Chosen(bs, nums), sub, pos)
  BY NumberedPicks
<1>2. sub \in Seq(Blocks)
  BY NumberedPicks
<1>3. Len(sub) \in Nat /\ DOMAIN sub = 1 .. Len(sub) /\ DOMAIN bs = 1 .. Len(bs)
  BY <1>2, SequenceIs
<1>. HIDE DEF sub
<1>4. ToSet(sub) = {sub[k] : k \in 1 .. Len(sub)} /\ ToSet(bs) = {bs[k] : k \in 1 .. Len(bs)}
  BY <1>3 DEF ToSet
<1>5. ASSUME NEW k \in 1 .. Len(sub) PROVE sub[k] \in ToSet(bs) /\ sub[k].num \in nums
  <2>1. pos[k] \in Chosen(bs, nums) /\ sub[k] = bs[pos[k]]
    BY <1>1 DEF Picks
  <2>. QED BY <1>4, <2>1 DEF Chosen
<1>6. ASSUME NEW b \in ToSet(bs), b.num \in nums PROVE b \in ToSet(sub)
  <2>1. PICK i \in 1 .. Len(bs) : b = bs[i]
    BY <1>4
  <2>2. i \in Chosen(bs, nums)
    BY <1>6, <2>1 DEF Chosen
  <2>3. PICK k \in 1 .. Len(sub) : pos[k] = i
    BY <1>1, <2>2 DEF Picks
  <2>4. sub[k] = bs[pos[k]]
    BY <1>1 DEF Picks
  <2>. QED BY <1>4, <2>1, <2>3, <2>4
<1>. QED BY <1>2, <1>4, <1>5, <1>6 DEF sub

LEMMA NumberedLaid ==
  ASSUME NEW bs, Laid(bs), Ascending(bs), NEW nums
  PROVE  /\ Laid(BlocksNumbered(bs, nums)) /\ Ascending(BlocksNumbered(bs, nums))
         /\ Len(BlocksNumbered(bs, nums)) = Cardinality(Chosen(bs, nums))
<1>. DEFINE sub == BlocksNumbered(bs, nums)
            kept == Chosen(bs, nums)
<1>1. bs \in Seq(Blocks) /\ Len(bs) \in Nat
  BY SequenceIs DEF Laid
<1>2. PICK pos : Picks(bs, kept, sub, pos)
  BY <1>1, NumberedPicks
<1>3. sub \in Seq(Blocks) /\ Len(sub) \in Nat
  BY <1>1, NumberedPicks, SequenceIs
<1>4. kept \subseteq 1 .. Len(bs)
  BY DEF Chosen
<1>. HIDE DEF sub, kept
<1>5. /\ pos \in [1 .. Len(sub) -> kept]
      /\ \A k \in 1 .. Len(sub) : sub[k] = bs[pos[k]]
      /\ \A j, k \in 1 .. Len(sub) : j < k => pos[j] < pos[k]
      /\ \A i \in kept : \E k \in 1 .. Len(sub) : pos[k] = i
  BY <1>2 DEF Picks
<1>6. ASSUME NEW k \in 1 .. Len(sub) PROVE pos[k] \in 1 .. Len(bs) /\ pos[k] \in Nat
  <2>1. pos[k] \in kept
    BY <1>5
  <2>2. pos[k] \in 1 .. Len(bs)
    BY <1>4, <2>1
  <2>. QED BY <2>2
<1>7. Ascending(sub)
  <2>. SUFFICES ASSUME NEW i \in 1 .. Len(sub), NEW j \in 1 .. Len(sub), i < j
                PROVE  sub[i].num < sub[j].num
    BY DEF Ascending
  <2>1. pos[i] < pos[j] /\ pos[i] \in 1 .. Len(bs) /\ pos[j] \in 1 .. Len(bs)
    BY <1>5, <1>6
  <2>2. bs[pos[i]].num < bs[pos[j]].num
    BY <2>1 DEF Ascending
  <2>. QED BY <1>5, <2>2
<1>8. ASSUME NEW k \in 1 .. Len(sub)
      PROVE  /\ Len(sub[k].data) \in 1 .. DataBlockSize
             /\ k < Len(sub) => Len(sub[k].data) = DataBlockSize
  <2>1. sub[k] = bs[pos[k]] /\ pos[k] \in 1 .. Len(bs)
    BY <1>5, <1>6
  <2>2. k < Len(sub) => pos[k] < Len(bs)
    <3>. SUFFICES ASSUME k < Len(sub) PROVE pos[k] < Len(bs)
      OBVIOUS
    <3>1. Len(sub) \in 1 .. Len(sub)
      BY <1>3
    <3>2. pos[k] < pos[Len(sub)] /\ pos[Len(sub)] \in 1 .. Len(bs)
      BY <1>5, <1>6, <3>1
    <3>. QED BY <1>1, <1>6, <3>2
  <2>. DEFINE p == pos[k]
  <2>3. p \in 1 .. Len(bs) /\ (k < Len(sub) => p < Len(bs))
    BY <2>1, <2>2
  <2>. HIDE DEF p
  <2>4. Len(bs[p].data) \in 1 .. DataBlockSize /\ (p < Len(bs) => Len(bs[p].data) = DataBlockSize)
    BY <2>3 DEF Laid
  <2>. QED BY <2>1, <2>3, <2>4 DEF p
<1>9. Laid(sub)
  BY <1>3, <1>8 DEF Laid
<1>10. Len(sub) = Cardinality(kept)
  <2>1. \A i, j \in 1 .. Len(sub) : pos[i] = pos[j] => i = j
    <3>. SUFFICES ASSUME NEW i \in 1 .. Len(sub), NEW j \in 1 .. Len(sub), pos[i] = pos[j]
                  PROVE  i = j
      OBVIOUS
    <3>1. (i < j => pos[i] < pos[j]) /\ (j < i => pos[j] < pos[i])
      BY <1>5
    <3>2. pos[i] \in Nat /\ pos[j] \in Nat
      BY <1>6
    <3>. QED BY <3>1, <3>2
  <2>. DEFINE n == Len(sub)
  <2>2. /\ n \in Nat /\ pos \in [1 .. n -> kept] 
        /\ \A i, j \in 1 .. n : pos[i] = pos[j] => i = j
        /\ \A x \in kept : \E i \in 1 .. n : pos[i] = x
    BY <1>3, <1>5, <2>1
  <2>. HIDE DEF n
  <2>3. Cardinality(kept) = n
    BY <2>2, CountedBy
  <2>. QED BY <2>3 DEF n
<1>. QED BY <1>7, <1>9, <1>10 DEF sub, kept

(* The blocks of a value that have some of its numbers. *)
LEMMA SplitNumbered ==
  ASSUME NEW v \in Seq(Bytes), Len(v) < Word, NEW nums, nums \subseteq 0 .. (SplitCount(v) - 1)
  PROVE  /\ Laid(BlocksNumbered(Split(v), nums)) /\ Ascending(BlocksNumbered(Split(v), nums))
         /\ IsFiniteSet(nums) /\ Len(BlocksNumbered(Split(v), nums)) = Cardinality(nums)
         /\ {b.num : b \in ToSet(BlocksNumbered(Split(v), nums))} = nums
<1>. DEFINE bs == Split(v)
            n == SplitCount(v)
            kept == Chosen(bs, nums)
<1>1. n \in Nat /\ Len(bs) = n /\ bs \in Seq(Blocks) /\ Laid(bs)
  BY SplitLaid
<1>2. \A i \in 1 .. n : bs[i].num = i - 1
  BY SplitBlock
<1>. HIDE DEF bs, n
<1>3. Ascending(bs)
  BY <1>1, <1>2 DEF Ascending
<1>4. IsFiniteSet(nums)
  <2>1. IsFiniteSet(0 .. (n - 1))
    BY <1>1, FS_Interval
  <2>2. nums \subseteq 0 .. (n - 1)
    BY DEF n
  <2>. QED BY <2>1, <2>2, FS_Subset
<1>5. nums \subseteq 0 .. (n - 1)
  BY DEF n
<1>6. Cardinality(kept) = Cardinality(nums)
  <2>. DEFINE f == [m \in nums |-> m + 1]
  <2>1. f \in [nums -> kept] /\ \A m \in nums : f[m] = m + 1 /\ m \in Nat
    BY <1>1, <1>2, <1>5 DEF Chosen
  <2>2. \A i \in kept : i - 1 \in nums /\ f[i - 1] = i
    BY <1>1, <1>2, <1>5 DEF Chosen
  <2>. HIDE DEF f, kept
  <2>3. \A j, k \in nums : f[j] = f[k] => j = k
    BY <2>1
  <2>4. \A i \in kept : \E m \in nums : f[m] = i
    BY <2>2
  <2>5. f \in Bijection(nums, kept)
    BY <2>1, <2>3, <2>4 DEF Bijection, Injection, Surjection, IsInjective
  <2>6. ExistsBijection(nums, kept)
    BY <2>5 DEF ExistsBijection
  <2>. QED BY <1>4, <2>6, FS_Bijection
<1>7. /\ Laid(BlocksNumbered(bs, nums)) /\ Ascending(BlocksNumbered(bs, nums))
      /\ Len(BlocksNumbered(bs, nums)) = Cardinality(kept)
  BY <1>1, <1>3, NumberedLaid
<1>8. {b.num : b \in ToSet(BlocksNumbered(bs, nums))} = nums
  <2>1. ToSet(BlocksNumbered(bs, nums)) = {b \in ToSet(bs) : b.num \in nums}
    BY <1>1, NumberedHas
  <2>2. \A m \in nums : \E b \in ToSet(bs) : b.num = m
    <3>. SUFFICES ASSUME NEW m \in nums PROVE \E b \in ToSet(bs) : b.num = m
      OBVIOUS
    <3>1. m + 1 \in 1 .. n /\ (m + 1) - 1 = m
      BY <1>1, <1>5
    <3>2. bs[m + 1].num = m
      BY <1>2, <3>1
    <3>3. DOMAIN bs = 1 .. n
      BY <1>1, SequenceIs
    <3>. QED BY <3>1, <3>2, <3>3 DEF ToSet
  <2>. QED BY <2>1, <2>2
<1>. QED BY <1>4, <1>6, <1>7, <1>8 DEF bs

LEMMA NumsInBuffer ==
  ASSUME NEW bs, Laid(bs)
  PROVE  /\ BlockNumsIn(NodeBuffer(bs)) = [i \in 1 .. Len(bs) |-> bs[i].num]
         /\ BlockNumsIn(NodeBuffer(bs)) \in Seq(0 .. (Word - 1))
         /\ Len(BlockNumsIn(NodeBuffer(bs))) = Len(bs)
         /\ ToSet(BlockNumsIn(NodeBuffer(bs))) = {b.num : b \in ToSet(bs)}
<1>. DEFINE nums == BlockNumsIn(NodeBuffer(bs))
            n == Len(bs)
<1>1. n \in Nat /\ DOMAIN bs = 1 .. n /\ \A i \in 1 .. n : bs[i] \in Blocks
  BY SequenceIs DEF Laid
<1>2. nums = [i \in 1 .. n |-> bs[i].num]
  BY <1>1, BufferRoundTrip DEF BlockNumsIn
<1>. HIDE DEF nums, n
<1>3. \A i \in 1 .. n : nums[i] \in 0 .. (Word - 1)
  BY <1>1, <1>2, BlockType
<1>4. nums \in Seq(0 .. (Word - 1)) /\ Len(nums) = n
  <2>1. nums \in [1 .. n -> 0 .. (Word - 1)]
    BY <1>2, <1>3
  <2>2. nums \in Seq(0 .. (Word - 1))
    <3>. DEFINE W == 0 .. (Word - 1)
    <3>1. nums \in [1 .. n -> W]
      BY <2>1
    <3>. HIDE DEF W
    <3>2. nums \in Seq(W)
      BY <1>1, <3>1
    <3>. QED BY <3>2 DEF W
  <2>3. Len(nums) = n
    BY <1>1, <1>2
  <2>. QED BY <2>2, <2>3
<1>5. ToSet(nums) = {b.num : b \in ToSet(bs)}
  <2>1. DOMAIN nums = 1 .. n
    BY <1>2
  <2>2. ToSet(nums) = {nums[i] : i \in 1 .. n} /\ ToSet(bs) = {bs[i] : i \in 1 .. n}
    BY <1>1, <2>1 DEF ToSet, n
  <2>3. \A i \in 1 .. n : nums[i] = bs[i].num
    BY <1>2
  <2>. QED BY <2>2, <2>3
<1>. QED BY <1>2, <1>4, <1>5 DEF nums, n

-----------------------------------------------------------------------------
(* Key names *)

(* A text whose first m characters are a name, and end there.              *)
NamedTo(s, m) ==
  /\ s \in Seq(Bytes) /\ m \in 1 .. Len(s)
  /\ \A i \in 1 .. m : s[i] # Nul /\ s[i] # Slash
  /\ m < Len(s) => s[m + 1] = Nul

(* The key of a name. *)
Padded(s, m) == [i \in 1 .. KeyLength |-> IF i <= m THEN s[i] ELSE Nul]

LEMMA LeastMember ==
  ASSUME NEW S \in SUBSET Nat, NEW m \in S, \A k \in S : m <= k
  PROVE  Min(S) = m
<1>1. ASSUME NEW k \in S, \A j \in S : k <= j PROVE k = m
  <2>1. k <= m /\ m <= k /\ k \in Nat /\ m \in Nat
    BY <1>1
  <2>. QED BY <2>1
<1>. QED BY <1>1 DEF Min

LEMMA GreatestMember ==
  ASSUME NEW S \in SUBSET Nat, NEW m \in S, \A k \in S : k <= m
  PROVE  Max(S) = m
<1>1. ASSUME NEW k \in S, \A j \in S : j <= k PROVE k = m
  <2>1. k <= m /\ m <= k /\ k \in Nat /\ m \in Nat
    BY <1>1
  <2>. QED BY <2>1
<1>. QED BY <1>1 DEF Max

LEMMA BothAt ==
  ASSUME NEW T, NEW s \in Seq(T), NEW t \in Seq(T)
  PROVE  /\ s \o t \in Seq(T) /\ Len(s \o t) = Len(s) + Len(t)
         /\ \A i \in 1 .. Len(s) : (s \o t)[i] = s[i]
         /\ \A i \in 1 .. Len(t) : (s \o t)[Len(s) + i] = t[i]
<1>. DEFINE both == s \o t
<1>1. both \in Seq(T) /\ Len(both) = Len(s) + Len(t) /\ Len(s) \in Nat /\ Len(t) \in Nat
  BY LenBoth
<1>2. Holds(both, 1, s) /\ Holds(both, 1 + Len(s), t)
  <2>1. Holds(both, 1, both)
    <3>. HIDE DEF both
    <3>. QED BY <1>1 DEF Holds
  <2>. QED BY <2>1, HoldsBoth
<1>. HIDE DEF both
<1>3. \A i \in 1 .. Len(s) : both[i] = s[i]
  BY <1>1, <1>2 DEF Holds
<1>4. \A i \in 1 .. Len(t) : both[Len(s) + i] = t[i]
  <2>1. \A i \in 1 .. Len(t) : 1 + Len(s) + i - 1 = Len(s) + i
    BY <1>1
  <2>. QED BY <1>1, <1>2, <2>1 DEF Holds
<1>. QED BY <1>1, <1>3, <1>4 DEF both

LEMMA PathOf ==
  ASSUME NEW s, NEW m, NamedTo(s, m)
  PROVE  /\ StorePath(s) \in Seq(Int) /\ Len(StorePath(s)) = m + 3
         /\ StorePath(s)[1] = Slash /\ StorePath(s)[2] = 115 /\ StorePath(s)[3] = Slash
         /\ \A i \in 1 .. m : StorePath(s)[i + 3] = s[i]
<1>. DEFINE path == <<Slash, 115, Slash>> \o s
            nuls == {i \in DOMAIN path : path[i] = Nul}
<1>1. s \in Seq(Bytes) /\ Len(s) \in Nat /\ m \in 1 .. Len(s) /\ m \in Nat
  BY DEF NamedTo
<1>2. /\ path \in Seq(Int) /\ Len(path) = Len(s) + 3 /\ DOMAIN path = 1 .. (Len(s) + 3)
      /\ path[1] = Slash /\ path[2] = 115 /\ path[3] = Slash
      /\ \A i \in 1 .. Len(s) : path[i + 3] = s[i]
  <2>. DEFINE head == <<Slash, 115, Slash>>
  <2>1. head \in Seq(Int) /\ Len(head) = 3 /\ head[1] = Slash /\ head[2] = 115 /\ head[3] = Slash
    BY DEF Slash
  <2>2. s \in Seq(Int)
    <3>1. \A i \in 1 .. Len(s) : s[i] \in Int
      <4>1. Bytes \subseteq Int
        BY DEF Bytes
      <4>2. \A i \in 1 .. Len(s) : s[i] \in Bytes
        BY <1>1
      <4>. QED BY <4>1, <4>2
    <3>2. s = [i \in 1 .. Len(s) |-> s[i]]
      BY <1>1
    <3>3. s \in [1 .. Len(s) -> Int]
      BY <3>1, <3>2
    <3>. QED BY <1>1, <3>3
  <2>. HIDE DEF head
  <2>3. /\ head \o s \in Seq(Int) /\ Len(head \o s) = 3 + Len(s)
        /\ \A i \in 1 .. 3 : (head \o s)[i] = head[i]
        /\ \A i \in 1 .. Len(s) : (head \o s)[3 + i] = s[i]
    <3>1. /\ head \o s \in Seq(Int) /\ Len(head \o s) = Len(head) + Len(s)
          /\ \A i \in 1 .. Len(head) : (head \o s)[i] = head[i]
          /\ \A i \in 1 .. Len(s) : (head \o s)[Len(head) + i] = s[i]
      <4>. DEFINE T == Int
      <4>1. head \in Seq(T) /\ s \in Seq(T)
        BY <2>1, <2>2
      <4>. HIDE DEF T
      <4>2. /\ head \o s \in Seq(T) /\ Len(head \o s) = Len(head) + Len(s)
            /\ \A i \in 1 .. Len(head) : (head \o s)[i] = head[i]
            /\ \A i \in 1 .. Len(s) : (head \o s)[Len(head) + i] = s[i]
        BY <4>1, BothAt
      <4>. QED BY <4>2 DEF T
    <3>. QED BY <2>1, <3>1
  <2>4. (head \o s)[1] = head[1] /\ (head \o s)[2] = head[2] /\ (head \o s)[3] = head[3]
    BY <2>3
  <2>5. Len(head \o s) = Len(s) + 3 /\ \A i \in 1 .. Len(s) : (head \o s)[i + 3] = s[i]
    <3>1. \A i \in 1 .. Len(s) : i + 3 = 3 + i
      BY <1>1
    <3>. QED BY <1>1, <2>3, <3>1
  <2>6. DOMAIN (head \o s) = 1 .. (Len(s) + 3)
    BY <2>3, <2>5, SequenceIs
  <2>. QED BY <2>1, <2>3, <2>4, <2>5, <2>6 DEF head
<1>. HIDE DEF path
<1>3. \A i \in 1 .. (m + 3) : i \in DOMAIN path /\ path[i] # Nul
  <2>. SUFFICES ASSUME NEW i \in 1 .. (m + 3) PROVE i \in DOMAIN path /\ path[i] # Nul
    OBVIOUS
  <2>1. i \in DOMAIN path
    BY <1>1, <1>2
  <2>2. CASE i \in 1 .. 3
    BY <1>2, <2>2 DEF Slash, Nul
  <2>3. CASE i \notin 1 .. 3
    <3>1. i - 3 \in 1 .. m /\ (i - 3) + 3 = i
      BY <1>1, <2>3
    <3>2. path[i] = s[i - 3]
      <4>. DEFINE k == i - 3
      <4>1. k \in 1 .. Len(s) /\ k + 3 = i
        BY <1>1, <3>1
      <4>. HIDE DEF k
      <4>2. path[k + 3] = s[k]
        BY <1>2, <4>1
      <4>. QED BY <4>1, <4>2 DEF k
    <3>. QED BY <2>1, <3>1, <3>2 DEF NamedTo
  <2>. QED BY <2>1, <2>2, <2>3
<1>4. CASE m = Len(s)
  <2>1. nuls = {}
    BY <1>2, <1>3, <1>4
  <2>2. StorePath(s) = path
    BY <2>1 DEF StorePath, CString, path
  <2>. QED BY <1>1, <1>2, <1>4, <2>2
<1>5. CASE m # Len(s)
  <2>1. m + 1 \in 1 .. Len(s) /\ (m + 1) + 3 = m + 4
    BY <1>1, <1>5
  <2>2. path[m + 4] = Nul
    BY <1>1, <1>2, <2>1 DEF NamedTo
  <2>3. m + 4 \in nuls /\ \A k \in nuls : m + 4 <= k
    BY <1>1, <1>2, <1>3, <2>1, <2>2
  <2>4. nuls \in SUBSET Nat
    BY <1>2
  <2>5. Min(nuls) = m + 4
    <3>. HIDE DEF nuls
    <3>. QED BY <2>3, <2>4, LeastMember
  <2>6. nuls # {}
    BY <2>3
  <2>7. StorePath(s) = SubSeq(path, 1, (m + 4) - 1)
    <3>. HIDE DEF nuls
    <3>1. CString(path) = IF nuls = {} THEN path ELSE SubSeq(path, 1, Min(nuls) - 1)
      BY DEF CString, nuls
    <3>2. StorePath(s) = CString(path)
      BY DEF StorePath, path
    <3>3. CString(path) = SubSeq(path, 1, Min(nuls) - 1)
      BY <2>6, <3>1
    <3>4. CString(path) = SubSeq(path, 1, (m + 4) - 1)
      BY ONLY <2>5, <3>3
    <3>. QED BY ONLY <3>2, <3>4
  <2>8. StorePath(s) = SubSeq(path, 1, m + 3)
    <3>1. (m + 4) - 1 = m + 3
      BY <1>1
    <3>. QED BY <2>7, <3>1
  <2>9. Len(SubSeq(path, 1, m + 3)) = m + 3
    BY <1>1, <1>2, <2>1
  <2>10. \A i \in 1 .. (m + 3) : SubSeq(path, 1, m + 3)[i] = path[i]
    BY <1>1, <1>2, <2>1
  <2>11. SubSeq(path, 1, m + 3) \in Seq(Int)
    <3>1. \A i \in 1 .. (m + 3) : i \in 1 .. Len(path)
      BY <1>1, <1>2, <2>1
    <3>. QED BY <1>1, <1>2, <3>1
  <2>. QED BY <1>1, <1>2, <2>8, <2>9, <2>10, <2>11
<1>. QED BY <1>4, <1>5

(* The key a server finds in a path. *)
LEMMA KeyInPath ==
  ASSUME NEW s, NEW m, NamedTo(s, m)
  PROVE  KeyIn(StorePath(s)) = Padded(s, m)
<1>. DEFINE path == StorePath(s)
            slashes == {i \in DOMAIN path : path[i] = Slash}
            key == SubSeq(path, 4, m + 3)
<1>1. s \in Seq(Bytes) /\ Len(s) \in Nat /\ m \in 1 .. Len(s) /\ m \in Nat
  BY DEF NamedTo
<1>2. /\ path \in Seq(Int) /\ Len(path) = m + 3
      /\ path[1] = Slash /\ path[2] = 115 /\ path[3] = Slash
      /\ \A i \in 1 .. m : path[i + 3] = s[i]
  BY PathOf
<1>3. DOMAIN path = 1 .. (m + 3)
  BY <1>2, SequenceIs
<1>. HIDE DEF path
<1>4. \A i \in 1 .. m : path[i + 3] # Slash
  <2>1. \A i \in 1 .. m : s[i] # Slash
    BY DEF NamedTo
  <2>. QED BY <1>2, <2>1
<1>5. slashes = {1, 3}
  <2>1. \A i \in 1 .. (m + 3) : path[i] = Slash <=> i \in {1, 3}
    <3>. SUFFICES ASSUME NEW i \in 1 .. (m + 3) PROVE path[i] = Slash <=> i \in {1, 3}
      OBVIOUS
    <3>1. CASE i \in {1, 3}
      BY <1>2, <3>1
    <3>2. CASE i = 2
      BY <1>2, <3>2 DEF Slash
    <3>3. CASE i \notin {1, 2, 3}
      <4>. DEFINE k == i - 3
      <4>1. k \in 1 .. m /\ k + 3 = i
        BY <1>1, <3>3
      <4>. HIDE DEF k
      <4>2. path[k + 3] # Slash
        BY <1>4, <4>1
      <4>. QED BY <3>3, <4>1, <4>2
    <3>. QED BY <3>1, <3>2, <3>3
  <2>2. 1 \in 1 .. (m + 3) /\ 3 \in 1 .. (m + 3)
    BY <1>1
  <2>. QED BY <1>3, <2>1, <2>2
<1>6. Max(slashes) = 3
  <2>1. slashes \in SUBSET Nat /\ 3 \in slashes /\ \A k \in slashes : k <= 3
    BY <1>5
  <2>. HIDE DEF slashes
  <2>. QED BY <2>1, GreatestMember
<1>7. Last(path) # Slash
  <2>1. Last(path) = path[m + 3]
    BY <1>2 DEF Last
  <2>. QED BY <1>1, <1>4, <2>1
<1>8. ParsePath(path) = <<SubSeq(path, 1, 3 - 1), SubSeq(path, 3 + 1, Len(path))>>
  <2>1. ~ (slashes \subseteq {1})
    BY <1>5
  <2>. HIDE DEF slashes
  <2>2. ParsePath(path) = IF slashes \subseteq {1} THEN <<path, <<>>>>
                          ELSE <<SubSeq(path, 1, Max(slashes) - 1),
                                 SubSeq(path, Max(slashes) + 1, Len(path))>>
    BY <1>7 DEF ParsePath, slashes
  <2>. QED BY <1>6, <2>1, <2>2
<1>9. ParsePath(path)[2] = key
  <2>1. ParsePath(path)[2] = SubSeq(path, 3 + 1, Len(path))
    BY <1>8
  <2>. QED BY <1>2, <2>1
<1>10. Len(key) = m /\ \A i \in 1 .. m : key[i] = s[i]
  <2>1. Len(key) = m
    BY <1>1, <1>2
  <2>2. ASSUME NEW i \in 1 .. m PROVE key[i] = path[i + 3]
    BY <1>1, <1>2
  <2>. QED BY <1>2, <2>1, <2>2
<1>11. KeyIn(path) = FixedSize(key, KeyLength)
  BY <1>9 DEF KeyIn
<1>. HIDE DEF key
<1>12. FixedSize(key, KeyLength) = Padded(s, m)
  BY <1>1, <1>10, Constants DEF FixedSize, Padded
<1>. QED BY <1>11, <1>12 DEF path

(* A key is again a text with a name in it. *)
LEMMA PaddedNamed ==
  ASSUME NEW s, NEW m, NamedTo(s, m)
  PROVE  \E k \in 1 .. KeyLength :
           /\ NamedTo(Padded(s, m), k) /\ Padded(Padded(s, m), k) = Padded(s, m)
           /\ k <= m /\ (m <= KeyLength => k = m)
           /\ \A i \in 1 .. k : Padded(s, m)[i] = s[i]
           /\ \A i \in (k + 1) .. KeyLength : Padded(s, m)[i] = Nul
<1>. DEFINE k == IF m <= KeyLength THEN m ELSE KeyLength
            key == Padded(s, m)
<1>1. s \in Seq(Bytes) /\ Len(s) \in Nat /\ m \in 1 .. Len(s) /\ m \in Nat
  BY DEF NamedTo
<1>2. k \in 1 .. KeyLength /\ k <= m /\ k \in Nat /\ (m <= KeyLength => k = m) /\ k \in 1 .. m
  BY <1>1, Constants
<1>3. \A i \in 1 .. k : s[i] # Nul /\ s[i] # Slash
  BY <1>2 DEF NamedTo
<1>4. \A i \in 1 .. KeyLength : i <= k <=> i <= m
  BY <1>1, Constants
<1>. HIDE DEF k
<1>5. key = [i \in 1 .. KeyLength |-> IF i <= k THEN s[i] ELSE Nul]
  BY <1>4 DEF Padded
<1>. HIDE DEF key
<1>6. \A i \in 1 .. k : key[i] = s[i] /\ i \in 1 .. KeyLength
  BY <1>2, <1>5, Constants
<1>7. \A i \in (k + 1) .. KeyLength : key[i] = Nul /\ i \in 1 .. KeyLength
  BY <1>2, <1>5, Constants
<1>8. key \in Seq(Bytes) /\ Len(key) = KeyLength
  <2>1. \A i \in 1 .. KeyLength : key[i] \in Bytes
    <3>. SUFFICES ASSUME NEW i \in 1 .. KeyLength PROVE key[i] \in Bytes
      OBVIOUS
    <3>1. CASE i <= k
      <4>1. i \in 1 .. Len(s) /\ s[i] \in Bytes
        BY <1>1, <1>2, <3>1, SequenceIs
      <4>. QED BY <1>5, <3>1, <4>1
    <3>2. CASE ~ (i <= k)
      <4>1. key[i] = Nul
        BY <1>5, <3>2
      <4>. QED BY <4>1, Constants DEF Nul, Bytes
    <3>. QED BY <3>1, <3>2
  <2>2. key \in [1 .. KeyLength -> Bytes]
    BY <1>5, <2>1
  <2>. QED BY <2>2, Constants
<1>9. NamedTo(key, k)
  <2>1. k < Len(key) => key[k + 1] = Nul
    BY <1>2, <1>7, <1>8, Constants
  <2>. QED BY <1>2, <1>3, <1>6, <1>8, <2>1 DEF NamedTo
<1>10. Padded(key, k) = key
  BY <1>2, <1>5, <1>6 DEF Padded
<1>. QED BY <1>2, <1>6, <1>7, <1>9, <1>10 DEF key

(* A key as it is: a name, and nulls up to its length. *)
KeyTo(key, k) ==
  /\ NamedTo(key, k) /\ Len(key) = KeyLength
  /\ \A i \in (k + 1) .. KeyLength : key[i] = Nul

(* A C string that begins with m characters and ends there. *)
LEMMA CStringIs ==
  ASSUME NEW s \in Seq(Bytes), NEW m \in 0 .. Len(s), \A i \in 1 .. m : s[i] # Nul,
         m < Len(s) => s[m + 1] = Nul
  PROVE  Len(CString(s)) = m /\ \A i \in 1 .. m : CString(s)[i] = s[i]
<1>. DEFINE nuls == {i \in DOMAIN s : s[i] = Nul}
<1>1. Len(s) \in Nat /\ DOMAIN s = 1 .. Len(s) /\ m \in Nat
  BY SequenceIs
<1>2. CString(s) = IF nuls = {} THEN s ELSE SubSeq(s, 1, Min(nuls) - 1)
  BY DEF CString
<1>3. CASE m = Len(s)
  <2>1. nuls = {}
    BY <1>1, <1>3
  <2>. HIDE DEF nuls
  <2>2. CString(s) = s
    BY <1>2, <2>1
  <2>. QED BY <1>3, <2>2
<1>4. CASE m # Len(s)
  <2>1. m + 1 \in nuls /\ \A k \in nuls : m + 1 <= k
    <3>1. m < Len(s) /\ m + 1 \in 1 .. Len(s)
      <4>. DEFINE len == Len(s)
      <4>1. len \in Nat /\ m \in Nat
        BY <1>1
      <4>2. m <= len
        OBVIOUS
      <4>3. m # len
        BY <1>4
      <4>. HIDE DEF len
      <4>4. m < len /\ m + 1 \in 1 .. len
        BY ONLY <4>1, <4>2, <4>3
      <4>. QED BY <4>4 DEF len
    <3>2. m + 1 \in nuls
      BY <1>1, <3>1
    <3>3. ASSUME NEW k \in nuls PROVE m + 1 <= k
      <4>1. k \in 1 .. Len(s) /\ s[k] = Nul
        BY <1>1, <3>3
      <4>2. k \notin 1 .. m
        BY <4>1
      <4>. QED BY <1>1, <4>1, <4>2
    <3>. QED BY <3>2, <3>3
  <2>2. nuls \in SUBSET Nat /\ nuls # {}
    BY <1>1, <2>1
  <2>. HIDE DEF nuls
  <2>3. Min(nuls) = m + 1
    BY <2>1, <2>2, LeastMember
  <2>4. CString(s) = SubSeq(s, 1, Min(nuls) - 1)
    BY <1>2, <2>2
  <2>5. (m + 1) - 1 = m
    BY <1>1
  <2>6. CString(s) = SubSeq(s, 1, m)
    BY ONLY <2>3, <2>4, <2>5
  <2>7. Len(SubSeq(s, 1, m)) = m /\ \A i \in 1 .. m : SubSeq(s, 1, m)[i] = s[i]
    BY <1>1
  <2>. QED BY <2>6, <2>7
<1>. QED BY <1>3, <1>4

(* A table entry names a key by all but its last character. *)
LEMMA EntryIs ==
  ASSUME NEW key, NEW k, KeyTo(key, k)
  PROVE  FixedSize(EntryName(key), KeyLength)
           = [i \in 1 .. KeyLength |-> IF i = KeyLength THEN Nul ELSE key[i]]
<1>1. /\ key \in Seq(Bytes) /\ Len(key) = KeyLength /\ k \in 1 .. KeyLength /\ k \in Nat
      /\ \A i \in 1 .. k : key[i] # Nul
      /\ \A i \in (k + 1) .. KeyLength : key[i] = Nul
  BY DEF KeyTo, NamedTo
<1>. DEFINE s == SubSeq(key, 1, KeyLength - 1)
            m == IF k < KeyLength THEN k ELSE KeyLength - 1
<1>2. s \in Seq(Bytes) /\ Len(s) = KeyLength - 1
  <2>1. \A i \in 1 .. (KeyLength - 1) : i \in 1 .. Len(key)
    BY <1>1, Constants
  <2>. QED BY <1>1, <2>1, Constants
<1>3. \A i \in 1 .. (KeyLength - 1) : s[i] = key[i]
  BY <1>1, Constants
<1>4. m \in 0 .. Len(s) /\ m \in Nat /\ m <= k
  BY <1>1, <1>2, Constants
<1>. HIDE DEF s
<1>5. \A i \in 1 .. m : s[i] # Nul
  BY <1>1, <1>2, <1>3, <1>4, Constants
<1>6. m < Len(s) => s[m + 1] = Nul
  BY <1>1, <1>2, <1>3, Constants
<1>. HIDE DEF m
<1>7. Len(CString(s)) = m /\ \A i \in 1 .. m : CString(s)[i] = s[i]
  BY <1>2, <1>4, <1>5, <1>6, CStringIs
<1>8. EntryName(key) = CString(s)
  BY DEF EntryName, s
<1>9. FixedSize(EntryName(key), KeyLength) = [i \in 1 .. KeyLength |-> IF i <= m THEN CString(s)[i] ELSE Nul]
  BY <1>7, <1>8 DEF FixedSize
<1>10. ASSUME NEW i \in 1 .. KeyLength
       PROVE  (IF i <= m THEN CString(s)[i] ELSE Nul) = IF i = KeyLength THEN Nul ELSE key[i]
  <2>1. CASE i <= m
    <3>1. i \in 1 .. m /\ i \in 1 .. (KeyLength - 1) /\ i # KeyLength
      BY <1>2, <1>4, <2>1, Constants
    <3>2. CString(s)[i] = key[i]
      BY <1>3, <1>7, <3>1
    <3>. QED BY <2>1, <3>1, <3>2
  <2>2. CASE ~ (i <= m)
    <3>1. i # KeyLength => i \in (k + 1) .. KeyLength
      BY <1>1, <2>2, Constants DEF m
    <3>2. i # KeyLength => key[i] = Nul
      BY <1>1, <3>1
    <3>. QED BY <2>2, <3>2
  <2>. QED BY <2>1, <2>2
<1>. QED BY <1>9, <1>10

(* A key without its nulls is the name in it. *)
LEMMA NameInKey ==
  ASSUME NEW key, NEW k, KeyTo(key, k)
  PROVE  /\ RemoveNullChars(key) \in Seq(Bytes) /\ Len(RemoveNullChars(key)) = k
         /\ \A i \in 1 .. k : RemoveNullChars(key)[i] = key[i]
<1>. DEFINE n == KeyLength
            parts == [i \in DOMAIN key |-> IF key[i] = Nul THEN <<>> ELSE <<key[i]>>]
            whole == RemoveNullChars(key)
<1>1. /\ key \in Seq(Bytes) /\ Len(key) = n /\ k \in 1 .. n /\ k \in Nat
      /\ \A i \in 1 .. k : key[i] # Nul
      /\ \A i \in (k + 1) .. n : key[i] = Nul
      /\ DOMAIN key = 1 .. n /\ n \in Nat /\ n > 0 /\ \A i \in 1 .. n : key[i] \in Bytes
  BY Constants, SequenceIs DEF KeyTo, NamedTo
<1>2. whole = FlattenSeq(parts)
  BY DEF RemoveNullChars
<1>3. Len(parts) = n /\ n # 0
  BY <1>1
<1>4. \A i \in 1 .. n : key[i] # Nul => parts[i] = <<key[i]>>
  BY <1>1
<1>5. \A i \in 1 .. n : key[i] = Nul => parts[i] = <<>>
  BY <1>1
<1>. HIDE DEF parts, whole, n
<1>6. ASSUME NEW i \in 1 .. k
      PROVE  /\ i \in 1 .. n /\ parts[i] = <<key[i]>> /\ parts[i] \in Seq(Bytes) 
             /\ Len(parts[i]) = 1 /\ parts[i][1] = key[i]
  <2>1. i \in 1 .. n /\ key[i] # Nul /\ key[i] \in Bytes
    BY <1>1
  <2>2. parts[i] = <<key[i]>>
    BY <1>4, <2>1
  <2>. QED BY <2>1, <2>2
<1>7. ASSUME NEW i \in (k + 1) .. n
      PROVE  i \in 1 .. n /\ parts[i] = <<>> /\ parts[i] \in Seq(Bytes) /\ Len(parts[i]) = 0
  <2>1. i \in 1 .. n /\ key[i] = Nul
    BY <1>1
  <2>2. parts[i] = <<>>
    BY <1>5, <2>1
  <2>. QED BY <2>1, <2>2
<1>8. \A i \in 1 .. n : parts[i] \in Seq(Bytes)
  <2>. SUFFICES ASSUME NEW i \in 1 .. n PROVE parts[i] \in Seq(Bytes)
    OBVIOUS
  <2>1. i \in 1 .. k \/ i \in (k + 1) .. n
    BY <1>1
  <2>. QED BY <1>6, <1>7, <2>1
<1>9. whole \in Seq(Bytes) /\ \E off : Joins(parts, off, whole)
  <2>1. n \in Nat
    BY <1>1
  <2>. QED BY <1>2, <1>3, <1>8, <2>1, FlattenJoins
<1>10. PICK off : Joins(parts, off, whole)
  BY <1>9
<1>11. ASSUME NEW i \in 0 .. k PROVE off[i] = i
  <2>1. Even(parts, k, 1)
    BY <1>6 DEF Even
  <2>2. k \in 0 .. n /\ 1 \in Nat /\ n \in Nat
    BY <1>1
  <2>3. off[i] = i * 1
    BY <1>3, <1>10, <2>1, <2>2, JoinsEven
  <2>. QED BY <2>3
<1>. DEFINE Good == {i \in 0 .. n : i >= k => off[i] = k}
<1>12. ASSUME NEW i \in 1 .. n, i - 1 \in Good PROVE i \in Good
  <2>1. i \in 0 .. n /\ i \in Int
    BY <1>1
  <2>2. CASE i < k
    BY <1>1, <2>1, <2>2
  <2>3. CASE i = k
    BY <1>1, <1>11, <2>1, <2>3
  <2>4. CASE i > k
    <3>1. i \in (k + 1) .. n /\ i - 1 >= k
      BY <1>1, <2>1, <2>4
    <3>2. off[i - 1] = k
      BY <1>12, <3>1
    <3>3. off[i] = off[i - 1] + Len(parts[i])
      BY <1>3, <1>10 DEF Joins
    <3>4. Len(parts[i]) = 0
      BY <1>7, <3>1
    <3>. QED BY <1>1, <2>1, <3>2, <3>3, <3>4
  <2>. QED BY <1>1, <2>1, <2>2, <2>3, <2>4
<1>13. \A i \in 0 .. n : i \in Good
  <2>1. 0 \in Good /\ n \in Nat
    BY <1>1
  <2>. HIDE DEF Good
  <2>. QED BY <1>12, <2>1, CountUp
<1>14. Len(whole) = k
  <2>1. Len(whole) = off[n]
    BY <1>3, <1>10 DEF Joins
  <2>2. n \in 0 .. n /\ n >= k
    BY <1>1
  <2>. QED BY <1>13, <2>1, <2>2
<1>15. ASSUME NEW i \in 1 .. k PROVE whole[i] = key[i]
  <2>1. i \in 1 .. n /\ Len(parts[i]) = 1 /\ parts[i][1] = key[i]
    BY <1>6
  <2>2. \A j \in 1 .. Len(parts[i]) : whole[off[i - 1] + j] = parts[i][j]
    BY <1>3, <1>10, <2>1 DEF Joins
  <2>3. whole[off[i - 1] + 1] = key[i]
    BY <2>1, <2>2
  <2>4. off[i - 1] + 1 = i
    BY <1>1, <1>11
  <2>. QED BY <2>3, <2>4
<1>. QED BY <1>9, <1>14, <1>15 DEF whole

-----------------------------------------------------------------------------
(* What a node reports of itself *)

(* How a key and its block numbers are reported. *)
KeyEntry(key, nums) == key \o Uint(Len(nums)) \o EncodeNums(nums)

(* What can be reported of a key. *)
Reported(key, nums) ==
  /\ key \in Seq(Bytes) /\ Len(key) = KeyLength
  /\ nums \in Seq(0 .. (Word - 1)) /\ Len(nums) < Word

LEMMA KeyEntryType ==
  ASSUME NEW key, NEW nums, Reported(key, nums)
  PROVE  /\ KeyEntry(key, nums) \in Seq(Bytes)
         /\ Len(nums) \in Nat /\ Len(nums) \in 0 .. (Word - 1)
         /\ Len(KeyEntry(key, nums)) = KeyLength + (Len(nums) + 1) * IntSize
         /\ Len(KeyEntry(key, nums)) \in Nat \ {0}
         /\ Uint(Len(nums)) \in Seq(Bytes) /\ Len(Uint(Len(nums))) = IntSize
         /\ EncodeNums(nums) \in Seq(Bytes) /\ Len(EncodeNums(nums)) = Len(nums) * IntSize
<1>. DEFINE a == Uint(Len(nums))
            b == EncodeNums(nums)
            k == Len(nums)
<1>1. key \in Seq(Bytes) /\ Len(key) = KeyLength /\ nums \in Seq(0 .. (Word - 1)) /\ k < Word
  BY DEF Reported
<1>2. k \in Nat
  BY <1>1
<1>3. a \in Seq(Bytes) /\ Len(a) = IntSize
  BY <1>2, UintType
<1>4. b \in Seq(Bytes) /\ Len(b) = k * IntSize
  BY <1>1, NumsEncoded
<1>5. KeyEntry(key, nums) = (key \o a) \o b
  BY DEF KeyEntry
<1>. HIDE DEF a, b, k
<1>6. key \o a \in Seq(Bytes) /\ Len(key \o a) = Len(key) + Len(a)
  BY <1>1, <1>3, LenBoth
<1>7. (key \o a) \o b \in Seq(Bytes) /\ Len((key \o a) \o b) = Len(key \o a) + Len(b)
  BY <1>4, <1>6, LenBoth
<1>. DEFINE p == k * IntSize
<1>8. (k + 1) * IntSize = p + IntSize /\ p \in Nat
  BY <1>2, Constants
<1>9. k \in 0 .. (Word - 1)
  BY <1>1, <1>2, WordType
<1>. HIDE DEF p
<1>10. Len(b) = p
  BY <1>4 DEF p
<1>11. Len(KeyEntry(key, nums)) = KeyLength + (p + IntSize)
  BY <1>1, <1>3, <1>5, <1>6, <1>7, <1>10, <1>8, Constants
<1>12. Len(KeyEntry(key, nums)) \in Nat \ {0}
  BY <1>8, <1>11, Constants
<1>13. Len(KeyEntry(key, nums)) = KeyLength + (k + 1) * IntSize
  BY ONLY <1>8, <1>11
<1>14. KeyEntry(key, nums) \in Seq(Bytes)
  BY <1>5, <1>7
<1>. QED BY <1>2, <1>3, <1>4, <1>9, <1>12, <1>13, <1>14 DEF a, b, k

(* A reader that has come to position at and has read these keys. *)
ListerAt(at, numsOf) == [at |-> at, numsOf |-> numsOf]

(* A round of the reader's loop reads one key. *)
LEMMA NextKeyReads ==
  ASSUME NEW key, NEW nums, Reported(key, nums), NEW buf \in Seq(Bytes),
         NEW at \in Nat \ {0}, NEW end \in Nat, at < end, NEW sofar,
         Holds(buf, at, KeyEntry(key, nums)), at + Len(KeyEntry(key, nums)) - 1 <= Len(buf)
  PROVE  NextKey(buf, end, ListerAt(at, sofar))
           = ListerAt(at + Len(KeyEntry(key, nums)), With(sofar, key, nums))
<1>. DEFINE a == Uint(Len(nums))
            b == EncodeNums(nums)
            k == Len(nums)
            count == at + KeyLength
<1>1. key \in Seq(Bytes) /\ Len(key) = KeyLength /\ nums \in Seq(0 .. (Word - 1)) /\ k < Word
  BY DEF Reported
<1>2. /\ k \in Nat /\ k \in 0 .. (Word - 1)
      /\ Len(KeyEntry(key, nums)) = KeyLength + (k + 1) * IntSize
      /\ a \in Seq(Bytes) /\ Len(a) = IntSize /\ b \in Seq(Bytes)
      /\ Len(KeyEntry(key, nums)) \in Nat
  BY KeyEntryType
<1>3. KeyEntry(key, nums) = (key \o a) \o b
  BY DEF KeyEntry
<1>. HIDE DEF a, b, k
<1>4. key \o a \in Seq(Bytes) /\ Len(key \o a) = Len(key) + Len(a)
  BY <1>1, <1>2, LenBoth
<1>5. Holds(buf, at, key \o a) /\ Holds(buf, at + Len(key \o a), b)
  BY <1>2, <1>3, <1>4, HoldsBoth
<1>6. Holds(buf, at, key) /\ Holds(buf, at + Len(key), a)
  BY <1>1, <1>2, <1>5, HoldsBoth
<1>7. count \in Nat \ {0} /\ count + IntSize \in Nat \ {0}
  BY Constants
<1>8. UintAt(buf, count) = k
  <2>1. Holds(buf, count, a)
    BY <1>1, <1>6
  <2>. HIDE DEF count
  <2>. QED BY <1>2, <1>7, <2>1, HoldsUint DEF a, k
<1>9. UintsAt(buf, count + IntSize, k) = nums
  <2>1. at + Len(key \o a) = count + IntSize
    BY <1>1, <1>2, <1>4, Constants
  <2>. DEFINE p == count + IntSize
  <2>2. Holds(buf, p, EncodeNums(nums)) /\ p \in Nat \ {0}
    BY <1>5, <1>7, <2>1 DEF b
  <2>. HIDE DEF p
  <2>3. UintsAt(buf, p, Len(nums)) = nums
    BY <1>1, <2>2, UintsOf
  <2>. QED BY <2>3 DEF p, k
<1>10. SubSeq(buf, at, count - 1) = key
  <2>1. at + Len(key) - 1 <= Len(buf)
    <3>1. (k + 1) * IntSize \in Nat
      BY <1>2, Constants
    <3>. DEFINE p == (k + 1) * IntSize
    <3>2. at + (KeyLength + p) - 1 <= Len(buf) /\ p \in Nat
      BY <1>2, <3>1
    <3>. HIDE DEF p
    <3>3. Len(buf) \in Nat
      OBVIOUS
    <3>. QED BY <1>1, <3>2, <3>3, Constants
  <2>2. SubSeq(buf, at, at + Len(key) - 1) = key
    BY <1>1, <1>6, <2>1, HoldsSubSeq
  <2>. QED BY <1>1, <2>2
<1>11. count + (k + 1) * IntSize = at + Len(KeyEntry(key, nums))
  <2>. DEFINE p == (k + 1) * IntSize
  <2>1. p \in Nat /\ Len(KeyEntry(key, nums)) = KeyLength + p
    BY <1>2, Constants
  <2>. HIDE DEF p
  <2>2. count + p = at + Len(KeyEntry(key, nums))
    BY <2>1, Constants
  <2>. QED BY <2>2 DEF p
<1>. DEFINE reader == ListerAt(at, sofar)
<1>12. reader.at = at /\ reader.numsOf = sofar
  BY DEF ListerAt
<1>. HIDE DEF reader
<1>13. NextKey(buf, end, reader)
         = [at |-> count + (k + 1) * IntSize, numsOf |-> With(sofar, key, nums)]
  <2>1. ~ (reader.at >= end)
    BY <1>12
  <2>. QED BY <1>8, <1>9, <1>10, <1>12, <2>1 DEF NextKey
<1>. QED BY <1>11, <1>13 DEF reader, ListerAt

(* The sizes at the end of an answer. *)
LEMMA SizesRead ==
  ASSUME NEW used \in 0 .. (Word - 1), NEW total \in 0 .. (Word - 1), NEW buf, NEW at \in Nat \ {0},
         Holds(buf, at, Uint(used) \o Uint(total))
  PROVE  DecodeSizeInfo(buf, at) = [used |-> used, total |-> total]
<1>1. used \in Nat /\ total \in Nat
  BY WordType
<1>2. /\ Uint(used) \in Seq(Bytes) /\ Len(Uint(used)) = IntSize
      /\ Uint(total) \in Seq(Bytes) /\ Len(Uint(total)) = IntSize
  BY <1>1, UintType
<1>3. Holds(buf, at, Uint(used)) /\ Holds(buf, at + IntSize, Uint(total))
  <2>. DEFINE a == Uint(used)
              b == Uint(total)
  <2>1. a \in Seq(Bytes) /\ b \in Seq(Bytes) /\ Len(a) = IntSize /\ Holds(buf, at, a \o b)
    BY <1>2
  <2>. HIDE DEF a, b
  <2>2. Holds(buf, at, a) /\ Holds(buf, at + Len(a), b)
    BY <2>1, HoldsBoth
  <2>. QED BY <2>1, <2>2 DEF a, b
<1>4. at + IntSize \in Nat \ {0}
  BY Constants
<1>5. UintAt(buf, at) = used
  BY <1>3, HoldsUint
<1>6. UintAt(buf, at + IntSize) = total
  BY <1>3, <1>4, HoldsUint
<1>. QED BY <1>5, <1>6 DEF DecodeSizeInfo

LEMMA SizeInfoRoundTrip ==
  ASSUME NEW info \in [used : 0 .. (Word - 1), total : 0 .. (Word - 1)]
  PROVE  /\ EncodeSizeInfo(info) \in Seq(Bytes) /\ Len(EncodeSizeInfo(info)) = SizeOfSizeInfo
         /\ \A buf : \A at \in Nat \ {0} :
              Holds(buf, at, EncodeSizeInfo(info)) => DecodeSizeInfo(buf, at) = info
         /\ DecodeSizeInfo(EncodeSizeInfo(info), 1) = info
<1>. DEFINE u == info.used
            t == info.total
            all == EncodeSizeInfo(info)
<1>1. u \in 0 .. (Word - 1) /\ t \in 0 .. (Word - 1) /\ u \in Nat /\ t \in Nat
  BY WordType
<1>2. info = [used |-> u, total |-> t]
  OBVIOUS
<1>3. all = Uint(u) \o Uint(t)
  BY DEF EncodeSizeInfo
<1>. HIDE DEF u, t
<1>4. all \in Seq(Bytes) /\ Len(all) = SizeOfSizeInfo
  <2>1. /\ Uint(u) \in Seq(Bytes) /\ Len(Uint(u)) = IntSize
        /\ Uint(t) \in Seq(Bytes) /\ Len(Uint(t)) = IntSize
    BY <1>1, UintType
  <2>. DEFINE a == Uint(u)
              b == Uint(t)
  <2>2. a \in Seq(Bytes) /\ b \in Seq(Bytes) /\ Len(a) = IntSize /\ Len(b) = IntSize /\ all = a \o b
    BY <1>3, <2>1
  <2>. HIDE DEF a, b, all
  <2>3. a \o b \in Seq(Bytes) /\ Len(a \o b) = Len(a) + Len(b)
    BY <2>2, LenBoth
  <2>. QED BY <2>2, <2>3, Constants DEF SizeOfSizeInfo
<1>. HIDE DEF all
<1>5. ASSUME NEW buf, NEW at \in Nat \ {0}, Holds(buf, at, all) PROVE DecodeSizeInfo(buf, at) = info
  BY <1>1, <1>2, <1>3, <1>5, SizesRead
<1>6. Holds(all, 1, all)
  BY <1>4 DEF Holds
<1>7. DecodeSizeInfo(all, 1) = info
  BY <1>5, <1>6
<1>. QED BY <1>4, <1>5, <1>7 DEF all

(* What a node can report: its keys with their block numbers. *)
Reportable(numsOf) ==
  /\ IsFiniteSet(DOMAIN numsOf) /\ numsOf = [k \in DOMAIN numsOf |-> numsOf[k]]
  /\ \A k \in DOMAIN numsOf : Reported(k, numsOf[k])

(* The keys of a report, one after the other. *)
Entries(numsOf) ==
  [i \in 1 .. Cardinality(DOMAIN numsOf) |->
     KeyEntry(SetToSeq(DOMAIN numsOf)[i], numsOf[SetToSeq(DOMAIN numsOf)[i]])]

LEMMA ReportJoins ==
  ASSUME NEW numsOf, Reportable(numsOf),
         NEW info \in [used : 0 .. (Word - 1), total : 0 .. (Word - 1)]
  PROVE  /\ EncodeSyncInfo(numsOf, info) \in Seq(Bytes)
         /\ \E off, whole :
              /\ whole \in Seq(Bytes) /\ Joins(Entries(numsOf), off, whole)
              /\ EncodeSyncInfo(numsOf, info) = whole \o EncodeSizeInfo(info)
<1>. DEFINE keys == SetToSeq(DOMAIN numsOf)
            n == Cardinality(DOMAIN numsOf)
            parts == Entries(numsOf)
            Entry(k) == k \o Uint(Len(numsOf[k])) \o EncodeNums(numsOf[k])
<1>1. IsFiniteSet(DOMAIN numsOf) /\ n \in Nat
  BY FS_CardinalityType DEF Reportable
<1>2. keys \in [1 .. n -> DOMAIN numsOf]
  BY <1>1, SetToSeqHas
<1>. HIDE DEF keys, n
<1>3. parts = [i \in 1 .. n |-> KeyEntry(keys[i], numsOf[keys[i]])]
  BY DEF Entries, keys, n
<1>4. \A i \in 1 .. n : parts[i] \in Seq(Bytes)
  <2>. SUFFICES ASSUME NEW i \in 1 .. n PROVE parts[i] \in Seq(Bytes)
    OBVIOUS
  <2>1. keys[i] \in DOMAIN numsOf
    BY <1>2
  <2>2. Reported(keys[i], numsOf[keys[i]])
    BY <2>1 DEF Reportable
  <2>3. KeyEntry(keys[i], numsOf[keys[i]]) \in Seq(Bytes)
    BY <2>2, KeyEntryType
  <2>. QED BY <1>3, <2>3
<1>5. Len(parts) = n /\ (n = 0 => parts = <<>>)
  BY <1>1, <1>3
<1>6. EncodeSyncInfo(numsOf, info) = FlattenSeq(parts) \o EncodeSizeInfo(info)
  <2>1. DOMAIN keys = 1 .. n
    BY <1>2
  <2>2. [i \in DOMAIN keys |-> Entry(keys[i])] = parts
    BY <1>3, <2>1 DEF KeyEntry
  <2>3. EncodeSyncInfo(numsOf, info)
          = FlattenSeq([i \in DOMAIN keys |-> Entry(keys[i])]) \o EncodeSizeInfo(info)
    BY DEF EncodeSyncInfo, keys
  <2>. QED BY ONLY <2>2, <2>3
<1>. HIDE DEF parts
<1>7. FlattenSeq(parts) \in Seq(Bytes) /\ \E off : Joins(parts, off, FlattenSeq(parts))
  BY <1>1, <1>4, <1>5, FlattenJoins
<1>8. EncodeSizeInfo(info) \in Seq(Bytes)
  BY SizeInfoRoundTrip
<1>9. EncodeSyncInfo(numsOf, info) \in Seq(Bytes)
  BY <1>6, <1>7, <1>8
<1>. QED BY <1>6, <1>7, <1>9 DEF parts

(* What a node reports to /sync, the keys with their block numbers and the *)
(* sizes, is what the master reads (SyncInfo::serialize, deserialize).     *)
THEOREM ReportRoundTrip ==
  ASSUME NEW numsOf, Reportable(numsOf),
         NEW info \in [used : 0 .. (Word - 1), total : 0 .. (Word - 1)]
  PROVE  DecodeSyncInfo(EncodeSyncInfo(numsOf, info)) = [numsOf |-> numsOf, info |-> info]
<1>. DEFINE buf == EncodeSyncInfo(numsOf, info)
            keys == SetToSeq(DOMAIN numsOf)
            n == Cardinality(DOMAIN numsOf)
            parts == Entries(numsOf)
            len == Len(buf)
            sizes == EncodeSizeInfo(info)
            end == len - SizeOfSizeInfo + 1
<1>1. IsFiniteSet(DOMAIN numsOf) /\ n \in Nat
  BY FS_CardinalityType DEF Reportable
<1>2. /\ keys \in [1 .. n -> DOMAIN numsOf]
      /\ \A k \in DOMAIN numsOf : \E i \in 1 .. n : keys[i] = k
  BY <1>1, SetToSeqHas
<1>3. buf \in Seq(Bytes) /\ len \in Nat
  <2>1. buf \in Seq(Bytes)
    BY ReportJoins
  <2>. QED BY <2>1
<1>4. PICK off, whole : /\ whole \in Seq(Bytes) /\ Joins(parts, off, whole)
                         /\ buf = whole \o sizes
  BY ReportJoins
<1>5. sizes \in Seq(Bytes) /\ Len(sizes) = SizeOfSizeInfo
  BY SizeInfoRoundTrip
<1>6. Len(parts) = n
  <2>1. parts = [i \in 1 .. n |-> KeyEntry(keys[i], numsOf[keys[i]])]
    BY DEF Entries
  <2>. HIDE DEF keys, n
  <2>. QED BY <1>1, <2>1
<1>. HIDE DEF keys
<1>7. ASSUME NEW i \in 1 .. n
      PROVE  /\ parts[i] = KeyEntry(keys[i], numsOf[keys[i]])
             /\ keys[i] \in DOMAIN numsOf /\ Reported(keys[i], numsOf[keys[i]])
             /\ Len(parts[i]) \in Nat \ {0}
  <2>1. parts[i] = KeyEntry(keys[i], numsOf[keys[i]])
    BY DEF Entries, keys
  <2>2. keys[i] \in DOMAIN numsOf
    BY <1>2
  <2>3. Reported(keys[i], numsOf[keys[i]])
    BY <2>2 DEF Reportable
  <2>. HIDE DEF parts
  <2>. QED BY <2>1, <2>2, <2>3, KeyEntryType
<1>. HIDE DEF buf, n, parts, len, sizes
<1>8. /\ Len(whole) \in Nat /\ len = Len(whole) + SizeOfSizeInfo /\ SizeOfSizeInfo \in Nat
      /\ Holds(buf, 1, whole) /\ Holds(buf, Len(whole) + 1, sizes)
  <2>1. Len(buf) = Len(whole) + Len(sizes) /\ Len(whole) \in Nat
    BY <1>4, <1>5, LenBoth
  <2>2. Holds(buf, 1, buf)
    BY <1>3 DEF Holds
  <2>3. Holds(buf, 1, whole) /\ Holds(buf, 1 + Len(whole), sizes)
    BY <1>4, <1>5, <2>2, HoldsBoth
  <2>4. 1 + Len(whole) = Len(whole) + 1
    BY <2>1
  <2>5. SizeOfSizeInfo \in Nat
    BY Constants DEF SizeOfSizeInfo
  <2>. QED BY <1>5, <2>1, <2>3, <2>4, <2>5 DEF len
<1>9. end = Len(whole) + 1
  BY <1>8
<1>. HIDE DEF end
<1>10. ASSUME NEW i \in 1 .. n
       PROVE  /\ off[i - 1] \in Nat /\ off[i] \in Nat /\ off[i] = off[i - 1] + Len(parts[i])
              /\ off[i] <= Len(whole) /\ Holds(buf, off[i - 1] + 1, parts[i])
  <2>1. Len(parts) \in Nat /\ i \in 1 .. Len(parts) /\ Len(parts[i]) \in Nat
    BY <1>1, <1>6, <1>7
  <2>2. /\ off[i - 1] \in Nat /\ off[i] \in Nat /\ off[i] = off[i - 1] + Len(parts[i])
        /\ off[i] <= Len(whole) /\ Holds(whole, off[i - 1] + 1, parts[i])
    BY <1>4, <2>1, JoinsHolds
  <2>. DEFINE p == off[i - 1] + 1
              k == Len(parts[i])
  <2>3. p \in Nat \ {0} /\ k \in Nat /\ p + k - 1 <= Len(whole)
    <3>1. off[i - 1] \in Nat /\ off[i] = off[i - 1] + k /\ k \in Nat /\ off[i] <= Len(whole)
      BY <2>1, <2>2
    <3>. HIDE DEF k
    <3>. QED BY ONLY <1>8, <3>1
  <2>4. Holds(whole, p, parts[i])
    BY <2>2
  <2>. HIDE DEF p
  <2>5. Holds(buf, 1 + p - 1, parts[i])
    <3>. DEFINE at == 1
                t == parts[i]
    <3>1. /\ at \in Nat \ {0} /\ Len(t) \in Nat /\ p + Len(t) - 1 <= Len(whole)
          /\ Holds(buf, at, whole) /\ Holds(whole, p, t) /\ p \in Nat \ {0} /\ Len(whole) \in Nat
      BY <1>8, <2>3, <2>4
    <3>. HIDE DEF at, t
    <3>2. Holds(buf, at + p - 1, t)
      BY <3>1, HoldsWithin
    <3>. QED BY <3>2 DEF at, t
  <2>6. 1 + p - 1 = p
    BY <2>3
  <2>. QED BY <2>2, <2>5, <2>6 DEF p
<1>11. off[0] = 0 /\ off[n] = Len(whole)
  BY <1>4, <1>6 DEF Joins
<1>12. n <= Len(whole)
  <2>. DEFINE Good == {i \in 0 .. n : off[i] \in Nat /\ i <= off[i]}
  <2>1. ASSUME NEW i \in 1 .. n, i - 1 \in Good PROVE i \in Good
    <3>1. i - 1 <= off[i - 1] /\ i \in 0 .. n /\ i \in Nat
      BY <1>1, <2>1
    <3>2. off[i] \in Nat /\ off[i - 1] \in Nat /\ off[i] = off[i - 1] + Len(parts[i])
      BY <1>10
    <3>3. Len(parts[i]) \in Nat \ {0}
      BY <1>7
    <3>4. i <= off[i]
      BY ONLY <3>1, <3>2, <3>3
    <3>. QED BY <3>1, <3>2, <3>4
  <2>2. 0 \in Good
    BY <1>1, <1>11
  <2>3. \A i \in 0 .. n : i \in Good
    <3>. HIDE DEF Good
    <3>. QED BY <1>1, <2>1, <2>2, CountUp
  <2>4. n \in Good
    <3>. HIDE DEF Good
    <3>. QED BY <1>1, <2>3
  <2>. QED BY <1>11, <2>4
(* The reader after i rounds, of which the first n read something. *)
<1>. DEFINE min(i) == IF i <= n THEN i ELSE n
            sofar(i) == [k \in {keys[j] : j \in 1 .. min(i)} |-> numsOf[k]]
            reader == [i \in 0 .. len |-> ListerAt(off[min(i)] + 1, sofar(i))]
            start == [at |-> 1, numsOf |-> <<>>]
            Reads(r) == r = [i \in 0 .. len |->
                               IF i = 0 THEN start ELSE NextKey(buf, end, r[i - 1])]
            read == CHOOSE r : Reads(r)
<1>13. reader[0] = start
  <2>1. min(0) = 0 /\ 0 \in 0 .. len
    BY <1>1, <1>3
  <2>2. sofar(0) = <<>>
    <3>1. {keys[j] : j \in 1 .. min(0)} = {}
      BY <2>1
    <3>2. sofar(0) \in [1 .. 0 -> {}]
      BY <3>1
    <3>3. sofar(0) \in Seq({}) /\ Len(sofar(0)) = 0
      <4>. HIDE DEF sofar
      <4>. QED BY <3>2
    <3>. HIDE DEF sofar
    <3>. QED BY <3>3, SequenceIs
  <2>. HIDE DEF sofar, min
  <2>. QED BY <1>11, <2>1, <2>2 DEF ListerAt
<1>14. ASSUME NEW i \in 1 .. len PROVE reader[i] = NextKey(buf, end, reader[i - 1])
  <2>1. i - 1 \in 0 .. len /\ i \in 0 .. len /\ i \in Nat
    BY <1>3
  <2>2. CASE i <= n
    <3>1. i \in 1 .. n /\ min(i) = i /\ min(i - 1) = i - 1
      BY <1>1, <2>1, <2>2
    <3>2. reader[i] = ListerAt(off[i] + 1, sofar(i))
      BY <2>1, <3>1
    <3>3. reader[i - 1] = ListerAt(off[i - 1] + 1, sofar(i - 1))
      BY <2>1, <3>1
    <3>. DEFINE key == keys[i]
                nums == numsOf[key]
                before == sofar(i - 1)
                p == off[i - 1] + 1
                more == Len(KeyEntry(key, nums))
    <3>4. /\ off[i - 1] \in Nat /\ off[i] \in Nat /\ off[i] = off[i - 1] + more
          /\ off[i] <= Len(whole) /\ more \in Nat \ {0}
          /\ Holds(buf, p, KeyEntry(key, nums)) /\ Reported(key, nums)
      BY <1>7, <1>10, <3>1
    <3>5. p \in Nat \ {0} /\ p + more - 1 <= len /\ p + more = off[i] + 1 /\ p < end /\ end \in Nat
      <4>. HIDE DEF more
      <4>1. off[i - 1] \in Nat /\ off[i] = off[i - 1] + more /\ off[i] <= Len(whole) /\ more \in Nat \ {0}
        BY <3>4
      <4>. QED BY ONLY <1>8, <1>9, <4>1
    <3>6. With(before, key, nums) = sofar(i)
      <4>1. {keys[j] : j \in 1 .. i} = {keys[j] : j \in 1 .. (i - 1)} \cup {keys[i]}
        BY <3>1
      <4>2. DOMAIN before = {keys[j] : j \in 1 .. (i - 1)}
        BY <3>1
      <4>3. \A k \in DOMAIN before : before[k] = numsOf[k]
        OBVIOUS
      <4>4. sofar(i) = [k \in {keys[j] : j \in 1 .. i} |-> numsOf[k]]
        BY <3>1
      <4>. HIDE DEF before, sofar
      <4>5. DOMAIN before \cup {key} = {keys[j] : j \in 1 .. i}
        BY <4>1, <4>2
      <4>6. With(before, key, nums) = [k \in {keys[j] : j \in 1 .. i} |-> IF k = key THEN nums ELSE before[k]]
        BY <4>5 DEF With
      <4>7. \A k \in {keys[j] : j \in 1 .. i} : (IF k = key THEN nums ELSE before[k]) = numsOf[k]
        BY <4>3, <4>5
      <4>. QED BY <4>4, <4>6, <4>7
    <3>7. NextKey(buf, end, ListerAt(p, before)) = ListerAt(p + more, With(before, key, nums))
      <4>1. /\ Reported(key, nums) /\ p \in Nat \ {0} /\ end \in Nat /\ p < end
            /\ Holds(buf, p, KeyEntry(key, nums)) /\ p + Len(KeyEntry(key, nums)) - 1 <= Len(buf)
        BY <3>4, <3>5 DEF len
      <4>. HIDE DEF key, nums, before, p
      <4>. QED BY <1>3, <4>1, NextKeyReads
    <3>. HIDE DEF reader
    <3>8. NextKey(buf, end, reader[i - 1]) = ListerAt(p + more, sofar(i))
      BY <3>3, <3>6, <3>7
    <3>. HIDE DEF more, p, sofar, key, nums
    <3>. QED BY <3>2, <3>5, <3>8
  <2>3. CASE ~ (i <= n)
    <3>1. min(i) = n /\ min(i - 1) = n
      BY <1>1, <2>1, <2>3
    <3>2. reader[i] = ListerAt(end, sofar(n)) /\ reader[i - 1] = ListerAt(end, sofar(n))
      <4>1. min(n) = n
        BY <1>1
      <4>2. sofar(i) = sofar(n) /\ sofar(i - 1) = sofar(n)
        BY <3>1, <4>1
      <4>. HIDE DEF sofar, min
      <4>. QED BY <1>9, <1>11, <2>1, <3>1, <4>2
    <3>. HIDE DEF reader, sofar
    <3>3. reader[i - 1].at = end /\ end \in Nat
      BY <1>8, <1>9, <3>2 DEF ListerAt
    <3>4. NextKey(buf, end, reader[i - 1]) = reader[i - 1]
      BY <3>3 DEF NextKey
    <3>. QED BY <3>2, <3>4
  <2>. QED BY <2>2, <2>3
<1>15. reader[len].numsOf = numsOf
  <2>1. min(len) = n /\ len \in 0 .. len
    BY <1>1, <1>3, <1>8, <1>12
  <2>2. {keys[j] : j \in 1 .. n} = DOMAIN numsOf
    BY <1>2
  <2>3. sofar(len) = [k \in DOMAIN numsOf |-> numsOf[k]]
    BY <2>1, <2>2
  <2>4. sofar(len) = numsOf
    BY <2>3 DEF Reportable
  <2>. HIDE DEF sofar
  <2>. QED BY <2>1, <2>4 DEF ListerAt
<1>16. Reads([i \in 0 .. len |-> reader[i]])
  <2>. DEFINE k == [i \in 0 .. len |-> reader[i]]
  <2>1. ASSUME NEW i \in 0 .. len
        PROVE  k[i] = IF i = 0 THEN start ELSE NextKey(buf, end, k[i - 1])
    <3>1. i # 0 => i \in 1 .. len /\ i - 1 \in 0 .. len
      BY <1>3
    <3>. HIDE DEF reader, start
    <3>. QED BY <1>13, <1>14, <3>1
  <2>. HIDE DEF k, reader, start
  <2>2. k = [i \in 0 .. len |-> k[i]]
    BY DEF k
  <2>3. Reads(k)
    BY <2>1, <2>2
  <2>. QED BY <2>3 DEF k
<1>. HIDE DEF reader
<1>17. Reads(read)
  <2>. HIDE DEF Reads
  <2>. QED BY <1>16
<1>18. DecodeSyncInfo(buf) = [numsOf |-> read[len].numsOf, info |-> DecodeSizeInfo(buf, end)]
  BY DEF DecodeSyncInfo, len, end
<1>. HIDE DEF read, start
<1>. DEFINE Good == {i \in 0 .. len : read[i] = reader[i]}
<1>19. ASSUME NEW i \in 1 .. len, i - 1 \in Good PROVE i \in Good
  <2>1. i \in 0 .. len /\ i # 0
    BY <1>3
  <2>2. read[i] = NextKey(buf, end, read[i - 1])
    BY <1>17, <2>1
  <2>. QED BY <1>14, <1>19, <2>1, <2>2
<1>20. \A i \in 0 .. len : i \in Good
  <2>1. 0 \in Good
    BY <1>3, <1>13, <1>17
  <2>. HIDE DEF Good
  <2>. QED BY <1>3, <1>19, <2>1, CountUp
<1>21. len \in Good
  <2>. HIDE DEF Good
  <2>. QED BY <1>3, <1>20
<1>22. DecodeSizeInfo(buf, end) = info
  <2>1. Holds(buf, end, EncodeSizeInfo(info)) /\ end \in Nat \ {0}
    BY <1>8, <1>9 DEF sizes
  <2>. QED BY <2>1, SizeInfoRoundTrip
<1>. QED BY <1>15, <1>18, <1>21, <1>22 DEF buf
=============================================================================
