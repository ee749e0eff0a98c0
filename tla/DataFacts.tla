------------------------------ MODULE DataFacts ------------------------------
(***************************************************************************)
(* Facts about the data the models are built from: sums over finite sets,  *)
(* sequences joined together or filtered, the elements of a set in some    *)
(* order.  All of them are defined by recursion.  The two rules of         *)
(* induction used for them, CountUp and BuildUp, speak of the set of the   *)
(* cases that hold instead of a predicate, so that every prover can use    *)
(* them.                                                                   *)
(***************************************************************************)
EXTENDS SequencesExt, Integers, FiniteSetTheorems, WellFoundedInduction,
        SequenceTheorems, TLAPS

(* The least-number principle. *)
LEMMA LeastExists ==
  ASSUME NEW S, S \subseteq Nat, S # {}
  PROVE  \E m \in S : \A n \in S : m <= n
<1>. DEFINE R == OpToRel(<, Nat)
<1>1. PICK m \in S : \A n \in S : ~(<<n, m>> \in R)
  <2>. HIDE DEF R
  <2>1. IsWellFoundedOn(R, Nat)
    BY NatLessThanWellFounded DEF R
  <2>. QED BY <2>1, WFMin
<1>2. ASSUME NEW n \in S, n < m PROVE FALSE
  BY <1>1, <1>2 DEF OpToRel
<1>. QED BY <1>2

(* Induction over numbers: what is good for 0, and for i if it is for      *)
(* i - 1, is good for all.                                                 *)
LEMMA CountUp ==
  ASSUME NEW n \in Nat, NEW Good, 0 \in Good,
         \A i \in 1 .. n : i - 1 \in Good => i \in Good
  PROVE  \A i \in 0 .. n : i \in Good
<1>. DEFINE Bad == {i \in 0 .. n : i \notin Good}
<1>. SUFFICES ASSUME Bad # {} PROVE FALSE
  OBVIOUS
<1>1. PICK m \in Bad : \A i \in Bad : m <= i
  <2>1. Bad \subseteq Nat
    OBVIOUS
  <2>. HIDE DEF Bad
  <2>. QED BY <2>1, LeastExists
<1>2. m \in 1 .. n /\ m - 1 \in 0 .. n
  OBVIOUS
<1>3. m - 1 \notin Bad
  <2>1. m \in Nat /\ m - 1 \in Nat
    BY <1>2
  <2>. HIDE DEF Bad
  <2>. QED BY <1>1, <2>1
<1>. QED BY <1>2, <1>3

(* Induction over the subsets of a finite set: what is good for the empty  *)
(* set, and for a set if it is for all smaller ones, is good for all.      *)
LEMMA BuildUp ==
  ASSUME NEW S, IsFiniteSet(S), NEW Good, {} \in Good,
         \A T \in SUBSET S :
           T # {} /\ (\A U \in SUBSET T : U # T => U \in Good) => T \in Good
  PROVE  \A T \in SUBSET S : T \in Good
<1>. DEFINE Has(n) == \A T \in SUBSET S : Cardinality(T) <= n => T \in Good
            Fine == {n \in Nat : Has(n)}
<1>1. \A T \in SUBSET S : /\ IsFiniteSet(T) /\ Cardinality(T) \in Nat
                          /\ Cardinality(T) <= Cardinality(S)
  BY FS_Subset, FS_CardinalityType
<1>2. 0 \in Fine
  <2>1. \A T \in SUBSET S : Cardinality(T) <= 0 => T = {}
    BY <1>1, FS_EmptySet
  <2>. QED BY <2>1
<1>3. ASSUME NEW i \in 1 .. Cardinality(S), i - 1 \in Fine PROVE i \in Fine
  <2>1. ASSUME NEW T \in SUBSET S, Cardinality(T) <= i, T # {} PROVE T \in Good
    <3>1. ASSUME NEW U \in SUBSET T, U # T PROVE U \in Good
      <4>1. Cardinality(U) <= Cardinality(T) /\ Cardinality(U) # Cardinality(T)
        BY <1>1, <3>1, FS_Subset
      <4>2. Cardinality(U) <= i - 1
        BY <1>1, <2>1, <4>1
      <4>. QED BY <1>3, <4>2
    <3>. QED BY <2>1, <3>1
  <2>2. Has(i)
    BY ONLY <2>1, {} \in Good
  <2>3. Cardinality(S) \in Nat
    BY <1>1
  <2>. QED BY <2>2, <2>3
<1>4. \A i \in 0 .. Cardinality(S) : i \in Fine
  <2>1. Cardinality(S) \in Nat
    BY <1>1
  <2>. HIDE DEF Fine
  <2>. QED BY <1>2, <1>3, <2>1, CountUp
<1>. QED BY <1>1, <1>4

(* g goes from v in n steps through V, the i-th as the function F[i] says. *)
Iterates(V, n, v, F, g) ==
  g \in [0 .. n -> V] /\ g[0] = v /\ \A i \in 1 .. n : g[i] = F[i][g[i - 1]]

LEMMA IterationExists ==
  ASSUME NEW V, NEW n \in Nat, NEW v \in V, NEW F,
         \A i \in 1 .. n : \A x \in V : F[i][x] \in V
  PROVE  \E g : Iterates(V, n, v, F, g)
<1>. DEFINE Upto(g, m) == g[0] = v /\ \A i \in 1 .. m : g[i] = F[i][g[i - 1]]
            Good == {m \in 0 .. n : \E g \in [0 .. n -> V] : Upto(g, m)}
<1>1. 0 \in Good
  <2>. DEFINE c == [i \in 0 .. n |-> v]
  <2>1. c \in [0 .. n -> V] /\ Upto(c, 0)
    OBVIOUS
  <2>. HIDE DEF c, Upto
  <2>. QED BY <2>1
<1>2. ASSUME NEW m \in 1 .. n, m - 1 \in Good PROVE m \in Good
  <2>1. PICK g \in [0 .. n -> V] : Upto(g, m - 1)
    BY <1>2
  <2>. DEFINE h == [g EXCEPT ![m] = F[m][g[m - 1]]]
  <2>2. g[m - 1] \in V /\ F[m][g[m - 1]] \in V
    OBVIOUS
  <2>3. h \in [0 .. n -> V] /\ h[0] = v
    BY <2>1, <2>2
  <2>4. ASSUME NEW i \in 1 .. m PROVE h[i] = F[i][h[i - 1]]
    BY <2>1
  <2>5. Upto(h, m)
    BY <2>3, <2>4
  <2>. HIDE DEF h, Upto
  <2>. QED BY <2>3, <2>5
<1>3. \A m \in 0 .. n : m \in Good
  <2>. HIDE DEF Good
  <2>. QED BY <1>1, <1>2, CountUp
<1>4. n \in Good
  <2>. HIDE DEF Good
  <2>. QED BY <1>3
<1>. QED BY <1>4 DEF Iterates

-----------------------------------------------------------------------------
(* Arithmetic *)

(* The quotient rounded up, times the divisor, is the number or more, by   *)
(* less than the divisor.                                                  *)
LEMMA CeilDivBounds ==
  ASSUME NEW a \in Nat, NEW b \in Nat \ {0}
  PROVE  /\ (a + b - 1) \div b \in Nat
         /\ a <= b * ((a + b - 1) \div b)
         /\ b * ((a + b - 1) \div b) < a + b
OBVIOUS

(* Between two multiples of b there is no other. *)
LEMMA QuotientIs ==
  ASSUME NEW a \in Nat, NEW b \in Nat \ {0}, NEW q \in Nat, b * q <= a, a < b * q + b
  PROVE  a \div b = q
<1>. DEFINE d == a \div b
<1>1. d \in Nat /\ b * d <= a /\ a < b * d + b
  OBVIOUS
<1>. HIDE DEF d
<1>2. CASE d < q
  <2>1. b * (d + 1) <= b * q
    BY <1>1, <1>2
  <2>2. b * (d + 1) = b * d + b
    BY <1>1
  <2>. QED BY <1>1, <2>1, <2>2
<1>3. CASE q < d
  <2>1. b * (q + 1) <= b * d
    BY <1>1, <1>3
  <2>2. b * (q + 1) = b * q + b
    BY <1>1
  <2>. QED BY <1>1, <2>1, <2>2
<1>. QED BY <1>1, <1>2, <1>3 DEF d

-----------------------------------------------------------------------------
(* Sums *)

(* One step of the recursion that sums f over the subsets of a set. *)
SumStep(f, g, s) ==
  IF s = {} THEN 0 ELSE LET x == CHOOSE x \in s : TRUE IN f[x] + g[s \ {x}]

(* g sums f over the subsets of S. *)
Sums(f, g, S) == g = [s \in SUBSET S |-> SumStep(f, g, s)]

LEMMA SumsExist ==
  ASSUME NEW f, NEW S, IsFiniteSet(S)
  PROVE  \E g : Sums(f, g, S)
<1>. DEFINE Upto(g, n) ==
              /\ g = [s \in SUBSET S |-> g[s]]
              /\ \A s \in SUBSET S : Cardinality(s) < n => g[s] = SumStep(f, g, s)
            Good == {n \in Nat : \E g : Upto(g, n)}
            N == Cardinality(S) + 1
<1>1. \A s \in SUBSET S : IsFiniteSet(s) /\ Cardinality(s) \in Nat
                          /\ Cardinality(s) <= Cardinality(S)
  BY FS_Subset, FS_CardinalityType
<1>2. 0 \in Good
  <2>1. Upto([s \in SUBSET S |-> 0], 0)
    BY <1>1
  <2>. QED BY <2>1
<1>3. ASSUME NEW n \in 1 .. N, n - 1 \in Good PROVE n \in Good
  <2>1. PICK g : Upto(g, n - 1)
    BY <1>3
  <2>. DEFINE h == [s \in SUBSET S |-> SumStep(f, g, s)]
  <2>2. ASSUME NEW s \in SUBSET S, Cardinality(s) < n
        PROVE  SumStep(f, g, s) = SumStep(f, h, s)
    <3>1. CASE s = {}
      BY <3>1 DEF SumStep
    <3>2. CASE s # {}
      <4>. DEFINE x == CHOOSE x \in s : TRUE
      <4>1. x \in s
        BY <3>2
      <4>2. s \ {x} \in SUBSET S /\ Cardinality(s \ {x}) = Cardinality(s) - 1
        BY <1>1, <4>1, FS_RemoveElement
      <4>3. n \in Int /\ Cardinality(s) \in Int
        BY <1>1
      <4>4. Cardinality(s \ {x}) < n - 1
        BY <2>2, <4>2, <4>3
      <4>5. g[s \ {x}] = h[s \ {x}]
        BY <2>1, <4>2, <4>4
      <4>. QED BY <3>2, <4>5 DEF SumStep
    <3>. QED BY <3>1, <3>2
  <2>3. Upto(h, n)
    BY <2>2
  <2>4. n \in Nat
    BY <1>1
  <2>. QED BY <2>3, <2>4
<1>4. N \in Nat /\ N \in 0 .. N
  BY <1>1
<1>5. N \in Good
  <2>1. \A n \in 0 .. N : n \in Good
    <3>. HIDE DEF Good, N
    <3>. QED BY <1>2, <1>3, <1>4, CountUp
  <2>. HIDE DEF Good
  <2>. QED BY <1>4, <2>1
<1>6. PICK g : Upto(g, N)
  BY <1>5
<1>7. ASSUME NEW s \in SUBSET S PROVE g[s] = SumStep(f, g, s)
  <2>1. Cardinality(s) < N
    BY <1>1
  <2>. QED BY <1>6, <2>1
<1>. QED BY <1>6, <1>7 DEF Sums

LEMMA SumsAgree ==
  ASSUME NEW f, NEW S, IsFiniteSet(S), NEW T \in SUBSET S,
         NEW g, Sums(f, g, S), NEW h, Sums(f, h, T)
  PROVE  \A s \in SUBSET T : g[s] = h[s]
<1>. DEFINE Good == {s \in SUBSET T : g[s] = h[s]}
<1>1. \A s \in SUBSET T : g[s] = SumStep(f, g, s) /\ h[s] = SumStep(f, h, s)
  BY DEF Sums
<1>2. {} \in Good
  BY <1>1 DEF SumStep
<1>3. ASSUME NEW s \in SUBSET T, s # {},
             \A u \in SUBSET s : u # s => u \in Good
      PROVE  s \in Good
  <2>1. \A x \in s : g[s \ {x}] = h[s \ {x}]
    BY <1>3
  <2>. QED BY <1>1, <1>3, <2>1 DEF SumStep
<1>4. \A s \in SUBSET T : s \in Good
  <2>1. IsFiniteSet(T)
    BY FS_Subset
  <2>. HIDE DEF Good
  <2>. QED BY <1>2, <1>3, <2>1, BuildUp
<1>. QED BY <1>4

(* What SumFunctionOnSet of the community modules computes. *)
LEMMA SumIs ==
  ASSUME NEW f, NEW S, IsFiniteSet(S), NEW g, Sums(f, g, S)
  PROVE  \A s \in SUBSET S : SumFunctionOnSet(f, s) = g[s]
<1>. SUFFICES ASSUME NEW s \in SUBSET S PROVE SumFunctionOnSet(f, s) = g[s]
  OBVIOUS
<1>. DEFINE h == CHOOSE h : Sums(f, h, s)
<1>1. IsFiniteSet(s)
  BY FS_Subset
<1>2. Sums(f, h, s)
  BY <1>1, SumsExist
<1>3. SumFunctionOnSet(f, s) = h[s]
  BY DEF SumFunctionOnSet, FoldFunctionOnSet, MapThenFoldSet, Sums, SumStep
<1>. HIDE DEF h
<1>. QED BY <1>2, <1>3, SumsAgree

LEMMA SumEmpty ==
  ASSUME NEW f
  PROVE  SumFunctionOnSet(f, {}) = 0
<1>1. IsFiniteSet({})
  BY FS_EmptySet
<1>2. PICK g : Sums(f, g, {})
  BY <1>1, SumsExist
<1>3. SumFunctionOnSet(f, {}) = g[{}]
  BY <1>1, <1>2, SumIs
<1>. QED BY <1>2, <1>3 DEF Sums, SumStep

(* A sum of numbers is a number, and any summand can be taken out of it. *)
LEMMA SumTakesOut ==
  ASSUME NEW f, NEW S, IsFiniteSet(S), \A x \in S : f[x] \in Nat
  PROVE  /\ SumFunctionOnSet(f, S) \in Nat
         /\ \A x \in S : SumFunctionOnSet(f, S) = f[x] + SumFunctionOnSet(f, S \ {x})
<1>1. PICK g : Sums(f, g, S)
  BY SumsExist
<1>. DEFINE Out(s) == g[s] \in Nat /\ \A x \in s : g[s] = f[x] + g[s \ {x}]
            Good == {s \in SUBSET S : Out(s)}
<1>2. \A s \in SUBSET S : g[s] = SumStep(f, g, s)
  BY <1>1 DEF Sums
<1>3. {} \in Good
  BY <1>2 DEF SumStep
<1>4. ASSUME NEW m \in SUBSET S, m # {},
             \A t \in SUBSET m : t # m => t \in Good
      PROVE  m \in Good
  <2>. DEFINE y == CHOOSE y \in m : TRUE
  <2>1. y \in m /\ g[m] = f[y] + g[m \ {y}]
    BY <1>2, <1>4 DEF SumStep
  <2>. HIDE DEF y
  <2>2. Out(m \ {y}) /\ f[y] \in Nat
    BY <1>4, <2>1
  <2>3. ASSUME NEW x \in m, x # y PROVE g[m] = f[x] + g[m \ {x}]
    <3>. DEFINE rest == (m \ {x}) \ {y}
    <3>1. Out(m \ {x}) /\ Out(rest) /\ f[x] \in Nat
      BY <1>4, <2>1, <2>3
    <3>2. rest = (m \ {y}) \ {x} /\ y \in m \ {x} /\ x \in m \ {y}
      BY <2>1, <2>3
    <3>3. g[m \ {y}] = f[x] + g[rest] /\ g[m \ {x}] = f[y] + g[rest] /\ g[rest] \in Nat
      BY <2>2, <3>1, <3>2
    <3>. HIDE DEF rest, Good
    <3>. QED BY ONLY <2>1, <2>2, <3>1, <3>3
  <2>4. g[m] \in Nat
    BY <2>1, <2>2
  <2>5. Out(m)
    BY <2>1, <2>3, <2>4
  <2>. QED BY <2>5
<1>5. \A s \in SUBSET S : s \in Good
  <2>. HIDE DEF Good
  <2>. QED BY <1>3, <1>4, BuildUp
<1>6. SumFunctionOnSet(f, S) = g[S] /\ \A x \in S : SumFunctionOnSet(f, S \ {x}) = g[S \ {x}]
  BY <1>1, SumIs
<1>. QED BY <1>5, <1>6

(* A sum depends on the summands only. *)
LEMMA SumSame ==
  ASSUME NEW f, NEW g, NEW S, IsFiniteSet(S),
         \A x \in S : f[x] \in Nat /\ g[x] = f[x]
  PROVE  SumFunctionOnSet(g, S) = SumFunctionOnSet(f, S)
<1>. DEFINE Good == {s \in SUBSET S : SumFunctionOnSet(g, s) = SumFunctionOnSet(f, s)}
<1>1. {} \in Good
  BY SumEmpty
<1>2. ASSUME NEW m \in SUBSET S, m # {},
             \A t \in SUBSET m : t # m => t \in Good
      PROVE  m \in Good
  <2>1. PICK x \in m : TRUE
    BY <1>2
  <2>2. SumFunctionOnSet(g, m \ {x}) = SumFunctionOnSet(f, m \ {x})
    BY <1>2, <2>1
  <2>3. IsFiniteSet(m) /\ \A y \in m : f[y] \in Nat /\ g[y] \in Nat
    BY FS_Subset
  <2>4. SumFunctionOnSet(f, m) = f[x] + SumFunctionOnSet(f, m \ {x})
    BY <2>3, SumTakesOut
  <2>5. SumFunctionOnSet(g, m) = g[x] + SumFunctionOnSet(g, m \ {x})
    BY <2>3, SumTakesOut
  <2>. QED BY <2>2, <2>4, <2>5
<1>3. \A s \in SUBSET S : s \in Good
  <2>. HIDE DEF Good
  <2>. QED BY <1>1, <1>2, BuildUp
<1>. QED BY <1>3

LEMMA SumAdds ==
  ASSUME NEW f, NEW S, IsFiniteSet(S), NEW x, x \notin S,
         \A y \in S \cup {x} : f[y] \in Nat
  PROVE  SumFunctionOnSet(f, S \cup {x}) = f[x] + SumFunctionOnSet(f, S)
<1>1. IsFiniteSet(S \cup {x}) /\ x \in S \cup {x} /\ (S \cup {x}) \ {x} = S
  BY FS_AddElement
<1>2. SumFunctionOnSet(f, S \cup {x}) = f[x] + SumFunctionOnSet(f, (S \cup {x}) \ {x})
  BY <1>1, SumTakesOut
<1>. QED BY <1>1, <1>2

-----------------------------------------------------------------------------
(* Sequences joined together *)

LEMMA SequenceIs ==
  ASSUME NEW S, NEW s \in Seq(S)
  PROVE  /\ Len(s) \in Nat /\ DOMAIN s = 1 .. Len(s)
         /\ \A i \in 1 .. Len(s) : s[i] \in S
         /\ Len(s) = 0 => s = <<>>
OBVIOUS

(* off[i] is where the i-th part of whole ends, the parts being joined.    *)
Joins(parts, off, whole) ==
  /\ off \in [0 .. Len(parts) -> Nat] /\ off[0] = 0
  /\ \A i \in 1 .. Len(parts) :
       /\ off[i] = off[i - 1] + Len(parts[i]) /\ \A k \in 0 .. i : off[k] <= off[i]
       /\ \A j \in 1 .. Len(parts[i]) : whole[off[i - 1] + j] = parts[i][j]
  /\ Len(whole) = off[Len(parts)]

(* g[i] is the first i of n parts joined together. *)
Builds(S, n, parts, g) ==
  /\ g \in [0 .. n -> Seq(S)] /\ g[0] = <<>> /\ g[n] = FlattenSeq(parts)
  /\ \A i \in 1 .. n : g[i] = g[i - 1] \o parts[i]

LEMMA FlattenSteps ==
  ASSUME NEW S, NEW n \in Nat, NEW parts, Len(parts) = n,
         \A i \in 1 .. n : parts[i] \in Seq(S), n = 0 => parts = <<>>
  PROVE  \E g : Builds(S, n, parts, g)
<1>. DEFINE F == [i \in 1 .. n |-> [s \in Seq(S) |-> s \o parts[i]]]
<1>1. n \in Nat /\ \A i \in 1 .. n : parts[i] \in Seq(S)
  OBVIOUS
<1>2. PICK g \in [0 .. n -> Seq(S)] : g[0] = <<>> /\ \A i \in 1 .. n : g[i] = F[i][g[i - 1]]
  <2>. DEFINE V == Seq(S)
              v == <<>>
  <2>1. v \in V /\ F \in [1 .. n -> [V -> V]]
    BY <1>1
  <2>2. \A i \in 1 .. n : \A x \in V : F[i][x] \in V
    BY <2>1
  <2>3. \E g : Iterates(V, n, v, F, g)
    <3>. HIDE DEF F, V, v
    <3>. QED BY <2>1, <2>2, IterationExists
  <2>. HIDE DEF F
  <2>. QED BY <2>3 DEF Iterates
<1>3. ASSUME NEW i \in 1 .. n PROVE g[i] = g[i - 1] \o parts[i]
  <2>1. i - 1 \in 0 .. n /\ g[i - 1] \in Seq(S)
    BY <1>1
  <2>2. F[i] = [s \in Seq(S) |-> s \o parts[i]]
    OBVIOUS
  <2>3. F[i][g[i - 1]] = g[i - 1] \o parts[i]
    <3>. HIDE DEF F
    <3>. QED BY <2>1, <2>2
  <2>. HIDE DEF F
  <2>. QED BY <1>2, <2>3
<1>4. g[n] = FlattenSeq(parts)
  <2>1. CASE n = 0
    BY <1>2, <2>1 DEF FlattenSeq
  <2>2. CASE n # 0
    <3>. DEFINE Flattens(h) == h = [i \in 1 .. n |-> IF i = 1 THEN parts[i] ELSE h[i - 1] \o parts[i]]
                h == CHOOSE h : Flattens(h)
    <3>. HIDE DEF F
    <3>0. \A i \in 1 .. n : g[i] = IF i = 1 THEN parts[i] ELSE g[i - 1] \o parts[i]
      <4>1. \A s \in Seq(S) : <<>> \o s = s
        OBVIOUS
      <4>2. 1 \in 1 .. n => g[1] = parts[1]
        <5>. SUFFICES ASSUME 1 \in 1 .. n PROVE g[1] = parts[1]
          OBVIOUS
        <5>1. g[1] = g[1 - 1] \o parts[1] /\ 1 - 1 = 0
          BY <1>3
        <5>. QED BY <1>1, <1>2, <4>1, <5>1
      <4>. QED BY <1>3, <4>2
    <3>1. Flattens([i \in 1 .. n |-> g[i]])
      <4>. DEFINE k == [i \in 1 .. n |-> g[i]]
      <4>1. ASSUME NEW i \in 1 .. n
            PROVE  k[i] = IF i = 1 THEN parts[i] ELSE k[i - 1] \o parts[i]
        <5>1. i # 1 => i - 1 \in 1 .. n
          BY <1>1
        <5>2. k[i] = g[i] /\ (i # 1 => k[i - 1] = g[i - 1])
          BY <5>1
        <5>. QED BY <3>0, <5>2
      <4>. QED BY <4>1
    <3>2. Flattens(h)
      BY <3>1
    <3>3. FlattenSeq(parts) = h[n]
      BY <2>2 DEF FlattenSeq
    <3>. HIDE DEF h
    <3>. DEFINE Good == {i \in 0 .. n : i # 0 => h[i] = g[i]}
    <3>4. ASSUME NEW i \in 1 .. n, i - 1 \in Good PROVE i \in Good
      <4>1. h[i] = IF i = 1 THEN parts[i] ELSE h[i - 1] \o parts[i]
        BY <3>2
      <4>2. i \in 0 .. n /\ (i # 1 => i - 1 # 0 /\ h[i - 1] = g[i - 1])
        BY <1>1, <3>4
      <4>. QED BY <3>0, <4>1, <4>2
    <3>5. \A i \in 0 .. n : i \in Good
      <4>1. 0 \in Good
        BY <1>1
      <4>. HIDE DEF Good
      <4>. QED BY <1>1, <3>4, <4>1, CountUp
    <3>6. n \in Good
      <4>. HIDE DEF Good
      <4>. QED BY <1>1, <3>5
    <3>. QED BY <2>2, <3>3, <3>6
  <2>. QED BY <2>1, <2>2
<1>. QED BY <1>2, <1>3, <1>4 DEF Builds

(* Sequences joined together are a sequence of their members, in order.    *)
LEMMA FlattenJoins ==
  ASSUME NEW S, NEW n \in Nat, NEW parts, Len(parts) = n,
         \A i \in 1 .. n : parts[i] \in Seq(S), n = 0 => parts = <<>>
  PROVE  /\ FlattenSeq(parts) \in Seq(S)
         /\ \E off : Joins(parts, off, FlattenSeq(parts))
<1>1. PICK g : Builds(S, n, parts, g)
  BY FlattenSteps
<1>2. g[0] = <<>> /\ g[n] = FlattenSeq(parts)
  BY <1>1 DEF Builds
<1>10. \A i \in 0 .. n : g[i] \in Seq(S) /\ Len(g[i]) \in Nat
  BY <1>1 DEF Builds
<1>11. ASSUME NEW i \in 1 .. n
      PROVE  /\ parts[i] \in Seq(S) /\ Len(parts[i]) \in Nat
             /\ i \in 0 .. n /\ i - 1 \in 0 .. n /\ g[i - 1] \in Seq(S)
             /\ g[i] = g[i - 1] \o parts[i]
  <2>1. i \in 0 .. n /\ i - 1 \in 0 .. n
    OBVIOUS
  <2>2. g[i] = g[i - 1] \o parts[i]
    BY <1>1 DEF Builds
  <2>. QED BY <1>10, <2>1, <2>2
<1>. DEFINE off == [i \in 0 .. n |-> Len(g[i])]
            Upto(m) == /\ \A i \in 0 .. m : off[i] <= off[m]
                       /\ \A i \in 1 .. m : \A j \in 1 .. Len(parts[i]) :
                            g[m][off[i - 1] + j] = parts[i][j]
            Good == {m \in 0 .. n : Upto(m)}
<1>3. off \in [0 .. n -> Nat] /\ off[0] = 0
  BY <1>2, <1>10
<1>4. ASSUME NEW i \in 1 .. n PROVE off[i] = off[i - 1] + Len(parts[i])
  <2>1. Len(g[i]) = Len(g[i - 1]) + Len(parts[i])
    <3>1. g[i - 1] \in Seq(S) /\ parts[i] \in Seq(S) /\ g[i] = g[i - 1] \o parts[i]
      BY <1>11
    <3>. QED BY ONLY <3>1
  <2>. QED BY <1>11, <2>1
<1>5. 0 \in Good
  BY <1>2, <1>3
<1>6. ASSUME NEW m \in 1 .. n, m - 1 \in Good PROVE m \in Good
  <2>1. m \in Nat /\ m - 1 \in 0 .. n /\ Upto(m - 1)
    <3>. HIDE DEF Upto
    <3>. QED BY <1>6
  <2>2. off[m] = off[m - 1] + Len(parts[m]) /\ Len(parts[m]) \in Nat
    BY <1>11, <1>4
  <2>3. ASSUME NEW i \in 0 .. m PROVE off[i] <= off[m]
    <3>1. CASE i = m
      BY <1>3, <3>1
    <3>2. CASE i # m
      <4>1. i \in 0 .. (m - 1) /\ off[i] \in Nat /\ off[m - 1] \in Nat
        BY <1>3, <2>1, <3>2
      <4>2. off[i] <= off[m - 1]
        BY <2>1, <4>1
      <4>. HIDE DEF off
      <4>. QED BY <2>2, <4>1, <4>2
    <3>. QED BY <3>1, <3>2
  <2>4. ASSUME NEW i \in 1 .. m, NEW j \in 1 .. Len(parts[i])
        PROVE  g[m][off[i - 1] + j] = parts[i][j]
    <3>1. g[m] = g[m - 1] \o parts[m] /\ g[m - 1] \in Seq(S) /\ parts[m] \in Seq(S)
          /\ off[m - 1] = Len(g[m - 1])
      BY <1>11, <2>1
    <3>2. CASE i = m
      BY <3>1, <3>2
    <3>3. CASE i # m
      <4>1. i \in 1 .. (m - 1) /\ i \in 0 .. (m - 1) /\ i \in 1 .. n /\ i - 1 \in 0 .. n
        BY <2>1, <3>3
      <4>2. off[i - 1] + j <= off[m - 1] /\ off[i - 1] + j \in Nat \ {0}
        <5>1. off[i] <= off[m - 1] /\ off[i] = off[i - 1] + Len(parts[i])
          BY <1>4, <2>1, <4>1
        <5>2. off[i - 1] \in Nat /\ off[m - 1] \in Nat /\ off[i] \in Nat
          BY <1>3, <2>1, <4>1
        <5>3. Len(parts[i]) \in Nat /\ j \in 1 .. Len(parts[i])
          BY <1>11, <4>1
        <5>. HIDE DEF off
        <5>. QED BY ONLY <5>1, <5>2, <5>3
      <4>3. g[m - 1][off[i - 1] + j] = parts[i][j]
        BY <2>1, <4>1
      <4>. HIDE DEF off
      <4>. QED BY <3>1, <4>2, <4>3
    <3>. QED BY <3>2, <3>3
  <2>5. Upto(m)
    BY <2>3, <2>4
  <2>6. m \in 0 .. n
    OBVIOUS
  <2>. HIDE DEF Upto
  <2>. QED BY <2>5, <2>6
<1>7. ASSUME NEW m \in 0 .. n PROVE Upto(m)
  <2>1. \A k \in 0 .. n : k \in Good
    <3>. HIDE DEF Good
    <3>. QED BY <1>2, <1>5, <1>6, CountUp
  <2>2. m \in Good
    <3>. HIDE DEF Good
    <3>. QED BY <2>1
  <2>. HIDE DEF Upto
  <2>. QED BY <2>2
<1>8. Joins(parts, off, g[n])
  <2>1. Len(g[n]) = off[n]
    BY <1>2
  <2>2. \A i \in 1 .. n : \A k \in 0 .. i : off[k] <= off[i]
    <3>1. \A i \in 1 .. n : i \in 0 .. n
      OBVIOUS
    <3>2. ASSUME NEW i \in 0 .. n PROVE \A k \in 0 .. i : off[k] <= off[i]
      BY <1>7
    <3>. HIDE DEF off
    <3>. QED BY <3>1, <3>2
  <2>3. \A i \in 1 .. n : \A j \in 1 .. Len(parts[i]) : g[n][off[i - 1] + j] = parts[i][j]
    <3>1. n \in 0 .. n
      OBVIOUS
    <3>2. Upto(n)
      BY <1>7, <3>1
    <3>. HIDE DEF off
    <3>. QED BY <3>2
  <2>. HIDE DEF off
  <2>. QED BY <1>3, <1>4, <2>1, <2>2, <2>3 DEF Joins
<1>9. g[n] \in Seq(S)
  BY <1>10
<1>. QED BY <1>2, <1>8, <1>9

(* Every position of the whole is in one of the parts. *)
LEMMA JoinsCovers ==
  ASSUME NEW n \in Nat, NEW parts, Len(parts) = n, NEW off, NEW whole,
         Joins(parts, off, whole), NEW p \in 1 .. Len(whole)
  PROVE  \E i \in 1 .. n : off[i - 1] < p /\ p <= off[i]
<1>. DEFINE Good == {m \in 0 .. n : p <= off[m] => \E i \in 1 .. m : off[i - 1] < p /\ p <= off[i]}
<1>1. \A m \in 0 .. n : off[m] \in Nat
  BY DEF Joins
<1>2. off[0] = 0 /\ off[n] = Len(whole)
  BY DEF Joins
<1>3. 0 \in Good
  BY <1>2
<1>4. ASSUME NEW m \in 1 .. n, m - 1 \in Good PROVE m \in Good
  <2>1. m \in 0 .. n /\ m - 1 \in 0 .. n
    OBVIOUS
  <2>2. CASE p <= off[m - 1]
    BY <1>4, <2>2
  <2>3. CASE ~ (p <= off[m - 1])
    <3>1. off[m - 1] < p
      BY <1>1, <2>1, <2>3
    <3>. QED BY <2>1, <3>1
  <2>. QED BY <2>2, <2>3
<1>5. \A m \in 0 .. n : m \in Good
  <2>. HIDE DEF Good
  <2>. QED BY <1>3, <1>4, CountUp
<1>6. n \in Good
  <2>. HIDE DEF Good
  <2>. QED BY <1>5
<1>7. p <= off[n]
  BY <1>2
<1>. QED BY <1>6, <1>7

(* What a filter keeps, in the order it has.  pos[k] is where the k-th     *)
(* member of the result was.                                               *)
Picks(xs, kept, whole, pos) ==
  /\ pos \in [1 .. Len(whole) -> kept]
  /\ \A k \in 1 .. Len(whole) : whole[k] = xs[pos[k]]
  /\ \A j, k \in 1 .. Len(whole) : j < k => pos[j] < pos[k]
  /\ \A i \in kept : \E k \in 1 .. Len(whole) : pos[k] = i

LEMMA FilterPicks ==
  ASSUME NEW S, NEW n \in Nat, NEW parts, Len(parts) = n, n = 0 => parts = <<>>,
         NEW kept, kept \subseteq 1 .. n, NEW xs,
         \A i \in kept : xs[i] \in S,
         \A i \in 1 .. n : parts[i] = IF i \in kept THEN <<xs[i]>> ELSE <<>>
  PROVE  /\ FlattenSeq(parts) \in Seq(S)
         /\ \E pos : Picks(xs, kept, FlattenSeq(parts), pos)
<1>. DEFINE whole == FlattenSeq(parts)
<1>1. ASSUME NEW i \in 1 .. n PROVE parts[i] \in Seq(S)
  <2>1. CASE i \in kept
    <3>1. xs[i] \in S /\ parts[i] = <<xs[i]>>
      BY <2>1
    <3>. QED BY <3>1
  <2>2. CASE i \notin kept
    <3>1. parts[i] = <<>>
      BY <2>2
    <3>. QED BY ONLY <3>1
  <2>. QED BY <2>1, <2>2
<1>2. whole \in Seq(S) /\ \E off : Joins(parts, off, whole)
  BY <1>1, FlattenJoins
<1>3. PICK off : Joins(parts, off, whole)
  BY <1>2
<1>. HIDE DEF whole
<1>4. Len(whole) \in Nat /\ off[n] = Len(whole) /\ \A i \in 0 .. n : off[i] \in Nat
  BY <1>2, <1>3 DEF Joins
<1>5. ASSUME NEW i \in 1 .. n
      PROVE  /\ i \in 0 .. n /\ i - 1 \in 0 .. n
             /\ i \in kept => off[i] = off[i - 1] + 1 /\ whole[off[i]] = xs[i]
             /\ i \notin kept => off[i] = off[i - 1]
             /\ off[i] <= off[n]
  <2>1. i \in 0 .. n /\ i - 1 \in 0 .. n /\ n \in 0 .. n
    OBVIOUS
  <2>2. off[i] = off[i - 1] + Len(parts[i])
    BY <1>3 DEF Joins
  <2>3. \A j \in 1 .. Len(parts[i]) : whole[off[i - 1] + j] = parts[i][j]
    BY <1>3 DEF Joins
  <2>4. ASSUME i \in kept PROVE off[i] = off[i - 1] + 1 /\ whole[off[i]] = xs[i]
    <3>1. parts[i] = <<xs[i]>> /\ Len(parts[i]) = 1 /\ parts[i][1] = xs[i]
      BY <2>4
    <3>2. 1 \in 1 .. Len(parts[i])
      BY <3>1
    <3>. QED BY <2>2, <2>3, <3>1, <3>2
  <2>5. ASSUME i \notin kept PROVE off[i] = off[i - 1]
    <3>1. parts[i] = <<>> /\ Len(parts[i]) = 0
      BY <2>5
    <3>2. off[i - 1] \in Nat
      BY <1>4, <2>1
    <3>. QED BY <2>2, <3>1, <3>2
  <2>6. off[i] <= off[n]
    <3>1. CASE n = 0
      BY <3>1
    <3>2. CASE n # 0
      BY <1>3, <3>2 DEF Joins
    <3>. QED BY <3>1, <3>2
  <2>. QED BY <2>1, <2>4, <2>5, <2>6
<1>6. ASSUME NEW k \in 1 .. Len(whole) PROVE \E i \in kept : off[i] = k
  <2>1. PICK i \in 1 .. n : off[i - 1] < k /\ k <= off[i]
    BY <1>3, JoinsCovers
  <2>2. off[i] \in Nat /\ off[i - 1] \in Nat
    BY <1>4, <1>5
  <2>3. i \in kept
    BY <1>5, <2>1, <2>2
  <2>4. off[i] = off[i - 1] + 1
    BY <1>5, <2>3
  <2>5. off[i] = k
    BY <2>1, <2>2, <2>4
  <2>. QED BY <2>3, <2>5
<1>7. ASSUME NEW i \in kept, NEW j \in kept, i < j PROVE off[i] < off[j]
  <2>1. i \in 0 .. (j - 1) /\ j \in 1 .. n /\ i \in 1 .. n
    BY <1>7
  <2>2. off[i] <= off[j - 1]
    <3>1. CASE j - 1 = 0
      BY <2>1, <3>1
    <3>2. CASE j - 1 # 0
      <4>1. j - 1 \in 1 .. n
        BY <2>1, <3>2
      <4>. QED BY <1>3, <2>1, <4>1 DEF Joins
    <3>. QED BY <3>1, <3>2
  <2>3. off[j] = off[j - 1] + 1 /\ off[j - 1] \in Nat /\ off[i] \in Nat
    BY <1>4, <1>5, <2>1
  <2>. QED BY <2>2, <2>3
<1>8. \A i \in kept : i \in Nat /\ off[i] \in 1 .. Len(whole)
  <2>. SUFFICES ASSUME NEW i \in kept PROVE i \in Nat /\ off[i] \in 1 .. Len(whole)
    OBVIOUS
  <2>1. i \in 1 .. n
    OBVIOUS
  <2>2. off[i] = off[i - 1] + 1 /\ off[i] <= off[n] /\ off[i - 1] \in Nat
    BY <1>4, <1>5, <2>1
  <2>. QED BY <1>4, <2>1, <2>2
<1>. DEFINE pos == [k \in 1 .. Len(whole) |-> CHOOSE i \in kept : off[i] = k]
<1>9. \A k \in 1 .. Len(whole) : pos[k] \in kept /\ off[pos[k]] = k
  BY <1>6
<1>10. pos \in [1 .. Len(whole) -> kept]
  BY <1>6
<1>. HIDE DEF pos
<1>11. \A k \in 1 .. Len(whole) : whole[k] = xs[pos[k]]
  <2>1. \A i \in kept : whole[off[i]] = xs[i]
    BY <1>5
  <2>. QED BY <1>9, <2>1
<1>12. ASSUME NEW j \in 1 .. Len(whole), NEW k \in 1 .. Len(whole), j < k PROVE pos[j] < pos[k]
  <2>1. pos[j] \in kept /\ pos[k] \in kept /\ off[pos[j]] = j /\ off[pos[k]] = k
    BY <1>9
  <2>2. pos[j] \in Nat /\ pos[k] \in Nat
    BY <1>8, <2>1
  <2>3. pos[k] # pos[j]
    BY <1>4, <1>12, <2>1
  <2>4. ~ (pos[k] < pos[j])
    <3>1. pos[k] < pos[j] => off[pos[k]] < off[pos[j]]
      BY <1>7, <2>1
    <3>. QED BY <1>4, <1>12, <2>1, <3>1
  <2>. QED BY <2>2, <2>3, <2>4
<1>13. ASSUME NEW i \in kept PROVE \E k \in 1 .. Len(whole) : pos[k] = i
  <2>1. off[i] \in 1 .. Len(whole) /\ i \in Nat
    BY <1>8
  <2>. DEFINE j == pos[off[i]]
  <2>2. j \in kept /\ off[j] = off[i]
    BY <1>9, <2>1
  <2>3. j \in Nat
    BY <1>8, <2>2
  <2>. HIDE DEF j
  <2>4. ~ (i < j) /\ ~ (j < i)
    BY <1>4, <1>7, <2>1, <2>2
  <2>5. j = i
    BY <2>1, <2>3, <2>4
  <2>. QED BY <2>1, <2>5 DEF j
<1>14. Picks(xs, kept, whole, pos)
  BY <1>10, <1>11, <1>12, <1>13 DEF Picks
<1>. QED BY <1>2, <1>14 DEF whole

-----------------------------------------------------------------------------
(* The elements of a finite set in some order *)

(* How many numbers of a set are lower than m. *)
Below(S, m) == {k \in S : k < m}

LEMMA RanksAreAll ==
  ASSUME NEW S \in SUBSET Nat, IsFiniteSet(S)
  PROVE  /\ \A m \in S : Cardinality(Below(S, m)) \in 0 .. (Cardinality(S) - 1)
         /\ \A i \in 0 .. (Cardinality(S) - 1) : \E m \in S : Cardinality(Below(S, m)) = i
         /\ \A m \in S, k \in S : Cardinality(Below(S, m)) = Cardinality(Below(S, k)) => m = k
<1>. DEFINE n == Cardinality(S)
            R == 0 .. (n - 1)
            rank == [m \in S |-> Cardinality(Below(S, m))]
<1>1. n \in Nat
  BY FS_CardinalityType
<1>2. IsFiniteSet(R) /\ Cardinality(R) = n
  <2>1. Cardinality(R) = IF 0 > n - 1 THEN 0 ELSE n - 1 - 0 + 1
    BY <1>1, FS_Interval
  <2>. QED BY <1>1, <2>1, FS_Interval
<1>3. ASSUME NEW m PROVE IsFiniteSet(Below(S, m)) /\ Cardinality(Below(S, m)) \in Nat
  BY FS_Subset, FS_CardinalityType DEF Below
<1>4. ASSUME NEW m \in S, NEW T \in SUBSET S, Below(S, m) \subseteq T, m \in T
      PROVE  Cardinality(Below(S, m)) < Cardinality(T)
  <2>1. IsFiniteSet(T) /\ Cardinality(T) \in Nat
    BY FS_Subset, FS_CardinalityType
  <2>2. Cardinality(Below(S, m)) <= Cardinality(T)
    BY <1>4, <2>1, FS_Subset
  <2>3. m \notin Below(S, m)
    BY DEF Below
  <2>4. Cardinality(Below(S, m)) # Cardinality(T)
    BY <1>4, <2>1, <2>3, FS_Subset
  <2>. QED BY <1>3, <2>1, <2>2, <2>4
<1>5. ASSUME NEW m \in S PROVE rank[m] \in R
  <2>1. Below(S, m) \subseteq S
    BY DEF Below
  <2>2. Cardinality(Below(S, m)) < n
    BY <1>4, <2>1
  <2>. QED BY <1>1, <1>3, <2>2
<1>6. ASSUME NEW m \in S, NEW k \in S, m < k PROVE rank[m] < rank[k]
  <2>1. Below(S, m) \subseteq Below(S, k) /\ m \in Below(S, k) /\ Below(S, k) \in SUBSET S
    <3>1. m \in Nat /\ k \in Nat /\ \A x \in S : x \in Nat
      OBVIOUS
    <3>2. \A x \in S : x < m => x < k
      BY <1>6, <3>1
    <3>. QED BY <1>6, <3>2 DEF Below
  <2>. QED BY <1>4, <2>1
<1>7. ASSUME NEW m \in S, NEW k \in S, rank[m] = rank[k] PROVE m = k
  <2>1. rank[m] \in Nat /\ m \in Nat /\ k \in Nat
    BY <1>3
  <2>2. ~ (m < k) /\ ~ (k < m)
    <3>. HIDE DEF rank
    <3>. QED BY <1>6, <1>7, <2>1
  <2>. QED BY <2>1, <2>2
<1>8. rank \in Surjection(S, R)
  <2>1. rank \in [S -> R]
    BY <1>5
  <2>2. rank \in Injection(S, R)
    <3>. HIDE DEF rank, R
    <3>. QED BY <1>7, <2>1 DEF Injection, IsInjective
  <2>. HIDE DEF rank, R
  <2>. QED BY <1>2, <2>2, FS_Injection
<1>9. \A i \in R : \E m \in S : rank[m] = i
  <2>. HIDE DEF rank, R
  <2>. QED BY <1>8 DEF Surjection
<1>. QED BY <1>5, <1>7, <1>9

(* A finite set's elements make a sequence with each of them in it, once.  *)
LEMMA SetToSeqHas ==
  ASSUME NEW S, IsFiniteSet(S)
  PROVE  /\ SetToSeq(S) \in [1 .. Cardinality(S) -> S]
         /\ \A i, j \in 1 .. Cardinality(S) : SetToSeq(S)[i] = SetToSeq(S)[j] => i = j
         /\ \A x \in S : \E i \in 1 .. Cardinality(S) : SetToSeq(S)[i] = x
<1>. DEFINE n == Cardinality(S)
            D == 1 .. n
<1>1. n \in Nat /\ ExistsBijection(D, S)
  BY FS_CardinalityType
<1>2. IsFiniteSet(D) /\ Cardinality(D) = n
  BY <1>1, FS_Interval
<1>3. \E f \in [D -> S] : IsInjective(f)
  BY <1>1 DEF ExistsBijection, Bijection, Injection, IsInjective
<1>. DEFINE f == SetToSeq(S)
<1>4. f \in [D -> S] /\ IsInjective(f)
  BY <1>3 DEF SetToSeq
<1>. HIDE DEF f, D
<1>5. f \in Surjection(D, S)
  <2>1. f \in Injection(D, S)
    BY <1>4 DEF Injection
  <2>. QED BY <1>2, <2>1, FS_Injection
<1>6. \A x \in S : \E i \in D : f[i] = x
  BY <1>5 DEF Surjection
<1>7. \A i, j \in D : f[i] = f[j] => i = j
  BY <1>4 DEF IsInjective
<1>. QED BY <1>4, <1>6, <1>7 DEF f, D

(* A set is counted by numbering its elements. *)
LEMMA CountedBy ==
  ASSUME NEW n \in Nat, NEW S, NEW f \in [1 .. n -> S],
         \A i, j \in 1 .. n : f[i] = f[j] => i = j,
         \A x \in S : \E i \in 1 .. n : f[i] = x
  PROVE  IsFiniteSet(S) /\ Cardinality(S) = n
<1>1. ExistsBijection(1 .. n, S)
  BY DEF ExistsBijection, Bijection, Injection, Surjection, IsInjective
<1>. QED BY <1>1, FS_NatBijection, FS_CountingElements
=============================================================================
