--------------------------- MODULE CollectorLemmas ---------------------------
(***************************************************************************)
(* Lemmas about what module Collector is made of.                          *)
(*                                                                         *)
(* Its closures are recursive functions on finite sets. Induction over     *)
(* numbers, stated with sets, shows them to be least fixed points, and from*)
(* there on nothing recursive is looked at: what the program reaches lies in*)
(* every closed set with its roots. Such a set G, whose references can all *)
(* be followed, is a Shape; with what the program and the table of types   *)
(* hold it is a World. The proofs carry a World from step to step and never*)
(* compute what is reachable.                                              *)
(***************************************************************************)
EXTENDS Collector, BitMasks, HeapProofs, TLAPS, FiniteSets, FiniteSetTheorems, WellFoundedInduction

(***************************************************************************)
(* Induction over the natural numbers and over growing sets, stated with   *)
(* sets where the library's theorems take an operator: what the recursive  *)
(* functions of module Collector compute follows from it.                  *)
(***************************************************************************)

\* The library's relation "less than" on the natural numbers, as a set.
LEMMA LessIsWellFounded == IsWellFoundedOn({p \in Nat \X Nat : p[1] < p[2]}, Nat)
BY NatLessThanWellFounded DEF OpToRel

\* A set of numbers that is not empty has a least one.
LEMMA LeastNumber ==
    ASSUME NEW T \in SUBSET Nat, T # {}
    PROVE  \E x \in T : \A y \in T : x <= y
<1> DEFINE R == {p \in Nat \X Nat : p[1] < p[2]}
<1>1. \E x \in T : \A y \in T : ~ (<<y, x>> \in R)
  <2>1. IsWellFoundedOn(R, Nat)
    BY LessIsWellFounded
  <2> HIDE DEF R
  <2> QED
    BY <2>1, WFMin
<1>2. PICK x \in T : \A y \in T : ~ (<<y, x>> \in R)
  BY <1>1
<1>3. ASSUME NEW y \in T
      PROVE  x <= y
  <2>1. <<y, x>> \in Nat \X Nat /\ <<y, x>>[1] = y /\ <<y, x>>[2] = x
    OBVIOUS
  <2> QED
    BY <1>2, <2>1
<1> QED
  BY <1>3

\* Induction: a set of numbers with 0 and with each number's successor is Nat.
LEMMA NumbersBySteps ==
    ASSUME NEW S, 0 \in S, \A n \in Nat : n \in S => n + 1 \in S
    PROVE  Nat \subseteq S
<1> SUFFICES ASSUME Nat \ S # {}
             PROVE  FALSE
  OBVIOUS
<1>1. PICK x \in Nat \ S : \A y \in Nat \ S : x <= y
  BY LeastNumber
<1>2. x # 0 /\ x - 1 \in Nat
  BY <1>1
<1>3. x - 1 \in S
  BY <1>1, <1>2
<1> QED
  BY <1>2, <1>3

\* Recursion: from a first value on, step after step, there is a sequence.
LEMMA SequenceOfSteps ==
    ASSUME NEW V, NEW first \in V, NEW step \in [V -> V]
    PROVE  \E f \in [Nat -> V] : f[0] = first /\ \A i \in Nat : f[i + 1] = step[f[i]]
<1> DEFINE Upto(n, f) == /\ f \in [0 .. n -> V] /\ f[0] = first
                         /\ \A i \in 0 .. n - 1 : f[i + 1] = step[f[i]]
           Some == {n \in Nat : \E f : Upto(n, f)}
           Same == {n \in Nat : \A m, k \in Nat : \A f, g :
                       Upto(m, f) /\ Upto(k, g) /\ n <= m /\ n <= k => f[n] = g[n]}
<1>1. Nat \subseteq Some
  <2>1. 0 \in Some
    <3>1. Upto(0, [i \in 0 .. 0 |-> first])
      OBVIOUS
    <3> QED
      BY <3>1
  <2>2. ASSUME NEW n \in Nat, n \in Some
        PROVE  n + 1 \in Some
    <3>1. PICK f : Upto(n, f)
      BY <2>2
    <3> DEFINE g == [i \in 0 .. n + 1 |-> IF i = n + 1 THEN step[f[n]] ELSE f[i]]
    <3>2. f[n] \in V /\ step[f[n]] \in V
      BY <3>1
    <3>3. g \in [0 .. n + 1 -> V] /\ g[0] = first
      BY <3>1, <3>2
    <3>4. ASSUME NEW i \in 0 .. n
          PROVE  g[i + 1] = step[g[i]]
      <4>1. CASE i = n
        BY <4>1
      <4>2. CASE i # n
        BY <3>1, <4>2
      <4> QED
        BY <4>1, <4>2
    <3>5. Upto(n + 1, g)
      <4> HIDE DEF g
      <4>1. n + 1 - 1 = n
        OBVIOUS
      <4> QED
        BY <3>3, <3>4, <4>1
    <3> HIDE DEF g, Upto
    <3>6. \E h : Upto(n + 1, h)
      BY <3>5
    <3> QED
      BY <3>6
  <2> HIDE DEF Some
  <2> QED
    BY <2>1, <2>2, NumbersBySteps
<1>2. Nat \subseteq Same
  <2>1. 0 \in Same
    OBVIOUS
  <2>2. ASSUME NEW n \in Nat, n \in Same
        PROVE  n + 1 \in Same
    <3>1. ASSUME NEW m \in Nat, NEW k \in Nat, NEW f, NEW g, Upto(m, f), Upto(k, g),
                 n + 1 <= m, n + 1 <= k
          PROVE  f[n + 1] = g[n + 1]
      <4>1. n <= m /\ n <= k
        BY <3>1
      <4>2. f[n] = g[n]
        <5> HIDE DEF Upto
        <5> QED
          BY <2>2, <3>1, <4>1
      <4> QED
        BY <3>1, <4>2
    <3> HIDE DEF Upto
    <3> QED
      BY <3>1
  <2> HIDE DEF Same
  <2> QED
    BY <2>1, <2>2, NumbersBySteps
<1> DEFINE at(n) == CHOOSE f : Upto(n, f)
           all == [n \in Nat |-> at(n)[n]]
<1>3. ASSUME NEW n \in Nat
      PROVE  Upto(n, at(n))
  <2> HIDE DEF Upto
  <2> QED
    BY <1>1
<1>4. all \in [Nat -> V] /\ all[0] = first
  <2>1. ASSUME NEW n \in Nat
        PROVE  at(n)[n] \in V
    <3> HIDE DEF at
    <3> QED
      BY <1>3
  <2>2. at(0)[0] = first
    <3> HIDE DEF at
    <3> QED
      BY <1>3
  <2> HIDE DEF at
  <2> QED
    BY <2>1, <2>2
<1>5. ASSUME NEW n \in Nat
      PROVE  all[n + 1] = step[all[n]]
  <2>1. at(n + 1)[n] = at(n)[n]
    <3>1. n \in Same /\ n + 1 \in Nat /\ n <= n + 1 /\ n <= n
      <4> HIDE DEF Same
      <4> QED
        BY <1>2
    <3>2. Upto(n + 1, at(n + 1)) /\ Upto(n, at(n))
      BY <1>3, <3>1
    <3> HIDE DEF Upto, at
    <3> QED
      BY <3>1, <3>2
  <2>2. at(n + 1)[n + 1] = step[at(n + 1)[n]]
    <3> HIDE DEF at
    <3>1. Upto(n + 1, at(n + 1))
      BY <1>3
    <3> QED
      BY <3>1
  <2> HIDE DEF at
  <2> QED
    BY <2>1, <2>2
<1> HIDE DEF all
<1> QED
  BY <1>4, <1>5

-----------------------------------------------------------------------------
(* Closures: a set grows by steps until it does not *)

\* grow[s] holds s and is monotone.
Growing(U, grow) ==
    /\ grow \in [SUBSET U -> SUBSET U]
    /\ \A s \in SUBSET U : s \subseteq grow[s]
    /\ \A s, t \in SUBSET U : s \subseteq t => grow[s] \subseteq grow[t]

\* The sets that grow leaves alone.
Fixed(U, grow) == {t \in SUBSET U : grow[t] = t}

\* What every set that holds s and does not grow has.
Least(U, grow, s) == {x \in U : \A t \in Fixed(U, grow) : s \subseteq t => x \in t}

\* f follows the steps to the end.
Follows(U, grow, f) == f = [s \in SUBSET U |-> IF grow[s] = s THEN s ELSE f[grow[s]]]

\* The least set does not grow.
LEMMA LeastIsFixed ==
    ASSUME NEW U, NEW grow, Growing(U, grow), NEW s \in SUBSET U
    PROVE  /\ Least(U, grow, s) \in Fixed(U, grow) /\ s \subseteq Least(U, grow, s)
           /\ \A t \in Fixed(U, grow) : s \subseteq t => Least(U, grow, s) \subseteq t
<1> DEFINE l == Least(U, grow, s)
<1>1. l \in SUBSET U /\ s \subseteq l
  BY DEF Least
<1>2. \A t \in Fixed(U, grow) : s \subseteq t => l \subseteq t
  BY DEF Least
<1>3. ASSUME NEW x \in grow[l], NEW t \in Fixed(U, grow), s \subseteq t
      PROVE  x \in t
  BY <1>1, <1>2, <1>3 DEF Growing, Fixed
<1>4. grow[l] \subseteq l
  <2>1. grow[l] \subseteq U
    BY <1>1 DEF Growing
  <2> QED
    BY <1>3, <2>1 DEF Least
<1>5. grow[l] = l
  BY <1>1, <1>4 DEF Growing
<1> QED
  BY <1>1, <1>2, <1>5 DEF Fixed

\* There is a function that follows the steps to the end.
LEMMA FollowingExists ==
    ASSUME NEW U, NEW grow, Growing(U, grow)
    PROVE  \E f : Follows(U, grow, f)
<1> DEFINE f == [s \in SUBSET U |-> Least(U, grow, s)]
<1>1. ASSUME NEW s \in SUBSET U
      PROVE  f[s] = IF grow[s] = s THEN s ELSE f[grow[s]]
  <2>1. grow[s] \in SUBSET U /\ s \subseteq grow[s]
    BY DEF Growing
  <2>2. CASE grow[s] = s
    <3>1. s \in Fixed(U, grow)
      BY <2>2 DEF Fixed
    <3> QED
      BY <2>2, <3>1, LeastIsFixed
  <2>3. CASE grow[s] # s
    <3>1. ASSUME NEW t \in Fixed(U, grow)
          PROVE  s \subseteq t <=> grow[s] \subseteq t
      BY <2>1 DEF Growing, Fixed
    <3>2. Least(U, grow, s) = Least(U, grow, grow[s])
      BY <3>1 DEF Least
    <3> QED
      BY <2>1, <2>3, <3>2
  <2> QED
    BY <2>2, <2>3
<1>2. Follows(U, grow, f)
  <2>1. f = [s \in SUBSET U |-> IF grow[s] = s THEN s ELSE f[grow[s]]]
    <3> HIDE DEF f
    <3>1. f = [s \in SUBSET U |-> f[s]]
      BY DEF f
    <3> QED
      BY <1>1, <3>1
  <2> QED
    BY <2>1 DEF Follows
<1> QED
  BY <1>2

\* In a finite universe it ends in the least set that does not grow.
LEMMA FollowingEnds ==
    ASSUME NEW U, IsFiniteSet(U), NEW grow, Growing(U, grow),
           NEW f, Follows(U, grow, f), NEW s \in SUBSET U
    PROVE  f[s] = Least(U, grow, s)
<1> DEFINE Bad == {t \in SUBSET U : f[t] # Least(U, grow, t)}
           Left(t) == Cardinality(U \ t)
<1>1. \A t \in SUBSET U : IsFiniteSet(U \ t) /\ Left(t) \in Nat
  BY FS_Difference, FS_CardinalityType
<1> SUFFICES ASSUME Bad # {}
             PROVE  FALSE
  OBVIOUS
<1>2. PICK n \in {Left(t) : t \in Bad} : \A m \in {Left(t) : t \in Bad} : n <= m
  <2>1. {Left(t) : t \in Bad} \in SUBSET Nat /\ {Left(t) : t \in Bad} # {}
    BY <1>1
  <2> HIDE DEF Bad
  <2> QED
    BY <2>1, LeastNumber
<1>3. PICK t \in Bad : \A u \in Bad : Left(t) <= Left(u)
  BY <1>2
<1>4. grow[t] \in SUBSET U /\ t \subseteq grow[t]
  BY DEF Growing
<1>5. CASE grow[t] = t
  <2>1. f[t] = t /\ t \in Fixed(U, grow)
    BY <1>5 DEF Follows, Fixed
  <2> QED
    BY <2>1, LeastIsFixed
<1>6. CASE grow[t] # t
  <2>1. PICK x \in grow[t] : x \notin t
    BY <1>4, <1>6
  <2>2. U \ grow[t] \subseteq U \ t /\ U \ grow[t] # U \ t
    BY <1>4, <2>1
  <2>3. Left(grow[t]) < Left(t)
    <3>1. U \ grow[t] \in SUBSET (U \ t) /\ IsFiniteSet(U \ t)
      BY <1>1, <2>2
    <3>2. /\ Cardinality(U \ grow[t]) <= Cardinality(U \ t)
          /\ Cardinality(U \ grow[t]) # Cardinality(U \ t)
      BY <2>2, <3>1, FS_Subset
    <3>3. Left(grow[t]) \in Nat /\ Left(t) \in Nat
      BY <1>1, <1>4
    <3> QED
      BY <3>2, <3>3
  <2>4. grow[t] \notin Bad
    <3>1. Left(grow[t]) \in Nat /\ Left(t) \in Nat
      BY <1>1, <1>4
    <3>2. grow[t] \in Bad => Left(t) <= Left(grow[t])
      BY <1>3
    <3> HIDE DEF Left, Bad
    <3> QED
      BY <2>3, <3>1, <3>2
  <2>5. f[t] = Least(U, grow, grow[t])
    BY <1>4, <1>6, <2>4 DEF Follows
  <2>6. ASSUME NEW c \in Fixed(U, grow)
        PROVE  t \subseteq c <=> grow[t] \subseteq c
    BY <1>4 DEF Growing, Fixed
  <2>7. Least(U, grow, t) = Least(U, grow, grow[t])
    BY <2>6 DEF Least
  <2> QED
    BY <2>5, <2>7
<1> QED
  BY <1>5, <1>6

(***************************************************************************)
(* What the arithmetic on the masks of the function pool does to their     *)
(* bits: the sum that sets a bit, and the difference of the finalizers.    *)
(***************************************************************************)

\* The powers of two follow the equations of the recursive definition.
LEMMA PowerEquations ==
    /\ Power[0] = 1
    /\ \A i \in Nat : Power[i] \in Nat \ {0} /\ Power[i + 1] = 2 * Power[i]
<1> DEFINE V == Nat
           one == 1
           twice == [x \in Nat |-> 2 * x]
           IsPower(f) == f = [i \in Nat |-> IF i = 0 THEN 1 ELSE 2 * f[i - 1]]
<1>1. PICK f \in [Nat -> Nat] : f[0] = 1 /\ \A i \in Nat : f[i + 1] = twice[f[i]]
  <2>1. one \in V /\ twice \in [V -> V]
    OBVIOUS
  <2>2. \E f \in [Nat -> V] : f[0] = one /\ \A i \in Nat : f[i + 1] = twice[f[i]]
    <3> HIDE DEF V, one, twice
    <3> QED
      BY <2>1, SequenceOfSteps
  <2> QED
    BY <2>2
<1>2. IsPower(f)
  <2>1. ASSUME NEW i \in Nat
        PROVE  f[i] = IF i = 0 THEN 1 ELSE 2 * f[i - 1]
    <3>1. CASE i = 0
      BY <1>1, <3>1
    <3>2. CASE i # 0
      <4>1. i - 1 \in Nat /\ (i - 1) + 1 = i
        BY <3>2
      <4>2. f[i] = twice[f[i - 1]] /\ f[i - 1] \in Nat
        BY <1>1, <4>1
      <4> QED
        BY <3>2, <4>2
    <3> QED
      BY <3>1, <3>2
  <2>2. f = [i \in Nat |-> f[i]]
    OBVIOUS
  <2> QED
    BY <2>1, <2>2
<1>3. IsPower(Power)
  <2>1. Power = CHOOSE g : IsPower(g)
    BY DEF Power
  <2> HIDE DEF IsPower
  <2> QED
    BY <1>2, <2>1
<1>4. Power[0] = 1 /\ \A i \in Nat : Power[i + 1] = 2 * Power[i]
  <2>1. \A i \in Nat : Power[i] = IF i = 0 THEN 1 ELSE 2 * Power[i - 1]
    BY <1>3
  <2>2. ASSUME NEW i \in Nat
        PROVE  Power[i + 1] = 2 * Power[i]
    <3>1. i + 1 \in Nat /\ i + 1 # 0 /\ (i + 1) - 1 = i
      OBVIOUS
    <3> QED
      BY <2>1, <3>1
  <2> QED
    BY <2>1, <2>2
<1>5. Nat \subseteq {i \in Nat : Power[i] \in Nat \ {0}}
  <2> DEFINE S == {i \in Nat : Power[i] \in Nat \ {0}}
  <2>1. 0 \in S /\ \A i \in Nat : i \in S => i + 1 \in S
    BY <1>4
  <2> HIDE DEF S
  <2>2. Nat \subseteq S
    BY <2>1, NumbersBySteps
  <2> QED
    BY <2>2 DEF S
<1> QED
  BY <1>4, <1>5

\* The bits of a mask: its parity, and the bits of its half.
LEMMA BitByBit ==
    ASSUME NEW m \in Nat
    PROVE  /\ Bit(m, 0) <=> m % 2 = 1
           /\ \A i \in Nat : Bit(m, i + 1) <=> Bit(m \div 2, i)
<1>1. Bit(m, 0) <=> m % 2 = 1
  BY PowerEquations DEF Bit
<1>2. ASSUME NEW i \in Nat
      PROVE  Bit(m, i + 1) <=> Bit(m \div 2, i)
  <2>1. Power[i] \in Nat \ {0} /\ Power[i + 1] = 2 * Power[i]
    BY PowerEquations
  <2>2. ASSUME NEW P \in Nat \ {0}
        PROVE  (m \div 2) \div P = m \div (2 * P)
    OBVIOUS
  <2> QED
    BY <2>1, <2>2 DEF Bit
<1> QED
  BY <1>1, <1>2

\* No bit of the empty mask is set.
LEMMA NoBits == \A i \in Nat : ~ Bit(0, i)
<1> SUFFICES ASSUME NEW i \in Nat
             PROVE  ~ Bit(0, i)
  OBVIOUS
<1>1. \A P \in Nat \ {0} : (0 \div P) % 2 = 0
  OBVIOUS
<1> QED
  BY <1>1, PowerEquations DEF Bit

\* Adding the power of a bit that is clear sets this bit and no other, and the
\* mask keeps its width.
LEMMA SetBit ==
    ASSUME NEW n \in Nat, NEW i \in 0 .. n - 1, NEW m \in 0 .. Power[n] - 1, ~ Bit(m, i)
    PROVE  /\ m + Power[i] \in 0 .. Power[n] - 1
           /\ \A j \in Nat : Bit(m + Power[i], j) <=> Bit(m, j) \/ j = i
<1> DEFINE Sets(k) == \A w \in Nat : k < w => \A x \in 0 .. Power[w] - 1 : ~ Bit(x, k) =>
                          /\ x + Power[k] \in 0 .. Power[w] - 1
                          /\ \A j \in Nat : Bit(x + Power[k], j) <=> Bit(x, j) \/ j = k
           S == {k \in Nat : Sets(k)}
<1>1. 0 \in S
  <2> SUFFICES ASSUME NEW w \in Nat, 0 < w, NEW x \in 0 .. Power[w] - 1, ~ Bit(x, 0)
               PROVE  /\ x + Power[0] \in 0 .. Power[w] - 1
                      /\ \A j \in Nat : Bit(x + Power[0], j) <=> Bit(x, j) \/ j = 0
    OBVIOUS
  <2>1. w - 1 \in Nat /\ Power[w] = 2 * Power[w - 1] /\ Power[w - 1] \in Nat /\ Power[0] = 1
    <3>1. w - 1 \in Nat /\ (w - 1) + 1 = w
      OBVIOUS
    <3> QED
      BY <3>1, PowerEquations
  <2>2. x \in Nat /\ x % 2 = 0
    BY <2>1, BitByBit
  <2>3. x + 1 \in 0 .. Power[w] - 1 /\ (x + 1) % 2 = 1 /\ (x + 1) \div 2 = x \div 2
    BY <2>1, <2>2
  <2>4. ASSUME NEW j \in Nat
        PROVE  Bit(x + 1, j) <=> Bit(x, j) \/ j = 0
    <3>1. CASE j = 0
      <4>1. Bit(x + 1, 0)
        BY <2>2, <2>3, BitByBit
      <4> QED
        BY <3>1, <4>1
    <3>2. CASE j # 0
      <4>1. j - 1 \in Nat /\ (j - 1) + 1 = j
        BY <3>2
      <4>2. Bit(x + 1, (j - 1) + 1) <=> Bit(x \div 2, j - 1)
        <5>1. x + 1 \in Nat
          BY <2>2
        <5>2. Bit(x + 1, (j - 1) + 1) <=> Bit((x + 1) \div 2, j - 1)
          BY <4>1, <5>1, BitByBit
        <5> QED
          BY <2>3, <5>2
      <4>3. Bit(x, (j - 1) + 1) <=> Bit(x \div 2, j - 1)
        BY <2>2, <4>1, BitByBit
      <4> QED
        BY <3>2, <4>1, <4>2, <4>3
    <3> QED
      BY <3>1, <3>2
  <2> QED
    BY <2>1, <2>3, <2>4
<1>2. ASSUME NEW k \in Nat, k \in S
      PROVE  k + 1 \in S
  <2> SUFFICES ASSUME NEW w \in Nat, k + 1 < w, NEW x \in 0 .. Power[w] - 1, ~ Bit(x, k + 1)
               PROVE  /\ x + Power[k + 1] \in 0 .. Power[w] - 1
                      /\ \A j \in Nat : Bit(x + Power[k + 1], j) <=> Bit(x, j) \/ j = k + 1
    OBVIOUS
  <2> DEFINE h == x \div 2
  <2>1. /\ w - 1 \in Nat /\ k < w - 1 /\ Power[w] = 2 * Power[w - 1] /\ Power[w - 1] \in Nat
        /\ Power[k + 1] = 2 * Power[k] /\ Power[k] \in Nat
    <3>1. w - 1 \in Nat /\ (w - 1) + 1 = w
      OBVIOUS
    <3> QED
      BY <3>1, PowerEquations
  <2>2. x \in Nat /\ h \in 0 .. Power[w - 1] - 1
    BY <2>1
  <2>3. ~ Bit(h, k)
    BY <2>2, BitByBit
  <2>4. /\ h + Power[k] \in 0 .. Power[w - 1] - 1
        /\ \A j \in Nat : Bit(h + Power[k], j) <=> Bit(h, j) \/ j = k
    <3> HIDE DEF h
    <3> QED
      BY <1>2, <2>1, <2>2, <2>3
  <2>5. /\ x + Power[k + 1] \in 0 .. Power[w] - 1
        /\ (x + Power[k + 1]) \div 2 = h + Power[k]
        /\ (x + Power[k + 1]) % 2 = x % 2
        /\ x + Power[k + 1] \in Nat
    BY <2>1, <2>2, <2>4
  <2>6. ASSUME NEW j \in Nat
        PROVE  Bit(x + Power[k + 1], j) <=> Bit(x, j) \/ j = k + 1
    <3>1. CASE j = 0
      BY <2>2, <2>5, <3>1, BitByBit
    <3>2. CASE j # 0
      <4>1. j - 1 \in Nat /\ (j - 1) + 1 = j
        BY <3>2
      <4>2. Bit(x + Power[k + 1], (j - 1) + 1) <=> Bit(h + Power[k], j - 1)
        BY <2>5, <4>1, BitByBit
      <4>3. Bit(x, (j - 1) + 1) <=> Bit(h, j - 1)
        BY <2>2, <4>1, BitByBit
      <4> QED
        BY <2>4, <4>1, <4>2, <4>3
    <3> QED
      BY <3>1, <3>2
  <2> QED
    BY <2>5, <2>6
<1>3. Nat \subseteq S
  <2> HIDE DEF S
  <2> QED
    BY <1>1, <1>2, NumbersBySteps
<1>4. Sets(i)
  BY <1>3
<1> QED
  BY <1>4

\* Subtracting a mask whose bits are all set in the other borrows nothing: what
\* is left are the bits it does not have.
LEMMA DifferenceOfMasks ==
    ASSUME NEW n \in Nat, NEW f \in 0 .. Power[n] - 1, NEW s \in 0 .. Power[n] - 1,
           \A j \in 0 .. n - 1 : Bit(s, j) => Bit(f, j)
    PROVE  /\ s <= f /\ (f - s) % Power[n] = f - s
           /\ \A j \in Nat : Bit(f - s, j) <=> Bit(f, j) /\ ~ Bit(s, j)
<1> DEFINE Leaves(w) == \A x, y \in 0 .. Power[w] - 1 : (\A j \in 0 .. w - 1 : Bit(y, j) => Bit(x, j)) =>
                          /\ y <= x
                          /\ \A j \in Nat : Bit(x - y, j) <=> Bit(x, j) /\ ~ Bit(y, j)
           S == {w \in Nat : Leaves(w)}
<1>1. 0 \in S
  <2> SUFFICES ASSUME NEW x \in 0 .. Power[0] - 1, NEW y \in 0 .. Power[0] - 1
               PROVE  /\ y <= x
                      /\ \A j \in Nat : Bit(x - y, j) <=> Bit(x, j) /\ ~ Bit(y, j)
    OBVIOUS
  <2>1. x = 0 /\ y = 0
    BY PowerEquations
  <2> QED
    BY <2>1, NoBits
<1>2. ASSUME NEW w \in Nat, w \in S
      PROVE  w + 1 \in S
  <2> SUFFICES ASSUME NEW x \in 0 .. Power[w + 1] - 1, NEW y \in 0 .. Power[w + 1] - 1,
                      \A j \in 0 .. w : Bit(y, j) => Bit(x, j)
               PROVE  /\ y <= x
                      /\ \A j \in Nat : Bit(x - y, j) <=> Bit(x, j) /\ ~ Bit(y, j)
    OBVIOUS
  <2> DEFINE g == x \div 2
             h == y \div 2
  <2>1. Power[w + 1] = 2 * Power[w] /\ Power[w] \in Nat
    BY PowerEquations
  <2>2. x \in Nat /\ y \in Nat /\ g \in 0 .. Power[w] - 1 /\ h \in 0 .. Power[w] - 1
    BY <2>1
  <2>3. ASSUME NEW j \in 0 .. w - 1, Bit(h, j)
        PROVE  Bit(g, j)
    <3>1. j \in Nat /\ j + 1 \in 0 .. w
      OBVIOUS
    <3>2. Bit(y, j + 1)
      BY <2>2, <2>3, <3>1, BitByBit
    <3>3. Bit(x, j + 1)
      BY <3>1, <3>2
    <3> QED
      BY <2>2, <3>1, <3>3, BitByBit
  <2>4. h <= g /\ \A j \in Nat : Bit(g - h, j) <=> Bit(g, j) /\ ~ Bit(h, j)
    <3> HIDE DEF g, h
    <3> QED
      BY <1>2, <2>2, <2>3
  <2>5. y % 2 = 1 => x % 2 = 1
    <3>1. 0 \in 0 .. w
      OBVIOUS
    <3> QED
      BY <2>2, <3>1, BitByBit
  <2>6. /\ y <= x /\ x - y \in Nat
        /\ (x - y) \div 2 = g - h
        /\ ((x - y) % 2 = 1 <=> (x % 2 = 1 /\ ~ (y % 2 = 1)))
    <3>1. x = 2 * g + (x % 2) /\ y = 2 * h + (y % 2) /\ x % 2 \in {0, 1} /\ y % 2 \in {0, 1}
      BY <2>2
    <3>2. g \in Nat /\ h \in Nat
      BY <2>2
    <3> DEFINE a == x % 2
               b == y % 2
    <3>3. a \in {0, 1} /\ b \in {0, 1} /\ x - y = 2 * (g - h) + (a - b) /\ b <= a
      <4> HIDE DEF g, h
      <4> QED
        BY <2>2, <2>5, <3>1, <3>2
    <3>4. a - b \in {0, 1} /\ g - h \in Nat
      <4> HIDE DEF g, h, a, b
      <4> QED
        BY <2>4, <3>2, <3>3
    <3>5. \A q \in Nat : \A r \in {0, 1} : (2 * q + r) \div 2 = q /\ (2 * q + r) % 2 = r
      OBVIOUS
    <3>6. (x - y) \div 2 = g - h /\ (x - y) % 2 = a - b /\ x - y \in Nat
      <4> HIDE DEF g, h, a, b
      <4> QED
        BY <3>3, <3>4, <3>5
    <3> HIDE DEF g, h
    <3> QED
      BY <2>2, <3>3, <3>4, <3>6
  <2>7. ASSUME NEW j \in Nat
        PROVE  Bit(x - y, j) <=> Bit(x, j) /\ ~ Bit(y, j)
    <3>1. CASE j = 0
      BY <2>2, <2>6, <3>1, BitByBit
    <3>2. CASE j # 0
      <4>1. j - 1 \in Nat /\ (j - 1) + 1 = j
        BY <3>2
      <4>2. Bit(x - y, (j - 1) + 1) <=> Bit(g - h, j - 1)
        BY <2>6, <4>1, BitByBit
      <4>3. Bit(x, (j - 1) + 1) <=> Bit(g, j - 1)
        BY <2>2, <4>1, BitByBit
      <4>4. Bit(y, (j - 1) + 1) <=> Bit(h, j - 1)
        BY <2>2, <4>1, BitByBit
      <4> HIDE DEF g, h
      <4> QED
        BY <2>4, <4>1, <4>2, <4>3, <4>4
    <3> QED
      BY <3>1, <3>2
  <2> QED
    BY <2>6, <2>7
<1>3. Nat \subseteq S
  <2> HIDE DEF S
  <2> QED
    BY <1>1, <1>2, NumbersBySteps
<1>4. Leaves(n)
  BY <1>3
<1>5. s <= f /\ \A j \in Nat : Bit(f - s, j) <=> Bit(f, j) /\ ~ Bit(s, j)
  BY <1>4
<1>6. Power[n] \in Nat \ {0}
  BY PowerEquations
<1>7. f - s \in 0 .. Power[n] - 1
  BY <1>5, <1>6
<1>8. \A P \in Nat \ {0} : \A d \in 0 .. P - 1 : d % P = d
  OBVIOUS
<1> QED
  BY <1>5, <1>6, <1>7, <1>8

------------------------------------------------------------------------------
(* Reading types and objects *)

\* Every word of the pool holds a value that fits in a word.
MemTyped == mem \in [Pool -> 0 .. special_value]

\* The tags, as numbers.
LEMMA Tags ==
    /\ con_vec = 0 /\ integer = 1 /\ dynamic_object = 2 /\ AST_pointer = 3 /\ type_pointer = 4
    /\ function_pointer = 5 /\ vector = 6 /\ pointer = 7 /\ FieldlessTypes = {1, 2, 3, 4, 5}
    /\ imv = 0 /\ basicblock = 1 /\ \A t : IsHeapType(t) <=> t > 12
BY DEF con_vec, integer, dynamic_object, AST_pointer, type_pointer, function_pointer, vector,
       pointer, FieldlessTypes, imv, basicblock, IsHeapType, never_reached

\* The bounds of the pool, as numbers.
LEMMA Sizes ==
    /\ special_value \in Nat /\ PoolEnd \in Nat /\ PoolEnd < special_value
    /\ big_memory_pool \in Nat /\ big_memory_pool > 12
    /\ pool_size \in Nat \ {0} /\ PoolEnd = big_memory_pool + pool_size
BY CollectorAssumption, PoolAssumption DEF PoolEnd, never_reached

\* A reference is its word and its type.
LEMMA Refs ==
    /\ \A v, t : Ref(v, t).val = v /\ Ref(v, t).type = t
    /\ \A r \in Reference : r.val \in 0 .. special_value /\ r.type \in 0 .. special_value
                            /\ r = Ref(r.val, r.type)
    /\ \A v, t \in 0 .. special_value : Ref(v, t) \in Reference
BY DEF Ref, Reference

\* Reading anywhere gives a word.
LEMMA WordTyped == MemTyped => \A a : Word(a) \in 0 .. special_value
BY Sizes DEF MemTyped, Word

\* A type without fields is its own tag.
LEMMA Fieldless == \A t : ~ IsHeapType(t) => ver(t) = t /\ Subtypes(t) = <<>>
BY DEF ver, Subtypes

\* Targets, kind by kind.
LEMMA TargetsByKind ==
    \A r : Leads(r) =>
        /\ r.type = dynamic_object =>
              Targets(r) = {Ref(Word(r.val), type_pointer)} \cup Range(RefsAt(r.val + 1, Word(r.val)))
        /\ r.type = AST_pointer =>
              Targets(r) = Range(AST_range(r.val)) \cup
                              (IF Word(r.val) = imv THEN {Ref(Word(r.val + 1), dynamic_object)}
                               ELSE IF Word(r.val) = basicblock THEN {Ref(Word(r.val + 1), type_roots[1])}
                               ELSE {})
        /\ r.type = type_pointer => Targets(r) = {Ref(u, type_pointer) : u \in Range(Subtypes(r.val))}
        /\ r.type = function_pointer =>
              Targets(r) = {Ref(functions[r.val].return_type, type_pointer)} \cup functions[r.val].code
        /\ IsHeapType(r.type) /\ ver(r.type) = vector =>
              Targets(r) = Range(Vector_range(r.val, Subtypes(r.type)[1]))
        /\ IsHeapType(r.type) /\ ver(r.type) = pointer =>
              Targets(r) = Range(RefsAt(r.val, Subtypes(r.type)[1]))
<1> SUFFICES ASSUME NEW r, Leads(r)
             PROVE  /\ r.type = dynamic_object =>
                          Targets(r) = {Ref(Word(r.val), type_pointer)} \cup Range(RefsAt(r.val + 1, Word(r.val)))
                    /\ r.type = AST_pointer =>
                          Targets(r) = Range(AST_range(r.val)) \cup
                                          (IF Word(r.val) = imv THEN {Ref(Word(r.val + 1), dynamic_object)}
                                           ELSE IF Word(r.val) = basicblock THEN {Ref(Word(r.val + 1), type_roots[1])}
                                           ELSE {})
                    /\ r.type = type_pointer => Targets(r) = {Ref(u, type_pointer) : u \in Range(Subtypes(r.val))}
                    /\ r.type = function_pointer =>
                          Targets(r) = {Ref(functions[r.val].return_type, type_pointer)} \cup functions[r.val].code
                    /\ IsHeapType(r.type) /\ ver(r.type) = vector =>
                          Targets(r) = Range(Vector_range(r.val, Subtypes(r.type)[1]))
                    /\ IsHeapType(r.type) /\ ver(r.type) = pointer =>
                          Targets(r) = Range(RefsAt(r.val, Subtypes(r.type)[1]))
  OBVIOUS
<1>1. r.type \in FieldlessTypes => ver(r.type) = r.type /\ r.type # vector /\ r.type # pointer
  BY Fieldless, Tags
<1>2. IsHeapType(r.type) => r.type \notin FieldlessTypes
  BY Tags
<1>3. CASE r.type = dynamic_object
  BY <1>1, <1>2, <1>3, Tags DEF Targets
<1>4. CASE r.type = AST_pointer
  BY <1>1, <1>2, <1>4, Tags DEF Targets
<1>5. CASE r.type = type_pointer
  BY <1>1, <1>2, <1>5, Tags DEF Targets
<1>6. CASE r.type = function_pointer
  BY <1>1, <1>2, <1>6, Tags DEF Targets
<1>7. CASE r.type \notin {dynamic_object, AST_pointer, type_pointer, function_pointer}
  <2>1. r.type # dynamic_object /\ r.type # AST_pointer /\ r.type # type_pointer /\ r.type # function_pointer
    BY <1>7
  <2>2. vector # pointer
    BY Tags
  <2>3. IsHeapType(r.type) /\ ver(r.type) = vector => Targets(r) = Range(Vector_range(r.val, Subtypes(r.type)[1]))
    BY <2>1, <2>2 DEF Targets
  <2>4. IsHeapType(r.type) /\ ver(r.type) = pointer => Targets(r) = Range(RefsAt(r.val, Subtypes(r.type)[1]))
    BY <2>1, <2>2 DEF Targets
  <2> QED
    BY <2>1, <2>3, <2>4
<1> QED
  BY <1>3, <1>4, <1>5, <1>6, <1>7

\* What the words of an AST lead to.
LEMMA ASTTargets ==
    \A v \in Nat : MemTyped /\ Leads(Ref(v, AST_pointer)) =>
        /\ Word(v) = imv => Targets(Ref(v, AST_pointer)) = {Ref(Word(v + 1), dynamic_object)}
        /\ Word(v) = basicblock =>
              Targets(Ref(v, AST_pointer)) =
                 {Ref(Word(v + 1), type_roots[1])} \cup
                 {Ref(Word(Word(v + 1) + 1 + i), AST_pointer) : i \in 1 .. Word(Word(v + 1))}
        /\ Word(v) \in DOMAIN ASTFields =>
              Targets(Ref(v, AST_pointer)) = {Ref(Word(v + i), AST_pointer) : i \in 1 .. ASTFields[Word(v)]}
<1> SUFFICES ASSUME NEW v \in Nat, MemTyped, Leads(Ref(v, AST_pointer))
             PROVE  /\ Word(v) = imv => Targets(Ref(v, AST_pointer)) = {Ref(Word(v + 1), dynamic_object)}
                    /\ Word(v) = basicblock =>
                          Targets(Ref(v, AST_pointer)) =
                             {Ref(Word(v + 1), type_roots[1])} \cup
                             {Ref(Word(Word(v + 1) + 1 + i), AST_pointer) : i \in 1 .. Word(Word(v + 1))}
                    /\ Word(v) \in DOMAIN ASTFields =>
                          Targets(Ref(v, AST_pointer)) = {Ref(Word(v + i), AST_pointer) : i \in 1 .. ASTFields[Word(v)]}
  OBVIOUS
<1>1. Targets(Ref(v, AST_pointer)) =
         Range(AST_range(v)) \cup (IF Word(v) = imv THEN {Ref(Word(v + 1), dynamic_object)}
                                   ELSE IF Word(v) = basicblock THEN {Ref(Word(v + 1), type_roots[1])}
                                   ELSE {})
  BY Refs, TargetsByKind
<1>2. CASE Word(v) = imv
  <2>1. AST_range(v) = <<>>
    BY <1>2, Tags DEF AST_range
  <2>2. Range(<<>>) = {}
    BY DEF Range
  <2> QED
    BY <1>1, <1>2, <2>1, <2>2, Tags, CollectorAssumption
<1>3. CASE Word(v) = basicblock
  <2> DEFINE s == Word(v + 1)
  <2>1. AST_range(v) = Vector_range(s, AST_pointer)
    BY <1>3, Tags DEF AST_range
  <2>2. s \in Nat
    BY WordTyped, Sizes
  <2>3. Range(Vector_range(s, AST_pointer)) = {Ref(Word(s + 1 + i), AST_pointer) : i \in 1 .. Word(s)}
    <3>1. \A i \in 1 .. Word(s) : s + vector_header_size + i - 1 = s + 1 + i
      BY <2>2 DEF vector_header_size
    <3>2. /\ DOMAIN Vector_range(s, AST_pointer) = 1 .. Word(s)
          /\ \A i \in 1 .. Word(s) : Vector_range(s, AST_pointer)[i] = Ref(Word(s + 1 + i), AST_pointer)
      BY <3>1 DEF Vector_range, Elements
    <3> QED
      BY <3>2 DEF Range
  <2> QED
    BY <1>1, <1>3, <2>1, <2>3, Tags, CollectorAssumption
<1>4. CASE Word(v) \in DOMAIN ASTFields
  <2>1. Word(v) # imv /\ Word(v) # basicblock
    BY <1>4, CollectorAssumption, Tags
  <2>2. /\ DOMAIN AST_range(v) = 1 .. ASTFields[Word(v)]
        /\ \A i \in 1 .. ASTFields[Word(v)] : AST_range(v)[i] = Ref(Word(v + i), AST_pointer)
    BY <1>4, <2>1, Tags DEF AST_range, get_field_size_of_AST
  <2>3. Range(AST_range(v)) = {Ref(Word(v + i), AST_pointer) : i \in 1 .. ASTFields[Word(v)]}
    BY <2>2 DEF Range
  <2> QED
    BY <1>1, <2>1, <2>3
<1> QED
  BY <1>2, <1>3, <1>4

\* A value of the type is a single word: a structure is held through an object only.
OneWord(t) == t \in FieldlessTypes \/ (IsHeapType(t) /\ ver(t) \in {vector, pointer})

\* The subtypes of a type object, by its tag.
LEMMA SubtypesByTag ==
    \A t \in Nat : MemTyped /\ IsHeapType(t) =>
        /\ ver(t) = Word(t)
        /\ Word(t) = con_vec => /\ DOMAIN Subtypes(t) = 1 .. Word(t + 1)
                                /\ \A i \in 1 .. Word(t + 1) : Subtypes(t)[i] = Word(t + 1 + i)
                                /\ Range(Subtypes(t)) = {Word(t + 1 + i) : i \in 1 .. Word(t + 1)}
                                /\ total_valid_fields(t) = Word(t + 1) + 1
        /\ Word(t) \in {vector, pointer} => /\ Subtypes(t) = <<Word(t + 1)>>
                                            /\ DOMAIN Subtypes(t) = {1}
                                            /\ Subtypes(t)[1] = Word(t + 1)
                                            /\ Range(Subtypes(t)) = {Word(t + 1)}
                                            /\ total_valid_fields(t) = 1
<1> SUFFICES ASSUME NEW t \in Nat, MemTyped, IsHeapType(t)
             PROVE  /\ ver(t) = Word(t)
                    /\ Word(t) = con_vec => /\ DOMAIN Subtypes(t) = 1 .. Word(t + 1)
                                            /\ \A i \in 1 .. Word(t + 1) : Subtypes(t)[i] = Word(t + 1 + i)
                                            /\ Range(Subtypes(t)) = {Word(t + 1 + i) : i \in 1 .. Word(t + 1)}
                                            /\ total_valid_fields(t) = Word(t + 1) + 1
                    /\ Word(t) \in {vector, pointer} => /\ Subtypes(t) = <<Word(t + 1)>>
                                                        /\ DOMAIN Subtypes(t) = {1}
                                                        /\ Subtypes(t)[1] = Word(t + 1)
                                                        /\ Range(Subtypes(t)) = {Word(t + 1)}
                                                        /\ total_valid_fields(t) = 1
  OBVIOUS
<1>1. ver(t) = Word(t)
  BY DEF ver
<1>2. CASE Word(t) = con_vec
  <2>1. Subtypes(t) = [i \in 1 .. Word(t + 1) |-> Word(t + 1 + i)]
    BY <1>1, <1>2, Tags DEF Subtypes
  <2>2. /\ DOMAIN Subtypes(t) = 1 .. Word(t + 1)
        /\ \A i \in 1 .. Word(t + 1) : Subtypes(t)[i] = Word(t + 1 + i)
    BY <2>1
  <2>3. Range(Subtypes(t)) = {Word(t + 1 + i) : i \in 1 .. Word(t + 1)}
    BY <2>2 DEF Range
  <2>4. Word(t + 1) \in Nat
    BY WordTyped, Sizes
  <2>5. Len(Subtypes(t)) = Word(t + 1)
    <3> DEFINE n == Word(t + 1)
    <3>1. Subtypes(t) = [i \in 1 .. n |-> Word(t + 1 + i)] /\ n \in Nat
      BY <2>1, <2>4
    <3> HIDE DEF n
    <3>2. Len(Subtypes(t)) = n
      BY <3>1
    <3> QED
      BY <3>2 DEF n
  <2>6. total_valid_fields(t) = Word(t + 1) + 1
    BY <1>1, <1>2, <2>5 DEF total_valid_fields
  <2> QED
    BY <1>1, <1>2, <2>2, <2>3, <2>6, Tags
<1>3. CASE Word(t) \in {vector, pointer}
  <2>1. Subtypes(t) = <<Word(t + 1)>> /\ Word(t) # con_vec
    BY <1>1, <1>3, Tags DEF Subtypes
  <2>2. DOMAIN Subtypes(t) = {1} /\ Subtypes(t)[1] = Word(t + 1) /\ Len(Subtypes(t)) = 1
    BY <2>1
  <2>3. Range(Subtypes(t)) = {Word(t + 1)}
    BY <2>2 DEF Range
  <2>4. total_valid_fields(t) = 1
    BY <1>1, <2>1, <2>2 DEF total_valid_fields
  <2> QED
    BY <1>1, <2>1, <2>2, <2>3, <2>4
<1> QED
  BY <1>1, <1>2, <1>3

\* One word is read at a type that is not a con_vec, and several at one that is.
LEMMA RefsByType ==
    \A loc \in Nat, t \in Nat :
        /\ OneWord(t) => Range(RefsAt(loc, t)) = {Ref(Word(loc), t)} /\ get_size(t) = 1
        /\ MemTyped /\ IsHeapType(t) /\ ver(t) = con_vec =>
              /\ Range(RefsAt(loc, t)) =
                    {Ref(Word(loc + i - 1), Subtypes(t)[i]) : i \in 1 .. Word(t + 1)}
              /\ get_size(t) = Word(t + 1)
<1> SUFFICES ASSUME NEW loc \in Nat, NEW t \in Nat
             PROVE  /\ OneWord(t) => Range(RefsAt(loc, t)) = {Ref(Word(loc), t)} /\ get_size(t) = 1
                    /\ MemTyped /\ IsHeapType(t) /\ ver(t) = con_vec =>
                          /\ Range(RefsAt(loc, t)) =
                                {Ref(Word(loc + i - 1), Subtypes(t)[i]) : i \in 1 .. Word(t + 1)}
                          /\ get_size(t) = Word(t + 1)
  OBVIOUS
<1>1. ASSUME OneWord(t)
      PROVE  Range(RefsAt(loc, t)) = {Ref(Word(loc), t)} /\ get_size(t) = 1
  <2>1. ver(t) # con_vec /\ t # 0
    BY <1>1, Tags, Fieldless DEF OneWord
  <2>2. RefsAt(loc, t) = <<Ref(Word(loc), t)>>
    BY <2>1 DEF RefsAt
  <2> QED
    BY <2>1, <2>2 DEF Range, get_size
<1>2. ASSUME MemTyped, IsHeapType(t), ver(t) = con_vec
      PROVE  /\ Range(RefsAt(loc, t)) =
                    {Ref(Word(loc + i - 1), Subtypes(t)[i]) : i \in 1 .. Word(t + 1)}
             /\ get_size(t) = Word(t + 1)
  <2>1. t # 0
    BY <1>2, Tags
  <2>2. DOMAIN Subtypes(t) = 1 .. Word(t + 1)
    BY <1>2, SubtypesByTag
  <2>3. RefsAt(loc, t) = [i \in 1 .. Word(t + 1) |-> Ref(Word(loc + i - 1), Subtypes(t)[i])]
    BY <1>2, <2>1, <2>2 DEF RefsAt
  <2> QED
    BY <1>2, <2>1, <2>3 DEF Range, get_size
<1> QED
  BY <1>1, <1>2

\* What a vector, a pointer and a dynamic object lead to.
LEMMA HeapTargets ==
    \A r \in Reference : MemTyped /\ Leads(r) =>
        /\ IsHeapType(r.type) /\ ver(r.type) = vector =>
              Targets(r) = {Ref(Word(r.val + 1 + i), Subtypes(r.type)[1]) : i \in 1 .. Word(r.val)}
        /\ IsHeapType(r.type) /\ ver(r.type) = pointer /\ OneWord(Subtypes(r.type)[1]) =>
              Targets(r) = {Ref(Word(r.val), Subtypes(r.type)[1])}
        /\ r.type = dynamic_object /\ OneWord(Word(r.val)) =>
              Targets(r) = {Ref(Word(r.val), type_pointer), Ref(Word(r.val + 1), Word(r.val))}
        /\ r.type = dynamic_object /\ IsHeapType(Word(r.val)) /\ ver(Word(r.val)) = con_vec =>
              Targets(r) = {Ref(Word(r.val), type_pointer)} \cup
                           {Ref(Word(r.val + i), Subtypes(Word(r.val))[i]) : i \in 1 .. Word(Word(r.val) + 1)}
<1> SUFFICES ASSUME NEW r \in Reference, MemTyped, Leads(r)
             PROVE  /\ IsHeapType(r.type) /\ ver(r.type) = vector =>
                          Targets(r) = {Ref(Word(r.val + 1 + i), Subtypes(r.type)[1]) : i \in 1 .. Word(r.val)}
                    /\ IsHeapType(r.type) /\ ver(r.type) = pointer /\ OneWord(Subtypes(r.type)[1]) =>
                          Targets(r) = {Ref(Word(r.val), Subtypes(r.type)[1])}
                    /\ r.type = dynamic_object /\ OneWord(Word(r.val)) =>
                          Targets(r) = {Ref(Word(r.val), type_pointer), Ref(Word(r.val + 1), Word(r.val))}
                    /\ r.type = dynamic_object /\ IsHeapType(Word(r.val)) /\ ver(Word(r.val)) = con_vec =>
                          Targets(r) = {Ref(Word(r.val), type_pointer)} \cup
                                       {Ref(Word(r.val + i), Subtypes(Word(r.val))[i]) : i \in 1 .. Word(Word(r.val) + 1)}
  OBVIOUS
<1>0. r.val \in Nat /\ r.type \in Nat /\ Word(r.val) \in Nat
  BY Refs, Sizes, WordTyped
<1>1. ASSUME IsHeapType(r.type), ver(r.type) = vector
      PROVE  Targets(r) = {Ref(Word(r.val + 1 + i), Subtypes(r.type)[1]) : i \in 1 .. Word(r.val)}
  <2> DEFINE s == r.val
             u == Subtypes(r.type)[1]
  <2>1. Targets(r) = Range(Vector_range(s, u))
    BY <1>1, TargetsByKind
  <2>2. \A i \in 1 .. Word(s) : s + vector_header_size + i - 1 = s + 1 + i
    BY <1>0 DEF vector_header_size
  <2>3. /\ DOMAIN Vector_range(s, u) = 1 .. Word(s)
        /\ \A i \in 1 .. Word(s) : Vector_range(s, u)[i] = Ref(Word(s + 1 + i), u)
    BY <2>2 DEF Vector_range, Elements
  <2> QED
    BY <2>1, <2>3 DEF Range
<1>2. ASSUME IsHeapType(r.type), ver(r.type) = pointer, OneWord(Subtypes(r.type)[1])
      PROVE  Targets(r) = {Ref(Word(r.val), Subtypes(r.type)[1])}
  <2>1. ver(r.type) = Word(r.type) /\ Subtypes(r.type)[1] = Word(r.type + 1)
    BY <1>0, <1>2, SubtypesByTag, Tags
  <2>2. Subtypes(r.type)[1] \in Nat
    BY <2>1, WordTyped, Sizes
  <2> QED
    BY <1>0, <1>2, <2>2, TargetsByKind, RefsByType
<1>3. ASSUME r.type = dynamic_object, OneWord(Word(r.val))
      PROVE  Targets(r) = {Ref(Word(r.val), type_pointer), Ref(Word(r.val + 1), Word(r.val))}
  BY <1>0, <1>3, TargetsByKind, RefsByType
<1>4. ASSUME r.type = dynamic_object, IsHeapType(Word(r.val)), ver(Word(r.val)) = con_vec
      PROVE  Targets(r) = {Ref(Word(r.val), type_pointer)} \cup
                          {Ref(Word(r.val + i), Subtypes(Word(r.val))[i]) : i \in 1 .. Word(Word(r.val) + 1)}
  <2> DEFINE t == Word(r.val)
  <2>1. Range(RefsAt(r.val + 1, t)) = {Ref(Word(r.val + 1 + i - 1), Subtypes(t)[i]) : i \in 1 .. Word(t + 1)}
    BY <1>0, <1>4, RefsByType
  <2>2. \A i \in 1 .. Word(t + 1) : r.val + 1 + i - 1 = r.val + i
    BY <1>0
  <2>3. Range(RefsAt(r.val + 1, t)) = {Ref(Word(r.val + i), Subtypes(t)[i]) : i \in 1 .. Word(t + 1)}
    BY <2>1, <2>2
  <2> QED
    BY <1>4, <2>3, TargetsByKind
<1> QED
  BY <1>1, <1>2, <1>3, <1>4

------------------------------------------------------------------------------
(* Shapes: a closed set of references that can all be followed *)

\* The references that lead nowhere: the nulls, and the types without fields.
Base == {Ref(0, t) : t \in FieldlessTypes} \cup {Ref(t, type_pointer) : t \in FieldlessTypes}

\* The reference is the address of an object.
Solid(r) ==
    /\ r.val # 0 /\ r.type \notin {integer, function_pointer}
    /\ r.type = type_pointer => IsHeapType(r.val)

\* The block of the object that r leads to.
BlockOf(r) == [addr |-> r.val, size |-> Extent(r)]

\* The types of G that are objects themselves.
HeapTypes(G) == {t \in Nat : IsHeapType(t) /\ Ref(t, type_pointer) \in G}

\* The first word of an AST.
IsTag(tag) == tag \in {imv, basicblock} \cup DOMAIN ASTFields

\* A type object made from types of one word, each of a lower rank.
MadeType(rk, t) ==
    /\ ver(t) \in {con_vec, vector, pointer} /\ Subtypes(t) # <<>>
    /\ \A u \in Range(Subtypes(t)) : OneWord(u) /\ (IsHeapType(u) => rk[u] < rk[t])

\* What the object at r holds makes it an object of its type.
SoundObject(rk, r) ==
    /\ r.type = type_pointer => MadeType(rk, r.val)
    /\ r.type = AST_pointer => IsTag(Word(r.val)) /\ (Word(r.val) = basicblock => Word(r.val + 1) # 0)
    /\ r.type = dynamic_object => Word(r.val) # 0
    /\ IsHeapType(r.type) /\ ver(r.type) = vector => Word(r.val) <= Word(r.val + 1)

\* r can be followed: its value is of its type, and what it leads to is there.
Sound(rk, r) ==
    /\ OneWord(r.type)
    /\ r.val = 0 => r.type \in FieldlessTypes
    /\ r.type = type_pointer => r.val \in {0} \cup FieldlessTypes \/ IsHeapType(r.val)
    /\ r.type = function_pointer => r.val = 0 \/ r.val \in Flagged(function_pool_flags)
    /\ Solid(r) => BlockOf(r) \in objects /\ SoundObject(rk, r)

\* What G leads to is in G.
Closed(G) == \A r \in G : Targets(r) \subseteq G /\ (IsHeapType(r.type) => Ref(r.type, type_pointer) \in G)

\* The AST of each function of G is in G.
ASTsKept(G) == \A r \in G : r.type = function_pointer /\ r.val # 0 =>
                  Ref(functions[r.val].the_AST, AST_pointer) \in G

\* The one type root is the type of vectors of ASTs (type_creator.cpp).
Root == /\ DOMAIN type_roots = {1} /\ IsHeapType(type_roots[1])
        /\ ver(type_roots[1]) = vector /\ Subtypes(type_roots[1]) = <<AST_pointer>>

\* The objects are sound: the references of G, which is closed, can all be
\* followed, and no two of them share an object. rk ranks the types.
Shape(G, rk) ==
    /\ G \subseteq Reference /\ Base \subseteq G
    /\ rk \in [Nat -> Nat]
    /\ Closed(G) /\ ASTsKept(G)
    /\ \A r \in G : Sound(rk, r)
    /\ \A r, q \in G : Solid(r) /\ Solid(q) /\ r.val = q.val => r = q
    /\ Root /\ Ref(type_roots[1], type_pointer) \in G

\* The words and the blocks are what they should be.
Typed == MemTyped /\ objects \subseteq Block

-----------------------------------------------------------------------------
\* Extent, kind by kind.
LEMMA ExtentByKind ==
    \A r :
        /\ r.val # 0 /\ r.type = dynamic_object => Extent(r) = get_size(Word(r.val)) + 1
        /\ r.val # 0 /\ r.type = AST_pointer => Extent(r) = get_full_size_of_AST(Word(r.val))
        /\ r.val # 0 /\ r.type = type_pointer /\ IsHeapType(r.val) => Extent(r) = total_valid_fields(r.val) + 1
        /\ r.val # 0 /\ IsHeapType(r.type) /\ ver(r.type) = vector => Extent(r) = 2 + Word(r.val + 1)
        /\ r.val # 0 /\ IsHeapType(r.type) /\ ver(r.type) = pointer => Extent(r) = get_size(Subtypes(r.type)[1])
        /\ ~ Solid(r) /\ r.type \in FieldlessTypes => Extent(r) = 0
<1> SUFFICES ASSUME NEW r
             PROVE  /\ r.val # 0 /\ r.type = dynamic_object => Extent(r) = get_size(Word(r.val)) + 1
                    /\ r.val # 0 /\ r.type = AST_pointer => Extent(r) = get_full_size_of_AST(Word(r.val))
                    /\ r.val # 0 /\ r.type = type_pointer /\ IsHeapType(r.val) => Extent(r) = total_valid_fields(r.val) + 1
                    /\ r.val # 0 /\ IsHeapType(r.type) /\ ver(r.type) = vector => Extent(r) = 2 + Word(r.val + 1)
                    /\ r.val # 0 /\ IsHeapType(r.type) /\ ver(r.type) = pointer => Extent(r) = get_size(Subtypes(r.type)[1])
                    /\ ~ Solid(r) /\ r.type \in FieldlessTypes => Extent(r) = 0
  OBVIOUS
<1>1. r.type \in FieldlessTypes => ver(r.type) = r.type /\ r.type # vector /\ r.type # pointer
  BY Fieldless, Tags
<1>2. IsHeapType(r.type) => r.type \notin FieldlessTypes
  BY Tags
<1>3. CASE r.val = 0
  BY <1>3 DEF Extent
<1>4. CASE r.val # 0 /\ r.type = dynamic_object
  BY <1>1, <1>2, <1>4, Tags DEF Extent, Solid
<1>5. CASE r.val # 0 /\ r.type = AST_pointer
  BY <1>1, <1>2, <1>5, Tags DEF Extent, Solid
<1>6. CASE r.val # 0 /\ r.type = type_pointer
  BY <1>1, <1>2, <1>6, Tags DEF Extent, Solid
<1>7. CASE r.val # 0 /\ r.type \notin {dynamic_object, AST_pointer, type_pointer}
  BY <1>1, <1>2, <1>7, Tags DEF Extent, Solid, vector_header_size
<1> QED
  BY <1>3, <1>4, <1>5, <1>6, <1>7

\* A solid reference leads to a block of the pool.
LEMMA SolidFacts ==
    \A G, rk, r : Typed /\ Shape(G, rk) /\ r \in G =>
        /\ r \in Reference /\ r.val \in Nat /\ r.type \in Nat /\ Word(r.val) \in 0 .. special_value
        /\ Solid(r) => /\ Leads(r) /\ BlockOf(r) \in Block /\ Extent(r) \in Nat /\ Extent(r) > 0
                       /\ r.val >= big_memory_pool /\ r.val + Extent(r) <= PoolEnd
<1> SUFFICES ASSUME NEW G, NEW rk, NEW r, Typed, Shape(G, rk), r \in G
             PROVE  /\ r \in Reference /\ r.val \in Nat /\ r.type \in Nat /\ Word(r.val) \in 0 .. special_value
                    /\ Solid(r) => /\ Leads(r) /\ BlockOf(r) \in Block /\ Extent(r) \in Nat /\ Extent(r) > 0
                                   /\ r.val >= big_memory_pool /\ r.val + Extent(r) <= PoolEnd
  OBVIOUS
<1>1. r \in Reference /\ r.val \in Nat /\ r.type \in Nat
  BY Refs, Sizes DEF Shape
<1>2. Word(r.val) \in 0 .. special_value
  BY WordTyped DEF Typed
<1>3. ASSUME Solid(r)
      PROVE  /\ Leads(r) /\ BlockOf(r) \in Block /\ Extent(r) \in Nat /\ Extent(r) > 0
             /\ r.val >= big_memory_pool /\ r.val + Extent(r) <= PoolEnd
  <2>1. BlockOf(r) \in objects
    BY <1>3 DEF Shape, Sound
  <2>2. BlockOf(r) \in Block
    BY <2>1 DEF Typed
  <2>3. BlockOf(r).addr = r.val /\ BlockOf(r).size = Extent(r)
    BY DEF BlockOf
  <2>4. Leads(r)
    BY <1>3, <2>1, <2>3 DEF Leads, Solid
  <2>5. /\ BlockOf(r).addr \in big_memory_pool .. PoolEnd - 1 /\ BlockOf(r).size \in 1 .. pool_size
        /\ BlockOf(r).addr + BlockOf(r).size <= PoolEnd
    BY <2>2 DEF Block
  <2> QED
    BY <2>2, <2>3, <2>4, <2>5, Sizes
<1> QED
  BY <1>1, <1>2, <1>3

\* The types of a shape, and what they are made of.
LEMMA TypeFacts ==
    \A G, rk, t : Typed /\ Shape(G, rk) /\ t \in HeapTypes(G) =>
        /\ t \in Nat /\ IsHeapType(t) /\ Ref(t, type_pointer) \in G /\ Solid(Ref(t, type_pointer))
        /\ MadeType(rk, t) /\ ver(t) = Word(t) /\ ver(t) \in {con_vec, vector, pointer}
        /\ Extent(Ref(t, type_pointer)) = total_valid_fields(t) + 1
        /\ \A u \in Range(Subtypes(t)) : u \in FieldlessTypes \cup HeapTypes(G)
<1> SUFFICES ASSUME NEW G, NEW rk, NEW t, Typed, Shape(G, rk), t \in HeapTypes(G)
             PROVE  /\ t \in Nat /\ IsHeapType(t) /\ Ref(t, type_pointer) \in G /\ Solid(Ref(t, type_pointer))
                    /\ MadeType(rk, t) /\ ver(t) = Word(t) /\ ver(t) \in {con_vec, vector, pointer}
                    /\ Extent(Ref(t, type_pointer)) = total_valid_fields(t) + 1
                    /\ \A u \in Range(Subtypes(t)) : u \in FieldlessTypes \cup HeapTypes(G)
  OBVIOUS
<1> DEFINE r == Ref(t, type_pointer)
<1>1. t \in Nat /\ IsHeapType(t) /\ r \in G /\ r.val = t /\ r.type = type_pointer
  BY Refs DEF HeapTypes
<1>2. Solid(r)
  BY <1>1, Tags DEF Solid
<1>3. MadeType(rk, t)
  BY <1>1, <1>2 DEF Shape, Sound, SoundObject
<1>4. ver(t) = Word(t)
  BY <1>1, SubtypesByTag DEF Typed
<1>5. Extent(r) = total_valid_fields(t) + 1
  BY <1>1, <1>2, ExtentByKind DEF Solid
<1>6. Targets(r) = {Ref(u, type_pointer) : u \in Range(Subtypes(t))}
  BY <1>1, <1>2, SolidFacts, TargetsByKind
<1>7. ASSUME NEW u \in Range(Subtypes(t))
      PROVE  u \in FieldlessTypes \cup HeapTypes(G)
  <2>1. Ref(u, type_pointer) \in G
    BY <1>1, <1>6 DEF Shape, Closed
  <2>2. u \in Nat
    BY <2>1, SolidFacts, Refs
  <2>3. OneWord(u)
    BY <1>3 DEF MadeType
  <2> QED
    BY <2>1, <2>2, <2>3 DEF OneWord, HeapTypes
<1> QED
  BY <1>1, <1>2, <1>3, <1>4, <1>5, <1>7 DEF MadeType

------------------------------------------------------------------------------
(* What a step leaves alone is read as before *)

\* The words of the object stay as they are.
Agree(r) == \A w \in r.val .. r.val + Extent(r) - 1 : Word(w)' = Word(w)

\* A step leaves the type as it is.
TypeKept(t) ==
    /\ ver(t)' = ver(t) /\ Subtypes(t)' = Subtypes(t)
    /\ get_size(t)' = get_size(t) /\ total_valid_fields(t)' = total_valid_fields(t)

\* The same, in the next state.
LEMMA SubtypesByTagNext ==
    (\A t \in Nat : MemTyped /\ IsHeapType(t) =>
        /\ ver(t) = Word(t)
        /\ Word(t) = con_vec => /\ DOMAIN Subtypes(t) = 1 .. Word(t + 1)
                                /\ \A i \in 1 .. Word(t + 1) : Subtypes(t)[i] = Word(t + 1 + i)
                                /\ Range(Subtypes(t)) = {Word(t + 1 + i) : i \in 1 .. Word(t + 1)}
                                /\ total_valid_fields(t) = Word(t + 1) + 1
        /\ Word(t) \in {vector, pointer} => /\ Subtypes(t) = <<Word(t + 1)>>
                                            /\ DOMAIN Subtypes(t) = {1}
                                            /\ Subtypes(t)[1] = Word(t + 1)
                                            /\ Range(Subtypes(t)) = {Word(t + 1)}
                                            /\ total_valid_fields(t) = 1)'
BY SubtypesByTag, PTL

\* A type without fields never changes, one of the pool stays if its words do.
LEMMA FieldlessKept == \A t : ~ IsHeapType(t) => TypeKept(t)
<1> SUFFICES ASSUME NEW t, ~ IsHeapType(t)
             PROVE  TypeKept(t)
  OBVIOUS
<1>1. ver(t)' = ver(t) /\ Subtypes(t)' = Subtypes(t)
  BY DEF ver, Subtypes, IsHeapType
<1>2. get_size(t)' = get_size(t)
  <2>1. t # 0 => ver(t) # con_vec
    BY Fieldless, Tags
  <2> QED
    BY <1>1, <2>1 DEF get_size
<1>3. total_valid_fields(t)' = total_valid_fields(t)
  BY <1>1 DEF total_valid_fields
<1> QED
  BY <1>1, <1>2, <1>3 DEF TypeKept

\* A type object whose words stay is the same type.
LEMMA HeapTypeKept ==
    ASSUME NEW G, NEW rk, Typed, Shape(G, rk), MemTyped', NEW t \in HeapTypes(G),
           Agree(Ref(t, type_pointer))
    PROVE  TypeKept(t)
<1>1. /\ t \in Nat /\ IsHeapType(t) /\ t # 0 /\ ver(t) = Word(t) /\ ver(t) \in {con_vec, vector, pointer}
      /\ Extent(Ref(t, type_pointer)) = total_valid_fields(t) + 1
  <2>1. /\ t \in Nat /\ IsHeapType(t) /\ ver(t) = Word(t) /\ ver(t) \in {con_vec, vector, pointer}
        /\ Extent(Ref(t, type_pointer)) = total_valid_fields(t) + 1
    BY TypeFacts
  <2> QED
    BY <2>1, Tags
<1>2. MemTyped
  BY DEF Typed
<1>3. \A w \in t .. t + total_valid_fields(t) : Word(w)' = Word(w)
  <2>1. Ref(t, type_pointer).val = t
    BY Refs
  <2>2. total_valid_fields(t) \in Nat
    BY <1>1, SubtypesByTag, WordTyped, <1>2, Sizes
  <2> QED
    BY <1>1, <2>1, <2>2 DEF Agree
<1>4. IsHeapType(t)' /\ ver(t)' = Word(t)'
  BY <1>1 DEF IsHeapType, ver
<1>5. CASE Word(t) = con_vec
  <2>1. Word(t + 1) \in Nat /\ total_valid_fields(t) = Word(t + 1) + 1
    BY <1>1, <1>2, <1>5, SubtypesByTag, WordTyped, Sizes
  <2>2. Word(t)' = Word(t) /\ Word(t + 1)' = Word(t + 1)
    BY <1>1, <1>3, <2>1
  <2>3. \A i \in 1 .. Word(t + 1) : Word(t + 1 + i)' = Word(t + 1 + i)
    BY <1>1, <1>3, <2>1
  <2>4. Subtypes(t) = [i \in 1 .. Word(t + 1) |-> Word(t + 1 + i)]
    BY <1>1, <1>5, Tags DEF Subtypes
  <2>5. Subtypes(t)' = [i \in 1 .. Word(t + 1)' |-> Word(t + 1 + i)']
    BY <1>4, <1>5, <2>2, Tags DEF Subtypes
  <2>6. Subtypes(t)' = Subtypes(t)
    BY <2>2, <2>3, <2>4, <2>5
  <2>7. ver(t)' = ver(t)
    BY <1>1, <1>4, <2>2
  <2>8. get_size(t)' = get_size(t)
    BY <1>1, <1>5, <2>2, <2>7 DEF get_size
  <2> QED
    BY <2>6, <2>7, <2>8 DEF TypeKept, total_valid_fields
<1>6. CASE Word(t) \in {vector, pointer}
  <2>1. total_valid_fields(t) = 1 /\ Subtypes(t) = <<Word(t + 1)>>
    BY <1>1, <1>2, <1>6, SubtypesByTag
  <2>2. Word(t)' = Word(t) /\ Word(t + 1)' = Word(t + 1)
    BY <1>1, <1>3, <2>1
  <2>3. Subtypes(t)' = <<Word(t + 1)'>> /\ total_valid_fields(t)' = 1
    BY <1>1, <1>4, <1>6, <2>2, SubtypesByTagNext
  <2>4. ver(t)' = ver(t) /\ ver(t) # con_vec
    BY <1>1, <1>4, <1>6, <2>2, Tags
  <2>5. get_size(t)' = get_size(t)
    BY <1>1, <2>4 DEF get_size
  <2> QED
    BY <2>1, <2>2, <2>3, <2>4, <2>5 DEF TypeKept
<1> QED
  BY <1>1, <1>5, <1>6

\* ASTTargets, in the next state.
LEMMA ASTTargetsNext ==
    (\A v \in Nat : MemTyped /\ Leads(Ref(v, AST_pointer)) =>
        /\ Word(v) = imv => Targets(Ref(v, AST_pointer)) = {Ref(Word(v + 1), dynamic_object)}
        /\ Word(v) = basicblock =>
              Targets(Ref(v, AST_pointer)) =
                 {Ref(Word(v + 1), type_roots[1])} \cup
                 {Ref(Word(Word(v + 1) + 1 + i), AST_pointer) : i \in 1 .. Word(Word(v + 1))}
        /\ Word(v) \in DOMAIN ASTFields =>
              Targets(Ref(v, AST_pointer)) = {Ref(Word(v + i), AST_pointer) : i \in 1 .. ASTFields[Word(v)]})'
BY ASTTargets, PTL

\* HeapTargets, in the next state.
LEMMA HeapTargetsNext ==
    (\A r \in Reference : MemTyped /\ Leads(r) =>
        /\ IsHeapType(r.type) /\ ver(r.type) = vector =>
              Targets(r) = {Ref(Word(r.val + 1 + i), Subtypes(r.type)[1]) : i \in 1 .. Word(r.val)}
        /\ IsHeapType(r.type) /\ ver(r.type) = pointer /\ OneWord(Subtypes(r.type)[1]) =>
              Targets(r) = {Ref(Word(r.val), Subtypes(r.type)[1])}
        /\ r.type = dynamic_object /\ OneWord(Word(r.val)) =>
              Targets(r) = {Ref(Word(r.val), type_pointer), Ref(Word(r.val + 1), Word(r.val))}
        /\ r.type = dynamic_object /\ IsHeapType(Word(r.val)) /\ ver(Word(r.val)) = con_vec =>
              Targets(r) = {Ref(Word(r.val), type_pointer)} \cup
                           {Ref(Word(r.val + i), Subtypes(Word(r.val))[i]) : i \in 1 .. Word(Word(r.val) + 1)})'
BY HeapTargets, PTL

\* TargetsByKind, in the next state.
LEMMA TargetsByKindNext ==
    (\A r : Leads(r) =>
        /\ r.type = dynamic_object =>
              Targets(r) = {Ref(Word(r.val), type_pointer)} \cup Range(RefsAt(r.val + 1, Word(r.val)))
        /\ r.type = AST_pointer =>
              Targets(r) = Range(AST_range(r.val)) \cup
                              (IF Word(r.val) = imv THEN {Ref(Word(r.val + 1), dynamic_object)}
                               ELSE IF Word(r.val) = basicblock THEN {Ref(Word(r.val + 1), type_roots[1])}
                               ELSE {})
        /\ r.type = type_pointer => Targets(r) = {Ref(u, type_pointer) : u \in Range(Subtypes(r.val))}
        /\ r.type = function_pointer =>
              Targets(r) = {Ref(functions[r.val].return_type, type_pointer)} \cup functions[r.val].code
        /\ IsHeapType(r.type) /\ ver(r.type) = vector =>
              Targets(r) = Range(Vector_range(r.val, Subtypes(r.type)[1]))
        /\ IsHeapType(r.type) /\ ver(r.type) = pointer =>
              Targets(r) = Range(RefsAt(r.val, Subtypes(r.type)[1])))'
BY TargetsByKind, PTL

\* ExtentByKind, in the next state.
LEMMA ExtentByKindNext ==
    (\A r :
        /\ r.val # 0 /\ r.type = dynamic_object => Extent(r) = get_size(Word(r.val)) + 1
        /\ r.val # 0 /\ r.type = AST_pointer => Extent(r) = get_full_size_of_AST(Word(r.val))
        /\ r.val # 0 /\ r.type = type_pointer /\ IsHeapType(r.val) => Extent(r) = total_valid_fields(r.val) + 1
        /\ r.val # 0 /\ IsHeapType(r.type) /\ ver(r.type) = vector => Extent(r) = 2 + Word(r.val + 1)
        /\ r.val # 0 /\ IsHeapType(r.type) /\ ver(r.type) = pointer => Extent(r) = get_size(Subtypes(r.type)[1])
        /\ ~ Solid(r) /\ r.type \in FieldlessTypes => Extent(r) = 0)'
BY ExtentByKind, PTL

\* The kinds of solid references.
LEMMA SolidKinds ==
    ASSUME NEW G, NEW rk, Typed, Shape(G, rk), NEW r \in G, Solid(r)
    PROVE  \/ r.type = dynamic_object
           \/ r.type = AST_pointer
           \/ r.type = type_pointer /\ r.val \in HeapTypes(G)
           \/ r.type \in HeapTypes(G) /\ ver(r.type) \in {vector, pointer} /\ IsHeapType(r.type)
<1>1. OneWord(r.type)
  BY DEF Shape, Sound
<1>2. r \in Reference /\ r.val \in Nat /\ r.type \in Nat /\ r = Ref(r.val, r.type)
  BY SolidFacts, Refs
<1>3. CASE r.type \in FieldlessTypes
  BY <1>2, <1>3, Tags DEF Solid, HeapTypes
<1>4. CASE IsHeapType(r.type)
  <2>1. Ref(r.type, type_pointer) \in G
    BY <1>4 DEF Shape, Closed
  <2> QED
    BY <1>1, <1>2, <1>4, <2>1, Tags DEF HeapTypes, OneWord
<1> QED
  BY <1>1, <1>3, <1>4 DEF OneWord

\* What a dynamic object holds is a type, of one word or several.
LEMMA DynamicFacts ==
    ASSUME NEW G, NEW rk, Typed, Shape(G, rk), NEW r \in G, Solid(r), r.type = dynamic_object
    PROVE  /\ Word(r.val) \in FieldlessTypes \cup HeapTypes(G)
           /\ OneWord(Word(r.val)) \/ (IsHeapType(Word(r.val)) /\ ver(Word(r.val)) = con_vec)
           /\ Extent(r) = get_size(Word(r.val)) + 1
<1> DEFINE t == Word(r.val)
<1>1. Leads(r) /\ r.val # 0 /\ t \in Nat
  BY SolidFacts, Sizes DEF Solid
<1>2. Ref(t, type_pointer) \in G
  BY <1>1, TargetsByKind DEF Shape, Closed
<1>3. t # 0
  BY DEF Shape, Sound, SoundObject
<1>4. t \in FieldlessTypes \/ IsHeapType(t)
  BY <1>2, <1>3, Refs DEF Shape, Sound
<1>5. t \in FieldlessTypes \cup HeapTypes(G)
  BY <1>1, <1>2, <1>4 DEF HeapTypes
<1>6. OneWord(t) \/ (IsHeapType(t) /\ ver(t) = con_vec)
  BY <1>4, <1>5, TypeFacts DEF OneWord
<1>7. Extent(r) = get_size(t) + 1
  BY <1>1, ExtentByKind
<1> QED
  BY <1>5, <1>6, <1>7

\* An AST has its fields inside, and a basicblock a vector.
LEMMA ASTFacts ==
    ASSUME NEW G, NEW rk, Typed, Shape(G, rk), NEW r \in G, Solid(r), r.type = AST_pointer
    PROVE  /\ Word(r.val) \in {imv, basicblock} => Extent(r) = 2
           /\ Word(r.val) \in DOMAIN ASTFields => /\ ASTFields[Word(r.val)] \in Nat
                                                  /\ Extent(r) = 1 + ASTFields[Word(r.val)]
           /\ IsTag(Word(r.val))
           /\ Word(r.val) = basicblock => LET s == Ref(Word(r.val + 1), type_roots[1]) IN
                /\ s \in G /\ Solid(s) /\ s.val = Word(r.val + 1) /\ s.type = type_roots[1]
                /\ Extent(s) = 2 + Word(s.val + 1) /\ Word(s.val) <= Word(s.val + 1)
<1>1. Leads(r) /\ r.val # 0 /\ r.val \in Nat /\ r = Ref(r.val, AST_pointer)
  BY SolidFacts, Refs DEF Solid
<1>2. Extent(r) = get_full_size_of_AST(Word(r.val)) /\ IsTag(Word(r.val))
  BY <1>1, ExtentByKind DEF Shape, Sound, SoundObject
<1>3. /\ Word(r.val) \in {imv, basicblock} => Extent(r) = 2
      /\ Word(r.val) \in DOMAIN ASTFields => /\ ASTFields[Word(r.val)] \in Nat
                                             /\ Extent(r) = 1 + ASTFields[Word(r.val)]
  BY <1>2, CollectorAssumption, Tags DEF get_full_size_of_AST, get_field_size_of_AST
<1>4. ASSUME Word(r.val) = basicblock
      PROVE  LET s == Ref(Word(r.val + 1), type_roots[1]) IN
                /\ s \in G /\ Solid(s) /\ s.val = Word(r.val + 1) /\ s.type = type_roots[1]
                /\ Extent(s) = 2 + Word(s.val + 1) /\ Word(s.val) <= Word(s.val + 1)
  <2> DEFINE s == Ref(Word(r.val + 1), type_roots[1])
  <2>1. s \in G
    <3>1. s \in Targets(r)
      BY <1>1, <1>4, ASTTargets DEF Typed
    <3> QED
      BY <3>1 DEF Shape, Closed
  <2>2. s.val = Word(r.val + 1) /\ s.type = type_roots[1] /\ s.val # 0
    BY <1>4, Refs DEF Shape, Sound, SoundObject
  <2>3. IsHeapType(type_roots[1]) /\ ver(type_roots[1]) = vector
    BY DEF Shape, Root
  <2>4. Solid(s)
    BY <2>2, <2>3, Tags DEF Solid
  <2> HIDE DEF s
  <2>5. Extent(s) = 2 + Word(s.val + 1) /\ Word(s.val) <= Word(s.val + 1)
    BY <2>1, <2>2, <2>3, <2>4, ExtentByKind DEF Shape, Sound, SoundObject
  <2> QED
    BY <2>1, <2>2, <2>4, <2>5 DEF s
<1> QED
  BY <1>2, <1>3, <1>4

\* Types that keep their words are read as before, and so is what they are made of.
LEMMA TypesKept ==
    ASSUME NEW G, NEW rk, Typed, Shape(G, rk), MemTyped',
           \A t \in HeapTypes(G) : Agree(Ref(t, type_pointer))
    PROVE  \A t \in HeapTypes(G) \cup FieldlessTypes : TypeKept(t)
<1>1. \A t \in HeapTypes(G) : TypeKept(t)
  BY HeapTypeKept
<1>2. \A t \in FieldlessTypes : TypeKept(t)
  BY FieldlessKept, Tags
<1> QED
  BY <1>1, <1>2

\* A type that stays is of one word as before.
LEMMA OneWordKept ==
    ASSUME NEW t, TypeKept(t)
    PROVE  OneWord(t)' <=> OneWord(t)
BY DEF OneWord, TypeKept, FieldlessTypes, IsHeapType, vector, pointer

\* An object whose words stay leads where it led and is as large as it was.
LEMMA RefKept ==
    ASSUME NEW G, NEW rk, Typed, Shape(G, rk), MemTyped', type_roots' = type_roots,
           \A t \in HeapTypes(G) \cup FieldlessTypes : TypeKept(t),
           NEW r \in G, Solid(r), Agree(r), Leads(r)',
           r.type = AST_pointer /\ Word(r.val) = basicblock => Agree(Ref(Word(r.val + 1), type_roots[1]))
    PROVE  Targets(r)' = Targets(r) /\ Extent(r)' = Extent(r) /\ Word(r.val)' = Word(r.val)
<1>1. /\ r \in Reference /\ r.val \in Nat /\ r.type \in Nat /\ r = Ref(r.val, r.type) /\ r.val # 0
      /\ Extent(r) \in Nat /\ Extent(r) > 0 /\ Leads(r) /\ MemTyped
  BY SolidFacts, Refs DEF Typed, Solid
<1>2. \A w \in r.val .. r.val + Extent(r) - 1 : Word(w)' = Word(w)
  BY DEF Agree
<1>3. Word(r.val)' = Word(r.val) /\ Word(r.val) \in Nat /\ Word(r.val + 1) \in Nat
  BY <1>1, <1>2, WordTyped, Sizes
<1>4. CASE r.type = dynamic_object
  <2>0. PICK t \in Nat : t = Word(r.val) /\ t = Word(r.val)'
    BY <1>3
  <2>1. /\ t \in FieldlessTypes \cup HeapTypes(G) /\ Extent(r) = get_size(t) + 1
        /\ OneWord(t) \/ (IsHeapType(t) /\ ver(t) = con_vec)
    BY <1>4, <2>0, DynamicFacts
  <2>2. TypeKept(t)
    BY <2>1
  <2>3. Extent(r)' = Extent(r)
    <3>1. Extent(r)' = get_size(t)' + 1
      BY <1>1, <1>4, <2>0, ExtentByKindNext DEF dynamic_object
    <3>2. get_size(t)' = get_size(t)
      BY <2>2 DEF TypeKept
    <3> QED
      BY <2>1, <3>1, <3>2
  <2>4. CASE OneWord(t)
    <3>1. get_size(t) = 1
      BY <1>1, <2>4, RefsByType
    <3>2. Word(r.val + 1)' = Word(r.val + 1)
      BY <1>1, <1>2, <2>1, <3>1
    <3>3. OneWord(t)'
      BY <2>2, <2>4, OneWordKept
    <3>4. Targets(r)' = {Ref(t, type_pointer), Ref(Word(r.val + 1)', t)}
      BY <1>1, <1>4, <2>0, <3>3, HeapTargetsNext DEF dynamic_object, type_pointer, Ref, Typed
    <3>5. Targets(r) = {Ref(t, type_pointer), Ref(Word(r.val + 1), t)}
      BY <1>1, <1>4, <2>0, <2>4, HeapTargets
    <3> QED
      BY <1>3, <2>3, <3>2, <3>4, <3>5
  <2>5. CASE IsHeapType(t) /\ ver(t) = con_vec
    <3>1. get_size(t) = Word(t + 1) /\ Word(t + 1) \in Nat
      BY <1>1, <2>5, RefsByType, WordTyped, Sizes
    <3>2. ver(t)' = con_vec /\ Subtypes(t)' = Subtypes(t) /\ get_size(t)' = get_size(t) /\ t # 0
      BY <2>2, <2>5, Tags DEF TypeKept
    <3>3. Word(t + 1)' = Word(t + 1)
      <4>1. get_size(t)' = Word(t + 1)'
        BY <3>2 DEF get_size, con_vec
      <4> QED
        BY <3>1, <3>2, <4>1
    <3>4. \A i \in 1 .. Word(t + 1) : Word(r.val + i)' = Word(r.val + i)
      BY <1>1, <1>2, <2>1, <3>1
    <3>5. Targets(r) = {Ref(t, type_pointer)} \cup
                       {Ref(Word(r.val + i), Subtypes(t)[i]) : i \in 1 .. Word(t + 1)}
      <4>1. Targets(r) = {Ref(Word(r.val), type_pointer)} \cup
                         {Ref(Word(r.val + i), Subtypes(Word(r.val))[i]) : i \in 1 .. Word(Word(r.val) + 1)}
        BY <1>1, <1>4, <2>0, <2>5, HeapTargets
      <4> QED
        BY <2>0, <4>1
    <3>6. Targets(r)' = {Ref(t, type_pointer)} \cup
                        {Ref(Word(r.val + i)', (Subtypes(t)')[i]) : i \in 1 .. Word(t + 1)'}
      BY <1>1, <1>4, <2>0, <2>5, <3>2, HeapTargetsNext
         DEF dynamic_object, type_pointer, Ref, IsHeapType, con_vec, never_reached
    <3>7. Targets(r)' = {Ref(t, type_pointer)} \cup
                        {Ref(Word(r.val + i)', Subtypes(t)[i]) : i \in 1 .. Word(t + 1)}
      BY <3>2, <3>3, <3>6
    <3>8. {Ref(Word(r.val + i)', Subtypes(t)[i]) : i \in 1 .. Word(t + 1)} =
          {Ref(Word(r.val + i), Subtypes(t)[i]) : i \in 1 .. Word(t + 1)}
      BY <3>4
    <3> QED
      BY <1>3, <2>3, <3>5, <3>7, <3>8
  <2> QED
    BY <2>1, <2>4, <2>5
<1>5. CASE r.type = AST_pointer
  <2> DEFINE v == r.val
  <2>1. /\ Word(v) \in {imv, basicblock} => Extent(r) = 2
        /\ Word(v) \in DOMAIN ASTFields => /\ ASTFields[Word(v)] \in Nat
                                           /\ Extent(r) = 1 + ASTFields[Word(v)]
        /\ IsTag(Word(v))
    BY <1>5, ASTFacts
  <2>2. Extent(r)' = Extent(r)
    <3>0. PICK tag \in Nat : tag = Word(v) /\ tag = Word(v)'
      BY <1>3
    <3>1. Extent(r)' = get_full_size_of_AST(tag)'
      BY <1>1, <1>5, <3>0, ExtentByKindNext DEF AST_pointer
    <3>2. Extent(r) = get_full_size_of_AST(tag)
      BY <1>1, <1>5, <3>0, ExtentByKind
    <3>3. get_full_size_of_AST(tag)' = get_full_size_of_AST(tag)
      BY DEF get_full_size_of_AST, get_field_size_of_AST, imv, basicblock
    <3> QED
      BY <3>1, <3>2, <3>3
  <2>3. Leads(Ref(v, AST_pointer)) /\ Leads(Ref(v, AST_pointer))' /\ r = Ref(v, AST_pointer)
    BY <1>1, <1>5 DEF AST_pointer, Ref
  <2>4. CASE Word(v) = imv
    <3>1. Word(v + 1)' = Word(v + 1)
      BY <1>1, <1>2, <2>1, <2>4
    <3>2. Targets(r) = {Ref(Word(v + 1), dynamic_object)}
      BY <1>1, <2>3, <2>4, ASTTargets
    <3>3. Targets(r)' = {Ref(Word(v + 1)', dynamic_object)}
      BY <1>1, <1>3, <2>3, <2>4, ASTTargetsNext DEF imv, dynamic_object, AST_pointer, Ref
    <3> QED
      BY <1>3, <2>2, <3>1, <3>2, <3>3
  <2>5. CASE Word(v) \in DOMAIN ASTFields
    <3>1. \A i \in 1 .. ASTFields[Word(v)] : Word(v + i)' = Word(v + i)
      BY <1>1, <1>2, <2>1, <2>5
    <3>2. Targets(r) = {Ref(Word(v + i), AST_pointer) : i \in 1 .. ASTFields[Word(v)]}
      BY <1>1, <2>3, <2>5, ASTTargets
    <3>3. Targets(r)' = {Ref(Word(v + i)', AST_pointer) : i \in 1 .. ASTFields[Word(v)]}
      BY <1>1, <1>3, <2>3, <2>5, ASTTargetsNext DEF AST_pointer, Ref
    <3>4. {Ref(Word(v + i)', AST_pointer) : i \in 1 .. ASTFields[Word(v)]} =
          {Ref(Word(v + i), AST_pointer) : i \in 1 .. ASTFields[Word(v)]}
      BY <3>1
    <3> QED
      BY <1>3, <2>2, <3>2, <3>3, <3>4
  <2>6. CASE Word(v) = basicblock
    <3>0. PICK s \in Nat : s = Word(v + 1)
      BY <1>3
    <3> DEFINE R == Ref(s, type_roots[1])
    <3>1. /\ R.val = s /\ Extent(R) = 2 + Word(s + 1) /\ Word(s) <= Word(s + 1)
          /\ Word(s) \in Nat /\ Word(s + 1) \in Nat
      BY <1>3, <1>5, <1>1, <2>6, <3>0, ASTFacts, WordTyped, Sizes
    <3>2. Word(v + 1)' = s
      BY <1>1, <1>2, <2>1, <2>6, <3>0
    <3>3. \A w \in s .. s + Extent(R) - 1 : Word(w)' = Word(w)
      BY <1>5, <2>6, <3>0, <3>1 DEF Agree
    <3>4. Word(s)' = Word(s) /\ \A i \in 1 .. Word(s) : Word(s + 1 + i)' = Word(s + 1 + i)
      BY <3>1, <3>3
    <3>5. Targets(r) = {Ref(s, type_roots[1])} \cup {Ref(Word(s + 1 + i), AST_pointer) : i \in 1 .. Word(s)}
      BY <1>1, <2>3, <2>6, <3>0, ASTTargets
    <3>6. Targets(r)' = {Ref(s, type_roots[1])} \cup {Ref(Word(s + 1 + i)', AST_pointer) : i \in 1 .. Word(s)'}
      BY <1>1, <1>3, <2>3, <2>6, <3>2, ASTTargetsNext DEF basicblock, AST_pointer, Ref
    <3>7. {Ref(Word(s + 1 + i)', AST_pointer) : i \in 1 .. Word(s)} =
          {Ref(Word(s + 1 + i), AST_pointer) : i \in 1 .. Word(s)}
      BY <3>4
    <3> QED
      BY <1>3, <2>2, <3>4, <3>5, <3>6, <3>7
  <2> QED
    BY <2>1, <2>4, <2>5, <2>6 DEF IsTag
<1>6. CASE r.type = type_pointer /\ r.val \in HeapTypes(G)
  <2> DEFINE t == r.val
  <2>1. TypeKept(t) /\ IsHeapType(t) /\ IsHeapType(t)'
    BY <1>6, TypeFacts DEF IsHeapType
  <2>2. Targets(r) = {Ref(u, type_pointer) : u \in Range(Subtypes(t))}
    BY <1>1, <1>6, TargetsByKind
  <2>3. Targets(r)' = {Ref(u, type_pointer) : u \in Range(Subtypes(t)')}
    BY <1>6, TargetsByKindNext DEF type_pointer, Ref, Range
  <2>4. Extent(r) = total_valid_fields(t) + 1
    BY <1>1, <1>6, <2>1, ExtentByKind
  <2>5. Extent(r)' = total_valid_fields(t)' + 1
    BY <1>1, <1>6, <2>1, ExtentByKindNext DEF type_pointer
  <2> QED
    BY <1>3, <2>1, <2>2, <2>3, <2>4, <2>5 DEF TypeKept
<1>7. CASE r.type \in HeapTypes(G) /\ ver(r.type) \in {vector, pointer} /\ IsHeapType(r.type)
  <2> DEFINE t == r.type
  <2>0. PICK u : u = Subtypes(t)[1]
    OBVIOUS
  <2>1. TypeKept(t) /\ IsHeapType(t)'
    BY <1>7 DEF IsHeapType
  <2>2. ver(t)' = ver(t) /\ Subtypes(t)' = Subtypes(t) /\ Subtypes(t)'[1] = u
    BY <2>0, <2>1 DEF TypeKept
  <2>3. OneWord(u) /\ TypeKept(u) /\ u \in Nat
    <3>1. /\ MadeType(rk, t) /\ ver(t) = Word(t) /\ IsHeapType(t) /\ t \in Nat
          /\ \A x \in Range(Subtypes(t)) : x \in FieldlessTypes \cup HeapTypes(G)
      BY <1>7, TypeFacts
    <3>2. Subtypes(t) = <<Word(t + 1)>> /\ u = Word(t + 1) /\ Range(Subtypes(t)) = {Word(t + 1)}
      BY <1>1, <1>7, <2>0, <3>1, SubtypesByTag
    <3> QED
      BY <1>1, <3>1, <3>2, WordTyped, Sizes DEF MadeType
  <2>4. CASE ver(t) = vector
    <3>1. Extent(r) = 2 + Word(r.val + 1) /\ Word(r.val) <= Word(r.val + 1)
      BY <1>1, <1>7, <2>4, ExtentByKind DEF Shape, Sound, SoundObject
    <3>2. Word(r.val + 1)' = Word(r.val + 1)
      BY <1>1, <1>2, <1>3, <3>1
    <3>3. Extent(r)' = 2 + Word(r.val + 1)'
      BY <1>1, <2>1, <2>2, <2>4, ExtentByKindNext DEF vector
    <3>4. \A i \in 1 .. Word(r.val) : Word(r.val + 1 + i)' = Word(r.val + 1 + i)
      BY <1>1, <1>2, <1>3, <3>1
    <3>5. Targets(r) = {Ref(Word(r.val + 1 + i), u) : i \in 1 .. Word(r.val)}
      BY <1>1, <1>7, <2>0, <2>4, HeapTargets
    <3>6. Targets(r)' = {Ref(Word(r.val + 1 + i)', u) : i \in 1 .. Word(r.val)'}
      BY <1>1, <2>1, <2>2, <2>4, HeapTargetsNext DEF vector, Ref
    <3>7. {Ref(Word(r.val + 1 + i)', u) : i \in 1 .. Word(r.val)} =
          {Ref(Word(r.val + 1 + i), u) : i \in 1 .. Word(r.val)}
      BY <3>4
    <3> QED
      BY <1>3, <2>2, <3>1, <3>2, <3>3, <3>5, <3>6, <3>7
  <2>5. CASE ver(t) = pointer
    <3>1. Extent(r) = get_size(u)
      BY <1>1, <1>7, <2>0, <2>5, ExtentByKind
    <3>2. Extent(r)' = get_size(u)'
      BY <1>1, <2>1, <2>2, <2>5, ExtentByKindNext DEF pointer
    <3>3. Targets(r) = {Ref(Word(r.val), u)}
      BY <1>1, <1>7, <2>0, <2>3, <2>5, HeapTargets
    <3>4. OneWord(u)'
      BY <2>3, OneWordKept
    <3>5. Targets(r)' = {Ref(Word(r.val)', u)}
      BY <1>1, <2>1, <2>2, <2>5, <3>4, HeapTargetsNext DEF pointer, Ref
    <3> QED
      BY <1>3, <2>2, <2>3, <3>1, <3>2, <3>3, <3>5 DEF TypeKept
  <2> QED
    BY <1>7, <2>4, <2>5
<1> QED
  BY <1>4, <1>5, <1>6, <1>7, SolidKinds

------------------------------------------------------------------------------
(* A step that changes the objects of D, and no others *)

\* What Leads says of a sound reference, whatever the state.
Leading(r) ==
    /\ r.val # 0 /\ r.type # integer
    /\ r.type = type_pointer => IsHeapType(r.val)

\* A reference to an object leads on, and only a function does so besides.
LEMMA SolidLeads == \A r : Solid(r) <=> Leading(r) /\ r.type # function_pointer
BY Tags DEF Solid, Leading

\* A step leaves all of G alone but for D.
Moves(G, D) ==
    /\ MemTyped' /\ type_roots' = type_roots
    /\ \A r \in D : r.type # type_pointer
    /\ \A r \in G \ D : Solid(r) =>
          /\ Agree(r) /\ BlockOf(r) \in objects'
          /\ r.type = AST_pointer /\ Word(r.val) = basicblock => Ref(Word(r.val + 1), type_roots[1]) \notin D
    /\ \A r \in G \ D : r.type = function_pointer /\ r.val # 0 =>
          r.val \in Flagged(function_pool_flags)' /\ functions'[r.val] = functions[r.val]

\* Of a sound reference, Leading says what Leads says.
LEMMA LeadsWhenSound == \A rk, r : Sound(rk, r) => (Leads(r) <=> Leading(r))
<1> SUFFICES ASSUME NEW rk, NEW r, Sound(rk, r)
             PROVE  Leads(r) <=> Leading(r)
  OBVIOUS
<1>1. Leads(r) => Leading(r)
  BY Tags DEF Leads, Leading
<1>2. CASE r.type = function_pointer
  BY <1>2, Tags DEF Leads, Leading, Sound
<1>3. CASE r.type # function_pointer /\ Leading(r)
  <2>1. BlockOf(r) \in objects /\ BlockOf(r).addr = r.val
    BY <1>3, SolidLeads DEF Sound, BlockOf
  <2> QED
    BY <1>3, <2>1 DEF Leads, Leading
<1> QED
  BY <1>1, <1>2, <1>3

\* What leads on is Leading, in the next state too.
LEMMA LeadsNext == (\A r : Leads(r) => Leading(r))'
<1>1. \A r : Leads(r) => Leading(r)
  BY Tags DEF Leads, Leading
<1> QED
  BY <1>1, PTL

\* What does not lead on has no targets, in the next state.
LEMMA NowhereNext == (\A r : ~ Leads(r) => Targets(r) = {})'
<1>1. \A r : ~ Leads(r) => Targets(r) = {}
  BY DEF Targets
<1> QED
  BY <1>1, PTL

\* A step that changes D leaves all types as they are.
LEMMA MovesTypes ==
    ASSUME NEW G, NEW rk, NEW D, Typed, Shape(G, rk), Moves(G, D)
    PROVE  \A t \in HeapTypes(G) \cup FieldlessTypes : TypeKept(t)
<1>1. ASSUME NEW t \in HeapTypes(G)
      PROVE  Agree(Ref(t, type_pointer))
  <2>1. Ref(t, type_pointer) \in G /\ Solid(Ref(t, type_pointer)) /\ Ref(t, type_pointer).type = type_pointer
    BY TypeFacts, Refs
  <2> QED
    BY <2>1 DEF Moves
<1> QED
  BY <1>1, TypesKept DEF Moves

\* A reference outside D leads where it led.
LEMMA RefMoves ==
    ASSUME NEW G, NEW rk, NEW D, Typed, Shape(G, rk), Moves(G, D), NEW r \in G \ D
    PROVE  /\ Targets(r)' = Targets(r) /\ (Leads(r)' <=> Leads(r))
           /\ Solid(r) => Extent(r)' = Extent(r) /\ Word(r.val)' = Word(r.val)
<1>1. MemTyped' /\ type_roots' = type_roots /\ Sound(rk, r) /\ r \in G
  BY DEF Moves, Shape
<1>2. \A t \in HeapTypes(G) \cup FieldlessTypes : TypeKept(t)
  BY MovesTypes
<1>3. Leads(r) <=> Leading(r)
  BY <1>1, LeadsWhenSound
<1>4. CASE ~ Leading(r)
  <2>1. ~ Leads(r)' /\ ~ Leads(r) /\ ~ Solid(r)
    BY <1>3, <1>4, LeadsNext, SolidLeads DEF Leading, integer, type_pointer, IsHeapType, never_reached
  <2>2. Targets(r)' = {}
    BY <2>1, NowhereNext
  <2>3. Targets(r) = {}
    BY <2>1 DEF Targets
  <2> QED
    BY <2>1, <2>2, <2>3
<1>5. CASE Leading(r) /\ r.type = function_pointer
  <2>1. r.val \in Flagged(function_pool_flags)' /\ functions'[r.val] = functions[r.val] /\ r.val # 0
    BY <1>5 DEF Moves, Leading
  <2>2. Leads(r)'
    BY <1>5, <2>1 DEF Leads, integer, function_pointer, type_pointer
  <2>3. Targets(r)' = {Ref(functions'[r.val].return_type, type_pointer)} \cup functions'[r.val].code
    BY <1>5, <2>2, TargetsByKindNext DEF function_pointer, type_pointer, Ref
  <2>4. Targets(r) = {Ref(functions[r.val].return_type, type_pointer)} \cup functions[r.val].code
    BY <1>3, <1>5, TargetsByKind
  <2> QED
    BY <1>3, <1>5, <2>1, <2>2, <2>3, <2>4, SolidLeads
<1>6. CASE Solid(r)
  <2>1. /\ Agree(r) /\ BlockOf(r) \in objects'
        /\ r.type = AST_pointer /\ Word(r.val) = basicblock => Ref(Word(r.val + 1), type_roots[1]) \notin D
    BY <1>6 DEF Moves
  <2>2. Leads(r)'
    <3>1. \E o \in objects' : o.addr = r.val
      BY <2>1 DEF BlockOf
    <3> QED
      BY <1>6, <3>1 DEF Leads, Solid, integer, function_pointer, type_pointer, IsHeapType, never_reached
  <2>3. r.type = AST_pointer /\ Word(r.val) = basicblock => Agree(Ref(Word(r.val + 1), type_roots[1]))
    <3> SUFFICES ASSUME r.type = AST_pointer, Word(r.val) = basicblock
                 PROVE  Agree(Ref(Word(r.val + 1), type_roots[1]))
      OBVIOUS
    <3> DEFINE s == Ref(Word(r.val + 1), type_roots[1])
    <3>1. s \in G /\ Solid(s)
      BY <1>6, ASTFacts
    <3> QED
      BY <2>1, <3>1 DEF Moves
  <2> QED
    BY <1>1, <1>2, <1>3, <1>6, <2>1, <2>2, <2>3, RefKept, SolidLeads
<1> QED
  BY <1>4, <1>5, <1>6, SolidLeads

\* A reference outside D stays sound, whatever the ranks of new types.
LEMMA SoundMoves ==
    ASSUME NEW G, NEW rk, NEW D, Typed, Shape(G, rk), Moves(G, D), NEW r \in G \ D,
           NEW rk2, \A t \in HeapTypes(G) : rk2[t] = rk[t]
    PROVE  Sound(rk2, r)'
<1>1. MemTyped' /\ type_roots' = type_roots /\ Sound(rk, r) /\ r \in G
  BY DEF Moves, Shape
<1>2. \A t \in HeapTypes(G) \cup FieldlessTypes : TypeKept(t)
  BY MovesTypes
<1>3. r \in Reference /\ r.val \in Nat /\ r.type \in Nat /\ r = Ref(r.val, r.type)
  BY SolidFacts, Refs
<1>4. OneWord(r.type)'
  <2>1. OneWord(r.type)
    BY <1>1 DEF Sound
  <2>2. r.type \in HeapTypes(G) \cup FieldlessTypes
    <3>1. IsHeapType(r.type) => Ref(r.type, type_pointer) \in G
      BY DEF Shape, Closed
    <3> QED
      BY <1>3, <2>1, <3>1 DEF OneWord, HeapTypes
  <2> QED
    BY <1>2, <2>1, <2>2, OneWordKept
<1>5. r.type = function_pointer => r.val = 0 \/ r.val \in Flagged(function_pool_flags)'
  BY DEF Moves
<1>6. ASSUME Solid(r)
      PROVE  BlockOf(r)' \in objects' /\ SoundObject(rk2, r)'
  <2>1. /\ Extent(r)' = Extent(r) /\ Word(r.val)' = Word(r.val) /\ Agree(r) /\ BlockOf(r) \in objects'
        /\ SoundObject(rk, r) /\ Extent(r) \in Nat /\ r.val # 0
    BY <1>1, <1>6, RefMoves, SolidFacts DEF Moves, Sound, Solid
  <2>2. BlockOf(r)' \in objects'
    BY <2>1 DEF BlockOf
  <2>3. ASSUME r.type = type_pointer
        PROVE  MadeType(rk2, r.val)'
    <3> DEFINE t == r.val
    <3>1. t \in HeapTypes(G)
      BY <1>3, <1>6, <2>3 DEF HeapTypes, Solid
    <3>2. /\ ver(t)' = ver(t) /\ Subtypes(t)' = Subtypes(t) /\ MadeType(rk, t)
          /\ \A u \in Range(Subtypes(t)) : u \in FieldlessTypes \cup HeapTypes(G)
      BY <1>2, <3>1, TypeFacts DEF TypeKept
    <3>3. ASSUME NEW u \in Range(Subtypes(t))
          PROVE  OneWord(u)' /\ (IsHeapType(u) => rk2[u] < rk2[t])
      <4>1. OneWord(u) /\ (IsHeapType(u) => rk[u] < rk[t]) /\ u \in FieldlessTypes \cup HeapTypes(G)
        BY <3>2 DEF MadeType
      <4>2. IsHeapType(u) => u \in HeapTypes(G)
        BY <4>1, Tags
      <4> QED
        BY <1>2, <3>1, <4>1, <4>2, OneWordKept
    <3>4. ver(t)' \in {con_vec, vector, pointer} /\ Subtypes(t)' # <<>>
      BY <3>2 DEF MadeType
    <3>5. \A u \in Range(Subtypes(t))' : OneWord(u)' /\ (IsHeapType(u) => rk2[u] < rk2[t])
      BY <3>2, <3>3 DEF Range
    <3> QED
      BY <3>4, <3>5 DEF MadeType, con_vec, vector, pointer, IsHeapType, never_reached
  <2>4. r.type = AST_pointer => IsTag(Word(r.val))' /\ (Word(r.val)' = basicblock => Word(r.val + 1)' # 0)
    <3>1. r.type = AST_pointer => IsTag(Word(r.val)) /\ (Word(r.val) = basicblock => Word(r.val + 1) # 0)
      BY <2>1 DEF SoundObject
    <3>2. r.type = AST_pointer /\ Word(r.val) = basicblock => Word(r.val + 1)' = Word(r.val + 1)
      <4>1. r.type = AST_pointer /\ Word(r.val) = basicblock => Extent(r) = 2
        BY <1>1, <1>6, ASTFacts
      <4> QED
        BY <1>3, <2>1, <4>1 DEF Agree
    <3> QED
      BY <2>1, <3>1, <3>2 DEF IsTag, imv, basicblock
  <2>5. r.type = dynamic_object => Word(r.val)' # 0
    BY <2>1 DEF SoundObject
  <2>6. ASSUME IsHeapType(r.type), ver(r.type)' = vector
        PROVE  Word(r.val)' <= Word(r.val + 1)'
    <3>1. Ref(r.type, type_pointer) \in G
      BY <1>1, <2>6 DEF Shape, Closed
    <3>2. r.type \in HeapTypes(G)
      BY <1>3, <2>6, <3>1 DEF HeapTypes
    <3>3. ver(r.type) = vector
      BY <1>2, <2>6, <3>2 DEF TypeKept
    <3>4. Extent(r) = 2 + Word(r.val + 1) /\ Word(r.val) <= Word(r.val + 1)
      BY <2>1, <2>6, <3>3, ExtentByKind DEF SoundObject
    <3>5. Word(r.val + 1)' = Word(r.val + 1)
      <4>1. Word(r.val + 1) \in Nat
        BY WordTyped, Sizes DEF Typed
      <4>2. r.val + 1 \in r.val .. r.val + Extent(r) - 1
        BY <1>3, <3>4, <4>1
      <4> QED
        BY <2>1, <4>2 DEF Agree
    <3> QED
      BY <2>1, <3>4, <3>5
  <2> QED
    BY <2>2, <2>3, <2>4, <2>5, <2>6 DEF SoundObject, type_pointer, AST_pointer, dynamic_object, basicblock,
                                       IsHeapType, never_reached, vector
<1>7. r.val = 0 => r.type \in FieldlessTypes
  BY <1>1 DEF Sound
<1>8. r.type = type_pointer => r.val \in {0} \cup FieldlessTypes \/ IsHeapType(r.val)
  BY <1>1 DEF Sound
<1> QED
  BY <1>4, <1>5, <1>6, <1>7, <1>8
     DEF Sound, FieldlessTypes, type_pointer, function_pointer, IsHeapType, never_reached, Solid,
         integer, dynamic_object, AST_pointer

\* The reference is sound and leads into H.
Fits(H, rk, r) ==
    /\ Sound(rk, r) /\ Targets(r) \subseteq H
    /\ IsHeapType(r.type) => Ref(r.type, type_pointer) \in H
    /\ r.type = function_pointer /\ r.val # 0 => Ref(functions[r.val].the_AST, AST_pointer) \in H

\* The new objects of N are not those of G, nor of each other.
Distinct(G, N) ==
    \A r \in N : \A q \in G \cup N : Solid(r) /\ Solid(q) /\ r.val = q.val => r = q

\* A step that changes D and adds N keeps the shape if it does so soundly.
LEMMA ShapeMoves ==
    ASSUME NEW G, NEW rk, NEW D \in SUBSET G, NEW N \in SUBSET Reference, NEW rk2 \in [Nat -> Nat],
           Typed, Shape(G, rk), Moves(G, D), \A t \in HeapTypes(G) : rk2[t] = rk[t],
           \A r \in D \cup N : Fits(G \cup N, rk2, r)', Distinct(G, N)
    PROVE  Shape(G \cup N, rk2)'
<1> DEFINE H == G \cup N
<1>1. H \subseteq Reference /\ Base \subseteq H /\ G \subseteq Reference
  BY DEF Shape
<1>2. ASSUME NEW r \in G \ D
      PROVE  Fits(H, rk2, r)'
  <2>1. Targets(r)' = Targets(r) /\ Sound(rk2, r)'
    BY RefMoves, SoundMoves
  <2>2. Targets(r) \subseteq G /\ (IsHeapType(r.type) => Ref(r.type, type_pointer) \in G)
    BY DEF Shape, Closed
  <2>3. r.type = function_pointer /\ r.val # 0 => Ref(functions'[r.val].the_AST, AST_pointer) \in G
    BY DEF Moves, Shape, ASTsKept
  <2> QED
    BY <2>1, <2>2, <2>3 DEF Fits, IsHeapType, never_reached, type_pointer, function_pointer, AST_pointer, Ref
<1>3. \A r \in H : Fits(H, rk2, r)'
  BY <1>2
<1>6. (Closed(H) /\ ASTsKept(H) /\ \A r \in H : Sound(rk2, r))'
  BY <1>3 DEF Fits, Closed, ASTsKept
<1>7. \A r, q \in H : Solid(r) /\ Solid(q) /\ r.val = q.val => r = q
  <2> SUFFICES ASSUME NEW r \in H, NEW q \in H, Solid(r), Solid(q), r.val = q.val
               PROVE  r = q
    OBVIOUS
  <2>1. CASE r \in G /\ q \in G
    BY <2>1 DEF Shape
  <2>2. CASE r \in N
    BY <2>2 DEF Distinct
  <2>3. CASE q \in N
    BY <2>3 DEF Distinct
  <2> QED
    BY <2>1, <2>2, <2>3
<1>8. (\A r, q \in H : Solid(r) /\ Solid(q) /\ r.val = q.val => r = q)'
  BY <1>7 DEF Solid, IsHeapType, never_reached, integer, function_pointer, type_pointer
<1>9. Root' /\ (Ref(type_roots[1], type_pointer) \in H)'
  <2> DEFINE t == type_roots[1]
  <2>1. t' = t /\ DOMAIN type_roots' = DOMAIN type_roots
    BY DEF Moves
  <2>2. t \in HeapTypes(G) /\ Ref(t, type_pointer) \in G /\ Root
    <3>1. Ref(t, type_pointer) \in G /\ IsHeapType(t) /\ Root
      BY DEF Shape, Root
    <3>2. t \in Nat
      BY <3>1, <1>1, Refs
    <3> QED
      BY <3>1, <3>2 DEF HeapTypes
  <2>3. PICK u : u = type_roots[1]
    OBVIOUS
  <2>4. ver(u)' = ver(u) /\ Subtypes(u)' = Subtypes(u)
    BY <2>2, <2>3, MovesTypes DEF TypeKept
  <2> QED
    BY <2>1, <2>2, <2>3, <2>4 DEF Root, IsHeapType, never_reached, vector, AST_pointer, type_pointer, Ref
<1>10. Base' \subseteq H /\ Reference' = Reference
  BY <1>1 DEF Base, FieldlessTypes, Ref, type_pointer, Reference, integer, dynamic_object, AST_pointer, function_pointer
<1> HIDE DEF H
<1>11. Shape(H, rk2)'
  BY <1>1, <1>6, <1>8, <1>9, <1>10 DEF Shape
<1> QED
  BY <1>11 DEF H

-----------------------------------------------------------------------------
(* Allocation *)

\* What allocate() hands out is apart from all objects.
LEMMA AllocateAtStep ==
    ASSUME HeapInv, NEW size \in Nat \ {0}, NEW k \in BestFit(free_memory, size), AllocateAt(size, k)
    PROVE  /\ HeapInv' /\ phase' = "program"
           /\ Issued(k, size) \in Block /\ objects' = objects \cup {Issued(k, size)}
           /\ \A o \in objects : Apart(o, Issued(k, size))
<1>1. phase = "program" /\ Tiled(free_memory, objects) /\ phase' = "program"
  BY ProgramTiled DEF AllocateAt
<1>2. /\ Tiled(Taken(free_memory, k, size), objects \cup {Issued(k, size)})
      /\ Issued(k, size) \in Block /\ \A o \in objects : Apart(o, Issued(k, size))
  BY <1>1, AllocateOnce
<1>3. Cardinality(WordsOf(Taken(free_memory, k, size))) = Cardinality(WordsOf(free_memory)) - size
  BY <1>1, AllocateCount
<1>4. free_memory_count = Cardinality(WordsOf(free_memory))
  BY <1>1 DEF HeapInv, CountInv
<1> QED
  BY <1>1, <1>2, <1>3, <1>4, ProgramStep DEF AllocateAt

\* Two blocks handed out in one step are apart from all objects and from each other.
LEMMA AllocateTwoAtStep ==
    ASSUME HeapInv, NEW first \in Nat \ {0}, NEW k \in BestFit(free_memory, first),
           NEW second \in Nat \ {0}, NEW l \in BestFit(Taken(free_memory, k, first), second),
           AllocateTwoAt(first, k, second, l)
    PROVE  /\ HeapInv' /\ phase' = "program"
           /\ Issued(k, first) \in Block /\ Issued(l, second) \in Block
           /\ objects' = objects \cup {Issued(k, first), Issued(l, second)}
           /\ \A o \in objects : Apart(o, Issued(k, first)) /\ Apart(o, Issued(l, second))
           /\ Apart(Issued(k, first), Issued(l, second))
<1> DEFINE free == Taken(free_memory, k, first)
           objs == objects \cup {Issued(k, first)}
<1>1. phase = "program" /\ Tiled(free_memory, objects) /\ phase' = "program"
  BY ProgramTiled DEF AllocateTwoAt
<1>2. /\ Tiled(free, objs)
      /\ Issued(k, first) \in Block /\ \A o \in objects : Apart(o, Issued(k, first))
  BY <1>1, AllocateOnce
<1>3. /\ Tiled(Taken(free, l, second), objs \cup {Issued(l, second)})
      /\ Issued(l, second) \in Block /\ \A o \in objs : Apart(o, Issued(l, second))
  BY <1>2, AllocateOnce
<1>4. objs \cup {Issued(l, second)} = objects \cup {Issued(k, first), Issued(l, second)}
  OBVIOUS
<1>5. Cardinality(WordsOf(free)) = Cardinality(WordsOf(free_memory)) - first
  BY <1>1, AllocateCount
<1>6. Cardinality(WordsOf(Taken(free, l, second))) = Cardinality(WordsOf(free)) - second
  BY <1>2, AllocateCount
<1>7. free_memory_count = Cardinality(WordsOf(free_memory))
  BY <1>1 DEF HeapInv, CountInv
<1>8. free_memory_count' = Cardinality(WordsOf(free_memory'))
  BY <1>5, <1>6, <1>7 DEF AllocateTwoAt
<1>9. HeapInv'
  BY <1>1, <1>3, <1>4, <1>8, ProgramStep DEF AllocateTwoAt
<1> QED
  BY <1>1, <1>2, <1>3, <1>4, <1>9 DEF AllocateTwoAt

-----------------------------------------------------------------------------
(* Writing *)

\* What the pool can hold.
Memories == [Pool -> 0 .. special_value]
\* Word, of any memory.
WordIn(m, a) == IF a \in Pool THEN m[a] ELSE special_value

\* Word is WordIn of the present memory.
LEMMA WordOf == \A a : Word(a) = WordIn(mem, a)
BY DEF Word, WordIn

\* And of the next memory, in the next state.
LEMMA WordOfNext == \A a : Word(a)' = WordIn(mem', a)
BY DEF Word, WordIn, Pool, PoolEnd

\* A step to a memory keeps the words typed.
LEMMA TypedNext == mem' \in Memories => MemTyped'
BY DEF MemTyped, Memories, Pool, PoolEnd

\* What a sequence is, for the provers.
LEMMA SeqFacts ==
    ASSUME NEW V, NEW s \in Seq(V)
    PROVE  Len(s) \in Nat /\ DOMAIN s = 1 .. Len(s) /\ \A i \in 1 .. Len(s) : s[i] \in V
OBVIOUS

\* Words are written to a block of the pool from its start.
LEMMA WriteIn ==
    ASSUME NEW m \in Memories, NEW b \in Block, NEW words \in Seq(0 .. special_value),
           Len(words) <= b.size
    PROVE  /\ Write(m, b.addr, words) \in Memories
           /\ \A i \in 1 .. Len(words) : WordIn(Write(m, b.addr, words), b.addr + i - 1) = words[i]
           /\ \A w : w \notin Words(b) => WordIn(Write(m, b.addr, words), w) = WordIn(m, w)
<1> DEFINE m2 == Write(m, b.addr, words)
           n == Len(words)
<1>1. /\ b.addr \in Nat /\ b.size \in Nat /\ b.addr >= big_memory_pool /\ b.addr + b.size <= PoolEnd
      /\ n \in Nat /\ DOMAIN words = 1 .. n /\ \A i \in 1 .. n : words[i] \in 0 .. special_value
  <2>1. /\ b.addr \in Nat /\ b.size \in Nat /\ b.addr >= big_memory_pool /\ b.addr + b.size <= PoolEnd
    BY BlockFacts
  <2>2. n \in Nat /\ DOMAIN words = 1 .. n /\ \A i \in 1 .. n : words[i] \in 0 .. special_value
    BY SeqFacts
  <2> QED
    BY <2>1, <2>2
<1>2. \A w \in Pool : m2[w] = IF w - b.addr + 1 \in 1 .. n THEN words[w - b.addr + 1] ELSE m[w]
  BY <1>1 DEF Write
<1>3. m2 \in Memories
  <2>1. DOMAIN m2 = Pool /\ m2 = [w \in Pool |-> m2[w]]
    BY DEF Write
  <2>2. \A w \in Pool : m2[w] \in 0 .. special_value
    BY <1>1, <1>2 DEF Memories
  <2> HIDE DEF m2
  <2>3. [w \in Pool |-> m2[w]] \in [Pool -> 0 .. special_value]
    BY <2>2
  <2> QED
    BY <2>1, <2>3 DEF Memories
<1>4. ASSUME NEW i \in 1 .. n
      PROVE  WordIn(m2, b.addr + i - 1) = words[i]
  <2>1. b.addr + i - 1 \in Pool /\ (b.addr + i - 1) - b.addr + 1 = i
    <3>1. /\ b.addr \in Nat /\ b.size \in Nat /\ i \in Nat /\ i >= 1 /\ i <= b.size
          /\ b.addr >= big_memory_pool /\ b.addr + b.size <= PoolEnd
      BY <1>1
    <3>2. big_memory_pool \in Nat /\ PoolEnd \in Nat
      BY Sizes
    <3> HIDE DEF m2, n
    <3> QED
      BY <3>1, <3>2 DEF Pool
  <2> QED
    BY <1>2, <2>1 DEF WordIn
<1>5. ASSUME NEW w, w \notin Words(b)
      PROVE  WordIn(m2, w) = WordIn(m, w)
  <2>1. CASE w \in Pool
    <3>1. w \in Int
      BY <2>1, Sizes DEF Pool
    <3>2. w - b.addr + 1 \notin 1 .. n
      BY <1>1, <1>5, <3>1 DEF Words
    <3> QED
      BY <1>2, <2>1, <3>2 DEF WordIn
  <2> QED
    BY <2>1 DEF WordIn
<1> QED
  BY <1>3, <1>4, <1>5

\* Writing one word.
LEMMA PutIn ==
    ASSUME NEW m \in Memories, NEW a \in Pool, NEW v \in 0 .. special_value
    PROVE  /\ [m EXCEPT ![a] = v] \in Memories
           /\ WordIn([m EXCEPT ![a] = v], a) = v
           /\ \A w : w # a => WordIn([m EXCEPT ![a] = v], w) = WordIn(m, w)
BY DEF Memories, WordIn

-----------------------------------------------------------------------------
(* A step that writes to new blocks and to the words of D *)

\* A step that only writes new blocks and the objects of D only changes D.
LEMMA MovesIntro ==
    ASSUME NEW G, NEW rk, NEW D \in SUBSET G, HeapInv, Typed, Shape(G, rk),
           MemTyped', type_roots' = type_roots, objects \subseteq objects',
           \A r \in D : r.type # type_pointer,
           \A r \in G \ D : r.type = AST_pointer /\ Solid(r) /\ Word(r.val) = basicblock =>
               Ref(Word(r.val + 1), type_roots[1]) \notin D,
           \A r \in G \ D : r.type = function_pointer /\ r.val # 0 =>
               r.val \in Flagged(function_pool_flags)' /\ functions'[r.val] = functions[r.val],
           \A w : \/ Word(w)' = Word(w)
                  \/ \A o \in objects : w \notin Words(o)
                  \/ \E d \in D : Solid(d) /\ w \in Words(BlockOf(d))
    PROVE  Moves(G, D)
<1> SUFFICES ASSUME NEW r \in G \ D, Solid(r)
             PROVE  Agree(r) /\ BlockOf(r) \in objects'
  BY DEF Moves
<1>1. BlockOf(r) \in objects /\ BlockOf(r) \in Block /\ BlockOf(r).addr = r.val /\ BlockOf(r).size = Extent(r)
  BY SolidFacts DEF Shape, Sound, BlockOf
<1>2. ASSUME NEW w \in r.val .. r.val + Extent(r) - 1
      PROVE  Word(w)' = Word(w)
  <2>1. w \in Words(BlockOf(r))
    BY <1>1 DEF Words
  <2>2. ASSUME NEW d \in D, Solid(d), w \in Words(BlockOf(d))
        PROVE  FALSE
    <3>1. BlockOf(d) \in objects /\ BlockOf(d) \in Block /\ BlockOf(d).addr = d.val
      BY <2>2, SolidFacts DEF Shape, Sound, BlockOf
    <3>2. d.val # r.val
      BY <2>2 DEF Shape
    <3>3. Apart(BlockOf(d), BlockOf(r))
      BY <1>1, <3>1, <3>2 DEF HeapInv, NoOverlap
    <3> QED
      BY <1>1, <2>1, <2>2, <3>1, <3>3, ApartWords
  <2> QED
    BY <1>1, <2>1, <2>2
<1> QED
  BY <1>1, <1>2 DEF Agree

------------------------------------------------------------------------------
(* What is reachable: the closures are least fixed points *)

\* Every slot of the function pool has its function.
Functional ==
    functions \in [Slots -> [the_AST : 0 .. special_value, return_type : 0 .. special_value,
                             code : SUBSET Reference]]

\* Enough of the types of the variables to follow references.
Readable == MemTyped /\ Functional /\ (type_roots[1] \in 0 .. special_value \/ objects = {})

\* The bits that are set belong to slots.
LEMMA FlaggedSlots == Flagged(function_pool_flags) \subseteq Slots
BY DEF Flagged

\* What is read from the memory are references.
LEMMA WordsRead ==
    ASSUME Readable
    PROVE  /\ \A loc \in Nat : \A t \in 0 .. special_value : Range(RefsAt(loc, t)) \subseteq Reference
           /\ \A loc \in Nat : \A t \in 0 .. special_value : Range(Vector_range(loc, t)) \subseteq Reference
           /\ \A a \in Nat : Range(AST_range(a)) \subseteq Reference
<1>1. \A a : Word(a) \in 0 .. special_value
  BY WordTyped DEF Readable
<1>2. ASSUME NEW loc, NEW t \in 0 .. special_value
      PROVE  Range(RefsAt(loc, t)) \subseteq Reference
  <2>1. CASE t # 0 /\ ver(t) = con_vec
    <3>1. IsHeapType(t)
      BY <2>1, Fieldless, Tags
    <3>2. DOMAIN Subtypes(t) = 1 .. Word(t + 1) /\ \A i \in 1 .. Word(t + 1) : Subtypes(t)[i] = Word(t + 1 + i)
      BY <2>1, <3>1, SubtypesByTag, Sizes DEF Readable
    <3>3. \A i \in DOMAIN Subtypes(t) : Ref(Word(loc + i - 1), Subtypes(t)[i]) \in Reference
      BY <1>1, <3>2, Refs
    <3> QED
      BY <2>1, <3>3 DEF RefsAt, Range
  <2>2. CASE ~ (t # 0 /\ ver(t) = con_vec)
    <3>1. Ref(Word(loc), t) \in Reference
      BY <1>1, Refs
    <3>2. RefsAt(loc, t) = <<Ref(Word(loc), t)>>
      BY <2>2 DEF RefsAt
    <3> QED
      BY <3>1, <3>2 DEF Range
  <2> QED
    BY <2>1, <2>2
<1>3. ASSUME NEW loc \in Nat, NEW t \in 0 .. special_value
      PROVE  Range(Vector_range(loc, t)) \subseteq Reference
  <2>1. \A i \in DOMAIN Elements(loc) : Ref(Elements(loc)[i], t) \in Reference
    BY <1>1, Refs DEF Elements
  <2> QED
    BY <2>1 DEF Vector_range, Range
<1>4. ASSUME NEW a \in Nat
      PROVE  Range(AST_range(a)) \subseteq Reference
  <2>1. AST_pointer \in 0 .. special_value
    BY Tags, Sizes
  <2>2. CASE Word(a) = imv
    BY <2>2, Tags DEF AST_range, Range
  <2>3. CASE Word(a) = basicblock
    <3>1. AST_range(a) = Vector_range(Word(a + 1), AST_pointer)
      BY <2>3, Tags DEF AST_range
    <3>2. Word(a + 1) \in Nat
      BY <1>1
    <3> QED
      BY <1>3, <2>1, <3>1, <3>2
  <2>4. CASE Word(a) # imv /\ Word(a) # basicblock
    <3>1. AST_range(a) = [i \in 1 .. get_field_size_of_AST(Word(a)) |-> Ref(Word(a + i), AST_pointer)]
      BY <2>4 DEF AST_range
    <3>2. \A i : Ref(Word(a + i), AST_pointer) \in Reference
      BY <1>1, <2>1, Refs
    <3> QED
      BY <3>1, <3>2 DEF Range
  <2> QED
    BY <2>2, <2>3, <2>4
<1> QED
  BY <1>2, <1>3, <1>4

\* What a reference leads to are references.
LEMMA TargetsTyped ==
    ASSUME Readable, NEW r \in Reference
    PROVE  Targets(r) \subseteq Reference
<1>1. /\ r.val \in Nat /\ r.type \in Nat /\ r.val \in 0 .. special_value /\ r.type \in 0 .. special_value
      /\ \A a : Word(a) \in 0 .. special_value
      /\ type_pointer \in 0 .. special_value /\ dynamic_object \in 0 .. special_value
  BY Refs, Tags, Sizes, WordTyped DEF Readable
<1>2. CASE ~ Leads(r)
  BY <1>2 DEF Targets
<1>3. CASE Leads(r) /\ r.type = dynamic_object
  <2>1. Ref(Word(r.val), type_pointer) \in Reference
    BY <1>1, Refs
  <2>2. Range(RefsAt(r.val + 1, Word(r.val))) \subseteq Reference
    BY <1>1, WordsRead
  <2> QED
    BY <1>3, <2>1, <2>2, TargetsByKind
<1>4. CASE Leads(r) /\ r.type = AST_pointer
  <2>1. type_roots[1] \in 0 .. special_value
    BY <1>4, Tags DEF Readable, Leads
  <2>3. Ref(Word(r.val + 1), dynamic_object) \in Reference /\ Ref(Word(r.val + 1), type_roots[1]) \in Reference
    BY <1>1, <2>1, Refs
  <2>2. Range(AST_range(r.val)) \subseteq Reference
    BY <1>1, WordsRead
  <2> QED
    BY <1>4, <2>2, <2>3, TargetsByKind
<1>5. CASE Leads(r) /\ r.type = type_pointer
  <2>1. Targets(r) = {Ref(u, type_pointer) : u \in Range(Subtypes(r.val))}
    BY <1>5, TargetsByKind
  <2>2. \A u \in Range(Subtypes(r.val)) : u \in 0 .. special_value
    <3>1. CASE IsHeapType(r.val) /\ Word(r.val) \in {con_vec, vector, pointer}
      BY <1>1, <3>1, SubtypesByTag DEF Readable
    <3>2. CASE ~ (IsHeapType(r.val) /\ Word(r.val) \in {con_vec, vector, pointer})
      <4>1. Subtypes(r.val) = <<>>
        BY <3>2, Tags DEF Subtypes, ver
      <4> QED
        BY <4>1 DEF Range
    <3> QED
      BY <3>1, <3>2
  <2> QED
    BY <1>1, <2>1, <2>2, Refs
<1>6. CASE Leads(r) /\ r.type = function_pointer
  <2>1. r.val \in Slots
    BY <1>6, FlaggedSlots, Tags DEF Leads
  <2>2. functions[r.val].return_type \in 0 .. special_value /\ functions[r.val].code \subseteq Reference
    BY <2>1 DEF Readable, Functional
  <2> QED
    BY <1>1, <1>6, <2>2, TargetsByKind, Refs
<1>7. CASE Leads(r) /\ IsHeapType(r.type) /\ ver(r.type) \in {vector, pointer}
  <2>1. Subtypes(r.type)[1] = Word(r.type + 1)
    BY <1>1, <1>7, SubtypesByTag DEF Readable, ver
  <2>2. Subtypes(r.type)[1] \in 0 .. special_value
    BY <1>1, <2>1
  <2> QED
    BY <1>1, <1>7, <2>2, TargetsByKind, WordsRead
<1>8. CASE /\ r.type \notin {dynamic_object, AST_pointer, type_pointer, function_pointer}
           /\ ~ (IsHeapType(r.type) /\ ver(r.type) \in {vector, pointer})
  <2>1. /\ r.type # dynamic_object /\ r.type # AST_pointer /\ r.type # type_pointer /\ r.type # function_pointer
        /\ ~ (IsHeapType(r.type) /\ ver(r.type) = vector) /\ ~ (IsHeapType(r.type) /\ ver(r.type) = pointer)
    BY <1>8
  <2>2. Targets(r) = {}
    BY <2>1 DEF Targets
  <2> QED
    BY <2>2
<1> QED
  BY <1>2, <1>3, <1>4, <1>5, <1>6, <1>7, <1>8

\* One round of FullClosure.
FullLeadOn(refs) == LeadOn(refs \cup FunctionASTs(refs))

\* The image of a finite set is finite.
LEMMA ImageIsFinite ==
    ASSUME NEW S, NEW T, NEW f \in [S -> T], IsFiniteSet(S)
    PROVE  IsFiniteSet({f[x] : x \in S})
<1> DEFINE I == {f[x] : x \in S}
<1>1. f \in Surjection(S, I)
  BY DEF Surjection
<1> HIDE DEF I
<1>2. IsFiniteSet(I)
  BY <1>1, FS_Surjection
<1> QED
  BY <1>2 DEF I

\* There are finitely many references, so a closure comes to an end.
LEMMA ReferencesAreFinite == IsFiniteSet(Reference)
<1> DEFINE D == 0 .. special_value
           V == D \X D
           f == [p \in V |-> Ref(p[1], p[2])]
<1>1. IsFiniteSet(D)
  BY Sizes, FS_Interval
<1>2. IsFiniteSet(V)
  BY <1>1, FS_Product
<1>3. f \in [V -> Reference]
  BY Refs
<1>4. Reference \subseteq {f[p] : p \in V}
  <2> SUFFICES ASSUME NEW r \in Reference
               PROVE  r \in {f[p] : p \in V}
    OBVIOUS
  <2>1. <<r.val, r.type>> \in V /\ r = Ref(r.val, r.type)
    BY Refs
  <2>2. f[<<r.val, r.type>>] = Ref(r.val, r.type)
    BY <2>1
  <2> HIDE DEF V, f
  <2> QED
    BY <2>1, <2>2
<1> HIDE DEF V, f
<1>5. IsFiniteSet({f[p] : p \in V})
  BY <1>2, <1>3, ImageIsFinite
<1> QED
  BY <1>4, <1>5, FS_Subset

\* Following references gives references.
LEMMA LeadOnTyped ==
    ASSUME Readable, NEW refs \in SUBSET Reference
    PROVE  LeadOn(refs) \subseteq Reference /\ FunctionASTs(refs) \subseteq Reference
<1>1. \A r \in refs : Targets(r) \subseteq Reference
  BY TargetsTyped
<1>2. \A r \in refs : Ref(r.type, type_pointer) \in Reference
  BY Refs, Tags, Sizes
<1>3. ASSUME NEW r \in refs, r.type = function_pointer, Leads(r)
      PROVE  Ref(functions[r.val].the_AST, AST_pointer) \in Reference
  <2>1. r.val \in Slots
    BY <1>3, FlaggedSlots, Tags DEF Leads
  <2> QED
    BY <2>1, Refs, Tags, Sizes DEF Readable, Functional
<1> QED
  BY <1>1, <1>2, <1>3 DEF LeadOn, FunctionASTs

\* Each round of a closure only adds references.
LEMMA LeadOnGrows ==
    ASSUME Readable
    PROVE  /\ Growing(Reference, [s \in SUBSET Reference |-> LeadOn(s)])
           /\ Growing(Reference, [s \in SUBSET Reference |-> FullLeadOn(s)])
<1>1. \A s, t : s \subseteq t => s \subseteq LeadOn(s) /\ LeadOn(s) \subseteq LeadOn(t) /\ FunctionASTs(s) \subseteq FunctionASTs(t)
  BY DEF LeadOn, FunctionASTs
<1>2. \A s, t : s \subseteq t => s \subseteq FullLeadOn(s) /\ FullLeadOn(s) \subseteq FullLeadOn(t)
  <2> SUFFICES ASSUME NEW s, NEW t, s \subseteq t
               PROVE  s \subseteq FullLeadOn(s) /\ FullLeadOn(s) \subseteq FullLeadOn(t)
    OBVIOUS
  <2> DEFINE s2 == s \cup FunctionASTs(s)
             t2 == t \cup FunctionASTs(t)
  <2>1. s2 \subseteq t2
    BY <1>1
  <2>2. s2 \subseteq LeadOn(s2) /\ LeadOn(s2) \subseteq LeadOn(t2)
    BY <1>1, <2>1
  <2> QED
    BY <2>2 DEF FullLeadOn
<1>3. \A s \in SUBSET Reference : LeadOn(s) \in SUBSET Reference /\ FullLeadOn(s) \in SUBSET Reference
  <2> SUFFICES ASSUME NEW s \in SUBSET Reference
               PROVE  LeadOn(s) \in SUBSET Reference /\ FullLeadOn(s) \in SUBSET Reference
    OBVIOUS
  <2>1. s \cup FunctionASTs(s) \in SUBSET Reference
    BY LeadOnTyped
  <2> QED
    BY <2>1, LeadOnTyped DEF FullLeadOn
<1> QED
  BY <1>1, <1>2, <1>3 DEF Growing

\* Closure and FullClosure are what their definitions say.
LEMMA ClosuresFollow ==
    ASSUME Readable
    PROVE  /\ Follows(Reference, [s \in SUBSET Reference |-> LeadOn(s)], Closure)
           /\ Follows(Reference, [s \in SUBSET Reference |-> FullLeadOn(s)], FullClosure)
<1> DEFINE U == Reference
           grow == [s \in SUBSET U |-> LeadOn(s)]
           full == [s \in SUBSET U |-> FullLeadOn(s)]
           IsClosure(f) == f = [refs \in SUBSET U |-> IF LeadOn(refs) = refs THEN refs ELSE f[LeadOn(refs)]]
           IsFull(f) == f = [refs \in SUBSET U |-> IF FullLeadOn(refs) = refs THEN refs ELSE f[FullLeadOn(refs)]]
<1>1. Growing(U, grow) /\ Growing(U, full)
  BY LeadOnGrows
<1>2. \A f : Follows(U, grow, f) <=> IsClosure(f)
  BY DEF Follows
<1>3. \A f : Follows(U, full, f) <=> IsFull(f)
  BY DEF Follows
<1>4. \E f : IsClosure(f)
  <2> HIDE DEF U, grow, IsClosure
  <2> QED
    BY <1>1, <1>2, FollowingExists
<1>5. \E f : IsFull(f)
  <2> HIDE DEF U, full, IsFull
  <2> QED
    BY <1>1, <1>3, FollowingExists
<1>6. Closure = CHOOSE f : IsClosure(f)
  BY DEF Closure
<1>7. FullClosure = CHOOSE f : IsFull(f)
  BY DEF FullClosure, FullLeadOn
<1> HIDE DEF IsClosure, IsFull, grow, full, U
<1>8. IsClosure(Closure)
  BY <1>4, <1>6
<1>9. IsFull(FullClosure)
  BY <1>5, <1>7
<1>10. Follows(U, grow, Closure) /\ Follows(U, full, FullClosure)
  BY <1>2, <1>3, <1>8, <1>9
<1> QED
  BY <1>10 DEF grow, full, U

\* A closure is the least set with the references that leads nowhere else.
LEMMA ClosureIsLeast ==
    ASSUME Readable, NEW refs \in SUBSET Reference
    PROVE  /\ \A t \in SUBSET Reference : LeadOn(t) = t /\ refs \subseteq t => Closure[refs] \subseteq t
           /\ \A t \in SUBSET Reference : FullLeadOn(t) = t /\ refs \subseteq t => FullClosure[refs] \subseteq t
           /\ FullClosure[refs] \in SUBSET Reference /\ refs \subseteq FullClosure[refs]
           /\ FullLeadOn(FullClosure[refs]) = FullClosure[refs]
           /\ LeadOn(Closure[refs]) = Closure[refs] /\ refs \subseteq Closure[refs]
<1> DEFINE U == Reference
           grow == [s \in SUBSET U |-> LeadOn(s)]
           full == [s \in SUBSET U |-> FullLeadOn(s)]
<1>1. /\ Growing(U, grow) /\ Growing(U, full) /\ IsFiniteSet(U)
      /\ Follows(U, grow, Closure) /\ Follows(U, full, FullClosure)
  BY LeadOnGrows, ClosuresFollow, ReferencesAreFinite
<1>2. \A t \in SUBSET U : grow[t] = LeadOn(t) /\ full[t] = FullLeadOn(t)
  OBVIOUS
<1>3. refs \in SUBSET U
  OBVIOUS
<1> HIDE DEF U, grow, full
<1>4. Closure[refs] = Least(U, grow, refs) /\ FullClosure[refs] = Least(U, full, refs)
  BY <1>1, <1>3, FollowingEnds
<1>5. /\ Least(U, grow, refs) \in Fixed(U, grow) /\ refs \subseteq Least(U, grow, refs)
      /\ \A t \in Fixed(U, grow) : refs \subseteq t => Least(U, grow, refs) \subseteq t
  BY <1>1, <1>3, LeastIsFixed
<1>6. /\ Least(U, full, refs) \in Fixed(U, full) /\ refs \subseteq Least(U, full, refs)
      /\ \A t \in Fixed(U, full) : refs \subseteq t => Least(U, full, refs) \subseteq t
  BY <1>1, <1>3, LeastIsFixed
<1>7. /\ \A t \in SUBSET U : LeadOn(t) = t /\ refs \subseteq t => Closure[refs] \subseteq t
      /\ \A t \in SUBSET U : FullLeadOn(t) = t /\ refs \subseteq t => FullClosure[refs] \subseteq t
      /\ FullClosure[refs] \in SUBSET U /\ refs \subseteq FullClosure[refs]
      /\ FullLeadOn(FullClosure[refs]) = FullClosure[refs]
      /\ LeadOn(Closure[refs]) = Closure[refs] /\ refs \subseteq Closure[refs]
  BY <1>2, <1>4, <1>5, <1>6 DEF Fixed
<1> QED
  BY <1>7 DEF U

-----------------------------------------------------------------------------
\* Of sound references, the closed sets are those that a round leaves alone.
LEMMA ClosedLeadsOn ==
    ASSUME NEW rk, NEW S, \A r \in S : Sound(rk, r)
    PROVE  /\ LeadOn(S) = S <=> Closed(S)
           /\ FullLeadOn(S) = S <=> Closed(S) /\ ASTsKept(S)
<1>1. LeadOn(S) = S <=> Closed(S)
  BY DEF LeadOn, Closed
<1>2. ASTsKept(S) <=> FunctionASTs(S) \subseteq S
  <2>1. \A r \in S : r.type = function_pointer => (Leads(r) <=> r.val # 0)
    BY LeadsWhenSound, Tags DEF Leading
  <2>2. FunctionASTs(S) = {Ref(functions[r.val].the_AST, AST_pointer) :
                              r \in {q \in S : q.type = function_pointer /\ q.val # 0}}
    BY <2>1 DEF FunctionASTs
  <2> QED
    BY <2>2 DEF ASTsKept
<1>3. S \cup FunctionASTs(S) \subseteq FullLeadOn(S)
  BY DEF FullLeadOn, LeadOn
<1>4. FunctionASTs(S) \subseteq S => FullLeadOn(S) = LeadOn(S)
  <2> SUFFICES ASSUME FunctionASTs(S) \subseteq S
               PROVE  FullLeadOn(S) = LeadOn(S)
    OBVIOUS
  <2>1. S \cup FunctionASTs(S) = S
    OBVIOUS
  <2> QED
    BY <2>1 DEF FullLeadOn
<1> QED
  BY <1>1, <1>2, <1>3, <1>4

\* A shape is its own closure.
LEMMA ShapeReads ==
    ASSUME NEW G, NEW rk, MemTyped, Functional, Shape(G, rk)
    PROVE  Readable /\ LeadOn(G) = G /\ FullLeadOn(G) = G
<1>1. Ref(type_roots[1], type_pointer) \in Reference
  BY DEF Shape
<1>2. type_roots[1] \in 0 .. special_value
  BY <1>1, Refs
<1> QED
  BY <1>2, ClosedLeadsOn DEF Readable, Shape

\* What the program can get hold of is in the shape.
LEMMA KnownInShape ==
    ASSUME NEW G, NEW rk, MemTyped, Functional, Shape(G, rk), RootRefs \cup held \subseteq G
    PROVE  Known \subseteq G /\ InUse \subseteq G /\ Rooted \subseteq G
<1>1. Readable /\ LeadOn(G) = G /\ FullLeadOn(G) = G /\ G \in SUBSET Reference
  BY ShapeReads DEF Shape
<1>2. RootRefs \cup held \in SUBSET Reference /\ RootRefs \in SUBSET Reference
  BY <1>1
<1>3. Known \subseteq G
  BY <1>1, <1>2, ClosureIsLeast DEF Known
<1>4. InUse \subseteq G
  BY <1>1, <1>2, ClosureIsLeast DEF InUse
<1>5. Rooted \subseteq G
  BY <1>1, <1>2, ClosureIsLeast DEF Rooted
<1> QED
  BY <1>3, <1>4, <1>5

------------------------------------------------------------------------------
(* What the program holds is in the shape *)

\* No type is in G twice.
TypesApart(G) == \A t, u \in HeapTypes(G) : SameType(t, u) => t = u

\* The table of unique types has the types of G and no others, subtypes included.
Tabled(G) ==
    /\ HeapTypes(G) \subseteq type_hash_table
    /\ type_hash_table \subseteq FieldlessTypes \cup HeapTypes(G)
    /\ \A t \in HeapTypes(G) : Range(Subtypes(t)) \subseteq type_hash_table

\* p is where a field of an AST of G is.
FieldOf(G, p) ==
    \E r \in G : /\ r.type = AST_pointer /\ r.val # 0 /\ Word(r.val) \in DOMAIN ASTFields
                 /\ \E i \in 1 .. ASTFields[Word(r.val)] : p = r.val + i

\* The type of the copier.
CopierTyped ==
    copier \in [what : {"compile", "AST_from_function"}, source : Nat, copied : {copier.copied},
                todo : Seq(Nat), result : Nat, return_type : Nat, code : SUBSET Reference]

\* Everything the copier holds is in G, and it has yet to fill in fields of ASTs of G.
CopierIn(G) ==
    copier # NoCopy =>
        /\ CopierTyped
        /\ copier.what = "compile" => "compile" \in Menu
        /\ Ref(copier.source, AST_pointer) \in G /\ Ref(copier.result, AST_pointer) \in G
        /\ Ref(copier.return_type, type_pointer) \in G /\ copier.code \subseteq G
        /\ 0 \in DOMAIN copier.copied
        /\ \A x \in DOMAIN copier.copied : Ref(copier.copied[x], AST_pointer) \in G
        /\ \A j \in DOMAIN copier.todo : copier.todo[j] = ResultPlace \/ FieldOf(G, copier.todo[j])

\* G has nothing that the roots do not reach.
Minimal(G) ==
    \A S \in SUBSET G : Closed(S) /\ ASTsKept(S) /\ RootRefs \subseteq S => G \subseteq S \cup Base

-----------------------------------------------------------------------------
\* A field of an AST stays one.
LEMMA FieldKept ==
    ASSUME NEW G, NEW rk, NEW D \in SUBSET G, NEW N, Typed, Shape(G, rk), Moves(G, D), NEW p, FieldOf(G, p),
           \A r \in D : r.type = AST_pointer /\ r.val # 0 => Word(r.val)' = Word(r.val)
    PROVE  FieldOf(G \cup N, p)'
<1>1. PICK r \in G : /\ r.type = AST_pointer /\ r.val # 0 /\ Word(r.val) \in DOMAIN ASTFields
                     /\ \E i \in 1 .. ASTFields[Word(r.val)] : p = r.val + i
  BY DEF FieldOf
<1>2. Word(r.val)' = Word(r.val)
  <2>1. Solid(r)
    BY <1>1, Tags DEF Solid
  <2>2. CASE r \in D
    BY <1>1, <2>2
  <2>3. CASE r \notin D
    BY <2>1, <2>3, RefMoves
  <2> QED
    BY <2>2, <2>3
<1> QED
  BY <1>1, <1>2 DEF FieldOf, AST_pointer

\* A step that makes no type leaves the types and their table as they were.
LEMMA TypesStay ==
    ASSUME NEW G, NEW rk, NEW D \in SUBSET G, NEW N, Typed, Shape(G, rk), Moves(G, D),
           \A r \in N : r.type # type_pointer
    PROVE  /\ HeapTypes(G \cup N)' = HeapTypes(G)
           /\ TypesApart(G) => TypesApart(G \cup N)'
           /\ Tabled(G) /\ type_hash_table' = type_hash_table => Tabled(G \cup N)'
<1>1. HeapTypes(G \cup N) = HeapTypes(G)
  BY Refs DEF HeapTypes
<1>2. HeapTypes(G \cup N)' = HeapTypes(G)
  BY <1>1 DEF HeapTypes, IsHeapType, never_reached, Ref, type_pointer
<1>3. \A t \in HeapTypes(G) : ver(t)' = ver(t) /\ Subtypes(t)' = Subtypes(t)
  BY MovesTypes DEF TypeKept
<1>4. TypesApart(G) => TypesApart(G \cup N)'
  BY <1>2, <1>3 DEF TypesApart, SameType
<1>5. Tabled(G) /\ type_hash_table' = type_hash_table => Tabled(G \cup N)'
  BY <1>2, <1>3 DEF Tabled, Range, FieldlessTypes, integer, dynamic_object, AST_pointer, type_pointer, function_pointer
<1> QED
  BY <1>2, <1>4, <1>5

\* Nothing that is read of the objects changes.
Still == UNCHANGED <<mem, objects, functions, function_pool_flags, type_roots>>

\* Types are read as before when nothing changes.
LEMMA StillTypes ==
    Still => /\ \A a : Word(a)' = Word(a)
             /\ \A t : ver(t)' = ver(t) /\ Subtypes(t)' = Subtypes(t) /\ get_size(t)' = get_size(t)
                       /\ total_valid_fields(t)' = total_valid_fields(t)
                       /\ (IsHeapType(t)' <=> IsHeapType(t)) /\ (OneWord(t)' <=> OneWord(t))
<1> SUFFICES ASSUME Still
             PROVE  /\ \A a : Word(a)' = Word(a)
                    /\ \A t : ver(t)' = ver(t) /\ Subtypes(t)' = Subtypes(t) /\ get_size(t)' = get_size(t)
                              /\ total_valid_fields(t)' = total_valid_fields(t)
                              /\ (IsHeapType(t)' <=> IsHeapType(t)) /\ (OneWord(t)' <=> OneWord(t))
  OBVIOUS
<1>1. \A a : Word(a)' = Word(a)
  BY DEF Still, Word, Pool, PoolEnd
<1>2. \A t : (IsHeapType(t)' <=> IsHeapType(t)) /\ ver(t)' = ver(t)
  BY <1>1 DEF IsHeapType, never_reached, ver
<1>3. ASSUME NEW t
      PROVE  Subtypes(t)' = Subtypes(t)
  <2>1. PICK n : n = Word(t + 1) /\ n = Word(t + 1)'
    BY <1>1
  <2>2. [i \in 1 .. n |-> Word(t + 1 + i)'] = [i \in 1 .. n |-> Word(t + 1 + i)]
    BY <1>1
  <2>3. [i \in 1 .. Word(t + 1)' |-> Word(t + 1 + i)'] = [i \in 1 .. Word(t + 1) |-> Word(t + 1 + i)]
    BY <2>1, <2>2
  <2> QED
    BY <1>1, <1>2, <2>3 DEF Subtypes, con_vec, vector, pointer
<1>4. \A t : get_size(t)' = get_size(t) /\ total_valid_fields(t)' = total_valid_fields(t)
  BY <1>1, <1>2, <1>3 DEF get_size, total_valid_fields, con_vec
<1>5. \A t : OneWord(t)' <=> OneWord(t)
  BY <1>2 DEF OneWord, FieldlessTypes, vector, pointer, integer, dynamic_object, AST_pointer, type_pointer, function_pointer
<1> QED
  BY <1>1, <1>2, <1>3, <1>4, <1>5

\* The references of a shape lead where they led.
LEMMA StillMoves ==
    ASSUME NEW G, NEW rk, Typed, Shape(G, rk), Still
    PROVE  Moves(G, {})
<1>1. MemTyped' /\ type_roots' = type_roots /\ \A a : Word(a)' = Word(a)
  BY StillTypes DEF Typed, MemTyped, Still, Pool, PoolEnd
<1>2. \A r \in G : Solid(r) => BlockOf(r) \in objects'
  BY DEF Shape, Sound, Still
<1>3. \A r \in G : r.type = function_pointer /\ r.val # 0 =>
        r.val \in Flagged(function_pool_flags)' /\ functions'[r.val] = functions[r.val]
  <2>1. Flagged(function_pool_flags)' = Flagged(function_pool_flags)
    BY DEF Still, Flagged, Slots, Bit
  <2> QED
    BY <2>1 DEF Shape, Sound, Still
<1> QED
  BY <1>1, <1>2, <1>3 DEF Moves, Agree

\* A shape stays when nothing that is read changes.
LEMMA StillShape ==
    ASSUME NEW G, NEW rk, Typed, Shape(G, rk), Still
    PROVE  /\ Shape(G, rk)' /\ HeapTypes(G)' = HeapTypes(G)
           /\ \A r \in G : Targets(r)' = Targets(r) /\ (Solid(r) => BlockOf(r)' = BlockOf(r))
<1>1. Moves(G, {})
  BY StillMoves
<1> DEFINE D == {}
           N == {}
<1>2. D \in SUBSET G /\ N \in SUBSET Reference /\ rk \in [Nat -> Nat] /\ Distinct(G, N)
  BY DEF Shape, Distinct
<1>5. \A r \in D \cup N : Fits(G \cup N, rk, r)'
  OBVIOUS
<1>6. Moves(G, D) /\ \A t \in HeapTypes(G) : rk[t] = rk[t]
  BY <1>1
<1> HIDE DEF D, N
<1>7. Shape(G \cup N, rk)'
  BY <1>2, <1>5, <1>6, ShapeMoves
<1>3. G \cup N = G
  BY DEF N
<1>4. \A r \in G : Targets(r)' = Targets(r) /\ (Solid(r) => BlockOf(r)' = BlockOf(r))
  BY <1>1, RefMoves DEF BlockOf
<1> QED
  BY <1>7, <1>3, <1>4 DEF HeapTypes, IsHeapType, never_reached, Ref, type_pointer

\* The bit masks of the function pool.
Masks == [Blocks -> 0 .. Power[BlockBits] - 1]

\* The types of the function pool, and its agreement with the JIT.
FunctionTypings ==
    /\ Functional
    /\ function_pool_flags \in Masks
    /\ modules = Flagged(function_pool_flags)

\* The types of what a trace works with.
TraceTypings ==
    /\ sweep_function_pool_flags \in Masks
    /\ to_be_marked \in Seq([op : {"mark", "contents", "uniquefy"}, val : Nat, type : Nat])

\* The types of all variables.
Typings ==
    /\ MemTyped /\ FunctionTypings /\ TraceTypings
    /\ Flagged(sweep_function_pool_flags) \subseteq Flagged(function_pool_flags)
    /\ type_roots \in Seq(Nat) /\ event_roots \in Seq(Slots)
    /\ type_hash_table \subseteq Nat /\ held \subseteq Reference
    /\ error \in {"none", "OOM", "OOM function"}

\* r is of a kind that the operations of Menu make.
OnMenu(r) ==
    /\ r.type = AST_pointer /\ Solid(r) =>
          /\ Word(r.val) = imv => "imv" \in Menu
          /\ Word(r.val) = basicblock => "basicblock" \in Menu
    /\ r.type = function_pointer /\ r.val # 0 => "compile" \in Menu

\* The same of all references of G.
AllOnMenu(G) == \A r \in G : OnMenu(r)

-----------------------------------------------------------------------------
(* What machine code holds is kept by the ASTs of its function, to which nobody
   else has access *)

\* Words of objects get into machine code.
Bakes == "imv" \in Menu /\ "compile" \in Menu

\* The ASTs of G.
ASTsIn(G) == {r \in G : r.type = AST_pointer /\ r.val # 0}

\* The fields of the ASTs of T are in T.
FieldsClosed(T) == \A r \in T : \A q \in Targets(r) : q.type = AST_pointer /\ q.val # 0 => q \in T

\* q is in an object of an imv of T.
Holds(T, q) == \E r \in T : \E d \in Targets(r) : d.type = dynamic_object /\ q \in Targets(d)

\* Of the ASTs of W, those below a hold all of code, whatever else they do.
Keeps(W, a, code) ==
    /\ FieldsClosed(W) /\ Ref(a, AST_pointer) \in W
    /\ \A T \in SUBSET W : FieldsClosed(T) /\ Ref(a, AST_pointer) \in T => \A q \in code : Holds(T, q)

\* The ASTs of P keep what the code of the function f holds.
KeptBy(P, f) == IF Bakes THEN Keeps(P, f.the_AST, f.code) ELSE f.code = {}

\* The ASTs that the copier has made.
Copies ==
    IF copier = NoCopy THEN {}
    ELSE {Ref(copier.copied[x], AST_pointer) : x \in DOMAIN copier.copied} \ {Ref(0, AST_pointer)}

\* The i-th field of c, a copy of x by f, is that of x, and then its copy.
FieldCopied(f, todo, x, c, i) ==
    IF c + i \in Range(todo) THEN Word(c + i) = Word(x + i)
    ELSE Word(x + i) \in DOMAIN f /\ Word(c + i) = f[Word(x + i)]

\* The imv c has a copy of the object of the imv x.
ObjectCopied(x, c) ==
    \/ Word(x + 1) = 0 /\ Word(c + 1) = 0
    \/ /\ Word(x + 1) # 0 /\ Word(c + 1) # 0
       /\ Targets(Ref(Word(c + 1), dynamic_object)) = Targets(Ref(Word(x + 1), dynamic_object))

\* c is a copy of the AST x but for the fields that are still to be copied.
CopyOf(f, todo, x, c) ==
    /\ c # 0 /\ c \notin DOMAIN f /\ Word(c) = Word(x)
    /\ Word(x) \in DOMAIN ASTFields => \A i \in 1 .. ASTFields[Word(x)] : FieldCopied(f, todo, x, c, i)
    /\ Word(x) = imv => ObjectCopied(x, c)

\* p is where a field of a copy is.
FieldOfCopy(f, p) ==
    \E x \in DOMAIN f \ {0} :
        /\ Word(x) \in DOMAIN ASTFields
        /\ \E i \in 1 .. ASTFields[Word(x)] : p = f[x] + i

\* What the copies are to their originals, by the copier's map f.
Mirror(G, f, todo) ==
    /\ f[0] = 0
    /\ \A x \in DOMAIN f : Ref(x, AST_pointer) \in G
    /\ \A x \in DOMAIN f \ {0} : CopyOf(f, todo, x, f[x])
    /\ \A j \in DOMAIN todo : todo[j] = ResultPlace \/ FieldOfCopy(f, todo[j])
    /\ \A j, k \in DOMAIN todo : todo[j] = todo[k] => j = k

\* The copier's work so far.
CopierGuard(G, P) ==
    copier # NoCopy =>
        /\ P \cap Copies = {} /\ Ref(copier.source, AST_pointer) \notin Copies
        /\ copier.what = "compile" =>
              IF Bakes THEN \E W \in SUBSET (ASTsIn(G) \ Copies) : Keeps(W, copier.source, copier.code)
              ELSE copier.code = {}
        /\ Mirror(G, copier.copied, copier.todo)
        /\ ResultPlace \notin Range(copier.todo) =>
              copier.source \in DOMAIN copier.copied /\ copier.result = copier.copied[copier.source]

\* P are the ASTs of the functions: the program cannot get at them, nor at
\* those the copier is making, and they keep what the machine code holds.
Guard(G, P) ==
    /\ P \subseteq ASTsIn(G) /\ FieldsClosed(P) /\ (~ Bakes => P = {})
    /\ \A r \in G : r \notin P \cup Copies => Targets(r) \cap (P \cup Copies) = {}
    /\ held \cap (P \cup Copies) = {}
    /\ \A r \in G : r.type = function_pointer /\ r.val # 0 => KeptBy(P, functions[r.val])
    /\ CopierGuard(G, P)

\* No machine code holds a word.
CodeEmpty(G) ==
    /\ \A r \in G : r.type = function_pointer /\ r.val # 0 => functions[r.val].code = {}
    /\ copier # NoCopy => copier.code = {}

\* A copy shares the elements of a basicblock with its original.
Guarded(G) == IF "basicblock" \in Menu THEN CodeEmpty(G) ELSE \E P : Guard(G, P)

-----------------------------------------------------------------------------
\* The objects while the program runs.
World(G, rk) ==
    /\ Shape(G, rk) /\ AllOnMenu(G) /\ Guarded(G)
    /\ RootRefs \cup held \subseteq G
    /\ TypesApart(G) /\ Tabled(G)
    /\ CopierIn(G)

\* The program has not initialised its types yet.
Fresh ==
    /\ type_roots = <<>> /\ event_roots = <<>> /\ held = {} /\ copier = NoCopy /\ objects = {}
    /\ Flagged(function_pool_flags) = {}
    /\ type_hash_table = FieldlessTypes

-----------------------------------------------------------------------------
\* What keeps the types of the variables.
LEMMA TypingsKept ==
    ASSUME Typings, MemTyped', FunctionTypings', UNCHANGED <<traceVars, type_roots, event_roots, error>>,
           Flagged(function_pool_flags) \subseteq Flagged(function_pool_flags)',
           type_hash_table' \subseteq Nat, held' \subseteq Reference
    PROVE  Typings'
<1>1. TraceTypings' /\ Flagged(sweep_function_pool_flags)' = Flagged(sweep_function_pool_flags)
  BY DEF Typings, TraceTypings, traceVars, Masks, Blocks, Power, Flagged, Slots, Bit
<1>2. type_roots' \in Seq(Nat) /\ event_roots' \in Seq(Slots)' /\ error' \in {"none", "OOM", "OOM function"}
  BY DEF Typings, Slots
<1>3. held' \subseteq Reference'
  BY DEF Reference
<1> QED
  BY <1>1, <1>2, <1>3 DEF Typings

\* The function pool stays as it is when it is not changed.
LEMMA FunctionsStay ==
    FunctionTypings /\ UNCHANGED functionVars =>
        FunctionTypings' /\ Flagged(function_pool_flags)' = Flagged(function_pool_flags)
BY DEF FunctionTypings, Functional, functionVars, Masks, Blocks, Power, Flagged, Slots, Bit, Reference

\* What a world is, for the steps that follow.
LEMMA WorldFacts ==
    ASSUME HeapInv, Typings, NEW G, NEW rk, World(G, rk)
    PROVE  Typed /\ Shape(G, rk) /\ G \in SUBSET Reference /\ Base \subseteq G /\ rk \in [Nat -> Nat]
BY DEF HeapInv, TypeOK, Typed, Typings, World, Shape

\* A step of the program that changes D and adds N keeps the world if it does so soundly.
LEMMA ProgramGrows ==
    ASSUME HeapInv, Typings, NEW G, NEW rk, World(G, rk),
           NEW D \in SUBSET G, NEW N \in SUBSET Reference,
           Moves(G, D), \A r \in D \cup N : Fits(G \cup N, rk, r)' /\ OnMenu(r)', Distinct(G, N),
           \A r \in N : r.type # type_pointer, type_hash_table' = type_hash_table,
           RootRefs' \cup held' \subseteq G \cup N,
           CopierIn(G \cup N)', Guarded(G \cup N)'
    PROVE  World(G \cup N, rk)'
<1>1. Typed /\ Shape(G, rk) /\ rk \in [Nat -> Nat]
  BY WorldFacts
<1>2. Shape(G \cup N, rk)'
  <2>1. \A r \in D \cup N : Fits(G \cup N, rk, r)'
    OBVIOUS
  <2>2. \A t \in HeapTypes(G) : rk[t] = rk[t]
    OBVIOUS
  <2> QED
    BY <1>1, <2>1, <2>2, ShapeMoves
<1>3. TypesApart(G \cup N)' /\ Tabled(G \cup N)'
  BY <1>1, TypesStay DEF World
<1>4. ASSUME NEW r \in G \ D
      PROVE  OnMenu(r)'
  <2>1. Solid(r) => Word(r.val)' = Word(r.val)
    BY <1>1, RefMoves
  <2>2. OnMenu(r)
    BY DEF World, AllOnMenu
  <2>3. r.type = function_pointer /\ r.val # 0 => functions'[r.val] = functions[r.val]
    BY DEF Moves
  <2> QED
    BY <2>1, <2>2, <2>3 DEF OnMenu, Solid, IsHeapType, never_reached, integer, function_pointer,
       AST_pointer, type_pointer, imv, basicblock
<1>5. AllOnMenu(G \cup N)'
  BY <1>4 DEF AllOnMenu
<1> QED
  BY <1>2, <1>3, <1>5 DEF World, NoCopy

\* A function on 1 .. n is a sequence.
LEMMA FunctionIsSeq ==
    ASSUME NEW V, NEW n \in Nat, NEW f \in [1 .. n -> V]
    PROVE  f \in Seq(V) /\ Len(f) = n
OBVIOUS

\* What the program can get at is in the world.
LEMMA KnownIn ==
    ASSUME HeapInv, Typings, NEW G, NEW rk, World(G, rk)
    PROVE  /\ \A t : \A v \in Objects(t) : v # 0 /\ Ref(v, t) \in G
           /\ \A t \in FieldlessTypes : \A v \in Nullable(t) : Ref(v, t) \in G
           /\ Types \subseteq FieldlessTypes \cup HeapTypes(G)
           /\ \A t \in FieldlessTypes \cup HeapTypes(G) : Ref(t, type_pointer) \in G
<1>1. Known \subseteq G /\ Base \subseteq G /\ G \subseteq Reference
  BY KnownInShape, WorldFacts DEF World, Typings, FunctionTypings
<1>2. ASSUME NEW t, NEW v \in Values(t)
      PROVE  Ref(v, t) \in G
  <2>1. PICK r \in Known : r.type = t /\ r.val = v
    BY DEF Values
  <2>2. r \in G /\ r = Ref(r.val, r.type)
    BY <1>1, Refs
  <2> QED
    BY <2>1, <2>2
<1>3. \A t : \A v \in Objects(t) : v # 0 /\ Ref(v, t) \in G
  BY <1>2 DEF Objects
<1>4. \A t \in FieldlessTypes : \A v \in Nullable(t) : Ref(v, t) \in G
  <2> SUFFICES ASSUME NEW t \in FieldlessTypes, NEW v \in Nullable(t)
               PROVE  Ref(v, t) \in G
    OBVIOUS
  <2>1. v \in Values(t) \/ v = 0
    BY DEF Nullable
  <2>2. Ref(0, t) \in G
    BY <1>1 DEF Base
  <2> QED
    BY <1>2, <2>1, <2>2
<1>5. \A t \in FieldlessTypes : Ref(t, type_pointer) \in G
  BY <1>1 DEF Base
<1>6. ASSUME NEW t \in Objects(type_pointer)
      PROVE  t \in FieldlessTypes \cup HeapTypes(G)
  <2>1. Ref(t, type_pointer) \in G /\ t # 0
    BY <1>3, <1>6
  <2>2. Sound(rk, Ref(t, type_pointer)) /\ t \in Nat
    BY <1>1, <2>1, Refs, Sizes DEF World, Shape
  <2>3. t \in FieldlessTypes \/ IsHeapType(t)
    BY <2>1, <2>2, Refs DEF Sound
  <2> QED
    BY <2>1, <2>2, <2>3 DEF HeapTypes
<1>7. Types \subseteq FieldlessTypes \cup HeapTypes(G)
  BY <1>6, CollectorAssumption DEF Types, FieldlessTypes
<1> QED
  BY <1>3, <1>4, <1>5, <1>7 DEF HeapTypes

\* What is stored at a type of one word is a reference of the world.
LEMMA StorableIn ==
    ASSUME HeapInv, Typings, NEW G, NEW rk, World(G, rk), NEW t \in Nat, OneWord(t), NEW w \in Storable(t)
    PROVE  Ref(w, t) \in G /\ w \in 0 .. special_value
<1>1. Ref(w, t) \in G
  <2>1. CASE t = integer
    <3>1. Storable(t) = {0}
      BY <2>1, Tags DEF Storable
    <3>2. Ref(0, t) \in Base
      BY <2>1 DEF Base, FieldlessTypes
    <3> QED
      BY <3>1, <3>2, WorldFacts
  <2>2. CASE t \in {dynamic_object, AST_pointer, type_pointer, function_pointer}
    <3>1. t # integer /\ t \in FieldlessTypes
      BY <2>2, Tags
    <3>2. w \in Nullable(t)
      BY <2>2, <3>1 DEF Storable
    <3> QED
      BY <3>1, <3>2, KnownIn
  <2>3. CASE t \notin FieldlessTypes
    <3>1. w \in Objects(t)
      BY <2>3 DEF Storable, FieldlessTypes
    <3> QED
      BY <3>1, KnownIn
  <2> QED
    BY <2>1, <2>2, <2>3 DEF FieldlessTypes
<1>2. Ref(w, t) \in Reference
  BY <1>1, WorldFacts
<1> QED
  BY <1>1, <1>2, Refs

\* The contents of an object of a type are references of the world.
LEMMA ContentsIn ==
    ASSUME HeapInv, Typings, NEW G, NEW rk, World(G, rk), NEW t \in FieldlessTypes \cup HeapTypes(G),
           NEW ws \in Contents(t)
    PROVE  /\ ws \in Seq(0 .. special_value) /\ Len(ws) = get_size(t) /\ get_size(t) \in Nat \ {0}
           /\ \/ /\ OneWord(t) /\ Len(ws) = 1 /\ Ref(ws[1], t) \in G
              \/ /\ IsHeapType(t) /\ ver(t) = con_vec /\ Len(ws) = Word(t + 1)
                 /\ \A i \in 1 .. Word(t + 1) : Ref(ws[i], Subtypes(t)[i]) \in G
<1>1. Typed /\ Shape(G, rk) /\ MemTyped
  BY WorldFacts DEF Typed
<1>2. /\ t \in Nat
      /\ IsHeapType(t) => /\ t \in HeapTypes(G) /\ MadeType(rk, t) /\ ver(t) = Word(t) /\ ver(t) \in {con_vec, vector, pointer}
                          /\ \A u \in Range(Subtypes(t)) : u \in FieldlessTypes \cup HeapTypes(G)
  <2>1. t \in FieldlessTypes => t \in Nat /\ ~ IsHeapType(t)
    BY Tags
  <2>2. t \in HeapTypes(G) => /\ t \in Nat /\ MadeType(rk, t) /\ ver(t) = Word(t) /\ ver(t) \in {con_vec, vector, pointer}
                              /\ \A u \in Range(Subtypes(t)) : u \in FieldlessTypes \cup HeapTypes(G)
    BY <1>1, TypeFacts
  <2> QED
    BY <2>1, <2>2
<1>3. CASE OneWord(t)
  <2>1. ver(t) # con_vec
    BY <1>3, Tags, Fieldless DEF OneWord
  <2>2. PICK w \in Storable(t) : ws = <<w>>
    BY <2>1 DEF Contents
  <2>3. Ref(w, t) \in G /\ w \in 0 .. special_value /\ get_size(t) = 1
    BY <1>2, <1>3, <2>2, StorableIn, RefsByType
  <2> QED
    BY <1>3, <2>2, <2>3
<1>4. CASE ~ OneWord(t)
  <2>1. IsHeapType(t) /\ ver(t) = con_vec
    BY <1>2, <1>4 DEF OneWord, HeapTypes
  <2>2. /\ DOMAIN Subtypes(t) = 1 .. Word(t + 1) /\ get_size(t) = Word(t + 1) /\ Word(t + 1) \in Nat
        /\ Range(Subtypes(t)) = {Word(t + 1 + i) : i \in 1 .. Word(t + 1)}
        /\ \A i \in 1 .. Word(t + 1) : Subtypes(t)[i] = Word(t + 1 + i)
    <3>1. Word(t) = con_vec /\ t \in Nat
      BY <1>2, <2>1
    <3>2. /\ DOMAIN Subtypes(t) = 1 .. Word(t + 1)
          /\ Range(Subtypes(t)) = {Word(t + 1 + i) : i \in 1 .. Word(t + 1)}
          /\ \A i \in 1 .. Word(t + 1) : Subtypes(t)[i] = Word(t + 1 + i)
      BY <1>1, <2>1, <3>1, SubtypesByTag
    <3>3. get_size(t) = Word(t + 1)
      BY <1>1, <2>1, <3>1, RefsByType
    <3>4. Word(t + 1) \in Nat
      BY <1>1, WordTyped, Sizes
    <3> QED
      BY <3>2, <3>3, <3>4
  <2> DEFINE n == Word(t + 1)
  <2>3. /\ DOMAIN ws = 1 .. n /\ \A i \in 1 .. n : ws[i] \in Storable(Subtypes(t)[i])
        /\ ws = [i \in 1 .. n |-> ws[i]]
    BY <2>1, <2>2 DEF Contents
  <2>4. ASSUME NEW i \in 1 .. n
        PROVE  Ref(ws[i], Subtypes(t)[i]) \in G /\ ws[i] \in 0 .. special_value
    <3>1. Subtypes(t)[i] \in Range(Subtypes(t))
      BY <2>2
    <3>2. OneWord(Subtypes(t)[i]) /\ Subtypes(t)[i] \in Nat
      BY <1>2, <2>1, <3>1, Tags DEF MadeType, HeapTypes
    <3> QED
      BY <2>3, <3>2, StorableIn
  <2>5. n # 0
    <3>1. Subtypes(t) # <<>>
      BY <1>2, <2>1 DEF MadeType
    <3>2. Subtypes(t) = [i \in 1 .. n |-> Word(t + 1 + i)]
      BY <2>1, Tags DEF Subtypes
    <3> HIDE DEF n
    <3> QED
      BY <3>1, <3>2
  <2>6. n \in Nat /\ n = get_size(t)
    BY <2>2
  <2> HIDE DEF n
  <2>7. ws \in [1 .. n -> 0 .. special_value]
    BY <2>3, <2>4
  <2>8. ws \in Seq(0 .. special_value) /\ Len(ws) = n
    BY <2>6, <2>7, FunctionIsSeq
  <2> QED
    BY <2>1, <2>4, <2>5, <2>6, <2>8 DEF n
<1> QED
  BY <1>3, <1>4

-----------------------------------------------------------------------------
\* A block apart from the objects is apart from what the references lead to.
LEMMA Elsewhere ==
    ASSUME HeapInv, Typings, NEW G, NEW rk, World(G, rk), NEW b \in Block, \A o \in objects : Apart(o, b)
    PROVE  /\ \A o \in objects : Words(o) \cap Words(b) = {}
           /\ \A r \in G : Solid(r) => r.val # b.addr
           /\ b.addr \in 0 .. special_value /\ b.addr # 0 /\ b.addr \in Nat /\ IsHeapType(b.addr)
           /\ b.addr \in Words(b)
<1>1. objects \subseteq Block /\ Typed /\ Shape(G, rk)
  BY WorldFacts DEF Typed
<1>2. \A o \in objects : Words(o) \cap Words(b) = {}
  BY <1>1, ApartWords
<1>3. b.addr \in Nat /\ b.size >= 1 /\ b.size \in Nat /\ b.addr >= big_memory_pool /\ b.addr + b.size <= PoolEnd
  BY BlockFacts
<1>4. b.addr \in Words(b)
  BY <1>3 DEF Words
<1>5. ASSUME NEW r \in G, Solid(r), r.val = b.addr
      PROVE  FALSE
  <2>1. BlockOf(r) \in objects /\ BlockOf(r) \in Block /\ BlockOf(r).addr = r.val
    BY <1>1, <1>5, SolidFacts DEF BlockOf, Shape, Sound
  <2>2. r.val \in Words(BlockOf(r))
    BY <2>1, BlockFacts DEF Words
  <2> QED
    BY <1>2, <1>4, <1>5, <2>1, <2>2
<1>6. b.addr \in 0 .. special_value /\ b.addr # 0 /\ IsHeapType(b.addr)
  BY <1>3, Sizes, Tags
<1> QED
  BY <1>2, <1>3, <1>4, <1>5, <1>6

\* A new object: the words are written to it, and nothing else changes.
LEMMA NewObject ==
    ASSUME HeapInv, Typings, NEW G, NEW rk, World(G, rk),
           NEW size \in Nat \ {0}, NEW k \in BestFit(free_memory, size), AllocateAt(size, k),
           NEW words \in Seq(0 .. special_value), Len(words) <= size,
           mem' = Write(mem, k.addr, words), UNCHANGED <<type_roots, functionVars>>
    PROVE  /\ HeapInv' /\ phase' = "program" /\ MemTyped' /\ Moves(G, {})
           /\ Issued(k, size) \in objects' /\ \A r \in G : Solid(r) => r.val # k.addr
           /\ k.addr \in 0 .. special_value /\ k.addr # 0 /\ k.addr \in Nat /\ IsHeapType(k.addr)
           /\ \A i \in 1 .. Len(words) : Word(k.addr + i - 1)' = words[i]
<1> DEFINE b == Issued(k, size)
<1>1. /\ HeapInv' /\ phase' = "program" /\ b \in Block /\ objects' = objects \cup {b}
      /\ \A o \in objects : Apart(o, b)
  BY AllocateAtStep
<1>2. b.addr = k.addr /\ b.size = size
  BY DEF Issued
<1>3. /\ \A o \in objects : Words(o) \cap Words(b) = {}
      /\ \A r \in G : Solid(r) => r.val # b.addr
      /\ b.addr \in 0 .. special_value /\ b.addr # 0 /\ b.addr \in Nat /\ IsHeapType(b.addr)
  BY <1>1, Elsewhere
<1>4. mem \in Memories
  BY DEF Typings, MemTyped, Memories
<1>5. /\ mem' \in Memories
      /\ \A i \in 1 .. Len(words) : WordIn(mem', b.addr + i - 1) = words[i]
      /\ \A w : w \notin Words(b) => WordIn(mem', w) = WordIn(mem, w)
  BY <1>1, <1>2, <1>4, WriteIn
<1>6. MemTyped'
  BY <1>5, TypedNext
<1>7. \A w : Word(w)' = Word(w) \/ \A o \in objects : w \notin Words(o)
  BY <1>3, <1>5, WordOf, WordOfNext
<1>8. Typed /\ Shape(G, rk)
  BY WorldFacts
<1>9. \A r \in G : r.type = function_pointer /\ r.val # 0 =>
         r.val \in Flagged(function_pool_flags)' /\ functions'[r.val] = functions[r.val]
  BY <1>8, FunctionsStay DEF Typings, functionVars, Shape, Sound
<1> DEFINE D == {}
<1>10. Moves(G, D)
  <2>1. D \in SUBSET G /\ \A r \in D : r.type # type_pointer
    OBVIOUS
  <2>2. \A r \in G \ D : r.type = AST_pointer /\ Solid(r) /\ Word(r.val) = basicblock =>
               Ref(Word(r.val + 1), type_roots[1]) \notin D
    OBVIOUS
  <2>3. \A r \in G \ D : r.type = function_pointer /\ r.val # 0 =>
               r.val \in Flagged(function_pool_flags)' /\ functions'[r.val] = functions[r.val]
    BY <1>9
  <2>4. \A w : \/ Word(w)' = Word(w)
               \/ \A o \in objects : w \notin Words(o)
               \/ \E d \in D : Solid(d) /\ w \in Words(BlockOf(d))
    BY <1>7
  <2> HIDE DEF D
  <2>5. type_roots' = type_roots /\ objects \subseteq objects'
    BY <1>1
  <2> QED
    BY <1>6, <1>8, <2>1, <2>2, <2>3, <2>4, <2>5, MovesIntro
<1> QED
  BY <1>1, <1>2, <1>3, <1>5, <1>6, <1>10, WordOfNext

------------------------------------------------------------------------------
(* What the functions keep *)

\* The ASTs of W, and the objects their imvs hold, lead where they led.
SameBelow(W) ==
    \A r \in W : /\ Targets(r)' = Targets(r)
                 /\ \A d \in Targets(r) : d.type = dynamic_object => Targets(d)' = Targets(d)

\* What such ASTs keep, they still keep.
LEMMA KeepsStays ==
    ASSUME NEW W, SameBelow(W)
    PROVE  /\ FieldsClosed(W)' <=> FieldsClosed(W)
           /\ \A T \in SUBSET W : \A q : Holds(T, q)' <=> Holds(T, q)
           /\ \A a, code : Keeps(W, a, code) => Keeps(W, a, code)'
<1>1. \A r \in W : Targets(r)' = Targets(r)
  BY DEF SameBelow
<1>2. \A r \in W : \A d \in Targets(r) : d.type = dynamic_object => Targets(d)' = Targets(d)
  BY DEF SameBelow
<1>3. \A T \in SUBSET W : FieldsClosed(T)' <=> FieldsClosed(T)
  <2> SUFFICES ASSUME NEW T \in SUBSET W
               PROVE  FieldsClosed(T)' <=> FieldsClosed(T)
    OBVIOUS
  <2>1. \A r \in T : Targets(r)' = Targets(r)
    BY <1>1
  <2> QED
    BY <2>1 DEF FieldsClosed, AST_pointer
<1>4. \A T \in SUBSET W : \A q : Holds(T, q)' <=> Holds(T, q)
  <2> SUFFICES ASSUME NEW T \in SUBSET W, NEW q
               PROVE  Holds(T, q)' <=> Holds(T, q)
    OBVIOUS
  <2>1. \A r \in T : Targets(r)' = Targets(r)
    BY <1>1
  <2>2. \A r \in T : \A d \in Targets(r) : d.type = dynamic_object => Targets(d)' = Targets(d)
    BY <1>2
  <2> QED
    BY <2>1, <2>2 DEF Holds, dynamic_object
<1>5. ASSUME NEW a, NEW code, Keeps(W, a, code)
      PROVE  Keeps(W, a, code)'
  <2>1. FieldsClosed(W)' /\ Ref(a, AST_pointer)' \in W
    BY <1>3, <1>5 DEF Keeps, Ref, AST_pointer
  <2>2. ASSUME NEW T \in SUBSET W, FieldsClosed(T)', Ref(a, AST_pointer)' \in T, NEW q \in code
        PROVE  Holds(T, q)'
    <3>1. FieldsClosed(T) /\ Ref(a, AST_pointer) \in T
      BY <1>3, <2>2 DEF Ref, AST_pointer
    <3>2. Holds(T, q)
      BY <1>5, <3>1, <2>2 DEF Keeps
    <3> QED
      BY <1>4, <3>2
  <2> QED
    BY <2>1, <2>2 DEF Keeps
<1>6. \A a, code : Keeps(W, a, code) => Keeps(W, a, code)'
  BY <1>5
<1> QED
  BY <1>3, <1>4, <1>6

\* The same of the functions that stay.
LEMMA KeptByStays ==
    ASSUME NEW W, SameBelow(W), NEW s, KeptBy(W, functions[s]), functions'[s] = functions[s]
    PROVE  KeptBy(W, functions[s])'
<1>1. PICK a, code : a = functions[s].the_AST /\ code = functions[s].code
  OBVIOUS
<1>2. CASE Bakes
  <2>1. Keeps(W, a, code)'
    BY <1>1, <1>2, KeepsStays DEF KeptBy
  <2>2. a = functions'[s].the_AST /\ code = functions'[s].code
    BY <1>1
  <2>3. Keeps(W, functions[s].the_AST, functions[s].code)'
    BY <2>1, <2>2 DEF Keeps, Ref
  <2> QED
    BY <1>2, <2>3 DEF KeptBy, Bakes
<1>3. CASE ~ Bakes
  BY <1>3 DEF KeptBy, Bakes
<1> QED
  BY <1>2, <1>3

\* ASTs outside D are such, when D has no dynamic objects.
LEMMA SameBelowMoves ==
    ASSUME NEW G, NEW rk, NEW D, Typed, Shape(G, rk), Moves(G, D), NEW W, W \subseteq G \ D,
           \A r \in D : r.type # dynamic_object
    PROVE  SameBelow(W)
<1>1. ASSUME NEW r \in W
      PROVE  Targets(r)' = Targets(r) /\ \A d \in Targets(r) : d.type = dynamic_object => Targets(d)' = Targets(d)
  <2>1. r \in G \ D
    OBVIOUS
  <2>2. Targets(r)' = Targets(r)
    BY <2>1, RefMoves
  <2>3. Targets(r) \subseteq G
    BY <2>1 DEF Shape, Closed
  <2>4. ASSUME NEW d \in Targets(r), d.type = dynamic_object
        PROVE  Targets(d)' = Targets(d)
    <3>1. d \in G \ D
      BY <2>3, <2>4
    <3> QED
      BY <3>1, RefMoves
  <2> QED
    BY <2>2, <2>4
<1> QED
  BY <1>1 DEF SameBelow

\* What the program can get hold of is none of the ASTs of functions.
LEMMA KnownIsPublic ==
    ASSUME HeapInv, Typings, NEW G, NEW rk, World(G, rk), NEW P, Guard(G, P), copier = NoCopy
    PROVE  Known \cap P = {}
<1>1. /\ Typed /\ Shape(G, rk) /\ G \in SUBSET Reference /\ MemTyped /\ Functional
      /\ RootRefs \cup held \subseteq G
  BY WorldFacts DEF World, Typings, FunctionTypings
<1>2. Readable
  BY <1>1, ShapeReads
<1>3. Copies = {}
  BY DEF Copies
<1>4. /\ P \subseteq ASTsIn(G) /\ \A r \in G : r \notin P => Targets(r) \cap P = {}
      /\ held \cap P = {}
  BY <1>3 DEF Guard
<1>5. PICK U : U = G \ P
  OBVIOUS
<1>6. U \in SUBSET Reference /\ U \subseteq G /\ \A r \in U : Sound(rk, r)
  BY <1>1, <1>5 DEF Shape
<1>7. Closed(U)
  <2>1. ASSUME NEW r \in U
        PROVE  Targets(r) \subseteq U
    BY <1>1, <1>4, <1>5, <2>1 DEF Shape, Closed
  <2>2. ASSUME NEW r \in U, IsHeapType(r.type)
        PROVE  Ref(r.type, type_pointer) \in U
    <3>1. Ref(r.type, type_pointer) \in G
      BY <1>1, <1>5, <2>2 DEF Shape, Closed
    <3>2. Ref(r.type, type_pointer).type # AST_pointer
      BY Refs, Tags
    <3> QED
      BY <1>4, <1>5, <3>1, <3>2 DEF ASTsIn
  <2> QED
    BY <2>1, <2>2 DEF Closed
<1>8. LeadOn(U) = U
  BY <1>6, <1>7, ClosedLeadsOn
<1>9. RootRefs \cup held \subseteq U
  <2>1. \A r \in RootRefs : r.type # AST_pointer
    BY Refs, Tags DEF RootRefs
  <2>2. held \cap P = {}
    BY <1>4
  <2> QED
    BY <1>1, <1>4, <1>5, <2>1, <2>2 DEF ASTsIn
<1>10. RootRefs \cup held \in SUBSET Reference
  BY <1>6, <1>9
<1>11. Closure[RootRefs \cup held] \subseteq U
  BY <1>2, <1>6, <1>8, <1>9, <1>10, ClosureIsLeast
<1> QED
  BY <1>5, <1>11 DEF Known

\* q is nothing that only a function has.
Visible(q) == q.type # AST_pointer \/ q.val = 0 \/ q \in Known

\* Where there are basicblocks, no step but a compilation puts anything in machine code.
LEMMA BlocksGuarded ==
    ASSUME NEW G, Guarded(G), "basicblock" \in Menu, NEW N, \A r \in N : r.type # function_pointer,
           UNCHANGED functions, copier' # NoCopy => copier'.code = {}
    PROVE  Guarded(G \cup N)'
<1>1. CodeEmpty(G)
  BY DEF Guarded
<1>2. \A r \in G \cup N : r.type = function_pointer /\ r.val # 0 => functions'[r.val].code = {}
  BY <1>1 DEF CodeEmpty
<1>3. CodeEmpty(G \cup N)'
  BY <1>2 DEF CodeEmpty, NoCopy, function_pointer
<1> QED
  BY <1>3 DEF Guarded

\* An operation that changes and adds only what the program can get hold of,
\* and makes no function, leaves alone what the functions keep.
LEMMA GuardGrows ==
    ASSUME HeapInv, Typings, NEW G, NEW rk, World(G, rk), copier = NoCopy, copier' = NoCopy,
           NEW D \in SUBSET G, NEW N, Moves(G, D),
           \A r \in D : Visible(r) /\ r.type \notin {dynamic_object, function_pointer},
           \A r \in N : r.type # function_pointer /\ (r.type = AST_pointer => r \notin G),
           \A r \in D \cup N : \A q \in Targets(r)' : q \in N \/ Visible(q) \/ \E d \in D : q \in Targets(d),
           \A q \in held' : q \in held \cup N \/ Visible(q)
    PROVE  Guarded(G \cup N)'
<1>1. Typed /\ Shape(G, rk)
  BY WorldFacts
<1>2. \A r \in G : r.type = function_pointer /\ r.val # 0 => functions'[r.val] = functions[r.val]
  BY DEF Moves
<1>3. CASE "basicblock" \in Menu
  <2>1. CodeEmpty(G)
    BY <1>3 DEF World, Guarded
  <2>2. \A r \in G \cup N : r.type = function_pointer /\ r.val # 0 => r \in G
    OBVIOUS
  <2>3. \A r \in G \cup N : r.type = function_pointer /\ r.val # 0 => functions'[r.val].code = {}
    BY <1>2, <2>1, <2>2 DEF CodeEmpty
  <2>4. CodeEmpty(G \cup N)'
    BY <2>3 DEF CodeEmpty, NoCopy, function_pointer
  <2> QED
    BY <1>3, <2>4 DEF Guarded
<1>4. CASE "basicblock" \notin Menu
  <2>1. PICK P : Guard(G, P)
    BY <1>4 DEF World, Guarded
  <2>2. Known \cap P = {}
    BY <2>1, KnownIsPublic
  <2>3. Copies = {} /\ Copies' = {}
    BY DEF Copies, NoCopy
  <2>4. /\ P \subseteq ASTsIn(G) /\ FieldsClosed(P) /\ (~ Bakes => P = {})
        /\ \A r \in G : r \notin P => Targets(r) \cap P = {}
        /\ held \cap P = {}
        /\ \A r \in G : r.type = function_pointer /\ r.val # 0 => KeptBy(P, functions[r.val])
    BY <2>1, <2>3 DEF Guard
  <2>5. \A q : Visible(q) => q \notin P
    BY <2>2, <2>4 DEF Visible, ASTsIn
  <2>6. P \subseteq G \ D /\ P \cap N = {}
    BY <2>4, <2>5 DEF ASTsIn
  <2>7. SameBelow(P)
    BY <1>1, <2>6, SameBelowMoves
  <2>8. P \subseteq ASTsIn(G \cup N)' /\ FieldsClosed(P)'
    <3>1. FieldsClosed(P)'
      BY <2>4, <2>7, KeepsStays
    <3> QED
      BY <2>4, <3>1 DEF ASTsIn, AST_pointer
  <2>9. ASSUME NEW r \in G \cup N, r \notin P
        PROVE  Targets(r)' \cap P = {}
    <3>1. CASE r \in G \ D
      <4>1. Targets(r)' = Targets(r)
        BY <1>1, <3>1, RefMoves
      <4> QED
        BY <2>4, <2>9, <3>1, <4>1
    <3>2. CASE r \in D \cup N
      <4>1. ASSUME NEW q \in Targets(r)', q \in P
            PROVE  FALSE
        <5>1. q \notin N /\ ~ Visible(q)
          BY <2>5, <2>6, <4>1
        <5>2. PICK d \in D : q \in Targets(d)
          BY <3>2, <4>1, <5>1
        <5>3. d \in G /\ d \notin P
          BY <2>5
        <5> QED
          BY <2>4, <4>1, <5>2, <5>3
      <4> QED
        BY <4>1
    <3> QED
      BY <2>9, <3>1, <3>2
  <2>10. held' \cap P = {}
    <3>1. ASSUME NEW q \in held', q \in P
          PROVE  FALSE
      BY <2>4, <2>5, <2>6, <3>1
    <3> QED
      BY <3>1
  <2>11. ASSUME NEW r \in G \cup N, r.type = function_pointer, r.val # 0
         PROVE  KeptBy(P, functions[r.val])'
    <3>1. r \in G /\ functions'[r.val] = functions[r.val]
      BY <1>2, <2>11
    <3>2. KeptBy(P, functions[r.val])
      BY <2>4, <2>11, <3>1
    <3> QED
      BY <2>7, <3>1, <3>2, KeptByStays
  <2>12. Guard(G \cup N, P)'
    <3>1. CopierGuard(G \cup N, P)'
      BY DEF CopierGuard, NoCopy
    <3>2. \A r \in G \cup N : r \notin P \cup Copies' => Targets(r)' \cap (P \cup Copies') = {}
      BY <2>3, <2>9
    <3>3. held' \cap (P \cup Copies') = {}
      BY <2>3, <2>10
    <3>4. (\A r \in G \cup N : r.type = function_pointer /\ r.val # 0 => KeptBy(P, functions[r.val]))'
      BY <2>11 DEF function_pointer
    <3>5. ~ Bakes => P = {}
      BY <2>4
    <3> QED
      BY <2>8, <3>1, <3>2, <3>3, <3>4, <3>5 DEF Guard, Bakes
  <2> QED
    BY <1>4, <2>12 DEF Guarded
<1> QED
  BY <1>3, <1>4

\* What the program stores it can get hold of.
LEMMA StorableIsVisible ==
    ASSUME HeapInv, Typings, NEW G, NEW rk, World(G, rk)
    PROVE  /\ \A w \in Nullable(AST_pointer) : Visible(Ref(w, AST_pointer))
           /\ \A t : \A w \in Storable(t) : Visible(Ref(w, t))
           /\ \A v \in Objects(AST_pointer) : Visible(Ref(v, AST_pointer))
<1>1. Known \subseteq Reference
  BY WorldFacts, KnownInShape DEF World, Typings, FunctionTypings, MemTyped
<1>2. ASSUME NEW t, NEW w \in Values(t)
      PROVE  Visible(Ref(w, t))
  <2>1. PICK q \in Known : q.type = t /\ q.val = w
    BY DEF Values
  <2>2. q = Ref(w, t)
    BY <1>1, <2>1 DEF Reference, Ref
  <2> QED
    BY <2>1, <2>2 DEF Visible
<1> QED
  BY <1>2, Refs DEF Nullable, Objects, Storable, Visible

\* The same of the contents of an object.
LEMMA ContentsAreVisible ==
    ASSUME HeapInv, Typings, NEW G, NEW rk, World(G, rk), NEW t \in FieldlessTypes \cup HeapTypes(G),
           NEW ws \in Contents(t)
    PROVE  /\ OneWord(t) => Visible(Ref(ws[1], t))
           /\ IsHeapType(t) /\ ver(t) = con_vec =>
                 \A i \in 1 .. Word(t + 1) : Visible(Ref(ws[i], Subtypes(t)[i]))
<1>1. CASE OneWord(t)
  <2>1. ver(t) # con_vec
    BY <1>1, Tags, Fieldless DEF OneWord
  <2>2. PICK w \in Storable(t) : ws = <<w>>
    BY <2>1 DEF Contents
  <2> QED
    BY <2>1, <2>2, StorableIsVisible
<1>2. CASE IsHeapType(t) /\ ver(t) = con_vec
  <2>1. \A i \in DOMAIN ws : ws[i] \in Storable(Subtypes(t)[i])
    BY <1>2 DEF Contents
  <2>2. DOMAIN ws = 1 .. Word(t + 1)
    <3>1. ws \in Seq(0 .. special_value) /\ Len(ws) = get_size(t)
      BY ContentsIn
    <3>2. get_size(t) = Word(t + 1)
      BY <1>2, Tags DEF get_size, IsHeapType
    <3> QED
      BY <3>1, <3>2
  <2>3. \A i \in 1 .. Word(t + 1) : Visible(Ref(ws[i], Subtypes(t)[i]))
    BY <2>1, <2>2, StorableIsVisible
  <2>4. ~ OneWord(t)
    BY <1>2, Tags, Fieldless DEF OneWord
  <2> QED
    BY <2>3, <2>4
<1> QED
  BY <1>1, <1>2

\* What the program can get hold of leads to nothing else.
LEMMA KnownLeadsOn ==
    ASSUME HeapInv, Typings, NEW G, NEW rk, World(G, rk)
    PROVE  RootRefs \cup held \subseteq Known /\ \A r \in Known : Targets(r) \subseteq Known
<1>1. /\ Shape(G, rk) /\ G \in SUBSET Reference /\ MemTyped /\ Functional
      /\ RootRefs \cup held \subseteq G
  BY WorldFacts DEF World, Typings, FunctionTypings
<1>2. Readable /\ RootRefs \cup held \in SUBSET Reference
  BY <1>1, ShapeReads
<1>3. LeadOn(Known) = Known /\ RootRefs \cup held \subseteq Known
  BY <1>2, ClosureIsLeast DEF Known
<1> QED
  BY <1>3 DEF LeadOn
==============================================================================
