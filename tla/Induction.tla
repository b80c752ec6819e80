----------------------------- MODULE Induction ------------------------------
(* Induction over the natural numbers, as a theorem about a set. *)
EXTENDS Integers, Sequences, FiniteSets, FiniteSetTheorems, WellFoundedInduction, TLAPS

(* A set that has 0, and with every number the next, has all of them: the  *)
(* finite sets 1..n are well founded by inclusion.                         *)
LEMMA NatInduct ==
  ASSUME NEW S \in SUBSET Nat, 0 \in S, \A n \in S : n + 1 \in S
  PROVE  \A n \in Nat : n \in S
<1> SUFFICES ASSUME NEW n \in Nat, n \notin S PROVE FALSE
  OBVIOUS
<1> DEFINE R == StrictSubsetOrdering(Nat)
           T == {1..m : m \in Nat \ S}
<1>1. IsWellFoundedOn(R, FiniteSubsetsOf(Nat))
  BY FS_StrictSubsetOrderingWellFounded
<1>2. T \subseteq FiniteSubsetsOf(Nat) /\ T # {}
  <2>1. \A m \in Nat : 1..m \in SUBSET Nat /\ IsFiniteSet(1..m)
    BY FS_Interval
  <2> QED BY <2>1 DEF FiniteSubsetsOf
<1>3. PICK x \in T : \A y \in T : <<y, x>> \notin R
  <2> HIDE DEF R, T
  <2> QED BY <1>1, <1>2, WFMin
<1>4. PICK m \in Nat \ S : x = 1..m
  BY <1>3
<1>5. m - 1 \in Nat \ S
  BY <1>4
<1>6. 1..m - 1 \in T
  BY <1>5
<1>7. 1..m - 1 \subseteq 1..m /\ m \in 1..m /\ m \notin 1..m - 1
  BY <1>5
<1>8. <<1..m - 1, 1..m>> \in R
  <2>1. 1..m - 1 \in SUBSET Nat /\ 1..m \in SUBSET Nat
    OBVIOUS
  <2>2. 1..m - 1 # 1..m
    BY <1>7
  <2> QED BY <1>7, <2>1, <2>2 DEF StrictSubsetOrdering
<1> QED BY <1>3, <1>4, <1>6, <1>8

(* A set of numbers that is not empty has a smallest one. *)
LEMMA Smallest ==
  ASSUME NEW S \in SUBSET Nat, S # {}
  PROVE  \E n \in S : \A m \in S : n <= m
<1> SUFFICES ASSUME \A n \in S : \E m \in S : ~(n <= m) PROVE FALSE
  OBVIOUS
<1> DEFINE N == {n \in Nat : \A m \in S : n <= m}
<1>1. N \in SUBSET Nat /\ 0 \in N
  OBVIOUS
<1>2. \A n \in N : n + 1 \in N
  <2> TAKE n \in N
  <2>1. n \notin S
    OBVIOUS
  <2>2. \A m \in S : m \in Nat /\ n <= m /\ m # n
    BY <2>1
  <2> QED BY <2>2
<1>3. \A n \in Nat : n \in N
  <2> HIDE DEF N
  <2> QED BY <1>1, <1>2, NatInduct
<1>4. PICK m : m \in S
  OBVIOUS
<1>5. m + 1 \in N
  BY <1>3, <1>4
<1> QED BY <1>4, <1>5

(* The recursive function that FlattenSeq folds with. *)
Joins(s) ==
  CHOOSE f : f = [i \in 1..Len(s) |-> IF i = 1 THEN s[i] ELSE f[i - 1] \o s[i]]

(* There is such a function. *)
LEMMA JoinsExist ==
  ASSUME NEW s, NEW n \in Nat, Len(s) = n
  PROVE  Joins(s) = [i \in 1..n |-> IF i = 1 THEN s[i] ELSE Joins(s)[i - 1] \o s[i]]
<1> DEFINE Is(f, m) == f = [i \in 1..m |-> IF i = 1 THEN s[i] ELSE f[i - 1] \o s[i]]
           N == {m \in Nat : \E f : Is(f, m)}
<1>1. 0 \in N
  <2> DEFINE f == [i \in 1..0 |-> s[i]]
  <2>1. Is(f, 0)
    OBVIOUS
  <2> QED BY <2>1
<1>2. ASSUME NEW m \in N PROVE m + 1 \in N
  <2> PICK f : Is(f, m)
    BY <1>2
  <2>1. m \in Nat
    BY <1>2
  <2> DEFINE g == [i \in 1..m + 1 |->
                     IF i \in 1..m THEN f[i] ELSE IF i = 1 THEN s[i] ELSE f[m] \o s[i]]
             b == [i \in 1..m + 1 |-> IF i = 1 THEN s[i] ELSE g[i - 1] \o s[i]]
  <2>2. \A i \in 1..m : f[i] = IF i = 1 THEN s[i] ELSE f[i - 1] \o s[i]
    OBVIOUS
  <2>3. ASSUME NEW i \in 1..m + 1 PROVE g[i] = b[i]
    <3>1. CASE i \in 1..m
      <4>1. g[i] = f[i] /\ (i # 1 => i - 1 \in 1..m /\ i - 1 \in 1..m + 1)
        BY <2>1, <3>1
      <4>2. i # 1 => g[i - 1] = f[i - 1]
        BY <4>1
      <4>3. b[i] = IF i = 1 THEN s[i] ELSE g[i - 1] \o s[i]
        OBVIOUS
      <4> HIDE DEF g, b
      <4> QED BY <2>2, <3>1, <4>1, <4>2, <4>3
    <3>2. CASE i \notin 1..m
      <4>1. i = m + 1
        BY <2>1, <3>2
      <4>2. g[i] = IF i = 1 THEN s[i] ELSE f[m] \o s[i]
        BY <3>2
      <4>3. b[i] = IF i = 1 THEN s[i] ELSE g[i - 1] \o s[i]
        OBVIOUS
      <4>4. i # 1 => m \in 1..m /\ m \in 1..m + 1 /\ i - 1 = m
        BY <2>1, <4>1
      <4>5. i # 1 => g[i - 1] = f[m]
        BY <4>4
      <4> HIDE DEF g, b
      <4> QED BY <4>2, <4>3, <4>5
    <3> QED BY <3>1, <3>2
  <2>4. g = b
    <3>1. \A i \in 1..m + 1 : g[i] = b[i]
      BY <2>3
    <3> QED BY <3>1
  <2>5. Is(g, m + 1)
    BY <2>4
  <2>6. m + 1 \in Nat
    BY <2>1
  <2> HIDE DEF Is
  <2> QED BY <2>5, <2>6
<1>3. N \in SUBSET Nat
  OBVIOUS
<1>4. n \in N
  <2>1. \A m \in N : m + 1 \in N
    BY <1>2
  <2> HIDE DEF N
  <2>2. \A m \in Nat : m \in N
    BY <1>1, <1>3, <2>1, NatInduct
  <2> QED BY <2>2
<1>5. PICK f : Is(f, n)
  BY <1>4
<1> QED BY <1>5 DEF Joins
=============================================================================
