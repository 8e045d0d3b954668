---------------------------- MODULE NaturalLemmas ----------------------------
(***************************************************************************)
(* A fact about the natural numbers that the proofs about timers rest on:   *)
(* the loop sleeps until the first of them, and a check of notifications    *)
(* adds one for the oldest.                                                *)
(***************************************************************************)
EXTENDS Naturals, FiniteSets, FiniteSetTheorems, TLAPS

(* The least of a set of naturals is the one with the smallest 0 .. m below. *)
LEMMA LeastNatural ==
    ASSUME NEW S \in SUBSET Nat, S # {}
    PROVE  \E m \in S : \A o \in S : m <= o
<1> DEFINE R == StrictSubsetOrdering(Nat)
           T == {0 .. m : m \in S}
<1>1. T \subseteq FiniteSubsetsOf(Nat) /\ T # {}
  <2> HIDE DEF T
  <2>1. \A m \in S : 0 .. m \in SUBSET Nat /\ IsFiniteSet(0 .. m)
    <3> TAKE m \in S
    <3>1. 0 \in Int /\ m \in Int
      OBVIOUS
    <3> QED BY <3>1, FS_Interval
  <2>2. \A m \in S : 0 .. m \in FiniteSubsetsOf(Nat)
    BY <2>1 DEF FiniteSubsetsOf
  <2> QED BY <2>2 DEF T
<1>2. \A m, o \in S : o < m => <<0 .. o, 0 .. m>> \in R
  <2> TAKE m, o \in S
  <2>1. o < m => 0 .. o \subseteq 0 .. m /\ m \in 0 .. m /\ m \notin 0 .. o
    OBVIOUS
  <2>2. o < m => 0 .. o # 0 .. m
    BY <2>1
  <2>3. 0 .. o \in SUBSET Nat /\ 0 .. m \in SUBSET Nat
    OBVIOUS
  <2>4. \A a, b \in SUBSET Nat : a \subseteq b /\ a # b => <<a, b>> \in R
    BY DEF StrictSubsetOrdering
  <2> HIDE DEF R
  <2> QED BY <2>1, <2>2, <2>3, <2>4
<1>3. IsWellFoundedOn(R, FiniteSubsetsOf(Nat))
  BY FS_StrictSubsetOrderingWellFounded
<1> HIDE DEF R
<1>4. PICK x \in T : \A y \in T : ~ (<<y, x>> \in R)
  BY <1>1, <1>3, WFMin
<1>5. PICK m \in S : x = 0 .. m
  OBVIOUS
<1>6. \A o \in S : 0 .. o \in T
  OBVIOUS
<1> HIDE DEF T
<1>7. \A o \in S : ~ (o < m)
  BY <1>2, <1>4, <1>5, <1>6
<1> QED BY <1>7

(* The greatest of a bounded set is the one that is least far from the bound. *)
LEMMA GreatestNatural ==
    ASSUME NEW n \in Nat, NEW S \in SUBSET (0 .. n), S # {}
    PROVE  \E m \in S : \A o \in S : m >= o
<1> DEFINE T == {n - m : m \in S}
<1>1. T \in SUBSET Nat /\ T # {}
  <2>1. \A m \in S : n - m \in Nat
    OBVIOUS
  <2> QED BY <2>1
<1>2. PICK t \in T : \A o \in T : t <= o
  <2> HIDE DEF T
  <2> QED BY <1>1, LeastNatural
<1>3. PICK m \in S : t = n - m
  BY <1>2
<1>4. \A o \in S : n - o \in T
  OBVIOUS
<1> HIDE DEF T
<1>5. \A o \in S : n - m <= n - o
  BY <1>2, <1>3, <1>4
<1>6. \A o \in S : o \in Int /\ m \in Int /\ n \in Int
  OBVIOUS
<1> QED BY <1>5, <1>6
=============================================================================
