--------------------------- MODULE IMListProofs ---------------------------
(***************************************************************************)
(* The proofs about IMList, in this order: what Among, Listed and the other *)
(* operators on lists give; that Rebuilt, which calls itself, has a value   *)
(* (Pending counts what is left to be loaded, and a rebuilding inside a     *)
(* rebuilding has less left); that a state can be rebuilt again and again   *)
(* (Good); that the index stays in the list (Steady, Held); that a list in  *)
(* force is rebuilt to itself (Exact); that the disk holds what is in force *)
(* (Saved); that what is current follows the focus (Follow, Rests); and that *)
(* what is not offered is remembered (Still).                              *)
(*                                                                         *)
(* A lemma about Rebuilt assumes itself of the states with less left, in    *)
(* ...Below; RebuiltInduction concludes it for all.  The lemmas about one   *)
(* operator are named for it and for what they say of it.                  *)
(***************************************************************************)
EXTENDS IMList, NaturalLemmas, FiniteSetTheorems, TLAPS

-----------------------------------------------------------------------------
(* Among picks the elements of a sequence that are in a set.               *)

Upto(at, i) == {j \in at : j <= i}

LEMMA UptoCounts ==
    ASSUME NEW n \in Nat, NEW at \in SUBSET (1 .. n)
    PROVE  /\ IsFiniteSet(at) /\ Cardinality(at) \in Nat
           /\ \A i \in at : /\ Cardinality(Upto(at, i)) \in 1 .. Cardinality(at)
                            /\ Cardinality(Upto(at, i)) \in Int
           /\ \A i, j \in at : i < j => Cardinality(Upto(at, i)) < Cardinality(Upto(at, j))
           /\ \A k \in 1 .. Cardinality(at) : \E i \in at : Cardinality(Upto(at, i)) = k
<1>1. IsFiniteSet(1 .. n)
  BY FS_Interval
<1>2. IsFiniteSet(at) /\ Cardinality(at) \in Nat
  BY <1>1, FS_Subset, FS_CardinalityType
<1>3. \A i \in at : /\ IsFiniteSet(Upto(at, i)) /\ Cardinality(Upto(at, i)) \in Nat
                    /\ Cardinality(Upto(at, i)) <= Cardinality(at)
  BY <1>2, FS_Subset, FS_CardinalityType DEF Upto
<1>4. \A i, j \in at : i < j => Cardinality(Upto(at, i)) < Cardinality(Upto(at, j))
  <2> SUFFICES ASSUME NEW i \in at, NEW j \in at, i < j
               PROVE  Cardinality(Upto(at, i)) < Cardinality(Upto(at, j))
    OBVIOUS
  <2>1. Upto(at, i) \in SUBSET Upto(at, j)
    <3>1. \A k \in at : k \in Int
      OBVIOUS
    <3>2. i \in Int /\ j \in Int
      BY <3>1
    <3>3. \A k \in at : k <= i => k <= j
      BY <3>1, <3>2
    <3> QED BY <3>3 DEF Upto
  <2>2. j \in Upto(at, j) /\ j \notin Upto(at, i)
    <3>1. i \in Int /\ j \in Int
      OBVIOUS
    <3> QED BY <3>1 DEF Upto
  <2>3. Upto(at, i) # Upto(at, j)
    BY <2>2
  <2>4. Cardinality(Upto(at, i)) <= Cardinality(Upto(at, j)) /\ Cardinality(Upto(at, i)) # Cardinality(Upto(at, j))
    BY <1>3, <2>1, <2>3, FS_Subset
  <2>5. Cardinality(Upto(at, i)) \in Nat /\ Cardinality(Upto(at, j)) \in Nat
    BY <1>3
  <2> QED BY <2>4, <2>5
<1>5. \A i \in at : Cardinality(Upto(at, i)) \in 1 .. Cardinality(at)
  <2> SUFFICES ASSUME NEW i \in at PROVE Cardinality(Upto(at, i)) # 0
    BY <1>2, <1>3
  <2>1. i \in Upto(at, i)
    BY DEF Upto
  <2> QED BY <1>3, <2>1, FS_EmptySet
<1> DEFINE f == [i \in at |-> Cardinality(Upto(at, i))]
           m == Cardinality(at)
<1>6. f \in Injection(at, 1 .. m)
  <2>1. f \in [at -> 1 .. m]
    BY <1>5
  <2>2. ASSUME NEW i \in at, NEW j \in at, f[i] = f[j] PROVE i = j
    <3>1. ~ (i < j) /\ ~ (j < i)
      BY <1>3, <1>4, <2>2
    <3> QED BY <3>1
  <2> HIDE DEF f
  <2> QED BY <2>1, <2>2 DEF Injection, IsInjective
<1>7. IsFiniteSet(1 .. m) /\ Cardinality(1 .. m) = m
  BY <1>2, FS_Interval
<1>8. f \in Surjection(at, 1 .. m)
  <2> HIDE DEF f
  <2> QED BY <1>6, <1>7, FS_Injection
<1>9. \A k \in 1 .. m : \E i \in at : f[i] = k
  <2> HIDE DEF f
  <2> QED BY <1>8 DEF Surjection
<1> QED BY <1>2, <1>4, <1>5, <1>9

Enumerates(e, m, at) ==
    /\ m \in Nat /\ e \in [1 .. m -> at]
    /\ \A k, l \in 1 .. m : k < l => e[k] < e[l]
    /\ \A i \in at : \E k \in 1 .. m : e[k] = i

Where(seq, S) == {i \in DOMAIN seq : seq[i] \in S}

LEMMA AmongEnumerates ==
    ASSUME NEW seq, NEW n \in Nat, DOMAIN seq = 1 .. n, NEW S
    PROVE  \E m, e :
               /\ Enumerates(e, m, Where(seq, S))
               /\ Among(seq, S) = [k \in 1 .. m |-> seq[e[k]]]
<1> DEFINE at == Where(seq, S)
           m  == Cardinality(at)
           e  == [k \in 1 .. m |-> CHOOSE i \in at : Cardinality(Upto(at, i)) = k]
<1>1. at \in SUBSET (1 .. n)
  BY DEF Where
<1> HIDE DEF at
<1>2. /\ m \in Nat
      /\ \A i \in at : Cardinality(Upto(at, i)) \in 1 .. m
      /\ \A i, j \in at : i < j => Cardinality(Upto(at, i)) < Cardinality(Upto(at, j))
      /\ \A k \in 1 .. m : \E i \in at : Cardinality(Upto(at, i)) = k
  BY <1>1, UptoCounts
<1>3. \A k \in 1 .. m : e[k] \in at /\ Cardinality(Upto(at, e[k])) = k
  BY <1>2
<1>4. \A k, l \in 1 .. m : k < l => e[k] < e[l]
  <2> SUFFICES ASSUME NEW k \in 1 .. m, NEW l \in 1 .. m, k < l, ~ (e[k] < e[l])
               PROVE  FALSE
    OBVIOUS
  <2> DEFINE a == e[k]
             b == e[l]
  <2>1. a \in at /\ b \in at /\ Cardinality(Upto(at, a)) = k /\ Cardinality(Upto(at, b)) = l
    BY <1>3
  <2>2. ~ (a < b)
    OBVIOUS
  <2> HIDE DEF a, b
  <2>3. a = b \/ b < a
    BY <1>1, <2>1, <2>2
  <2>4. a # b
    BY <2>1
  <2>5. b < a
    BY <2>3, <2>4
  <2>6. l < k
    BY <1>2, <2>1, <2>5
  <2> QED BY <1>2, <2>6
<1>5. \A i \in at : \E k \in 1 .. m : e[k] = i
  <2> SUFFICES ASSUME NEW i \in at PROVE \E k \in 1 .. m : e[k] = i
    OBVIOUS
  <2> DEFINE k == Cardinality(Upto(at, i))
             j == e[k]
  <2>1. k \in 1 .. m
    BY <1>2
  <2>2. j \in at /\ Cardinality(Upto(at, j)) = k
    BY <1>3, <2>1
  <2> HIDE DEF j
  <2>3. ~ (i < j) /\ ~ (j < i)
    BY <1>2, <2>1, <2>2
  <2>4. i = j
    BY <1>1, <2>2, <2>3
  <2> QED BY <2>1, <2>4 DEF j
<1>6. Enumerates(e, m, at)
  <2>1. e \in [1 .. m -> at]
    BY <1>3
  <2> HIDE DEF e, m
  <2> QED BY <1>2, <1>4, <1>5, <2>1 DEF Enumerates
<1>7. Among(seq, S) = [k \in 1 .. m |-> seq[e[k]]]
  BY DEF Among, at, Where, Upto
<1> HIDE DEF e, m
<1> QED BY <1>6, <1>7 DEF at


LEMMA EnumeratesCounts ==
    ASSUME NEW n \in Nat, NEW at \in SUBSET (1 .. n), NEW e, NEW m, Enumerates(e, m, at)
    PROVE  /\ Cardinality(at) = m
           /\ \A k \in 1 .. m : Cardinality(Upto(at, e[k])) = k
<1>1. /\ m \in Nat /\ e \in [1 .. m -> at]
      /\ \A k, l \in 1 .. m : k < l => e[k] < e[l]
      /\ \A i \in at : \E k \in 1 .. m : e[k] = i
  BY DEF Enumerates
<1>2. \A k \in 1 .. m : e[k] \in at /\ e[k] \in Nat
  <2>1. \A i \in at : i \in Nat
    OBVIOUS
  <2> QED BY <1>1, <2>1
<1>3. \A k, l \in 1 .. m : e[k] = e[l] => k = l
  <2> SUFFICES ASSUME NEW k \in 1 .. m, NEW l \in 1 .. m, e[k] = e[l], k # l PROVE FALSE
    OBVIOUS
  <2>1. k < l \/ l < k
    BY <1>1
  <2> QED BY <1>1, <1>2, <2>1
<1>4. \A k \in 0 .. m : IsFiniteSet(1 .. k) /\ Cardinality(1 .. k) = k
  <2> SUFFICES ASSUME NEW k \in 0 .. m PROVE IsFiniteSet(1 .. k) /\ Cardinality(1 .. k) = k
    OBVIOUS
  <2>1. k \in Int /\ 1 \in Int /\ k >= 0
    BY <1>1
  <2>2. IsFiniteSet(1 .. k) /\ Cardinality(1 .. k) = IF 1 > k THEN 0 ELSE k - 1 + 1
    BY <2>1, FS_Interval
  <2> QED BY <2>1, <2>2
<1>5. Cardinality(at) = m
  <2>1. e \in Bijection(1 .. m, at)
    BY <1>1, <1>3 DEF Bijection, Injection, Surjection, IsInjective
  <2>2. m \in 0 .. m
    BY <1>1
  <2> QED BY <1>4, <2>1, <2>2, FS_Bijection DEF ExistsBijection
<1>6. ASSUME NEW k \in 1 .. m PROVE Cardinality(Upto(at, e[k])) = k
  <2> DEFINE d == [l \in 1 .. k |-> e[l]]
  <2>1. \A l \in 1 .. k : l \in 1 .. m
    BY <1>1
  <2>2. \A l \in 1 .. k : d[l] \in Upto(at, e[k])
    <3> SUFFICES ASSUME NEW l \in 1 .. k PROVE e[l] \in at /\ e[l] <= e[k]
      BY DEF Upto
    <3>1. l = k \/ l < k
      BY <1>1
    <3> QED BY <1>1, <1>2, <2>1, <3>1
  <2>3. \A i \in Upto(at, e[k]) : \E l \in 1 .. k : d[l] = i
    <3> SUFFICES ASSUME NEW i \in at, i <= e[k] PROVE \E l \in 1 .. k : e[l] = i
      BY DEF Upto
    <3>1. PICK l \in 1 .. m : e[l] = i
      BY <1>1
    <3>2. ~ (k < l)
      BY <1>1, <1>2, <3>1
    <3>3. l \in 1 .. k
      BY <1>1, <3>2
    <3> QED BY <3>1, <3>3
  <2>4. \A l, o \in 1 .. k : d[l] = d[o] => l = o
    BY <1>3, <2>1
  <2>5. d \in [1 .. k -> Upto(at, e[k])]
    BY <2>2
  <2> HIDE DEF d
  <2>6. d \in Bijection(1 .. k, Upto(at, e[k]))
    BY <2>3, <2>4, <2>5 DEF Bijection, Injection, Surjection, IsInjective
  <2>7. k \in 0 .. m
    BY <1>1
  <2> QED BY <1>4, <2>6, <2>7, FS_Bijection DEF ExistsBijection
<1> QED BY <1>5, <1>6

LEMMA EnumerationUnique ==
    ASSUME NEW n \in Nat, NEW at \in SUBSET (1 .. n),
           NEW e, NEW m, Enumerates(e, m, at), NEW d, NEW o, Enumerates(d, o, at)
    PROVE  m = o /\ e = d
<1>0. ASSUME NEW f, NEW q, Enumerates(f, q, at)
      PROVE  /\ Cardinality(at) = q
             /\ \A k \in 1 .. q : Cardinality(Upto(at, f[k])) = k
  BY <1>0, EnumeratesCounts
<1>1. m = o /\ m \in Nat
  <2>1. Cardinality(at) = m /\ Cardinality(at) = o
    BY <1>0
  <2> QED BY <2>1 DEF Enumerates
<1>2. \A k \in 1 .. m : Cardinality(Upto(at, e[k])) = k
  BY <1>0
<1>3. \A k \in 1 .. o : Cardinality(Upto(at, d[k])) = k
  BY <1>0
<1>4. /\ \A i \in at : /\ Cardinality(Upto(at, i)) \in 1 .. Cardinality(at)
                        /\ Cardinality(Upto(at, i)) \in Int
      /\ \A i, j \in at : i < j => Cardinality(Upto(at, i)) < Cardinality(Upto(at, j))
  BY UptoCounts
<1>5. ASSUME NEW k \in 1 .. m PROVE e[k] = d[k]
  <2>1. /\ e[k] \in at /\ Cardinality(Upto(at, e[k])) = k
        /\ d[k] \in at /\ Cardinality(Upto(at, d[k])) = k
    <3>1. e[k] \in at /\ d[k] \in at
      BY <1>1 DEF Enumerates
    <3> QED BY <1>1, <1>2, <1>3, <3>1
  <2> DEFINE a == e[k]
             b == d[k]
  <2>2. a \in at /\ b \in at /\ Cardinality(Upto(at, a)) = Cardinality(Upto(at, b))
    BY <2>1
  <2> HIDE DEF a, b
  <2>3. ~ (a < b) /\ ~ (b < a)
    <3>1. \A i, j \in at : i < j => Cardinality(Upto(at, i)) < Cardinality(Upto(at, j))
      BY <1>4
    <3>2. \A i \in at : Cardinality(Upto(at, i)) \in Int
      BY <1>4
    <3>3. a < b => Cardinality(Upto(at, a)) < Cardinality(Upto(at, b))
      BY <2>2, <3>1
    <3>4. b < a => Cardinality(Upto(at, b)) < Cardinality(Upto(at, a))
      BY <2>2, <3>1
    <3>5. Cardinality(Upto(at, a)) \in Int
      BY <2>2, <3>2
    <3> QED BY <2>2, <3>3, <3>4, <3>5
  <2>4. a = b
    BY <2>2, <2>3
  <2> QED BY <2>4 DEF a, b
<1> QED BY <1>1, <1>5 DEF Enumerates

(* Among is what any increasing enumeration of the places gives.            *)
LEMMA AmongIs ==
    ASSUME NEW seq, NEW n \in Nat, DOMAIN seq = 1 .. n, NEW S,
           NEW e, NEW m, Enumerates(e, m, Where(seq, S))
    PROVE  Among(seq, S) = [k \in 1 .. m |-> seq[e[k]]]
<1>1. PICK o, d :
          Enumerates(d, o, Where(seq, S)) /\ Among(seq, S) = [k \in 1 .. o |-> seq[d[k]]]
  BY AmongEnumerates
<1>2. Where(seq, S) \in SUBSET (1 .. n)
  BY DEF Where
<1>3. m = o /\ e = d
  BY <1>1, <1>2, EnumerationUnique
<1> QED BY <1>1, <1>3

Unique(list) == IsInjective(NamesOf(list))

LEMMA AmongSeq ==
    ASSUME NEW T, NEW seq \in Seq(T), NEW S
    PROVE  /\ Among(seq, S) \in Seq(T \cap S)
           /\ Range(Among(seq, S)) = Range(seq) \cap S
           /\ IsInjective(seq) => IsInjective(Among(seq, S))
           /\ Unique(seq) => Unique(Among(seq, S))
<1>1. PICK n \in Nat : DOMAIN seq = 1 .. n /\ \A i \in DOMAIN seq : seq[i] \in T
  BY Len(seq) \in Nat
<1>a. DOMAIN seq = 1 .. n
  BY <1>1
<1>2. PICK m, e : /\ Enumerates(e, m, Where(seq, S))
                  /\ Among(seq, S) = [k \in 1 .. m |-> seq[e[k]]]
  BY <1>a, AmongEnumerates
<1>3. /\ m \in Nat /\ e \in [1 .. m -> Where(seq, S)]
      /\ \A k, l \in 1 .. m : k < l => e[k] < e[l]
      /\ \A i \in Where(seq, S) : \E k \in 1 .. m : e[k] = i
  BY <1>2 DEF Enumerates
<1>4. \A k \in 1 .. m : e[k] \in DOMAIN seq /\ e[k] \in Int /\ seq[e[k]] \in T \cap S
  BY <1>1, <1>3 DEF Where
<1>5. Among(seq, S) \in Seq(T \cap S)
  BY <1>2, <1>3, <1>4
<1>6. Range(Among(seq, S)) = Range(seq) \cap S
  <2>1. DOMAIN Among(seq, S) = 1 .. m /\ \A k \in 1 .. m : Among(seq, S)[k] = seq[e[k]]
    BY <1>2
  <2>2. \A x \in Range(seq) \cap S : \E k \in 1 .. m : Among(seq, S)[k] = x
    BY <1>3, <2>1 DEF Range, Where
  <2> QED BY <1>4, <2>1, <2>2 DEF Range
<1>7. \A k, l \in 1 .. m : e[k] = e[l] => k = l
  <2> SUFFICES ASSUME NEW k \in 1 .. m, NEW l \in 1 .. m, e[k] = e[l], k # l PROVE FALSE
    OBVIOUS
  <2>1. k < l \/ l < k
    BY <1>3
  <2> QED BY <1>3, <1>4, <2>1
<1>8. IsInjective(seq) => IsInjective(Among(seq, S))
  BY <1>2, <1>4, <1>7 DEF IsInjective
<1>9. Unique(seq) => Unique(Among(seq, S))
  <2> SUFFICES ASSUME Unique(seq) PROVE Unique(Among(seq, S))
    OBVIOUS
  <2>1. \A i, j \in DOMAIN seq : seq[i].name = seq[j].name => i = j
    BY DEF Unique, IsInjective, NamesOf
  <2>2. DOMAIN Among(seq, S) = 1 .. m /\ \A k \in 1 .. m : Among(seq, S)[k] = seq[e[k]]
    BY <1>2
  <2>3. \A k, l \in 1 .. m : Among(seq, S)[k].name = Among(seq, S)[l].name => k = l
    BY <1>4, <1>7, <2>1, <2>2
  <2> QED BY <2>2, <2>3 DEF Unique, IsInjective, NamesOf
<1> QED BY <1>5, <1>6, <1>8, <1>9

LEMMA AmongAmong ==
    ASSUME NEW T, NEW seq \in Seq(T), NEW S, NEW U, U \cap T \subseteq S
    PROVE  Among(Among(seq, S), U) = Among(seq, U)
<1> DEFINE mid == Among(seq, S)
<1>1. PICK n \in Nat : DOMAIN seq = 1 .. n /\ \A i \in DOMAIN seq : seq[i] \in T
  BY Len(seq) \in Nat
<1>2. PICK m, e : /\ Enumerates(e, m, Where(seq, S))
                  /\ mid = [k \in 1 .. m |-> seq[e[k]]]
  <2> HIDE DEF mid
  <2>1. \E m, e : /\ Enumerates(e, m, Where(seq, S))
                  /\ Among(seq, S) = [k \in 1 .. m |-> seq[e[k]]]
    <3>1. DOMAIN seq = 1 .. n
      BY <1>1
    <3> QED BY <3>1, AmongEnumerates
  <2> QED BY <2>1 DEF mid
<1>3. /\ m \in Nat /\ e \in [1 .. m -> Where(seq, S)]
      /\ \A k, l \in 1 .. m : k < l => e[k] < e[l]
      /\ \A i \in Where(seq, S) : \E k \in 1 .. m : e[k] = i
  BY <1>2 DEF Enumerates
<1> HIDE DEF mid
<1>4. DOMAIN mid = 1 .. m /\ \A k \in 1 .. m : mid[k] = seq[e[k]]
  BY <1>2
<1>5. PICK o, d : Enumerates(d, o, Where(mid, U)) /\ Among(mid, U) = [k \in 1 .. o |-> mid[d[k]]]
  BY <1>3, <1>4, AmongEnumerates
<1>6. /\ o \in Nat /\ d \in [1 .. o -> Where(mid, U)]
      /\ \A k, l \in 1 .. o : k < l => d[k] < d[l]
      /\ \A i \in Where(mid, U) : \E k \in 1 .. o : d[k] = i
  BY <1>5 DEF Enumerates
<1> DEFINE c == [k \in 1 .. o |-> e[d[k]]]
<1>7. \A k \in 1 .. o : d[k] \in 1 .. m /\ mid[d[k]] \in U /\ d[k] \in DOMAIN mid
  BY <1>4, <1>6 DEF Where
<1>8. \A k \in 1 .. o : c[k] \in Where(seq, U) /\ seq[c[k]] = mid[d[k]]
  BY <1>3, <1>4, <1>7 DEF Where
<1>9. \A k, l \in 1 .. o : k < l => c[k] < c[l]
  BY <1>3, <1>6, <1>7
<1>10. \A i \in Where(seq, U) : \E k \in 1 .. o : c[k] = i
  <2> SUFFICES ASSUME NEW i \in Where(seq, U) PROVE \E k \in 1 .. o : c[k] = i
    OBVIOUS
  <2>1. i \in Where(seq, S)
    BY <1>1 DEF Where
  <2>2. PICK l \in 1 .. m : e[l] = i
    BY <1>3, <2>1
  <2>3. l \in Where(mid, U)
    BY <1>4, <2>2 DEF Where
  <2> QED BY <1>6, <2>2, <2>3
<1>11. c \in [1 .. o -> Where(seq, U)]
  BY <1>8
<1>12. Among(mid, U) = [k \in 1 .. o |-> seq[c[k]]]
  BY <1>5, <1>8
<1> HIDE DEF c
<1>13. Enumerates(c, o, Where(seq, U))
  BY <1>6, <1>9, <1>10, <1>11 DEF Enumerates
<1>14. Among(seq, U) = [k \in 1 .. o |-> seq[c[k]]]
  BY <1>1, <1>13, AmongIs
<1> QED BY <1>12, <1>14 DEF mid

(* Of a list only whose first part is in the set, Among is that part.       *)
LEMMA AmongFirst ==
    ASSUME NEW T, NEW a \in Seq(T), NEW b \in Seq(T), NEW S,
           Range(a) \subseteq S, Range(b) \cap S = {}
    PROVE  Among(a \o b, S) = a
<1> DEFINE ab == a \o b
           m == Len(a)
           e == [k \in 1 .. m |-> k]
<1>1. /\ m \in Nat /\ DOMAIN a = 1 .. m /\ ab \in Seq(T)
      /\ Len(ab) = m + Len(b) /\ Len(b) \in Nat /\ Len(ab) \in Nat
      /\ DOMAIN ab = 1 .. Len(ab)
      /\ \A i \in 1 .. m : ab[i] = a[i] /\ a[i] \in Range(a)
      /\ \A i \in 1 .. Len(ab) : i > m => ab[i] = b[i - m] /\ i - m \in DOMAIN b
  BY DEF Range
<1>2. \A i \in 1 .. Len(ab) : i > m => ab[i] \notin S
  BY <1>1 DEF Range
<1>3. Where(ab, S) = 1 .. m
  <2>1. 1 .. m \subseteq 1 .. Len(ab)
    BY <1>1
  <2>2. \A i \in 1 .. Len(ab) : ab[i] \in S <=> i \in 1 .. m
    BY <1>1, <1>2
  <2> HIDE DEF ab, m
  <2> QED BY <1>1, <2>1, <2>2 DEF Where
<1>4. Enumerates(e, m, 1 .. m)
  BY <1>1 DEF Enumerates
<1> HIDE DEF ab, m, e
<1>5. Among(ab, S) = [k \in 1 .. m |-> ab[e[k]]]
  BY <1>1, <1>3, <1>4, AmongIs
<1>6. Among(ab, S) = [k \in 1 .. m |-> a[k]]
  BY <1>1, <1>5 DEF e
<1>7. a = [k \in 1 .. m |-> a[k]]
  BY <1>1
<1> QED BY <1>6, <1>7 DEF ab

-----------------------------------------------------------------------------
(* What is left to be loaded, and the types of the operators.              *)

(* How much is left to be loaded: every rebuilding inside a rebuilding has   *)
(* less.                                                                   *)
Pending(s) == Cardinality(s.avail \ s.initialized) + Cardinality(Addon \ s.loaded)

(* Engines that are loaded stay loaded, and the context with the focus is   *)
(* as active as it was.                                                    *)
Onto(s, t) ==
    /\ s.loaded \subseteq t.loaded
    /\ t.ic.here = s.ic.here /\ t.ic.active = s.ic.active

Keeping ==
    {g \in [Instance -> Instance] :
        \A s \in Instance : Pending(g[s]) <= Pending(s) /\ Onto(s, g[s])}

Agree(g, h, s) == \A t \in Instance : Pending(t) < Pending(s) => g[t] = h[t]

LEMMA NameFacts ==
    /\ IsFiniteSet(Name) /\ Order[1] \in Name /\ Range(Order) = Name
    /\ \A i \in DOMAIN Order : Order[i] \in Name
    /\ \A S \in SUBSET Name : IsFiniteSet(S) /\ Cardinality(S) \in Nat
    /\ \A S \in SUBSET Addon : IsFiniteSet(S) /\ Cardinality(S) \in Nat
<1>1. Order \in Seq(Name) /\ Len(Order) > 0 /\ Range(Order) = Name
  BY NameAssumption DEF Name
<1>2. PICK n \in Nat : DOMAIN Order = 1 .. n /\ n > 0
  BY <1>1, Len(Order) \in Nat
<1>3. IsFiniteSet(1 .. n)
  BY <1>2, FS_Interval
<1>4. Order \in Surjection(1 .. n, Name)
  BY <1>1, <1>2 DEF Surjection, Range
<1>5. IsFiniteSet(Name)
  BY <1>3, <1>4, FS_Surjection
<1>6. \A S \in SUBSET Name : IsFiniteSet(S) /\ Cardinality(S) \in Nat
  BY <1>5, FS_Subset, FS_CardinalityType
<1>7. \A S \in SUBSET Addon : IsFiniteSet(S) /\ Cardinality(S) \in Nat
  BY NameAssumption, FS_Subset, FS_CardinalityType
<1> QED BY <1>1, <1>2, <1>5, <1>6, <1>7

LEMMA AmongOrder ==
    ASSUME NEW S
    PROVE  /\ Among(Order, S) \in Seq(Name) /\ Range(Among(Order, S)) = Name \cap S
           /\ IsInjective(Among(Order, S))
<1> DEFINE more == Among(Order, S)
<1>1. Order \in Seq(Name) /\ IsInjective(Order) /\ Range(Order) = Name
  BY NameAssumption, NameFacts
<1>2. more \in Seq(Name \cap S) /\ Range(more) = Name \cap S /\ IsInjective(more)
  BY <1>1, AmongSeq
<1> HIDE DEF more
<1>3. \A i \in 1 .. Len(more) : more[i] \in Name
  BY <1>2
<1> QED BY <1>2, <1>3 DEF more

LEMMA PendingIsNat ==
    ASSUME NEW s \in Instance
    PROVE  Pending(s) \in Nat
<1>1. s.avail \ s.initialized \in SUBSET Name /\ Addon \ s.loaded \in SUBSET Addon
  BY DEF Instance
<1>2. Cardinality(s.avail \ s.initialized) \in Nat /\ Cardinality(Addon \ s.loaded) \in Nat
  BY <1>1, NameFacts
<1> QED BY <1>2 DEF Pending

LEMMA PendingLess ==
    ASSUME NEW s \in Instance, NEW t \in Instance,
           t.avail \ t.initialized \subseteq s.avail \ s.initialized,
           s.loaded \subseteq t.loaded
    PROVE  /\ Pending(t) <= Pending(s)
           /\ t.avail \ t.initialized # s.avail \ s.initialized => Pending(t) < Pending(s)
           /\ t.loaded # s.loaded => Pending(t) < Pending(s)
<1> DEFINE a == s.avail \ s.initialized
           b == t.avail \ t.initialized
           c == Addon \ s.loaded
           d == Addon \ t.loaded
<1>1. /\ a \in SUBSET Name /\ b \in SUBSET a /\ c \in SUBSET Addon /\ d \in SUBSET c
      /\ s.loaded \subseteq Addon /\ t.loaded \subseteq Addon
  BY DEF Instance
<1>2. t.loaded # s.loaded => c # d
  BY <1>1
<1>3. Pending(s) = Cardinality(a) + Cardinality(c) /\ Pending(t) = Cardinality(b) + Cardinality(d)
  BY DEF Pending
<1> HIDE DEF a, b, c, d
<1>4. /\ IsFiniteSet(a) /\ Cardinality(a) \in Nat /\ Cardinality(b) \in Nat
      /\ IsFiniteSet(c) /\ Cardinality(c) \in Nat /\ Cardinality(d) \in Nat
  <2>1. b \in SUBSET Name /\ d \in SUBSET Addon
    BY <1>1
  <2> QED BY <1>1, <2>1, NameFacts
<1>5. Cardinality(b) <= Cardinality(a) /\ (Cardinality(a) = Cardinality(b) => a = b)
  BY <1>1, <1>4, FS_Subset
<1>6. Cardinality(d) <= Cardinality(c) /\ (Cardinality(c) = Cardinality(d) => c = d)
  BY <1>1, <1>4, FS_Subset
<1>7. a # b => Pending(t) < Pending(s)
  BY <1>3, <1>4, <1>5, <1>6
<1>8. c # d => Pending(t) < Pending(s)
  BY <1>3, <1>4, <1>5, <1>6
<1>9. Pending(t) <= Pending(s)
  BY <1>3, <1>4, <1>5, <1>6
<1> QED BY <1>2, <1>7, <1>8, <1>9 DEF a, b

LEMMA PendingSame ==
    ASSUME NEW s, NEW t, t.avail = s.avail, t.initialized = s.initialized, t.loaded = s.loaded
    PROVE  Pending(t) = Pending(s)
BY DEF Pending

-----------------------------------------------------------------------------

LEMMA IMIndexByNameType ==
    ASSUME NEW s \in Instance, NEW n
    PROVE  /\ IMIndexByName(s, n) \in Int
           /\ IMIndexByName(s, n) \in -1 .. (Len(s.imes) - 1)
           /\ n \in Range(s.imes) => /\ IMIndexByName(s, n) \in 0 .. (Len(s.imes) - 1)
                                     /\ s.imes[IMIndexByName(s, n) + 1] = n
           /\ n \notin Range(s.imes) => IMIndexByName(s, n) = -1
<1>1. s.imes \in Seq(Name)
  BY DEF Instance
<1>2. PICK l \in Nat : l = Len(s.imes) /\ DOMAIN s.imes = 1 .. l
  BY <1>1
<1>3. CASE n \notin Range(s.imes)
  BY <1>2, <1>3 DEF IMIndexByName, Range
<1>4. CASE n \in Range(s.imes)
  <2> DEFINE at == {i \in 1 .. l : s.imes[i] = n}
             i == CHOOSE i \in DOMAIN s.imes :
                     s.imes[i] = n /\ \A j \in 1 .. (i - 1) : s.imes[j] # n
  <2>1. at \in SUBSET Nat /\ at # {}
    BY <1>2, <1>4 DEF Range
  <2>2. PICK k \in at : \A j \in at : k <= j
    BY <2>1, LeastNatural
  <2>3. \A j \in 1 .. (k - 1) : s.imes[j] # n
    <3> SUFFICES ASSUME NEW j \in 1 .. (k - 1), s.imes[j] = n PROVE FALSE
      OBVIOUS
    <3>1. j \in 1 .. l /\ j < k
      BY <1>2, <2>2
    <3>2. j \in at
      BY <3>1
    <3> QED BY <2>1, <2>2, <3>1, <3>2
  <2>4. i \in DOMAIN s.imes /\ s.imes[i] = n
    BY <1>2, <2>2, <2>3
  <2>5. IMIndexByName(s, n) = i - 1
    BY <1>2, <1>4 DEF IMIndexByName, Range
  <2> HIDE DEF i
  <2>6. i \in 1 .. l /\ (i - 1) + 1 = i
    BY <1>2, <2>4
  <2> QED BY <1>2, <1>4, <2>4, <2>5, <2>6
<1> QED BY <1>3, <1>4

LEMMA IMByIndexType ==
    ASSUME NEW s \in Instance, NEW i \in Int
    PROVE  IMByIndex(s, i) \in Name \cup {NoName}
<1>1. s.imes \in Seq(Name)
  BY DEF Instance
<1>2. i \in 0 .. (Len(s.imes) - 1) => i + 1 \in DOMAIN s.imes /\ s.imes[i + 1] \in Name
  BY <1>1
<1> QED BY <1>2 DEF IMByIndex

LEMMA SavedListType ==
    ASSUME NEW s \in Instance
    PROVE  /\ SavedList(s) \in Seq(Entry)
           /\ SaveProfile(s) \in Instance
           /\ Pending(SaveProfile(s)) = Pending(s) /\ Onto(s, SaveProfile(s))
<1> DEFINE off == Among(Order, s.avail \ Range(s.imes))
           a == [i \in DOMAIN s.imes |-> [name |-> s.imes[i], on |-> TRUE]]
           b == [i \in DOMAIN off |-> [name |-> off[i], on |-> FALSE]]
<1>1. s.imes \in Seq(Name) /\ s.unused \in Seq(Entry)
  BY DEF Instance
<1>2. Order \in Seq(Name)
  BY NameAssumption
<1>3. off \in Seq(Name)
  <2>1. off \in Seq(Name \cap (s.avail \ Range(s.imes)))
    BY <1>2, AmongSeq
  <2> HIDE DEF off
  <2>2. \A i \in 1 .. Len(off) : off[i] \in Name
    BY <2>1
  <2> QED BY <2>1, <2>2
<1> HIDE DEF off
<1>4. a \in Seq(Entry)
  <2>1. \A i \in 1 .. Len(s.imes) : s.imes[i] \in Name
    BY <1>1
  <2>2. \A i \in 1 .. Len(s.imes) : [name |-> s.imes[i], on |-> TRUE] \in Entry
    BY <2>1 DEF Entry
  <2> QED BY <1>1, <2>2
<1>5. b \in Seq(Entry)
  <2>1. \A i \in 1 .. Len(off) : off[i] \in Name
    BY <1>3
  <2>2. \A i \in 1 .. Len(off) : [name |-> off[i], on |-> FALSE] \in Entry
    BY <2>1 DEF Entry
  <2> QED BY <1>3, <2>2
<1>6. SavedList(s) = a \o b \o s.unused
  BY DEF SavedList, off
<1> HIDE DEF a, b
<1>7. SavedList(s) \in Seq(Entry)
  BY <1>1, <1>4, <1>5, <1>6
<1>8. SaveProfile(s) \in Instance
  BY <1>7 DEF SaveProfile, Instance, Profile
<1>9. Pending(SaveProfile(s)) = Pending(s) /\ Onto(s, SaveProfile(s))
  BY DEF Pending, SaveProfile, Instance, Onto
<1> QED BY <1>7, <1>8, <1>9

LEMMA NamesOfType ==
    ASSUME NEW list \in Seq(Entry)
    PROVE  NamesOf(list) \in Seq(Name)
<1>1. \A i \in DOMAIN list : list[i] \in Entry
  OBVIOUS
<1> QED BY <1>1 DEF NamesOf, Entry

LEMMA WithNewType ==
    ASSUME NEW old \in Seq(Name), NEW new \in SUBSET Name, NEW empty
    PROVE  WithNew(old, new, empty) \in Seq(Name)
<1> DEFINE front == IF Order[1] \in new THEN <<Order[1]>> \o old ELSE old
           fit   == (IF empty THEN LangMatch ELSE Name) \ (Disabled \cup {Order[1]})
           more  == Among(Order, new \cap fit)
           back  == Reverse(more)
<1>1. front \in Seq(Name)
  BY NameFacts
<1>2. more \in Seq(Name)
  <2>1. more \in Seq(Name \cap (new \cap fit))
    BY NameAssumption, AmongSeq
  <2> HIDE DEF more
  <2>2. \A i \in 1 .. Len(more) : more[i] \in Name
    BY <2>1
  <2> QED BY <2>1, <2>2
<1> HIDE DEF more
<1>3. back \in Seq(Name)
  BY <1>2 DEF Reverse
<1>4. WithNew(old, new, empty) = IF front = <<>> THEN front ELSE <<Head(front)>> \o back \o Tail(front)
  BY DEF WithNew, more
<1> HIDE DEF front, back
<1>5. front # <<>> => Head(front) \in Name /\ Tail(front) \in Seq(Name)
  BY <1>1
<1>6. front # <<>> => <<Head(front)>> \in Seq(Name)
  BY <1>5
<1> QED BY <1>1, <1>3, <1>4, <1>5, <1>6

LEMMA ListedType ==
    ASSUME NEW list \in Seq(Entry), NEW avail \in SUBSET Name
    PROVE  Listed(list, avail) \in Seq(Name)
<1>1. Among(list, EnabledEntry(avail)) \in Seq(Entry)
  <2> DEFINE l == Among(list, EnabledEntry(avail))
  <2>1. l \in Seq(Entry \cap EnabledEntry(avail))
    BY AmongSeq
  <2> HIDE DEF l
  <2>2. \A i \in 1 .. Len(l) : l[i] \in Entry
    BY <2>1
  <2>3. l \in Seq(Entry)
    BY <2>1, <2>2
  <2> QED BY <2>3 DEF l
<1>2. NamesOf(Among(list, EnabledEntry(avail))) \in Seq(Name)
  BY <1>1, NamesOfType
<1> QED BY <1>2, WithNewType DEF Listed

-----------------------------------------------------------------------------
(* The functions that come back to the rebuilding, for any that keeps less.*)

(* What LazyLoad rebuilds the list of.                                     *)
Registered(s, n) ==
    LET s1 == LoadIM(s, Owner[n])
    IN  IF n \in s1.initialized THEN s1 ELSE [s1 EXCEPT !.avail = @ \ {n}]

LEMMA LoadIMPending ==
    ASSUME NEW s \in Instance, NEW a \in Addon
    PROVE  /\ LoadIM(s, a) \in Instance
           /\ Pending(LoadIM(s, a)) <= Pending(s) /\ Onto(s, LoadIM(s, a))
           /\ a \in installed \ s.loaded => Pending(LoadIM(s, a)) < Pending(s)
<1> DEFINE t == [s EXCEPT !.avail = @ \cup Offered(a),
                          !.initialized = @ \cup Offered(a), !.loaded = @ \cup {a}]
<1>1. t \in Instance
  BY DEF Instance, Offered
<1>2. /\ t.avail \ t.initialized \subseteq s.avail \ s.initialized /\ s.loaded \subseteq t.loaded
      /\ Onto(s, t) /\ Onto(s, s)
  BY DEF Instance, Onto
<1>3. a \notin s.loaded => t.loaded # s.loaded
  BY DEF Instance
<1>4. LoadIM(s, a) = IF a \notin installed THEN s ELSE t
  BY DEF LoadIM
<1> HIDE DEF t
<1>5. Pending(t) <= Pending(s) /\ (a \notin s.loaded => Pending(t) < Pending(s))
  BY <1>1, <1>2, <1>3, PendingLess
<1>6. Pending(s) \in Nat
  BY PendingIsNat
<1> QED BY <1>1, <1>2, <1>4, <1>5, <1>6

LEMMA RegisteredPending ==
    ASSUME NEW s \in Instance, NEW n \in s.avail \ s.initialized
    PROVE  /\ Registered(s, n) \in Instance /\ Pending(Registered(s, n)) < Pending(s)
           /\ Onto(s, Registered(s, n))
<1> DEFINE a == Owner[n]
           s1 == LoadIM(s, a)
           s2 == Registered(s, n)
<1>1. n \in Name /\ a \in Addon
  BY NameAssumption DEF Instance
<1>2. s1 \in Instance /\ Pending(s1) <= Pending(s)
  BY <1>1, LoadIMPending
<1>3. /\ s1.avail \ s1.initialized \subseteq s.avail \ s.initialized
      /\ s.loaded \subseteq s1.loaded
      /\ n \in s1.initialized \/ s1 = s
      /\ s1.ic = s.ic
  BY <1>1 DEF LoadIM, Instance, Offered
<1>4. s2 = IF n \in s1.initialized THEN s1 ELSE [s1 EXCEPT !.avail = @ \ {n}]
  BY DEF Registered
<1> HIDE DEF s1
<1>5. s2 \in Instance
  <2>1. [s1 EXCEPT !.avail = @ \ {n}] \in Instance
    BY <1>2 DEF Instance
  <2> QED BY <1>2, <1>4, <2>1
<1>6. /\ s2.avail \ s2.initialized \subseteq s.avail \ s.initialized
      /\ s.loaded \subseteq s2.loaded
      /\ n \notin s2.avail \ s2.initialized
      /\ s2.ic = s.ic
  <2>1. /\ s2.avail \subseteq s1.avail /\ s2.initialized = s1.initialized
        /\ s2.loaded = s1.loaded /\ n \notin s2.avail \ s2.initialized
        /\ s2.ic = s1.ic
    BY <1>2, <1>4 DEF Instance
  <2> HIDE DEF s2
  <2> QED BY <1>3, <2>1
<1> HIDE DEF s2
<1>7. s2.avail \ s2.initialized # s.avail \ s.initialized
  BY <1>6
<1>8. Onto(s, s2)
  BY <1>6 DEF Onto
<1> QED BY <1>5, <1>6, <1>7, <1>8, PendingLess DEF s2

LEMMA LazyLoadKeeps ==
    ASSUME NEW s \in Instance, NEW n \in s.avail \ s.initialized, NEW g \in Keeping
    PROVE  /\ LazyLoad(g, s, n) \in Instance
           /\ Pending(LazyLoad(g, s, n)) <= Pending(s) /\ Onto(s, LazyLoad(g, s, n))
           /\ \A h : Agree(g, h, s) => LazyLoad(g, s, n) = LazyLoad(h, s, n)
<1> DEFINE s2 == Registered(s, n)
           s3 == g[s2]
<1>1. s2 \in Instance /\ Pending(s2) < Pending(s) /\ Onto(s, s2)
  BY RegisteredPending
<1>2. \A h : LazyLoad(h, s, n) = [h[s2] EXCEPT !.iIMIndex = IMIndexByName(h[s2], n)]
  BY DEF LazyLoad, Registered
<1> HIDE DEF s2
<1>3. s3 \in Instance /\ Pending(s3) <= Pending(s2) /\ Onto(s2, s3)
  BY <1>1 DEF Keeping
<1>4. \A h : Agree(g, h, s) => h[s2] = s3
  BY <1>1 DEF Agree
<1> HIDE DEF s3
<1>5. IMIndexByName(s3, n) \in Int
  BY <1>3, IMIndexByNameType
<1> DEFINE r == [s3 EXCEPT !.iIMIndex = IMIndexByName(s3, n)]
<1>6. LazyLoad(g, s, n) = r
  BY <1>2 DEF s3
<1>7. /\ r \in Instance /\ r.avail = s3.avail /\ r.initialized = s3.initialized
      /\ r.loaded = s3.loaded /\ r.ic = s3.ic
  BY <1>3, <1>5 DEF Instance
<1> HIDE DEF r
<1>8. Pending(r) = Pending(s3)
  BY <1>7, PendingSame
<1>9. Pending(s) \in Int /\ Pending(s2) \in Int /\ Pending(s3) \in Int
  BY <1>1, <1>3, PendingIsNat
<1>10. Pending(r) <= Pending(s)
  BY <1>1, <1>3, <1>8, <1>9
<1>12. Onto(s, r)
  BY <1>1, <1>3, <1>7 DEF Onto
<1>11. \A h : Agree(g, h, s) => LazyLoad(g, s, n) = LazyLoad(h, s, n)
  BY <1>2, <1>4, <1>6 DEF r
<1> QED BY <1>6, <1>7, <1>10, <1>11, <1>12

LEMMA LoadCurrentKeeps ==
    ASSUME NEW s \in Instance, NEW g \in Keeping
    PROVE  /\ LoadCurrent(g, s) \in Instance
           /\ Pending(LoadCurrent(g, s)) <= Pending(s) /\ Onto(s, LoadCurrent(g, s))
           /\ \A h : Agree(g, h, s) => LoadCurrent(g, s) = LoadCurrent(h, s)
<1>1. Pending(s) <= Pending(s) /\ Onto(s, s)
  BY PendingIsNat DEF Onto
<1>2. CASE CurrentIM(s) \in s.avail \ s.initialized
  BY <1>2, LazyLoadKeeps DEF LoadCurrent
<1>3. CASE CurrentIM(s) \notin s.avail \ s.initialized
  BY <1>1, <1>3 DEF LoadCurrent
<1> QED BY <1>2, <1>3

LEMMA InitCurrentKeeps ==
    ASSUME installed \in SUBSET Addon, NEW s \in Instance, NEW g \in Keeping
    PROVE  /\ InitCurrent(g, s) \in Instance
           /\ Pending(InitCurrent(g, s)) <= Pending(s) /\ Onto(s, InitCurrent(g, s))
           /\ \A h : Agree(g, h, s) => InitCurrent(g, s) = InitCurrent(h, s)
<1> DEFINE a == Calls[CurrentIM(s)]
           t == LoadIM(s, a)
           does == CurrentIM(s) # NoName /\ a \in installed /\ Known(s, a) /\ a \notin s.loaded
<1>1. \A h : InitCurrent(h, s) = IF does THEN h[t] ELSE s
  BY DEF InitCurrent, InitIM, FindFunction
<1>2. Pending(s) \in Int /\ Onto(s, s)
  BY PendingIsNat DEF Onto
<1>3. CASE ~ does
  <2> HIDE DEF does
  <2> QED BY <1>1, <1>2, <1>3
<1>4. CASE does
  <2>1. a \in installed \ s.loaded /\ a \in Addon
    BY <1>4
  <2> HIDE DEF a
  <2>2. t \in Instance /\ Pending(t) < Pending(s) /\ Onto(s, t)
    BY <2>1, LoadIMPending
  <2> HIDE DEF does, t
  <2>3. g[t] \in Instance /\ Pending(g[t]) <= Pending(t) /\ Onto(t, g[t])
    BY <2>2 DEF Keeping
  <2>4. Pending(t) \in Int /\ Pending(g[t]) \in Int
    BY <2>2, <2>3, PendingIsNat
  <2>5. Pending(g[t]) <= Pending(s) /\ Onto(s, g[t])
    BY <1>2, <2>2, <2>3, <2>4 DEF Onto
  <2>6. \A h : Agree(g, h, s) => h[t] = g[t]
    BY <2>2 DEF Agree
  <2> QED BY <1>1, <1>4, <2>3, <2>5, <2>6
<1> QED BY <1>3, <1>4

LEMMA UpdateGlobalKeeps ==
    ASSUME NEW s \in Instance, NEW n \in Name \cup {NoName}
    PROVE  /\ UpdateGlobal(s, n) \in Instance /\ Pending(UpdateGlobal(s, n)) = Pending(s)
           /\ Onto(s, UpdateGlobal(s, n))
<1> DEFINE t == [s EXCEPT !.globalIM = n]
<1>1. /\ t \in Instance /\ t.avail = s.avail /\ t.initialized = s.initialized
      /\ t.loaded = s.loaded /\ t.ic = s.ic
  BY DEF Instance
<1>2. UpdateGlobal(s, n) = IF n \notin {NoName, s.globalIM} THEN SaveProfile(t) ELSE s
  BY DEF UpdateGlobal
<1> HIDE DEF t
<1>3. Pending(t) = Pending(s) /\ Onto(s, t) /\ Onto(s, s)
  BY <1>1, PendingSame DEF Onto
<1>4. SaveProfile(t) \in Instance /\ Pending(SaveProfile(t)) = Pending(t) /\ Onto(t, SaveProfile(t))
  BY <1>1, SavedListType
<1>5. Onto(s, SaveProfile(t))
  BY <1>3, <1>4 DEF Onto
<1> QED BY <1>1, <1>2, <1>3, <1>4, <1>5

LEMMA ClampedType ==
    ASSUME NEW s \in Instance, NEW i \in Int, NEW skip
    PROVE  Clamped(s, i, skip) \in Int /\ Clamped(s, i, skip) \in {0} \cup 0 .. (Len(s.imes) - 1)
<1>1. Len(s.imes) \in Nat
  BY DEF Instance
<1> QED BY <1>1 DEF Clamped

LEMMA SwitchIMInternalKeeps ==
    ASSUME installed \in SUBSET Addon, NEW s \in Instance, NEW g \in Keeping,
           NEW index \in Int, NEW skip, NEW global
    PROVE  /\ SwitchIMInternal(g, s, index, skip, global) \in Instance
           /\ Pending(SwitchIMInternal(g, s, index, skip, global)) <= Pending(s)
           /\ Onto(s, SwitchIMInternal(g, s, index, skip, global))
           /\ \A h : Agree(g, h, s) =>
                 SwitchIMInternal(g, s, index, skip, global) = SwitchIMInternal(h, s, index, skip, global)
<1> DEFINE s0 == [s EXCEPT !.iIMIndex = Clamped(s, index, skip)]
           s1 == LoadCurrent(g, s0)
           s2 == InitCurrent(g, s1)
           end == IF global THEN UpdateGlobal(s2, IMByIndex(s2, s1.iIMIndex)) ELSE s2
<1>1. s0 \in Instance /\ Pending(s0) = Pending(s) /\ Onto(s, s0)
  <2>1. /\ s0 \in Instance /\ s0.avail = s.avail /\ s0.initialized = s.initialized
        /\ s0.loaded = s.loaded /\ s0.ic = s.ic
    BY ClampedType DEF Instance
  <2> HIDE DEF s0
  <2> QED BY <2>1, PendingSame DEF Onto
<1>2. \A h : SwitchIMInternal(h, s, index, skip, global) =
          LET r1 == LoadCurrent(h, s0)
              r2 == InitCurrent(h, r1)
          IN  IF global THEN UpdateGlobal(r2, IMByIndex(r2, r1.iIMIndex)) ELSE r2
  BY DEF SwitchIMInternal
<1> HIDE DEF s0
<1>3. s1 \in Instance /\ Pending(s1) <= Pending(s) /\ Onto(s0, s1)
  BY <1>1, LoadCurrentKeeps
<1>4. ASSUME NEW h, Agree(g, h, s)
      PROVE  LoadCurrent(h, s0) = s1 /\ InitCurrent(h, s1) = s2
  <2>1. Agree(g, h, s0)
    BY <1>1, <1>4 DEF Agree
  <2>2. LoadCurrent(h, s0) = s1
    BY <1>1, <2>1, LoadCurrentKeeps
  <2> HIDE DEF s1
  <2>3. Agree(g, h, s1)
    <3> SUFFICES ASSUME NEW t \in Instance, Pending(t) < Pending(s1) PROVE g[t] = h[t]
      BY DEF Agree
    <3>1. Pending(t) \in Int /\ Pending(s1) \in Int /\ Pending(s) \in Int
      BY <1>3, PendingIsNat
    <3>2. Pending(t) < Pending(s)
      BY <1>3, <3>1
    <3> QED BY <1>4, <3>2 DEF Agree
  <2>4. InitCurrent(h, s1) = s2
    BY <1>3, <2>3, InitCurrentKeeps
  <2> QED BY <2>2, <2>4
<1> HIDE DEF s1
<1>5. s2 \in Instance /\ Pending(s2) <= Pending(s1) /\ Onto(s1, s2)
  BY <1>3, InitCurrentKeeps
<1> HIDE DEF s2
<1>6. end \in Instance /\ Pending(end) = Pending(s2) /\ Onto(s2, end)
  <2>1. s1.iIMIndex \in Int
    BY <1>3 DEF Instance
  <2>2. IMByIndex(s2, s1.iIMIndex) \in Name \cup {NoName}
    BY <1>5, <2>1, IMByIndexType
  <2> QED BY <1>5, <2>2, UpdateGlobalKeeps DEF Onto
<1>7. SwitchIMInternal(g, s, index, skip, global) = end
  BY <1>2 DEF s1, s2
<1>8. \A h : Agree(g, h, s) => SwitchIMInternal(h, s, index, skip, global) = end
  BY <1>2, <1>4
<1>9. Pending(s2) \in Int /\ Pending(s1) \in Int /\ Pending(s) \in Int
  BY <1>3, <1>5, PendingIsNat
<1> HIDE DEF end
<1>10. Onto(s, end)
  BY <1>1, <1>3, <1>5, <1>6 DEF Onto
<1> QED BY <1>3, <1>5, <1>6, <1>7, <1>8, <1>9, <1>10

-----------------------------------------------------------------------------
(* Rebuilding is well defined.                                             *)

LEMMA UpdateCurrentIMKeeps ==
    ASSUME installed \in SUBSET Addon, NEW s \in Instance, NEW g \in Keeping, NEW force
    PROVE  /\ UpdateCurrentIM(g, s, force) \in Instance
           /\ Pending(UpdateCurrentIM(g, s, force)) <= Pending(s)
           /\ Onto(s, UpdateCurrentIM(g, s, force))
           /\ \A h : Agree(g, h, s) =>
                 UpdateCurrentIM(g, s, force) = UpdateCurrentIM(h, s, force)
<1> DEFINE global == IMIndexByName(s, s.globalIM)
           repair == global <= 0 /\ Len(s.imes) > 1
           local  == IF s.ic.imname \in Range(s.imes) THEN s.ic.imname ELSE NoName
           s1 == [s EXCEPT !.globalIM = IF repair THEN s.imes[2] ELSE @,
                           !.ic.imname = local]
           target == Target(s1, IF repair THEN 1 ELSE global)
           skipZero == ~(s.ic.here /\ ~s.ic.active)
<1>1. s.imes \in Seq(Name) /\ global \in Int
  BY IMIndexByNameType DEF Instance
<1>2. repair => s.imes[2] \in Name
  <2>1. Len(s.imes) > 1 => 2 \in DOMAIN s.imes
    BY <1>1
  <2> QED BY <1>1, <2>1
<1>3. \A h : UpdateCurrentIM(h, s, force) =
          IF ~s.ic.here /\ ~force THEN s
          ELSE IF force \/ repair \/ target # s.iIMIndex
               THEN SwitchIMInternal(h, s1, target, skipZero, repair)
               ELSE s1
  BY DEF UpdateCurrentIM
<1> HIDE DEF repair, global
<1>4. local \in Name \cup {NoName}
  BY DEF Instance, Context
<1> HIDE DEF local
<1>5. /\ s1 \in Instance /\ s1.avail = s.avail /\ s1.initialized = s.initialized
      /\ s1.loaded = s.loaded /\ s1.ic.here = s.ic.here /\ s1.ic.active = s.ic.active
  BY <1>2, <1>4 DEF Instance, Context
<1> HIDE DEF s1
<1>6. target \in Int
  <2>1. (IF repair THEN 1 ELSE global) \in Int
    BY <1>1
  <2>2. IMIndexByName(s1, s1.ic.imname) \in Int
    BY <1>5, IMIndexByNameType
  <2> QED BY <2>1, <2>2 DEF Target
<1> HIDE DEF target, skipZero
<1>7. Pending(s1) = Pending(s)
  BY <1>5, PendingSame
<1>8. \A h : Agree(g, h, s) => Agree(g, h, s1)
  BY <1>7 DEF Agree
<1>9. /\ SwitchIMInternal(g, s1, target, skipZero, repair) \in Instance
      /\ Pending(SwitchIMInternal(g, s1, target, skipZero, repair)) <= Pending(s1)
      /\ Onto(s1, SwitchIMInternal(g, s1, target, skipZero, repair))
      /\ \A h : Agree(g, h, s1) =>
            SwitchIMInternal(g, s1, target, skipZero, repair)
              = SwitchIMInternal(h, s1, target, skipZero, repair)
  BY <1>5, <1>6, SwitchIMInternalKeeps
<1>10. Pending(s) <= Pending(s) /\ Onto(s, s) /\ Onto(s, s1)
  BY <1>5, PendingIsNat DEF Onto
<1>11. Onto(s, SwitchIMInternal(g, s1, target, skipZero, repair))
  BY <1>9, <1>10 DEF Onto
<1> QED BY <1>3, <1>5, <1>7, <1>8, <1>9, <1>10, <1>11

(* UpdateIMList has split the list before it asks for the current one.      *)
Split(s) == [s EXCEPT !.imes = Listed(s.imList, s.avail),
                      !.unused = Among(s.imList, EntryOf(Name \ s.avail)),
                      !.imList = Among(s.imList, EntryOf(s.avail))]

LEMMA EntriesAmong ==
    ASSUME NEW list \in Seq(Entry), NEW S
    PROVE  /\ Among(list, S) \in Seq(Entry)
           /\ Range(Among(list, S)) = Range(list) \cap S
           /\ Unique(list) => Unique(Among(list, S))
<1> DEFINE l == Among(list, S)
<1>1. /\ l \in Seq(Entry \cap S)
      /\ Range(l) = Range(list) \cap S
      /\ Unique(list) => Unique(l)
  BY AmongSeq
<1> HIDE DEF l
<1>2. \A i \in 1 .. Len(l) : l[i] \in Entry
  BY <1>1
<1>3. l \in Seq(Entry)
  BY <1>1, <1>2
<1> QED BY <1>1, <1>3 DEF l

LEMMA SplitType ==
    ASSUME NEW s \in Instance
    PROVE  Split(s) \in Instance /\ Pending(Split(s)) = Pending(s) /\ Onto(s, Split(s))
<1>1. s.imList \in Seq(Entry) /\ s.avail \in SUBSET Name
  BY DEF Instance
<1>2. Listed(s.imList, s.avail) \in Seq(Name)
  BY <1>1, ListedType
<1>3. /\ Among(s.imList, EntryOf(Name \ s.avail)) \in Seq(Entry)
      /\ Among(s.imList, EntryOf(s.avail)) \in Seq(Entry)
  BY <1>1, EntriesAmong
<1>4. /\ Split(s) \in Instance /\ Split(s).avail = s.avail
      /\ Split(s).initialized = s.initialized /\ Split(s).loaded = s.loaded
      /\ Split(s).ic = s.ic
  BY <1>2, <1>3 DEF Split, Instance
<1> QED BY <1>4, PendingSame DEF Onto

LEMMA UpdateIMListIs ==
    ASSUME NEW s, NEW g
    PROVE  UpdateIMList(g, s) = IF s.imLoaded THEN SaveProfile(UpdateCurrentIM(g, Split(s), TRUE)) ELSE s
BY DEF UpdateIMList, Split

LEMMA UpdateIMListKeeps ==
    ASSUME installed \in SUBSET Addon, NEW s \in Instance, NEW g \in Keeping
    PROVE  /\ UpdateIMList(g, s) \in Instance
           /\ Pending(UpdateIMList(g, s)) <= Pending(s) /\ Onto(s, UpdateIMList(g, s))
           /\ \A h : Agree(g, h, s) => UpdateIMList(g, s) = UpdateIMList(h, s)
<1> DEFINE s1 == Split(s)
           s2 == UpdateCurrentIM(g, s1, TRUE)
<1>1. s1 \in Instance /\ Pending(s1) = Pending(s) /\ Onto(s, s1)
  BY SplitType
<1> HIDE DEF s1
<1>2. s2 \in Instance /\ Pending(s2) <= Pending(s) /\ Onto(s1, s2)
  BY <1>1, UpdateCurrentIMKeeps
<1>3. \A h : Agree(g, h, s) => UpdateCurrentIM(h, s1, TRUE) = s2
  <2>1. ASSUME NEW h, Agree(g, h, s1) PROVE UpdateCurrentIM(h, s1, TRUE) = s2
    <3>1. UpdateCurrentIM(g, s1, TRUE) = UpdateCurrentIM(h, s1, TRUE)
      BY <1>1, <2>1, UpdateCurrentIMKeeps
    <3> QED BY <3>1
  <2>2. \A h : Agree(g, h, s) => Agree(g, h, s1)
    BY <1>1 DEF Agree
  <2> QED BY <2>1, <2>2
<1>4. \A h : UpdateIMList(h, s) =
          IF s.imLoaded THEN SaveProfile(UpdateCurrentIM(h, s1, TRUE)) ELSE s
  BY UpdateIMListIs DEF s1
<1>5. Pending(s) <= Pending(s) /\ Onto(s, s)
  BY PendingIsNat DEF Onto
<1> HIDE DEF s2
<1>6. SaveProfile(s2) \in Instance /\ Pending(SaveProfile(s2)) = Pending(s2)
      /\ Onto(s2, SaveProfile(s2))
  BY <1>2, SavedListType
<1>8. Onto(s, SaveProfile(s2))
  BY <1>1, <1>2, <1>6 DEF Onto
<1>7. UpdateIMList(g, s) = IF s.imLoaded THEN SaveProfile(s2) ELSE s
  BY <1>4 DEF s2
<1> QED BY <1>2, <1>3, <1>4, <1>5, <1>6, <1>7, <1>8

-----------------------------------------------------------------------------

Solves(g, n) == \A s \in Instance : Pending(s) < n => g[s] = UpdateIMList(g, s)

LEMMA Iterate ==
    ASSUME installed \in SUBSET Addon, NEW n \in Nat, NEW g \in Keeping, Solves(g, n)
    PROVE  \E h \in Keeping : Solves(h, n + 1)
<1> DEFINE h == [s \in Instance |-> UpdateIMList(g, s)]
<1>1. h \in Keeping
  BY UpdateIMListKeeps DEF Keeping
<1>2. \A s \in Instance : h[s] = UpdateIMList(g, s)
  OBVIOUS
<1> HIDE DEF h
<1>3. ASSUME NEW s \in Instance, Pending(s) < n + 1
      PROVE  h[s] = UpdateIMList(h, s)
  <2>1. Agree(g, h, s)
    <3> SUFFICES ASSUME NEW t \in Instance, Pending(t) < Pending(s) PROVE g[t] = h[t]
      BY DEF Agree
    <3>1. Pending(t) \in Int /\ Pending(s) \in Int
      BY PendingIsNat
    <3>2. Pending(t) < n
      BY <1>3, <3>1
    <3> QED BY <1>2, <3>2 DEF Solves
  <2>2. UpdateIMList(g, s) = UpdateIMList(h, s)
    BY <1>1, <2>1, UpdateIMListKeeps
  <2> QED BY <1>2, <2>2
<1> QED BY <1>1, <1>3 DEF Solves

LEMMA SolvesAll ==
    ASSUME installed \in SUBSET Addon
    PROVE  \A n \in Nat : \E g \in Keeping : Solves(g, n)
<1> DEFINE Bad == {n \in Nat : ~ \E g \in Keeping : Solves(g, n)}
<1> SUFFICES ASSUME Bad # {} PROVE FALSE
  OBVIOUS
<1>1. PICK n \in Bad : \A m \in Bad : n <= m
  <2>1. Bad \in SUBSET Nat
    OBVIOUS
  <2> HIDE DEF Bad
  <2> QED BY <2>1, LeastNatural
<1>2. n # 0
  <2> DEFINE g == [s \in Instance |-> s]
  <2>1. g \in Keeping
    BY PendingIsNat DEF Keeping, Onto
  <2>2. Solves(g, 0)
    BY PendingIsNat DEF Solves
  <2> HIDE DEF g
  <2> QED BY <2>1, <2>2
<1>3. n - 1 \in Nat /\ n - 1 \notin Bad /\ (n - 1) + 1 = n
  BY <1>1, <1>2
<1>4. PICK g \in Keeping : Solves(g, n - 1)
  BY <1>3
<1> QED BY <1>3, <1>4, Iterate

LEMMA PendingBound ==
    \E n \in Nat : \A s \in Instance : Pending(s) < n
<1> DEFINE n == Cardinality(Name) + Cardinality(Addon)
<1>1. Cardinality(Name) \in Nat /\ Cardinality(Addon) \in Nat
  BY NameFacts
<1>2. ASSUME NEW s \in Instance PROVE Pending(s) <= n
  <2>1. s.avail \ s.initialized \in SUBSET Name /\ Addon \ s.loaded \in SUBSET Addon
    BY DEF Instance
  <2>2. /\ Cardinality(s.avail \ s.initialized) <= Cardinality(Name)
        /\ Cardinality(Addon \ s.loaded) <= Cardinality(Addon)
    BY <2>1, NameFacts, NameAssumption, FS_Subset
  <2>3. Cardinality(s.avail \ s.initialized) \in Nat /\ Cardinality(Addon \ s.loaded) \in Nat
    BY <2>1, NameFacts
  <2> QED BY <1>1, <2>2, <2>3 DEF Pending
<1>3. n + 1 \in Nat /\ \A s \in Instance : Pending(s) < n + 1
  BY <1>1, <1>2, PendingIsNat
<1> HIDE DEF n
<1> QED BY <1>3

(* Rebuilding the list comes to an end, whatever is installed: the recursion *)
(* of UpdateIMList through the engines it loads has a value for every state, *)
(* and leaves no more to be loaded than there was.                         *)
THEOREM RebuiltDefined ==
    ASSUME installed \in SUBSET Addon
    PROVE  /\ Rebuilt \in [Instance -> Instance]
           /\ \A s \in Instance : /\ Rebuilt[s] = UpdateIMList(Rebuilt, s)
                                  /\ Pending(Rebuilt[s]) <= Pending(s) /\ Onto(s, Rebuilt[s])
<1>1. PICK n \in Nat : \A s \in Instance : Pending(s) < n
  BY PendingBound
<1>2. PICK g \in Keeping : Solves(g, n)
  BY SolvesAll
<1>3. g = [s \in Instance |-> UpdateIMList(g, s)]
  BY <1>1, <1>2 DEF Solves, Keeping
<1>4. Rebuilt = [s \in Instance |-> UpdateIMList(Rebuilt, s)]
  BY <1>3 DEF Rebuilt
<1>5. \A s \in Instance : Rebuilt[s] = UpdateIMList(Rebuilt, s)
  BY <1>4
<1>6. \A s \in Instance : Rebuilt[s] = g[s]
  <2> DEFINE Other == {s \in Instance : Rebuilt[s] # g[s]}
             Counts == {Pending(s) : s \in Other}
  <2> SUFFICES ASSUME Other # {} PROVE FALSE
    OBVIOUS
  <2>1. Counts \in SUBSET Nat /\ Counts # {}
    BY PendingIsNat
  <2>2. PICK m \in Counts : \A k \in Counts : m <= k
    <3> HIDE DEF Counts
    <3> QED BY <2>1, LeastNatural
  <2>3. PICK s \in Other : m = Pending(s)
    BY <2>2
  <2>4. Agree(g, Rebuilt, s)
    <3> SUFFICES ASSUME NEW t \in Instance, Pending(t) < Pending(s), g[t] # Rebuilt[t]
                 PROVE  FALSE
      BY DEF Agree
    <3>1. t \in Other /\ Pending(t) \in Counts
      OBVIOUS
    <3>2. Pending(s) <= Pending(t) /\ Pending(s) \in Int /\ Pending(t) \in Int
      BY <2>2, <2>3, <3>1, PendingIsNat
    <3> QED BY <3>2
  <2>5. UpdateIMList(g, s) = UpdateIMList(Rebuilt, s)
    BY <2>4, UpdateIMListKeeps
  <2>6. g[s] = UpdateIMList(g, s) /\ Rebuilt[s] = UpdateIMList(Rebuilt, s)
    BY <1>1, <1>2, <1>5 DEF Solves
  <2> QED BY <2>3, <2>5, <2>6
<1>7. \A s \in Instance : g[s] \in Instance /\ Pending(g[s]) <= Pending(s) /\ Onto(s, g[s])
  BY <1>2 DEF Keeping
<1>8. Rebuilt \in [Instance -> Instance]
  BY <1>4, <1>6, <1>7
<1> QED BY <1>5, <1>6, <1>7, <1>8

LEMMA RebuiltKeeps ==
    ASSUME installed \in SUBSET Addon
    PROVE  Rebuilt \in Keeping
BY RebuiltDefined DEF Keeping

-----------------------------------------------------------------------------
(* What a list is rebuilt from, and what it enables.                       *)

(* What the list can be rebuilt from, and what the rebuilding gives.        *)
Rebuildable(s) ==
    /\ s \in Instance
    /\ s.initialized \subseteq s.avail
    /\ Unique(s.imList) /\ Unique(s.disk.imList)

Sound(s) ==
    /\ Rebuildable(s)
    /\ Range(s.imes) \subseteq s.avail /\ IsInjective(s.imes)
    /\ Unique(s.unused) /\ Names(s.unused) \cap s.avail = {}

LEMMA NamesAreRange ==
    ASSUME NEW list
    PROVE  Names(list) = Range(NamesOf(list))
BY DEF Names, NamesOf, Range

LEMMA ConcatInjective ==
    ASSUME NEW T, NEW a \in Seq(T), NEW b \in Seq(T)
    PROVE  /\ Range(a \o b) = Range(a) \cup Range(b)
           /\ IsInjective(a) /\ IsInjective(b) /\ Range(a) \cap Range(b) = {}
                 => IsInjective(a \o b)
<1> DEFINE c == a \o b
           m == Len(a)
<1>1. /\ m \in Nat /\ DOMAIN a = 1 .. m
      /\ Len(b) \in Nat /\ DOMAIN b = 1 .. Len(b)
      /\ DOMAIN c = 1 .. (m + Len(b))
      /\ \A i \in 1 .. m : c[i] = a[i]
      /\ \A i \in DOMAIN c : i > m => c[i] = b[i - m] /\ i - m \in DOMAIN b
      /\ \A i \in DOMAIN b : i + m \in DOMAIN c /\ c[i + m] = b[i]
  OBVIOUS
<1> HIDE DEF c, m
<1>2. \A i \in DOMAIN c : c[i] \in Range(a) \cup Range(b)
  BY <1>1 DEF Range
<1>3. \A i \in DOMAIN a : i \in DOMAIN c
  BY <1>1
<1>4. Range(c) = Range(a) \cup Range(b)
  <2>1. Range(a) \subseteq Range(c)
    BY <1>1, <1>3 DEF Range
  <2>2. Range(b) \subseteq Range(c)
    BY <1>1 DEF Range
  <2>3. Range(c) \subseteq Range(a) \cup Range(b)
    BY <1>2 DEF Range
  <2> QED BY <2>1, <2>2, <2>3
<1>5. ASSUME IsInjective(a), IsInjective(b), Range(a) \cap Range(b) = {}
      PROVE  IsInjective(c)
  <2> SUFFICES ASSUME NEW i \in DOMAIN c, NEW j \in DOMAIN c, c[i] = c[j] PROVE i = j
    BY DEF IsInjective
  <2>1. i \in Int /\ j \in Int
    BY <1>1
  <2>2. (i <= m => c[i] \in Range(a)) /\ (i > m => c[i] \in Range(b))
    BY <1>1, <2>1 DEF Range
  <2>3. (j <= m => c[j] \in Range(a)) /\ (j > m => c[j] \in Range(b))
    BY <1>1, <2>1 DEF Range
  <2>4. i <= m <=> j <= m
    BY <1>1, <1>5, <2>1, <2>2, <2>3
  <2>5. CASE i <= m
    BY <1>1, <1>5, <2>1, <2>4, <2>5 DEF IsInjective
  <2>6. CASE i > m
    <3>1. b[i - m] = b[j - m] /\ i - m \in DOMAIN b /\ j - m \in DOMAIN b
      BY <1>1, <2>1, <2>4, <2>6
    <3>2. i - m = j - m
      BY <1>5, <3>1 DEF IsInjective
    <3> QED BY <1>1, <2>1, <3>2
  <2> QED BY <1>1, <2>1, <2>5, <2>6
<1> QED BY <1>4, <1>5 DEF c

LEMMA ReverseSeq ==
    ASSUME NEW T, NEW a \in Seq(T)
    PROVE  /\ Reverse(a) \in Seq(T) /\ Range(Reverse(a)) = Range(a)
           /\ IsInjective(a) => IsInjective(Reverse(a))
<1> DEFINE m == Len(a)
           r == Reverse(a)
<1>1. m \in Nat /\ DOMAIN a = 1 .. m /\ \A i \in 1 .. m : a[i] \in T
  OBVIOUS
<1>2. DOMAIN r = 1 .. m /\ \A i \in 1 .. m : r[i] = a[(m - i) + 1]
  BY DEF Reverse
<1> HIDE DEF m, r
<1>3. \A i \in 1 .. m : (m - i) + 1 \in 1 .. m /\ (m - ((m - i) + 1)) + 1 = i
  BY <1>1
<1>4. r = [i \in 1 .. m |-> a[(m - i) + 1]]
  BY DEF r, m, Reverse
<1>5. r \in Seq(T)
  BY <1>1, <1>3, <1>4
<1>6. \A i \in 1 .. m : a[i] = r[(m - i) + 1]
  BY <1>2, <1>3
<1>7. Range(r) = Range(a)
  <2>1. Range(r) \subseteq Range(a)
    BY <1>1, <1>2, <1>3 DEF Range
  <2>2. Range(a) \subseteq Range(r)
    BY <1>1, <1>2, <1>3, <1>6 DEF Range
  <2> QED BY <2>1, <2>2
<1>8. ASSUME IsInjective(a), NEW i \in 1 .. m, NEW j \in 1 .. m, r[i] = r[j] PROVE i = j
  <2>1. (m - i) + 1 = (m - j) + 1
    BY <1>1, <1>2, <1>3, <1>8 DEF IsInjective
  <2> QED BY <1>1, <2>1
<1>9. IsInjective(a) => IsInjective(r)
  BY <1>2, <1>8 DEF IsInjective
<1> QED BY <1>5, <1>7, <1>9 DEF r

LEMMA HeadTail ==
    ASSUME NEW T, NEW a \in Seq(T), a # <<>>
    PROVE  /\ <<Head(a)>> \in Seq(T) /\ Tail(a) \in Seq(T)
           /\ <<Head(a)>> \o Tail(a) = a
           /\ Range(<<Head(a)>>) = {Head(a)} /\ IsInjective(<<Head(a)>>)
           /\ Range(a) = {Head(a)} \cup Range(Tail(a))
           /\ IsInjective(a) => IsInjective(Tail(a)) /\ Head(a) \notin Range(Tail(a))
<1>1. /\ <<Head(a)>> \in Seq(T) /\ Tail(a) \in Seq(T) /\ <<Head(a)>> \o Tail(a) = a
      /\ Head(a) = a[1] /\ 1 \in DOMAIN a
  OBVIOUS
<1> DEFINE h == <<Head(a)>>
<1>2. DOMAIN h = {1} /\ h[1] = Head(a)
  OBVIOUS
<1>3. Range(h) = {Head(a)} /\ IsInjective(h)
  <2> HIDE DEF h
  <2> QED BY <1>2 DEF Range, IsInjective
<1>4. Range(a) = {Head(a)} \cup Range(Tail(a))
  <2> HIDE DEF h
  <2>1. h \in Seq(T) /\ Tail(a) \in Seq(T) /\ h \o Tail(a) = a
    BY <1>1 DEF h
  <2>2. Range(h \o Tail(a)) = Range(h) \cup Range(Tail(a))
    <3> DEFINE b == Tail(a)
    <3>1. h \in Seq(T) /\ b \in Seq(T)
      BY <2>1
    <3> HIDE DEF b
    <3>2. Range(h \o b) = Range(h) \cup Range(b)
      BY <3>1, ConcatInjective
    <3> QED BY <3>2 DEF b
  <2> QED BY <1>3, <2>1, <2>2
<1>5. \A i \in DOMAIN Tail(a) : i + 1 \in DOMAIN a /\ a[i + 1] = Tail(a)[i] /\ i \in Int /\ i + 1 # 1
  OBVIOUS
<1>6. IsInjective(a) => IsInjective(Tail(a)) /\ Head(a) \notin Range(Tail(a))
  <2> SUFFICES ASSUME IsInjective(a) PROVE IsInjective(Tail(a)) /\ Head(a) \notin Range(Tail(a))
    OBVIOUS
  <2>1. IsInjective(Tail(a))
    <3> SUFFICES ASSUME NEW i \in DOMAIN Tail(a), NEW j \in DOMAIN Tail(a),
                        Tail(a)[i] = Tail(a)[j]
                 PROVE  i = j
      BY DEF IsInjective
    <3>1. i + 1 = j + 1
      BY <1>5 DEF IsInjective
    <3> QED BY <1>5, <3>1
  <2>2. Head(a) \notin Range(Tail(a))
    BY <1>1, <1>5 DEF IsInjective, Range
  <2> QED BY <2>1, <2>2
<1> QED BY <1>1, <1>3, <1>4, <1>6

LEMMA WithNewSound ==
    ASSUME NEW old \in Seq(Name), NEW new \in SUBSET Name, NEW empty
    PROVE  LET list == WithNew(old, new, empty)
           IN  /\ Range(list) \subseteq Range(old) \cup new
               /\ Range(old) \subseteq Range(list)
               /\ IsInjective(old) /\ Range(old) \cap new = {} => IsInjective(list)
<1> DEFINE list  == WithNew(old, new, empty)
           front == IF Order[1] \in new THEN <<Order[1]>> \o old ELSE old
           fit   == (IF empty THEN LangMatch ELSE Name) \ (Disabled \cup {Order[1]})
           more  == Among(Order, new \cap fit)
           back  == Reverse(more)
<1>1. /\ front \in Seq(Name) /\ Range(front) \subseteq Range(old) \cup new
      /\ Range(old) \subseteq Range(front)
      /\ IsInjective(old) /\ Range(old) \cap new = {} => IsInjective(front)
  <2> DEFINE one == <<Order[1]>>
  <2>1. one \in Seq(Name) /\ DOMAIN one = {1} /\ one[1] = Order[1]
    BY NameFacts
  <2> HIDE DEF one
  <2>2. Range(one) = {Order[1]} /\ IsInjective(one)
    BY <2>1 DEF Range, IsInjective
  <2>3. /\ one \o old \in Seq(Name) /\ Range(one \o old) = Range(one) \cup Range(old)
        /\ IsInjective(old) /\ Order[1] \notin Range(old) => IsInjective(one \o old)
    BY <2>1, <2>2, ConcatInjective
  <2>4. front = IF Order[1] \in new THEN one \o old ELSE old
    BY DEF one
  <2> HIDE DEF front
  <2>5. CASE Order[1] \in new
    BY <2>2, <2>3, <2>4, <2>5
  <2>6. CASE Order[1] \notin new
    BY <2>4, <2>6
  <2> QED BY <2>5, <2>6
<1>2. Range(front) \cap Range(more) \subseteq Range(old) \cap new
  <2>1. Range(more) = Name \cap (new \cap fit)
    <3> HIDE DEF fit
    <3> QED BY AmongOrder
  <2>2. Range(front) \subseteq Range(old) \cup {Order[1]}
    <3> DEFINE one == <<Order[1]>>
    <3>1. one \in Seq(Name) /\ DOMAIN one = {1} /\ one[1] = Order[1]
      BY NameFacts
    <3> HIDE DEF one
    <3>2. Range(one \o old) = Range(one) \cup Range(old)
      BY <3>1, ConcatInjective
    <3>3. Range(one) = {Order[1]}
      BY <3>1 DEF Range
    <3>4. front = one \o old \/ front = old
      BY DEF one
    <3> HIDE DEF front
    <3> QED BY <3>2, <3>3, <3>4
  <2>3. Order[1] \notin fit
    OBVIOUS
  <2> HIDE DEF front, more, fit
  <2> QED BY <2>1, <2>2, <2>3
<1>3. more \in Seq(Name) /\ Range(more) \subseteq new /\ IsInjective(more)
  <2> HIDE DEF fit
  <2> QED BY AmongOrder
<1>4. list = IF front = <<>> THEN front ELSE <<Head(front)>> \o back \o Tail(front)
  BY DEF WithNew
<1> HIDE DEF list, front, more, fit
<1>5. back \in Seq(Name) /\ Range(back) = Range(more) /\ IsInjective(back)
  BY <1>3, ReverseSeq
<1> HIDE DEF back
<1>6. CASE front = <<>>
  BY <1>1, <1>4, <1>6 DEF list
<1>7. CASE front # <<>>
  <2> DEFINE h == <<Head(front)>>
             t == Tail(front)
             hb == h \o back
  <2>1. /\ h \in Seq(Name) /\ t \in Seq(Name)
        /\ Range(h) = {Head(front)} /\ IsInjective(h)
        /\ Range(front) = Range(h) \cup Range(t)
        /\ IsInjective(front) => IsInjective(t) /\ Range(h) \cap Range(t) = {}
    BY <1>1, <1>7, HeadTail
  <2>2. list = hb \o t
    BY <1>4, <1>7
  <2> HIDE DEF h, t
  <2>3. hb \in Seq(Name) /\ Range(hb) = Range(h) \cup Range(back)
    BY <1>5, <2>1, ConcatInjective
  <2>4. Range(h) \cap Range(back) = {} => IsInjective(hb)
    BY <1>5, <2>1, ConcatInjective
  <2> HIDE DEF hb
  <2>5. Range(list) = Range(h) \cup Range(back) \cup Range(t)
    BY <2>1, <2>2, <2>3, ConcatInjective
  <2>6. IsInjective(hb) /\ IsInjective(t) /\ Range(hb) \cap Range(t) = {} => IsInjective(list)
    BY <2>1, <2>2, <2>3, ConcatInjective
  <2>7. ASSUME IsInjective(old), Range(old) \cap new = {} PROVE IsInjective(list)
    <3>1. Range(front) \cap Range(back) = {}
      BY <1>2, <1>5, <2>7
    <3>2. IsInjective(t) /\ Range(h) \cap Range(t) = {}
      BY <1>1, <2>1, <2>7
    <3>3. IsInjective(hb)
      BY <2>1, <2>4, <3>1
    <3>4. Range(hb) \cap Range(t) = {}
      BY <2>1, <2>3, <3>1, <3>2
    <3> QED BY <2>6, <3>2, <3>3, <3>4
  <2> QED BY <1>1, <1>3, <1>5, <2>1, <2>5, <2>7 DEF list
<1> QED BY <1>6, <1>7 DEF list

LEMMA EnabledNames ==
    ASSUME NEW list \in Seq(Entry), NEW avail
    PROVE  LET old == NamesOf(Among(list, EnabledEntry(avail)))
           IN  /\ old \in Seq(Name)
               /\ Range(old) = {n \in avail : [name |-> n, on |-> TRUE] \in Range(list)}
               /\ Range(old) \subseteq Names(list)
               /\ Unique(list) => IsInjective(old)
<1> DEFINE l == Among(list, EnabledEntry(avail))
<1>1. /\ l \in Seq(Entry) /\ Range(l) = Range(list) \cap EnabledEntry(avail)
      /\ Unique(list) => Unique(l)
  BY EntriesAmong
<1> HIDE DEF l
<1>2. NamesOf(l) \in Seq(Name)
  BY <1>1, NamesOfType
<1>3. Range(NamesOf(l)) = {e.name : e \in Range(l)}
  BY DEF Range, NamesOf
<1>4. \A e \in Range(list) : e \in Entry
  BY DEF Range
<1>5. \A e \in Range(l) : e.name \in avail /\ e = [name |-> e.name, on |-> TRUE] /\ e \in Range(list)
  <2>1. ASSUME NEW e \in EnabledEntry(avail)
        PROVE  e.name \in avail /\ e = [name |-> e.name, on |-> TRUE]
    BY DEF EnabledEntry
  <2> QED BY <1>1, <2>1
<1>6. \A n \in avail : [name |-> n, on |-> TRUE] \in EnabledEntry(avail)
  BY DEF EnabledEntry
<1>7. Range(NamesOf(l)) = {n \in avail : [name |-> n, on |-> TRUE] \in Range(list)}
  <2>1. ASSUME NEW n \in avail, [name |-> n, on |-> TRUE] \in Range(list)
        PROVE  n \in Range(NamesOf(l))
    <3>1. [name |-> n, on |-> TRUE] \in Range(l)
      BY <1>1, <1>6, <2>1
    <3> QED BY <1>3, <3>1
  <2> QED BY <1>3, <1>5, <2>1
<1>8. Range(NamesOf(l)) \subseteq Names(list)
  <2>1. \A e \in Range(list) : e.name \in Names(list)
    BY DEF Names, Range
  <2> QED BY <1>3, <1>5, <2>1
<1> QED BY <1>1, <1>2, <1>7, <1>8 DEF Unique, l

LEMMA NamedIsInNameList ==
    ASSUME NEW list, NEW n \in Name, n \in Names(list)
    PROVE  IsInNameList(list, n)
BY NameAssumption DEF IsInNameList

LEMMA ListedSound ==
    ASSUME NEW list \in Seq(Entry), NEW avail \in SUBSET Name
    PROVE  /\ Listed(list, avail) \in Seq(Name)
           /\ Range(Listed(list, avail)) \subseteq avail
           /\ Unique(list) => IsInjective(Listed(list, avail))
<1> DEFINE old == NamesOf(Among(list, EnabledEntry(avail)))
           new == {n \in avail : ~IsInNameList(list, n)}
           empty == list = <<>>
<1>1. /\ old \in Seq(Name) /\ Range(old) \subseteq avail /\ Range(old) \subseteq Names(list)
      /\ Unique(list) => IsInjective(old)
  BY EnabledNames
<1>2. Listed(list, avail) = WithNew(old, new, empty)
  BY DEF Listed
<1>3. \A n \in avail : n \in Names(list) => n \notin new
  BY NamedIsInNameList
<1>4. new \in SUBSET Name /\ new \subseteq avail
  OBVIOUS
<1> HIDE DEF old, new, empty
<1>5. Range(old) \cap new = {}
  BY <1>1, <1>3
<1>6. /\ Range(WithNew(old, new, empty)) \subseteq Range(old) \cup new
      /\ IsInjective(old) /\ Range(old) \cap new = {} => IsInjective(WithNew(old, new, empty))
  BY <1>1, <1>4, WithNewSound
<1> QED BY <1>1, <1>2, <1>4, <1>5, <1>6, ListedType

(* The three parts of a saved list.                                        *)
OnPart(s) == [i \in DOMAIN s.imes |-> [name |-> s.imes[i], on |-> TRUE]]
OffNames(s) == Among(Order, s.avail \ Range(s.imes))
OffPart(s) == [i \in DOMAIN OffNames(s) |-> [name |-> OffNames(s)[i], on |-> FALSE]]

LEMMA PartType ==
    ASSUME NEW names \in Seq(Name), NEW b \in BOOLEAN
    PROVE  LET part == [i \in DOMAIN names |-> [name |-> names[i], on |-> b]]
           IN  part \in Seq(Entry) /\ NamesOf(part) = names
<1>1. \A i \in 1 .. Len(names) : names[i] \in Name
  OBVIOUS
<1>2. \A i \in 1 .. Len(names) : [name |-> names[i], on |-> b] \in Entry
  BY <1>1 DEF Entry
<1>3. names = [i \in 1 .. Len(names) |-> names[i]] /\ DOMAIN names = 1 .. Len(names)
  OBVIOUS
<1>4. [i \in DOMAIN names |-> [name |-> names[i], on |-> b]] \in Seq(Entry)
  BY <1>2, <1>3
<1> QED BY <1>3, <1>4 DEF NamesOf

LEMMA SavedListParts ==
    ASSUME NEW s \in Instance
    PROVE  /\ SavedList(s) = (OnPart(s) \o OffPart(s)) \o s.unused
           /\ OnPart(s) \in Seq(Entry) /\ NamesOf(OnPart(s)) = s.imes
           /\ OffPart(s) \in Seq(Entry) /\ NamesOf(OffPart(s)) = OffNames(s)
           /\ s.unused \in Seq(Entry) /\ OffNames(s) \in Seq(Name)
           /\ Range(OffNames(s)) = s.avail \ Range(s.imes) /\ IsInjective(OffNames(s))
<1>1. s.imes \in Seq(Name) /\ s.unused \in Seq(Entry) /\ s.avail \in SUBSET Name
  BY DEF Instance
<1>2. /\ OffNames(s) \in Seq(Name)
      /\ Range(OffNames(s)) = Name \cap (s.avail \ Range(s.imes)) /\ IsInjective(OffNames(s))
  BY AmongOrder DEF OffNames
<1>3. /\ OnPart(s) \in Seq(Entry) /\ NamesOf(OnPart(s)) = s.imes
      /\ OffPart(s) \in Seq(Entry) /\ NamesOf(OffPart(s)) = OffNames(s)
  BY <1>1, <1>2, PartType DEF OnPart, OffPart
<1>4. SavedList(s) = (OnPart(s) \o OffPart(s)) \o s.unused
  BY DEF SavedList, OnPart, OffPart, OffNames
<1> QED BY <1>1, <1>2, <1>3, <1>4

LEMMA NamesOfConcat ==
    ASSUME NEW a \in Seq(Entry), NEW b \in Seq(Entry)
    PROVE  NamesOf(a \o b) = NamesOf(a) \o NamesOf(b)
<1> DEFINE c == NamesOf(a \o b)
           d == NamesOf(a) \o NamesOf(b)
<1>1. NamesOf(a) \in Seq(Name) /\ NamesOf(b) \in Seq(Name)
  BY NamesOfType
<1>2. Len(NamesOf(a)) = Len(a) /\ Len(NamesOf(b)) = Len(b)
  <2>1. \A x \in Seq(Entry) : NamesOf(x) = [i \in 1 .. Len(x) |-> x[i].name] /\ Len(x) \in Nat
    BY DEF NamesOf
  <2> QED BY <2>1
<1>3. a \o b \in Seq(Entry) /\ Len(a \o b) = Len(a) + Len(b) /\ DOMAIN (a \o b) = 1 .. (Len(a) + Len(b))
  OBVIOUS
<1>4. c = [i \in 1 .. (Len(a) + Len(b)) |-> (a \o b)[i].name]
  BY <1>3 DEF NamesOf
<1>5. d = [i \in 1 .. (Len(a) + Len(b)) |-> IF i <= Len(a) THEN NamesOf(a)[i] ELSE NamesOf(b)[i - Len(a)]]
  <2> DEFINE x == NamesOf(a)
             y == NamesOf(b)
  <2>1. x \in Seq(Name) /\ y \in Seq(Name) /\ Len(x) = Len(a) /\ Len(y) = Len(b)
    BY <1>1, <1>2
  <2> HIDE DEF x, y
  <2>2. x \o y = [i \in 1 .. (Len(x) + Len(y)) |-> IF i <= Len(x) THEN x[i] ELSE y[i - Len(x)]]
    <3>0. x \in Seq(Name) /\ y \in Seq(Name)
      BY <2>1
    <3>1. x \o y \in Seq(Name) /\ Len(x \o y) = Len(x) + Len(y)
      BY <3>0
    <3>2. \A i \in 1 .. (Len(x) + Len(y)) : (x \o y)[i] = IF i <= Len(x) THEN x[i] ELSE y[i - Len(x)]
      BY <3>0
    <3>3. \A z \in Seq(Name) : z = [i \in 1 .. Len(z) |-> z[i]]
      OBVIOUS
    <3>4. x \o y = [i \in 1 .. (Len(x) + Len(y)) |-> (x \o y)[i]]
      BY <3>1, <3>3
    <3> QED BY <3>2, <3>4
  <2> QED BY <2>1, <2>2 DEF x, y
<1>6. ASSUME NEW i \in 1 .. (Len(a) + Len(b))
      PROVE  (a \o b)[i].name = IF i <= Len(a) THEN NamesOf(a)[i] ELSE NamesOf(b)[i - Len(a)]
  <2>0. Len(a) \in Nat /\ Len(b) \in Nat /\ DOMAIN a = 1 .. Len(a) /\ DOMAIN b = 1 .. Len(b)
    OBVIOUS
  <2>1. (a \o b)[i] = IF i <= Len(a) THEN a[i] ELSE b[i - Len(a)]
    OBVIOUS
  <2>2. CASE i <= Len(a)
    <3>1. i \in DOMAIN a
      BY <2>0, <2>2
    <3> QED BY <2>1, <2>2, <3>1 DEF NamesOf
  <2>3. CASE ~ (i <= Len(a))
    <3>1. i - Len(a) \in DOMAIN b
      BY <2>0, <2>3
    <3> QED BY <2>1, <2>3, <3>1 DEF NamesOf
  <2> QED BY <2>2, <2>3
<1> QED BY <1>4, <1>5, <1>6

LEMMA SavedListSound ==
    ASSUME NEW s, Sound(s)
    PROVE  /\ SavedList(s) \in Seq(Entry) /\ Unique(SavedList(s))
           /\ Names(SavedList(s)) = s.avail \cup Names(s.unused)
<1> DEFINE a == OnPart(s)
           b == OffPart(s)
           ab == a \o b
           c == s.unused
<1>1. s \in Instance /\ s.imes \in Seq(Name) /\ s.avail \in SUBSET Name
  BY DEF Sound, Rebuildable, Instance
<1>2. /\ SavedList(s) = ab \o c
      /\ a \in Seq(Entry) /\ NamesOf(a) = s.imes
      /\ b \in Seq(Entry) /\ NamesOf(b) = OffNames(s)
      /\ c \in Seq(Entry) /\ OffNames(s) \in Seq(Name)
      /\ Range(OffNames(s)) = s.avail \ Range(s.imes) /\ IsInjective(OffNames(s))
  BY <1>1, SavedListParts
<1>3. ab \in Seq(Entry) /\ NamesOf(ab) = s.imes \o OffNames(s)
  <2>1. a \in Seq(Entry) /\ b \in Seq(Entry) /\ NamesOf(a) = s.imes /\ NamesOf(b) = OffNames(s)
    BY <1>2
  <2> HIDE DEF a, b
  <2>2. a \o b \in Seq(Entry)
    BY <2>1
  <2>3. NamesOf(a \o b) = NamesOf(a) \o NamesOf(b)
    BY <2>1, NamesOfConcat
  <2> QED BY <2>1, <2>2, <2>3
<1> HIDE DEF a, b, ab, c
<1>4. NamesOf(SavedList(s)) = NamesOf(ab) \o NamesOf(c)
  BY <1>2, <1>3, NamesOfConcat
<1>5. Range(s.imes \o OffNames(s)) = s.avail /\ IsInjective(s.imes \o OffNames(s))
  <2>1. /\ Range(s.imes) \cap Range(OffNames(s)) = {}
        /\ Range(s.imes) \cup Range(OffNames(s)) = s.avail
        /\ IsInjective(s.imes)
    BY <1>2 DEF Sound
  <2> DEFINE x == s.imes
             y == OffNames(s)
  <2>2. x \in Seq(Name) /\ y \in Seq(Name) /\ IsInjective(x) /\ IsInjective(y) /\ Range(x) \cap Range(y) = {}
    BY <1>1, <1>2, <2>1
  <2> HIDE DEF x, y
  <2>3. Range(x \o y) = Range(x) \cup Range(y) /\ IsInjective(x \o y)
    BY <2>2, ConcatInjective
  <2> QED BY <2>1, <2>3 DEF x, y
<1>6. /\ NamesOf(c) \in Seq(Name) /\ NamesOf(ab) \in Seq(Name)
      /\ IsInjective(NamesOf(c)) /\ Range(NamesOf(c)) \cap s.avail = {}
      /\ Range(NamesOf(c)) = Names(c)
  BY <1>2, <1>3, NamesOfType, NamesAreRange DEF Sound, Unique, c
<1>7. /\ Range(NamesOf(ab)) = s.avail /\ IsInjective(NamesOf(ab))
  BY <1>3, <1>5
<1>8. /\ Range(NamesOf(ab) \o NamesOf(c)) = s.avail \cup Names(c)
      /\ IsInjective(NamesOf(ab) \o NamesOf(c))
  BY <1>6, <1>7, ConcatInjective
<1>9. Names(SavedList(s)) = s.avail \cup Names(c) /\ Unique(SavedList(s))
  BY <1>4, <1>8, NamesAreRange DEF Unique
<1> QED BY <1>1, <1>9, SavedListType DEF c

LEMMA SaveProfileSound ==
    ASSUME NEW s, Sound(s)
    PROVE  Sound(SaveProfile(s)) /\ SaveProfile(s).imLoaded = s.imLoaded
<1> DEFINE t == SaveProfile(s)
<1>1. s \in Instance
  BY DEF Sound, Rebuildable
<1>2. t \in Instance /\ Unique(SavedList(s))
  BY <1>1, SavedListType, SavedListSound
<1>3. /\ t.imList = SavedList(s) /\ t.disk.imList = SavedList(s)
      /\ t.avail = s.avail /\ t.initialized = s.initialized /\ t.imes = s.imes
      /\ t.unused = s.unused /\ t.imLoaded = s.imLoaded
  BY <1>1 DEF SaveProfile, Instance, Profile
<1> HIDE DEF t
<1> QED BY <1>2, <1>3 DEF Sound, Rebuildable, t

LEMMA SplitSound ==
    ASSUME NEW s, Rebuildable(s)
    PROVE  Sound(Split(s)) /\ Split(s).imLoaded = s.imLoaded
<1> DEFINE t == Split(s)
<1>1. s \in Instance /\ s.imList \in Seq(Entry) /\ s.avail \in SUBSET Name /\ Unique(s.imList)
  BY DEF Rebuildable, Instance
<1>2. /\ t.imes = Listed(s.imList, s.avail)
      /\ t.unused = Among(s.imList, EntryOf(Name \ s.avail))
      /\ t.imList = Among(s.imList, EntryOf(s.avail))
      /\ t.avail = s.avail /\ t.initialized = s.initialized /\ t.disk = s.disk
      /\ t.imLoaded = s.imLoaded
  BY <1>1 DEF Split, Instance
<1>3. t \in Instance
  BY <1>1, SplitType
<1> HIDE DEF t
<1>4. Range(t.imes) \subseteq s.avail /\ IsInjective(t.imes)
  BY <1>1, <1>2, ListedSound
<1>5. Unique(t.imList) /\ Unique(t.unused) /\ Range(t.unused) \subseteq EntryOf(Name \ s.avail)
  <2>1. Unique(t.imList)
    BY <1>1, <1>2, EntriesAmong
  <2>2. Unique(t.unused) /\ Range(t.unused) = Range(s.imList) \cap EntryOf(Name \ s.avail)
    BY <1>1, <1>2, EntriesAmong
  <2> QED BY <2>1, <2>2
<1>6. Names(t.unused) \cap s.avail = {}
  <2>1. \A n \in Names(t.unused) : \E e \in Range(t.unused) : e.name = n
    BY DEF Names, Range
  <2>2. \A e \in Range(t.unused) : e.name \notin s.avail
    BY <1>5 DEF EntryOf
  <2> QED BY <2>1, <2>2
<1> QED BY <1>2, <1>3, <1>4, <1>5, <1>6 DEF Sound, Rebuildable, t

-----------------------------------------------------------------------------
(* Type correctness: a list can be rebuilt from every state there is.      *)

(* A state whose list can be rebuilt is rebuilt to a sound one: the         *)
(* induction hypothesis for a state with less to be loaded.                 *)
Good(s) == Sound(s) /\ s.imLoaded

Fit(s) == Rebuildable(s) /\ s.imLoaded

SoundBelow(s) ==
    \A t \in Instance : Fit(t) /\ Pending(t) < Pending(s) => Good(Rebuilt[t])

LEMMA LoadIMFit ==
    ASSUME NEW s, Fit(s), NEW a \in Addon
    PROVE  Fit(LoadIM(s, a))
<1> DEFINE t == LoadIM(s, a)
<1>1. s \in Instance
  BY DEF Fit, Rebuildable
<1>2. t \in Instance
  BY <1>1, LoadIMPending
<1>3. /\ t.initialized \subseteq t.avail /\ t.imList = s.imList /\ t.disk = s.disk
      /\ t.imLoaded = s.imLoaded
  BY <1>1 DEF LoadIM, Instance, Fit, Rebuildable
<1> HIDE DEF t
<1>4. Fit(t)
  BY <1>2, <1>3 DEF Fit, Rebuildable
<1> QED BY <1>4 DEF t

LEMMA RegisteredFit ==
    ASSUME NEW s, Fit(s), NEW n \in s.avail \ s.initialized
    PROVE  Fit(Registered(s, n))
<1> DEFINE s1 == LoadIM(s, Owner[n])
           t  == Registered(s, n)
<1>1. s \in Instance /\ n \in Name /\ Owner[n] \in Addon
  BY NameAssumption DEF Fit, Rebuildable, Instance
<1>2. Fit(s1)
  BY <1>1, LoadIMFit
<1>3. t = IF n \in s1.initialized THEN s1 ELSE [s1 EXCEPT !.avail = @ \ {n}]
  BY DEF Registered
<1> HIDE DEF s1
<1>4. t \in Instance
  BY <1>1, RegisteredPending
<1>5. /\ t.initialized \subseteq t.avail /\ t.imList = s1.imList /\ t.disk = s1.disk
      /\ t.imLoaded = s1.imLoaded
  BY <1>2, <1>3 DEF Fit, Rebuildable, Instance
<1> HIDE DEF t
<1>6. Fit(t)
  BY <1>2, <1>4, <1>5 DEF Fit, Rebuildable
<1> QED BY <1>6 DEF t

LEMMA LoadCurrentGood ==
    ASSUME installed \in SUBSET Addon, NEW s, Good(s), SoundBelow(s)
    PROVE  Good(LoadCurrent(Rebuilt, s))
<1> DEFINE n == CurrentIM(s)
           s2 == Registered(s, n)
           s3 == Rebuilt[s2]
           r == [s3 EXCEPT !.iIMIndex = IMIndexByName(s3, n)]
<1>1. s \in Instance /\ Fit(s)
  BY DEF Good, Sound, Fit, Rebuildable
<1>2. LoadCurrent(Rebuilt, s) = IF n \in s.avail \ s.initialized THEN r ELSE s
  BY DEF LoadCurrent, LazyLoad, Registered
<1> HIDE DEF n
<1>3. CASE n \in s.avail \ s.initialized
  <2>1. Fit(s2) /\ s2 \in Instance /\ Pending(s2) < Pending(s)
    BY <1>1, <1>3, RegisteredFit, RegisteredPending
  <2> HIDE DEF s2
  <2>2. Good(s3)
    BY <2>1 DEF SoundBelow
  <2> HIDE DEF s3
  <2>3. s3 \in Instance
    BY <2>2 DEF Good, Sound, Rebuildable
  <2>4. IMIndexByName(s3, n) \in Int
    BY <2>3, IMIndexByNameType
  <2>5. /\ r \in Instance
        /\ r.avail = s3.avail /\ r.initialized = s3.initialized /\ r.imes = s3.imes
        /\ r.unused = s3.unused /\ r.imList = s3.imList /\ r.disk = s3.disk
        /\ r.imLoaded = s3.imLoaded
    BY <2>3, <2>4 DEF Instance
  <2> HIDE DEF r
  <2>6. Good(r)
    BY <2>2, <2>5 DEF Good, Sound, Rebuildable
  <2> QED BY <1>2, <1>3, <2>6
<1>4. CASE n \notin s.avail \ s.initialized
  BY <1>2, <1>4
<1> QED BY <1>3, <1>4

LEMMA FindFunctionGood ==
    ASSUME installed \in SUBSET Addon, NEW s, Good(s), SoundBelow(s), NEW a \in installed
    PROVE  Good(FindFunction(Rebuilt, s, a))
<1> DEFINE t == LoadIM(s, a)
<1>1. s \in Instance /\ Fit(s) /\ a \in Addon
  BY DEF Good, Sound, Fit, Rebuildable
<1>2. t \in Instance /\ Fit(t) /\ (a \notin s.loaded => Pending(t) < Pending(s))
  BY <1>1, LoadIMFit, LoadIMPending
<1>3. FindFunction(Rebuilt, s, a) = IF a \in s.loaded THEN s ELSE Rebuilt[t]
  BY DEF FindFunction
<1> HIDE DEF t
<1> QED BY <1>2, <1>3 DEF SoundBelow

LEMMA InitCurrentGood ==
    ASSUME installed \in SUBSET Addon, NEW s, Good(s), SoundBelow(s)
    PROVE  Good(InitCurrent(Rebuilt, s))
BY FindFunctionGood DEF InitCurrent, InitIM

LEMMA UpdateGlobalGood ==
    ASSUME NEW s, Good(s), NEW n \in Name \cup {NoName}
    PROVE  Good(UpdateGlobal(s, n))
<1> DEFINE t == [s EXCEPT !.globalIM = n]
<1>1. s \in Instance
  BY DEF Good, Sound, Rebuildable
<1>2. /\ t \in Instance
      /\ t.avail = s.avail /\ t.initialized = s.initialized /\ t.imes = s.imes
      /\ t.unused = s.unused /\ t.imList = s.imList /\ t.disk = s.disk
      /\ t.imLoaded = s.imLoaded
  BY <1>1 DEF Instance
<1>3. UpdateGlobal(s, n) = IF n \notin {NoName, s.globalIM} THEN SaveProfile(t) ELSE s
  BY DEF UpdateGlobal
<1> HIDE DEF t
<1>4. Sound(t) /\ t.imLoaded
  BY <1>2 DEF Good, Sound, Rebuildable
<1> QED BY <1>3, <1>4, SaveProfileSound DEF Good

LEMMA BelowIsBelow ==
    ASSUME NEW s \in Instance, NEW t \in Instance, Pending(t) <= Pending(s), SoundBelow(s)
    PROVE  SoundBelow(t)
<1> SUFFICES ASSUME NEW u \in Instance, Fit(u), Pending(u) < Pending(t) PROVE Good(Rebuilt[u])
  BY DEF SoundBelow
<1>1. Pending(u) < Pending(s)
  BY PendingIsNat
<1> QED BY <1>1 DEF SoundBelow

LEMMA SwitchIMInternalGood ==
    ASSUME installed \in SUBSET Addon, NEW s, Good(s), SoundBelow(s),
           NEW index \in Int, NEW skip, NEW global
    PROVE  Good(SwitchIMInternal(Rebuilt, s, index, skip, global))
<1> DEFINE s0 == [s EXCEPT !.iIMIndex = Clamped(s, index, skip)]
           s1 == LoadCurrent(Rebuilt, s0)
           s2 == InitCurrent(Rebuilt, s1)
           end == IF global THEN UpdateGlobal(s2, IMByIndex(s2, s1.iIMIndex)) ELSE s2
<1>1. SwitchIMInternal(Rebuilt, s, index, skip, global) = end
  BY DEF SwitchIMInternal
<1>2. s \in Instance /\ Rebuilt \in Keeping
  BY RebuiltKeeps DEF Good, Sound, Rebuildable
<1>3. /\ s0 \in Instance
      /\ s0.avail = s.avail /\ s0.initialized = s.initialized /\ s0.imes = s.imes
      /\ s0.unused = s.unused /\ s0.imList = s.imList /\ s0.disk = s.disk
      /\ s0.imLoaded = s.imLoaded /\ s0.loaded = s.loaded
  BY <1>2, ClampedType DEF Instance
<1> HIDE DEF s0
<1>4. Good(s0) /\ Pending(s0) = Pending(s) /\ Pending(s) \in Nat
  BY <1>2, <1>3, PendingSame, PendingIsNat DEF Good, Sound, Rebuildable
<1>5. SoundBelow(s0)
  BY <1>4 DEF SoundBelow
<1>6. Good(s1) /\ s1 \in Instance /\ Pending(s1) <= Pending(s)
  BY <1>2, <1>3, <1>4, <1>5, LoadCurrentGood, LoadCurrentKeeps
<1> HIDE DEF s1
<1>7. SoundBelow(s1)
  BY <1>2, <1>6, BelowIsBelow
<1>8. Good(s2)
  BY <1>6, <1>7, InitCurrentGood
<1> HIDE DEF s2
<1>9. Good(end)
  <2>1. s2 \in Instance /\ s1.iIMIndex \in Int
    BY <1>6, <1>8 DEF Good, Sound, Rebuildable, Instance
  <2>2. IMByIndex(s2, s1.iIMIndex) \in Name \cup {NoName}
    BY <2>1, IMByIndexType
  <2>3. Good(UpdateGlobal(s2, IMByIndex(s2, s1.iIMIndex)))
    BY <1>8, <2>2, UpdateGlobalGood
  <2> QED BY <1>8, <2>3
<1> QED BY <1>1, <1>9

(* The steps of UpdateCurrentIM.                                           *)
Global(s) == IMIndexByName(s, s.globalIM)

Repairs(s) == Global(s) <= 0 /\ Len(s.imes) > 1

Repaired(s) ==
    [s EXCEPT !.globalIM = IF Repairs(s) THEN s.imes[2] ELSE @,
              !.ic.imname = IF @ \in Range(s.imes) THEN @ ELSE NoName]

Wanted(s) == Target(Repaired(s), IF Repairs(s) THEN 1 ELSE Global(s))

Skips(s) == ~(s.ic.here /\ ~s.ic.active)

LEMMA UpdateCurrentIMIs ==
    ASSUME NEW s \in Instance, NEW g, NEW force
    PROVE  UpdateCurrentIM(g, s, force) =
             IF ~s.ic.here /\ ~force THEN s
             ELSE IF force \/ Repairs(s) \/ Wanted(s) # s.iIMIndex
                  THEN SwitchIMInternal(g, Repaired(s), Wanted(s), Skips(s), Repairs(s))
                  ELSE Repaired(s)
<1>1. Repaired(s) = [s EXCEPT !.globalIM = IF Repairs(s) THEN s.imes[2] ELSE @,
                              !.ic.imname = IF s.ic.imname \in Range(s.imes)
                                            THEN s.ic.imname ELSE NoName]
  BY DEF Repaired, Instance, Context
<1> QED BY <1>1 DEF UpdateCurrentIM, Wanted, Skips, Repairs, Global

LEMMA RepairedIs ==
    ASSUME NEW s \in Instance
    PROVE  LET t == Repaired(s)
           IN  /\ t \in Instance
               /\ t.avail = s.avail /\ t.initialized = s.initialized /\ t.loaded = s.loaded
               /\ t.imes = s.imes /\ t.unused = s.unused /\ t.imList = s.imList
               /\ t.disk = s.disk /\ t.imLoaded = s.imLoaded /\ t.iIMIndex = s.iIMIndex
               /\ t.globalIM = IF Repairs(s) THEN s.imes[2] ELSE s.globalIM
               /\ t.ic.here = s.ic.here /\ t.ic.active = s.ic.active
               /\ t.ic.imname = IF s.ic.imname \in Range(s.imes) THEN s.ic.imname ELSE NoName
               /\ Pending(t) = Pending(s)
<1> DEFINE local == IF s.ic.imname \in Range(s.imes) THEN s.ic.imname ELSE NoName
           global == IF Repairs(s) THEN s.imes[2] ELSE s.globalIM
           t == [s EXCEPT !.globalIM = global, !.ic.imname = local]
<1>1. s.imes \in Seq(Name)
  BY DEF Instance
<1>2. Repairs(s) => s.imes[2] \in Name
  <2>1. Repairs(s) => 2 \in DOMAIN s.imes
    BY <1>1 DEF Repairs
  <2> QED BY <1>1, <2>1
<1>3. Repaired(s) = t
  BY DEF Repaired, Instance, Context
<1>4. local \in Name \cup {NoName} /\ global \in Name \cup {NoName}
  BY <1>2 DEF Instance, Context
<1> HIDE DEF local, global
<1>5. /\ t \in Instance
      /\ t.avail = s.avail /\ t.initialized = s.initialized /\ t.loaded = s.loaded
      /\ t.imes = s.imes /\ t.unused = s.unused /\ t.imList = s.imList
      /\ t.disk = s.disk /\ t.imLoaded = s.imLoaded /\ t.iIMIndex = s.iIMIndex
      /\ t.globalIM = global
      /\ t.ic.here = s.ic.here /\ t.ic.active = s.ic.active /\ t.ic.imname = local
  BY <1>4 DEF Instance, Context
<1> HIDE DEF t
<1>6. Pending(t) = Pending(s)
  BY <1>5, PendingSame
<1> QED BY <1>3, <1>5, <1>6 DEF local, global

LEMMA WantedType ==
    ASSUME NEW s \in Instance
    PROVE  Wanted(s) \in Int
<1>1. Global(s) \in Int /\ Repaired(s) \in Instance
  BY IMIndexByNameType, RepairedIs DEF Global
<1>2. IMIndexByName(Repaired(s), Repaired(s).ic.imname) \in Int
  BY <1>1, IMIndexByNameType
<1> QED BY <1>1, <1>2 DEF Wanted, Target

LEMMA UpdateCurrentIMGood ==
    ASSUME installed \in SUBSET Addon, NEW s, Good(s), SoundBelow(s), NEW force
    PROVE  Good(UpdateCurrentIM(Rebuilt, s, force))
<1> DEFINE t == Repaired(s)
<1>1. s \in Instance
  BY DEF Good, Sound, Rebuildable
<1>2. /\ t \in Instance
      /\ t.avail = s.avail /\ t.initialized = s.initialized /\ t.imes = s.imes
      /\ t.unused = s.unused /\ t.imList = s.imList /\ t.disk = s.disk
      /\ t.imLoaded = s.imLoaded /\ Pending(t) = Pending(s)
  BY <1>1, RepairedIs
<1>3. UpdateCurrentIM(Rebuilt, s, force) =
        IF ~s.ic.here /\ ~force THEN s
        ELSE IF force \/ Repairs(s) \/ Wanted(s) # s.iIMIndex
             THEN SwitchIMInternal(Rebuilt, t, Wanted(s), Skips(s), Repairs(s))
             ELSE t
  BY <1>1, UpdateCurrentIMIs
<1> HIDE DEF t
<1>4. Good(t)
  BY <1>2 DEF Good, Sound, Rebuildable
<1>5. SoundBelow(t)
  BY <1>2 DEF SoundBelow
<1>6. Wanted(s) \in Int
  BY <1>1, WantedType
<1>7. Good(SwitchIMInternal(Rebuilt, t, Wanted(s), Skips(s), Repairs(s)))
  BY <1>4, <1>5, <1>6, SwitchIMInternalGood
<1> QED BY <1>3, <1>4, <1>7

(* A fact of what a rebuilding gives is proved from the rebuildings inside   *)
(* it.                                                                     *)
LEMMA RebuiltInduction ==
    ASSUME NEW From \in SUBSET Instance, NEW Wrong \in SUBSET From,
           \A s \in From : (\A t \in From : Pending(t) < Pending(s) => t \notin Wrong)
                              => s \notin Wrong
    PROVE  Wrong = {}
<1> SUFFICES ASSUME Wrong # {} PROVE FALSE
  OBVIOUS
<1> DEFINE Counts == {Pending(s) : s \in Wrong}
<1>1. Counts \in SUBSET Nat /\ Counts # {}
  BY PendingIsNat
<1>2. PICK m \in Counts : \A k \in Counts : m <= k
  <2> HIDE DEF Counts
  <2> QED BY <1>1, LeastNatural
<1>3. PICK s \in Wrong : m = Pending(s)
  BY <1>2
<1>4. ASSUME NEW t \in From, Pending(t) < Pending(s) PROVE t \notin Wrong
  <2> SUFFICES ASSUME t \in Wrong PROVE FALSE
    OBVIOUS
  <2>1. Pending(t) \in Counts
    OBVIOUS
  <2>2. Pending(s) <= Pending(t) /\ Pending(s) \in Nat /\ Pending(t) \in Nat
    BY <1>2, <1>3, <2>1, PendingIsNat
  <2> QED BY <1>4, <2>2
<1> HIDE DEF Counts
<1> QED BY <1>3, <1>4

LEMMA RebuiltGood ==
    ASSUME installed \in SUBSET Addon, NEW s, Fit(s)
    PROVE  Good(Rebuilt[s])
<1> DEFINE From == {t \in Instance : Fit(t)}
           Wrong == {t \in From : ~ Good(Rebuilt[t])}
<1>1. ASSUME NEW t \in From, \A u \in From : Pending(u) < Pending(t) => u \notin Wrong
      PROVE  Good(Rebuilt[t])
  <2> DEFINE t1 == Split(t)
             t2 == UpdateCurrentIM(Rebuilt, t1, TRUE)
  <2>1. t \in Instance /\ Fit(t)
    OBVIOUS
  <2>2. SoundBelow(t)
    BY <1>1 DEF SoundBelow
  <2> HIDE DEF From, Wrong
  <2>3. t1 \in Instance /\ Pending(t1) = Pending(t) /\ Good(t1)
    BY <2>1, SplitType, SplitSound DEF Fit, Good
  <2> HIDE DEF t1
  <2>4. SoundBelow(t1)
    BY <2>2, <2>3 DEF SoundBelow
  <2>5. Good(t2)
    BY <2>3, <2>4, UpdateCurrentIMGood
  <2> HIDE DEF t2
  <2>6. Good(SaveProfile(t2))
    BY <2>5, SaveProfileSound DEF Good
  <2>7. Rebuilt[t] = SaveProfile(t2)
    BY <2>1, RebuiltDefined, UpdateIMListIs DEF Fit, t1, t2
  <2> QED BY <2>6, <2>7
<1>2. Wrong = {}
  <2>1. From \in SUBSET Instance /\ Wrong \in SUBSET From
    OBVIOUS
  <2>2. ASSUME NEW t \in From, \A u \in From : Pending(u) < Pending(t) => u \notin Wrong
        PROVE  t \notin Wrong
    BY <1>1, <2>2
  <2> HIDE DEF From, Wrong
  <2> QED BY <2>1, <2>2, RebuiltInduction
<1>3. s \in From
  BY DEF Fit, Rebuildable
<1> QED BY <1>2, <1>3

LEMMA AllSoundBelow ==
    ASSUME installed \in SUBSET Addon, NEW s
    PROVE  SoundBelow(s)
BY RebuiltGood DEF SoundBelow

LEMMA SetLocalIMNameGood ==
    ASSUME installed \in SUBSET Addon, NEW s, Good(s), NEW n \in Name \cup {NoName}
    PROVE  Good(SetLocalIMName(s, n))
<1> DEFINE t == [s EXCEPT !.ic.imname = n]
<1>1. s \in Instance
  BY DEF Good, Sound, Rebuildable
<1>2. /\ t \in Instance
      /\ t.avail = s.avail /\ t.initialized = s.initialized /\ t.imes = s.imes
      /\ t.unused = s.unused /\ t.imList = s.imList /\ t.disk = s.disk
      /\ t.imLoaded = s.imLoaded
  BY <1>1 DEF Instance, Context
<1>3. SetLocalIMName(s, n) = UpdateCurrentIM(Rebuilt, t, FALSE)
  BY DEF SetLocalIMName
<1> HIDE DEF t
<1>4. Good(t)
  BY <1>2 DEF Good, Sound, Rebuildable
<1> QED BY <1>3, <1>4, UpdateCurrentIMGood, AllSoundBelow

LEMMA SetStateGood ==
    ASSUME installed \in SUBSET Addon, NEW s, Good(s), NEW active \in BOOLEAN
    PROVE  Good(SetState(s, active))
<1> DEFINE t == [s EXCEPT !.ic.active = active]
<1>1. s \in Instance
  BY DEF Good, Sound, Rebuildable
<1>2. /\ t \in Instance
      /\ t.avail = s.avail /\ t.initialized = s.initialized /\ t.imes = s.imes
      /\ t.unused = s.unused /\ t.imList = s.imList /\ t.disk = s.disk
      /\ t.imLoaded = s.imLoaded
  BY <1>1 DEF Instance, Context
<1>3. SetState(s, active) = UpdateCurrentIM(Rebuilt, t, FALSE)
  BY DEF SetState
<1> HIDE DEF t
<1>4. Good(t)
  BY <1>2 DEF Good, Sound, Rebuildable
<1> QED BY <1>3, <1>4, UpdateCurrentIMGood, AllSoundBelow

LEMMA ActivatedGood ==
    ASSUME installed \in SUBSET Addon, NEW s, Good(s)
    PROVE  Good(Activated(s))
BY SetStateGood DEF Activated

LEMMA ResolvedType ==
    ASSUME NEW s \in Instance, NEW index \in Int
    PROVE  Resolved(s, index) \in Int
<1>1. Len(s.imes) \in Nat /\ s.iIMIndex \in Int
  BY DEF Instance
<1> QED BY <1>1 DEF Resolved

LEMMA SwitchIMByIndexGood ==
    ASSUME installed \in SUBSET Addon, NEW s, Good(s), NEW index \in Int
    PROVE  Good(SwitchIMByIndex(s, index))
<1> DEFINE i  == Resolved(s, index)
           s1 == IF s.ic.here THEN SetLocalIMName(s, NoName) ELSE s
           s2 == SwitchIMInternal(Rebuilt, s1, i, TRUE, TRUE)
<1>1. i \in Int
  BY ResolvedType DEF Good, Sound, Rebuildable
<1>2. SwitchIMByIndex(s, index) =
        IF i = 0 THEN IF s.ic.here /\ s.ic.active THEN SetState(s, FALSE) ELSE s
        ELSE Activated(s2)
  BY DEF SwitchIMByIndex
<1>3. Good(s1)
  BY SetLocalIMNameGood
<1> HIDE DEF i, s1
<1>4. Good(s2)
  BY <1>1, <1>3, SwitchIMInternalGood, AllSoundBelow
<1> HIDE DEF s2
<1>5. Good(Activated(s2))
  BY <1>4, ActivatedGood
<1> QED BY <1>2, <1>5, SetStateGood

LEMMA LoadAllIMGood ==
    ASSUME installed \in SUBSET Addon, NEW s, Rebuildable(s)
    PROVE  Good(LoadAllIM(s))
<1> DEFINE files == {n \in Name : Owner[n] \in installed \cap Lazy}
           self  == installed \ (Lazy \cup s.loaded)
           own   == UNION {Offered(a) : a \in self}
           t == [s EXCEPT !.avail = @ \cup files \cup own, !.initialized = @ \cup own,
                          !.loaded = @ \cup self, !.imLoaded = TRUE]
<1>1. LoadAllIM(s) = Rebuilt[t]
  BY DEF LoadAllIM
<1>2. files \in SUBSET Name /\ self \in SUBSET Addon /\ own \in SUBSET Name
  BY DEF Offered
<1> HIDE DEF files, self, own
<1>3. /\ t \in Instance /\ t.initialized \subseteq t.avail
      /\ t.imList = s.imList /\ t.disk = s.disk /\ t.imLoaded
  BY <1>2 DEF Rebuildable, Instance
<1> HIDE DEF t
<1>4. Fit(t)
  BY <1>3 DEF Fit, Rebuildable
<1> QED BY <1>1, <1>4, RebuiltGood

LEMMA FreshSound ==
    ASSUME NEW disk \in Profile, Unique(disk.imList)
    PROVE  Sound(Fresh(disk)) /\ ~ Fresh(disk).imLoaded
<1> DEFINE t == Fresh(disk)
           none == <<>>
<1>1. none \in Seq(Name) /\ none \in Seq(Entry) /\ DOMAIN none = {}
  OBVIOUS
<1>2. /\ t = [avail |-> {}, initialized |-> {}, loaded |-> {}, imes |-> none, unused |-> none,
              imList |-> disk.imList, globalIM |-> disk.imName, iIMIndex |-> 0, disk |-> disk,
              ic |-> [here |-> FALSE, active |-> FALSE, imname |-> NoName], imLoaded |-> FALSE]
  BY DEF Fresh
<1> HIDE DEF none, t
<1>3. t \in Instance
  BY <1>1, <1>2 DEF Instance, Profile, Context
<1>4. Range(none) = {} /\ IsInjective(none) /\ Names(none) = {} /\ Unique(none)
  BY <1>1 DEF Range, IsInjective, Names, Unique, NamesOf
<1>5. /\ t.imes = none /\ t.unused = none /\ t.avail = {} /\ t.initialized = {} /\ ~ t.imLoaded
      /\ t.disk = disk /\ t.imList = disk.imList
  BY <1>2
<1>6. Sound(t) /\ ~ t.imLoaded
  BY <1>3, <1>4, <1>5 DEF Sound, Rebuildable
<1> QED BY <1>6 DEF t

LEMMA IndexGood ==
    ASSUME NEW s, Good(s), NEW i \in Int
    PROVE  Good([s EXCEPT !.iIMIndex = i])
<1> DEFINE t == [s EXCEPT !.iIMIndex = i]
<1>1. /\ s \in Instance /\ t \in Instance
      /\ t.avail = s.avail /\ t.initialized = s.initialized /\ t.imes = s.imes
      /\ t.unused = s.unused /\ t.imList = s.imList /\ t.disk = s.disk
      /\ t.imLoaded = s.imLoaded
  BY DEF Instance, Good, Sound, Rebuildable
<1> HIDE DEF t
<1>2. Good(t)
  BY <1>1 DEF Good, Sound, Rebuildable
<1> QED BY <1>2 DEF t

LEMMA StartedGood ==
    ASSUME installed \in SUBSET Addon, NEW disk \in Profile, Unique(disk.imList)
    PROVE  Good(Started(disk))
<1> DEFINE s == LoadAllIM(Fresh(disk))
           at == IMIndexByName(s, s.disk.imName)
           i  == IF at < 0 THEN 0 ELSE at
<1>1. Good(s)
  BY FreshSound, LoadAllIMGood DEF Sound
<1>2. Started(disk) = SwitchIMByIndex([s EXCEPT !.iIMIndex = i], i)
  BY DEF Started
<1> HIDE DEF s
<1>3. s \in Instance
  BY <1>1 DEF Good, Sound, Rebuildable
<1>4. i \in Int
  BY <1>3, IMIndexByNameType
<1> HIDE DEF i
<1> QED BY <1>1, <1>2, <1>4, IndexGood, SwitchIMByIndexGood

-----------------------------------------------------------------------------

(* Before the first start nothing is offered and no context has the focus.  *)
TypeInv ==
    /\ installed \subseteq Addon /\ reload \in BOOLEAN
    /\ Sound(instance)
    /\ ~instance.imLoaded => instance.avail = {} /\ ~instance.ic.here

LEMMA TypeInit ==
    ASSUME Init PROVE TypeInv
<1> DEFINE disk == [imList |-> <<>>, imName |-> NoName]
<1>1. disk \in Profile /\ Unique(disk.imList)
  BY DEF Profile, Unique, NamesOf, IsInjective
<1>2. instance = Fresh(disk)
  BY DEF Init
<1> HIDE DEF disk
<1>3. Sound(instance) /\ ~instance.imLoaded
  BY <1>1, <1>2, FreshSound
<1>4. Fresh(disk).avail = {} /\ ~ Fresh(disk).ic.here
  BY DEF Fresh
<1>5. installed \subseteq Addon /\ reload \in BOOLEAN
  BY DEF Init
<1> QED BY <1>2, <1>3, <1>4, <1>5 DEF TypeInv

LEMMA SetIMListFit ==
    ASSUME Good(instance), NEW list \in Lists
    PROVE  Fit([instance EXCEPT !.imList = Among(list, EntryOf(instance.avail))])
<1> DEFINE l == Among(list, EntryOf(instance.avail))
           t == [instance EXCEPT !.imList = l]
<1>1. list \in Seq(Entry) /\ Unique(list)
  BY ListsAssumption DEF Unique
<1>2. l \in Seq(Entry) /\ Unique(l)
  BY <1>1, EntriesAmong
<1> HIDE DEF l
<1>3. /\ t \in Instance /\ t.imList = l /\ t.disk = instance.disk /\ t.imLoaded = instance.imLoaded
      /\ t.avail = instance.avail /\ t.initialized = instance.initialized
  BY <1>2 DEF Good, Sound, Rebuildable, Instance
<1> HIDE DEF t
<1>4. Fit(t)
  BY <1>2, <1>3 DEF Fit, Good, Sound, Rebuildable
<1> QED BY <1>4 DEF t, l

(* A state that differs in the context, the list or the profile alone.       *)
LEMMA Changed ==
    ASSUME NEW s, Sound(s), NEW t \in Instance,
           t.avail = s.avail, t.initialized = s.initialized, t.imes = s.imes,
           t.unused = s.unused, t.imLoaded = s.imLoaded,
           Unique(t.imList), Unique(t.disk.imList)
    PROVE  Sound(t) /\ (Good(s) => Good(t))
BY DEF Sound, Rebuildable, Good

LEMMA FocusChanged ==
    ASSUME NEW s, Good(s), NEW ic \in Context
    PROVE  Good([s EXCEPT !.ic = ic])
<1> DEFINE t == [s EXCEPT !.ic = ic]
<1>1. /\ s \in Instance /\ t \in Instance
      /\ t.avail = s.avail /\ t.initialized = s.initialized /\ t.imes = s.imes
      /\ t.unused = s.unused /\ t.imLoaded = s.imLoaded
      /\ t.imList = s.imList /\ t.disk = s.disk
  BY DEF Good, Sound, Rebuildable, Instance
<1> HIDE DEF t
<1>2. Good(t)
  BY <1>1, Changed DEF Good, Sound, Rebuildable
<1> QED BY <1>2 DEF t

LEMMA ProfileLoadGood ==
    ASSUME NEW s, Good(s)
    PROVE  Good(ProfileLoad(s))
<1> DEFINE t == ProfileLoad(s)
<1>1. /\ s \in Instance /\ t \in Instance
      /\ t.avail = s.avail /\ t.initialized = s.initialized /\ t.imes = s.imes
      /\ t.unused = s.unused /\ t.imLoaded = s.imLoaded
      /\ t.imList = s.disk.imList /\ t.disk = s.disk
  BY DEF Good, Sound, Rebuildable, Instance, ProfileLoad, Profile
<1> HIDE DEF t
<1>2. Good(t)
  BY <1>1, Changed DEF Good, Sound, Rebuildable
<1> QED BY <1>2 DEF t

LEMMA EditGood ==
    ASSUME NEW s, Good(s), NEW list \in Lists
    PROVE  Good([s EXCEPT !.disk.imList = list])
<1> DEFINE t == [s EXCEPT !.disk.imList = list]
<1>1. list \in Seq(Entry) /\ Unique(list)
  BY ListsAssumption DEF Unique
<1>2. /\ s \in Instance /\ t \in Instance
      /\ t.avail = s.avail /\ t.initialized = s.initialized /\ t.imes = s.imes
      /\ t.unused = s.unused /\ t.imLoaded = s.imLoaded
      /\ t.imList = s.imList /\ t.disk.imList = list
  BY <1>1 DEF Good, Sound, Rebuildable, Instance, Profile
<1> HIDE DEF t
<1>3. Good(t)
  BY <1>1, <1>2, Changed DEF Good, Sound, Rebuildable
<1> QED BY <1>3 DEF t

LEMMA DropFit ==
    ASSUME NEW s, Good(s), NEW n
    PROVE  Fit([s EXCEPT !.avail = @ \ {n}, !.initialized = @ \ {n}])
<1> DEFINE t == [s EXCEPT !.avail = @ \ {n}, !.initialized = @ \ {n}]
<1>1. /\ s \in Instance /\ t \in Instance
      /\ t.avail = s.avail \ {n} /\ t.initialized = s.initialized \ {n}
      /\ t.imLoaded = s.imLoaded /\ t.imList = s.imList /\ t.disk = s.disk
  BY DEF Good, Sound, Rebuildable, Instance
<1> HIDE DEF t
<1>2. Fit(t)
  BY <1>1 DEF Fit, Good, Sound, Rebuildable
<1> QED BY <1>2 DEF t

LEMMA KnownIsLoaded ==
    ASSUME TypeInv, NEW a, Known(instance, a)
    PROVE  Good(instance)
BY DEF TypeInv, Known, Good

LEMMA TypeAfter ==
    ASSUME installed' \subseteq Addon, reload' \in BOOLEAN, Good(instance')
    PROVE  TypeInv'
BY DEF TypeInv, Good, Sound, Rebuildable

LEMMA TypeNext ==
    ASSUME TypeInv, [Next]_vars PROVE TypeInv'
<1>0. installed \in SUBSET Addon /\ reload \in BOOLEAN /\ Sound(instance)
  BY DEF TypeInv
<1>1. CASE Start
  <2>1. instance.disk \in Profile /\ Unique(instance.disk.imList)
    BY <1>0 DEF Sound, Rebuildable, Instance
  <2>2. Good(Started(instance.disk))
    BY <1>0, <2>1, StartedGood
  <2> QED BY <1>0, <1>1, <2>2, TypeAfter DEF Start
<1>2. CASE FocusOut
  <2>1. Good(instance)
    BY <1>0, <1>2 DEF FocusOut, Good
  <2> DEFINE ic == [here |-> FALSE, active |-> FALSE, imname |-> NoName]
  <2>2. ic \in Context
    BY DEF Context
  <2>3. instance' = [instance EXCEPT !.ic = ic]
    BY <1>2 DEF FocusOut
  <2> HIDE DEF ic
  <2>4. Good([instance EXCEPT !.ic = ic])
    BY <2>1, <2>2, FocusChanged
  <2> QED BY <1>0, <1>2, <2>3, <2>4, TypeAfter DEF FocusOut
<1>3. CASE ClearLocal
  <2>1. Good(instance)
    BY <1>0, <1>3 DEF ClearLocal, Good, TypeInv
  <2>2. Good(SetLocalIMName(instance, NoName))
    BY <1>0, <2>1, SetLocalIMNameGood
  <2> QED BY <1>0, <1>3, <2>2, TypeAfter DEF ClearLocal
<1>4. CASE ChangeIMState
  <2>1. Good(instance) /\ (~instance.ic.active) \in BOOLEAN
    BY <1>0, <1>4 DEF ChangeIMState, Good, TypeInv
  <2>2. Good(SetState(instance, ~instance.ic.active))
    BY <1>0, <2>1, SetStateGood
  <2> QED BY <1>0, <1>4, <2>2, TypeAfter DEF ChangeIMState
<1>5. CASE DropTable
  <2> DEFINE n == CurrentIM(instance)
             t == [instance EXCEPT !.avail = @ \ {n}, !.initialized = @ \ {n}]
  <2>1. Good(instance)
    BY <1>0, <1>5 DEF DropTable, Good, TypeInv
  <2>2. instance' = Rebuilt[t] /\ installed' = installed /\ reload' = reload
    BY <1>5 DEF DropTable
  <2> HIDE DEF n
  <2>3. Fit(t)
    BY <2>1, DropFit
  <2> HIDE DEF t
  <2>4. Good(Rebuilt[t])
    BY <1>0, <2>3, RebuiltGood
  <2> QED BY <1>0, <2>2, <2>4, TypeAfter
<1>6. CASE ReloadConfig
  <2>1. Good(ProfileLoad(instance))
    BY <1>0, <1>6, ProfileLoadGood DEF ReloadConfig, Good
  <2> QED BY <1>0, <1>6, <2>1, TypeAfter DEF ReloadConfig
<1>7. CASE ReloadAddon
  <2>1. Good(LoadAllIM(instance))
    BY <1>0, LoadAllIMGood DEF Sound
  <2> QED BY <1>0, <1>7, <2>1, TypeAfter DEF ReloadAddon
<1>8. CASE ReloadProfile
  <2>1. Good(ProfileLoad(instance))
    BY <1>0, <1>8, ProfileLoadGood DEF ReloadProfile, Good
  <2> QED BY <1>0, <1>8, <2>1, TypeAfter DEF ReloadProfile
<1>9. ASSUME NEW a \in Removable, Install(a) \/ Uninstall(a) PROVE TypeInv'
  <2>1. a \in Addon
    BY NameAssumption
  <2>2. Good(instance) /\ instance' = instance /\ reload' = reload
        /\ installed' \subseteq installed \cup {a}
    BY <1>0, <1>9 DEF Install, Uninstall, Good
  <2> QED BY <1>0, <2>1, <2>2, TypeAfter
<1>10. ASSUME NEW a \in Lazy, CallEngine(a) PROVE TypeInv'
  <2>1. Good(instance) /\ a \in installed
    BY <1>10, KnownIsLoaded DEF CallEngine
  <2>2. Good(FindFunction(Rebuilt, instance, a))
    BY <1>0, <2>1, AllSoundBelow, FindFunctionGood
  <2> QED BY <1>0, <1>10, <2>2, TypeAfter DEF CallEngine
<1>11. ASSUME NEW list \in Lists, SetIMList(list) PROVE TypeInv'
  <2> DEFINE t == [instance EXCEPT !.imList = Among(list, EntryOf(instance.avail))]
  <2>1. Good(instance)
    BY <1>0, <1>11 DEF SetIMList, Good
  <2>2. instance' = Rebuilt[t] /\ installed' = installed /\ reload' = reload
    BY <1>11 DEF SetIMList
  <2>3. Fit(t)
    BY <2>1, SetIMListFit
  <2> HIDE DEF t
  <2>4. Good(Rebuilt[t])
    BY <1>0, <2>3, RebuiltGood
  <2> QED BY <1>0, <2>2, <2>4, TypeAfter
<1>12. ASSUME NEW list \in Lists, EditProfile(list) PROVE TypeInv'
  <2>1. Good(instance)
    BY <1>0, <1>12 DEF EditProfile, Good
  <2>2. Good([instance EXCEPT !.disk.imList = list])
    BY <2>1, EditGood
  <2> QED BY <1>0, <1>12, <2>2, TypeAfter DEF EditProfile
<1>13. ASSUME NEW index \in Int, Switch(index) PROVE TypeInv'
  <2>1. Good(instance)
    BY <1>0, <1>13 DEF Switch, Good
  <2>2. Good(SwitchIMByIndex(instance, index))
    BY <1>0, <2>1, SwitchIMByIndexGood
  <2> QED BY <1>0, <1>13, <2>2, TypeAfter DEF Switch
<1>14. ASSUME NEW n \in Name, SwitchIMByName(n) PROVE TypeInv'
  <2>1. IMIndexByName(instance, n) \in Int
    BY <1>0, IMIndexByNameType DEF Sound, Rebuildable
  <2> QED BY <1>13, <1>14, <2>1 DEF SwitchIMByName
<1>15. ASSUME NEW n \in Name, ChooseLocally(n) PROVE TypeInv'
  <2>1. Good(instance)
    BY <1>0, <1>15 DEF ChooseLocally, Good, TypeInv
  <2>2. Good(Activated(SetLocalIMName(instance, n)))
    BY <1>0, <2>1, SetLocalIMNameGood, ActivatedGood
  <2> QED BY <1>0, <1>15, <2>2, TypeAfter DEF ChooseLocally
<1>16. ASSUME NEW active \in BOOLEAN, NEW n \in Name \cup {NoName}, FocusIn(active, n)
       PROVE  TypeInv'
  <2> DEFINE ic == [here |-> TRUE, active |-> active, imname |-> n]
             t == [instance EXCEPT !.ic = ic]
  <2>1. Good(instance)
    BY <1>0, <1>16 DEF FocusIn, Good
  <2>2. ic \in Context
    BY DEF Context
  <2>3. instance' = UpdateCurrentIM(Rebuilt, t, FALSE) /\ installed' = installed
        /\ reload' = reload
    BY <1>16 DEF FocusIn
  <2> HIDE DEF ic
  <2>4. Good(t)
    BY <2>1, <2>2, FocusChanged
  <2> HIDE DEF t
  <2>5. Good(UpdateCurrentIM(Rebuilt, t, FALSE))
    BY <1>0, <2>4, AllSoundBelow, UpdateCurrentIMGood
  <2> QED BY <1>0, <2>3, <2>5, TypeAfter
<1>17. CASE UNCHANGED vars
  BY <1>17 DEF vars, TypeInv, Sound, Rebuildable
<1>18. -4..-1 \subseteq Int
  OBVIOUS
<1> QED BY <1>1, <1>2, <1>3, <1>4, <1>5, <1>6, <1>7, <1>8, <1>9, <1>10, <1>11, <1>12,
           <1>13, <1>14, <1>15, <1>16, <1>17, <1>18 DEF Next

(* Every input method that is enabled is offered by an engine, once.       *)
THEOREM TypeCorrect == Spec => []TypeOK
<1>1. TypeInv => TypeOK
  BY DEF TypeInv, Sound, Rebuildable, TypeOK
<1> QED BY <1>1, TypeInit, TypeNext, PTL DEF Spec

-----------------------------------------------------------------------------
(* What a list enables when it has lost entries, or gained some.           *)

Fronted(old, new) == IF Order[1] \in new THEN <<Order[1]>> \o old ELSE old

Fits(empty) == (IF empty THEN LangMatch ELSE Name) \ (Disabled \cup {Order[1]})

LEMMA FrontRange ==
    ASSUME NEW old \in Seq(Name), NEW new \in SUBSET Name
    PROVE  /\ Fronted(old, new) \in Seq(Name)
           /\ Range(Fronted(old, new)) = Range(old) \cup (new \cap {Order[1]})
<1> DEFINE one == <<Order[1]>>
<1>1. one \in Seq(Name) /\ DOMAIN one = {1} /\ one[1] = Order[1]
  BY NameFacts
<1>2. Fronted(old, new) = IF Order[1] \in new THEN one \o old ELSE old
  BY DEF Fronted
<1> HIDE DEF one
<1>3. Range(one) = {Order[1]}
  BY <1>1 DEF Range
<1>4. one \o old \in Seq(Name)
  BY <1>1
<1>5. Range(one \o old) = Range(one) \cup Range(old)
  BY <1>1, ConcatInjective
<1> QED BY <1>2, <1>3, <1>4, <1>5

LEMMA EmptyRange ==
    ASSUME NEW T, NEW a \in Seq(T)
    PROVE  a = <<>> <=> Range(a) = {}
<1>1. a = <<>> => Range(a) = {}
  BY DEF Range
<1>2. a # <<>> => a[1] \in Range(a)
  <2>1. a # <<>> => 1 \in DOMAIN a
    OBVIOUS
  <2> QED BY <2>1 DEF Range
<1> QED BY <1>1, <1>2

LEMMA WithNewRange ==
    ASSUME NEW old \in Seq(Name), NEW new \in SUBSET Name, NEW empty
    PROVE  /\ Fronted(old, new) = <<>> => WithNew(old, new, empty) = <<>>
           /\ Fronted(old, new) # <<>> =>
                Range(WithNew(old, new, empty)) = Range(Fronted(old, new)) \cup (new \cap Fits(empty))
<1> DEFINE front == Fronted(old, new)
           more  == Among(Order, new \cap Fits(empty))
           back  == Reverse(more)
           list  == WithNew(old, new, empty)
<1>1. list = IF front = <<>> THEN front ELSE <<Head(front)>> \o back \o Tail(front)
  BY DEF WithNew, Fronted, Fits
<1>2. front \in Seq(Name)
  BY FrontRange
<1>3. more \in Seq(Name) /\ Range(more) = Name \cap (new \cap Fits(empty))
  BY AmongOrder
<1> HIDE DEF front, more, list
<1>4. back \in Seq(Name) /\ Range(back) = new \cap Fits(empty)
  BY <1>3, ReverseSeq
<1> HIDE DEF back
<1>5. ASSUME front # <<>> PROVE Range(list) = Range(front) \cup (new \cap Fits(empty))
  <2> DEFINE h == <<Head(front)>>
             t == Tail(front)
             hb == h \o back
  <2>1. /\ h \in Seq(Name) /\ t \in Seq(Name)
        /\ Range(front) = Range(h) \cup Range(t)
    BY <1>2, <1>5, HeadTail
  <2>2. list = hb \o t
    BY <1>1, <1>5
  <2> HIDE DEF h, t
  <2>3. hb \in Seq(Name) /\ Range(hb) = Range(h) \cup Range(back)
    BY <1>4, <2>1, ConcatInjective
  <2> HIDE DEF hb
  <2>4. Range(list) = Range(hb) \cup Range(t)
    BY <2>1, <2>2, <2>3, ConcatInjective
  <2> QED BY <1>4, <2>1, <2>3, <2>4
<1> QED BY <1>1, <1>5 DEF list, front

LEMMA WithNewMore ==
    ASSUME NEW old \in Seq(Name), NEW new \in SUBSET Name, NEW more \in SUBSET Name,
           new \subseteq more, NEW empty \in BOOLEAN, NEW none \in BOOLEAN, none => empty
    PROVE  Range(WithNew(old, new, empty)) \subseteq Range(WithNew(old, more, none))
<1>1. /\ Fronted(old, new) \in Seq(Name) /\ Fronted(old, more) \in Seq(Name)
      /\ Range(Fronted(old, new)) \subseteq Range(Fronted(old, more))
  BY FrontRange
<1>2. Fits(empty) \subseteq Fits(none)
  BY NameAssumption DEF Fits
<1>3. CASE Fronted(old, new) = <<>>
  <2>1. WithNew(old, new, empty) = <<>>
    BY <1>3, WithNewRange
  <2>2. Range(WithNew(old, new, empty)) = {}
    BY <2>1 DEF Range
  <2> QED BY <2>2
<1>4. CASE Fronted(old, new) # <<>>
  <2>1. Range(Fronted(old, new)) # {}
    BY <1>1, <1>4, EmptyRange
  <2>2. Fronted(old, more) # <<>>
    BY <1>1, <2>1, EmptyRange
  <2> QED BY <1>1, <1>2, <1>4, <2>2, WithNewRange
<1> QED BY <1>3, <1>4

LEMMA WithNewNone ==
    ASSUME NEW old \in Seq(Name), NEW empty
    PROVE  WithNew(old, {}, empty) = old
<1> DEFINE more == Among(Order, {} \cap Fits(empty))
<1>1. WithNew(old, {}, empty) =
        IF old = <<>> THEN old ELSE <<Head(old)>> \o Reverse(more) \o Tail(old)
  BY DEF WithNew, Fits
<1>2. more \in Seq(Name) /\ Range(more) = {}
  BY AmongOrder
<1> HIDE DEF more
<1>3. Reverse(more) \in Seq(Name) /\ Range(Reverse(more)) = {}
  BY <1>2, ReverseSeq
<1>4. Reverse(more) = <<>>
  BY <1>3, EmptyRange
<1>5. CASE old # <<>>
  <2> DEFINE h == <<Head(old)>>
  <2>1. h \in Seq(Name) /\ h \o Tail(old) = old
    BY <1>5, HeadTail
  <2> HIDE DEF h
  <2>2. h \o <<>> = h
    BY <2>1
  <2> QED BY <1>1, <1>4, <1>5, <2>1, <2>2 DEF h
<1> QED BY <1>1, <1>5

(* A list without those that are not offered enables what the list does:   *)
(* unless it has lost all it names, nothing that was new is not.           *)
LEMMA ListedMore ==
    ASSUME NEW list \in Seq(Entry), NEW avail \in SUBSET Name,
           list = <<>> \/ Names(list) \cap avail # {}
    PROVE  /\ Range(Listed(list, avail))
                \subseteq Range(Listed(Among(list, EntryOf(avail)), avail))
           /\ LET less == Among(list, EntryOf(avail))
              IN  less = <<>> \/ Names(less) \cap avail # {}
<1> DEFINE less == Among(list, EntryOf(avail))
           old == NamesOf(Among(list, EnabledEntry(avail)))
           new == {n \in avail : ~IsInNameList(list, n)}
           more == {n \in avail : ~IsInNameList(less, n)}
           empty == list = <<>>
           none == less = <<>>
<1>1. Listed(list, avail) = WithNew(old, new, empty)
  BY DEF Listed
<1>2. Among(less, EnabledEntry(avail)) = Among(list, EnabledEntry(avail))
  <2>1. EnabledEntry(avail) \cap Entry \subseteq EntryOf(avail)
    BY DEF EnabledEntry, EntryOf
  <2> QED BY <2>1, AmongAmong
<1>3. Listed(less, avail) = WithNew(old, more, none)
  BY <1>2 DEF Listed
<1>4. less \in Seq(Entry) /\ Range(less) = Range(list) \cap EntryOf(avail)
  BY EntriesAmong
<1>5. old \in Seq(Name)
  BY EnabledNames
<1>6. Names(less) \subseteq Names(list) /\ (list = <<>> \/ Names(less) \cap avail # {})
  <2> HIDE DEF less
  <2>1. \A l : Names(l) = {e.name : e \in Range(l)}
    BY DEF Names, Range
  <2>2. Names(less) \subseteq Names(list)
    BY <1>4, <2>1
  <2>3. ASSUME NEW n \in Names(list) \cap avail PROVE n \in Names(less)
    <3>1. PICK e \in Range(list) : e.name = n
      BY <2>1
    <3>2. e \in Entry
      BY <3>1 DEF Range
    <3>3. e \in EntryOf(avail)
      BY <3>1, <3>2 DEF Entry, EntryOf
    <3> QED BY <1>4, <2>1, <3>1, <3>3
  <2> QED BY <2>2, <2>3
<1>7. new \subseteq more
  BY <1>6 DEF IsInNameList
<1>8. list = <<>> => less = <<>>
  <2>1. list = <<>> => Range(less) = {}
    BY <1>4, EmptyRange
  <2> HIDE DEF less
  <2> QED BY <1>4, <2>1, EmptyRange
<1>9. none => empty
  <2>1. less = <<>> => Names(less) = {}
    BY DEF Names
  <2> QED BY <1>6, <2>1
<1>10. new \in SUBSET Name /\ more \in SUBSET Name /\ empty \in BOOLEAN /\ none \in BOOLEAN
  OBVIOUS
<1>11. less = <<>> \/ Names(less) \cap avail # {}
  BY <1>6, <1>8
<1> HIDE DEF old, new, more, empty, none
<1>12. Range(WithNew(old, new, empty)) \subseteq Range(WithNew(old, more, none))
  BY <1>5, <1>7, <1>9, <1>10, WithNewMore
<1> QED BY <1>1, <1>3, <1>11, <1>12

(* The saved list enables what was enabled, in its order.                  *)
LEMMA SavedListListed ==
    ASSUME NEW s, Sound(s)
    PROVE  Listed(SavedList(s), s.avail) = s.imes
<1> DEFINE list == SavedList(s)
           S == EnabledEntry(s.avail)
           b == OffPart(s) \o s.unused
<1>1. s \in Instance /\ s.avail \in SUBSET Name
  BY DEF Sound, Rebuildable, Instance
<1>2. /\ SavedList(s) = (OnPart(s) \o OffPart(s)) \o s.unused
      /\ OnPart(s) \in Seq(Entry) /\ NamesOf(OnPart(s)) = s.imes
      /\ OffPart(s) \in Seq(Entry) /\ s.unused \in Seq(Entry)
  BY <1>1, SavedListParts
<1>3. SavedList(s) = OnPart(s) \o b /\ b \in Seq(Entry)
  <2> DEFINE p == OnPart(s)
             q == OffPart(s)
             u == s.unused
  <2>1. p \in Seq(Entry) /\ q \in Seq(Entry) /\ u \in Seq(Entry) /\ SavedList(s) = (p \o q) \o u
    BY <1>2
  <2> HIDE DEF p, q, u
  <2>2. (p \o q) \o u = p \o (q \o u) /\ q \o u \in Seq(Entry)
    BY <2>1
  <2> QED BY <2>1, <2>2 DEF p, q, u
<1>4. Range(OnPart(s)) \subseteq S
  <2>1. \A i \in DOMAIN s.imes : s.imes[i] \in s.avail
    <3>1. Range(s.imes) \subseteq s.avail
      BY DEF Sound
    <3> QED BY <3>1 DEF Range
  <2>2. DOMAIN OnPart(s) = DOMAIN s.imes
        /\ \A i \in DOMAIN s.imes : OnPart(s)[i] = [name |-> s.imes[i], on |-> TRUE]
    BY DEF OnPart
  <2>3. \A n \in s.avail : [name |-> n, on |-> TRUE] \in S
    BY DEF EnabledEntry
  <2> HIDE DEF S
  <2> QED BY <2>1, <2>2, <2>3 DEF Range
<1>5. Range(b) \cap S = {}
  <2>1. Range(b) = Range(OffPart(s)) \cup Range(s.unused)
    <3> DEFINE p == OffPart(s)
    <3>1. p \in Seq(Entry)
      BY <1>2
    <3> HIDE DEF p
    <3>2. Range(p \o s.unused) = Range(p) \cup Range(s.unused)
      BY <1>2, <3>1, ConcatInjective
    <3> QED BY <3>2 DEF p
  <2>2. \A e \in S : e.on = TRUE /\ e.name \in s.avail
    BY DEF EnabledEntry
  <2>3. \A e \in Range(OffPart(s)) : e.on = FALSE
    BY DEF OffPart, Range
  <2>4. \A e \in Range(s.unused) : e.name \notin s.avail
    <3>1. \A e \in Range(s.unused) : e.name \in Names(s.unused)
      BY DEF Names, Range
    <3> QED BY <3>1 DEF Sound
  <2> HIDE DEF S
  <2> QED BY <2>1, <2>2, <2>3, <2>4
<1>6. Among(list, S) = OnPart(s)
  <2> DEFINE a == OnPart(s)
  <2>1. a \in Seq(Entry) /\ Range(a) \subseteq S /\ list = a \o b
    BY <1>2, <1>3, <1>4
  <2> HIDE DEF a, b, S, list
  <2>2. Among(a \o b, S) = a
    BY <1>3, <1>5, <2>1, AmongFirst
  <2> QED BY <2>1, <2>2 DEF a
<1>7. {n \in s.avail : ~IsInNameList(list, n)} = {}
  <2>1. Names(list) = s.avail \cup Names(s.unused)
    BY SavedListSound
  <2> HIDE DEF list
  <2> QED BY <1>1, <2>1, NamedIsInNameList
<1>8. Listed(list, s.avail) = WithNew(s.imes, {}, list = <<>>)
  BY <1>2, <1>6, <1>7 DEF Listed
<1>9. s.imes \in Seq(Name)
  BY <1>1 DEF Instance
<1> QED BY <1>8, <1>9, WithNewNone

-----------------------------------------------------------------------------
(* The index stays in the list.                                            *)

InRange(s) == s.iIMIndex \in {0} \cup 0 .. (Len(s.imes) - 1)

(* Every engine that is loaded when it is needed is there, and offers what  *)
(* it ever will.                                                           *)
Stocked(s) ==
    /\ Order[1] \in s.avail
    /\ \A n \in s.avail \ s.initialized : Owner[n] \in Lazy
    /\ \A a \in Lazy : Offered(a) \subseteq s.avail

Calm(s) == s.imList = <<>> \/ Names(s.imList) \cap s.avail # {}

(* A list rebuilt now keeps what is enabled.                               *)
Covered(s) == Range(s.imes) \subseteq Range(Listed(s.imList, s.avail))

Ready(s) == Fit(s) /\ Stocked(s) /\ (Lazy # {} => Calm(s))

Steady(s) == Good(s) /\ Stocked(s) /\ (Lazy # {} => Calm(s) /\ Covered(s))

Onward(s, t) ==
    Steady(t) /\ InRange(t) /\ t.avail = s.avail /\ Range(s.imes) \subseteq Range(t.imes)

SteadyBelow(s) ==
    \A t \in Instance : Ready(t) /\ Pending(t) < Pending(s) => Onward(Split(t), Rebuilt[t])

Provided == installed \in SUBSET Addon /\ Lazy \subseteq installed

LEMMA SplitIs ==
    ASSUME NEW s \in Instance
    PROVE  /\ Split(s).imes = Listed(s.imList, s.avail)
           /\ Split(s).imList = Among(s.imList, EntryOf(s.avail))
           /\ Split(s).avail = s.avail /\ Split(s).initialized = s.initialized
           /\ Split(s).loaded = s.loaded /\ Split(s).imLoaded = s.imLoaded
           /\ Split(s).globalIM = s.globalIM /\ Split(s).ic = s.ic
           /\ Split(s).iIMIndex = s.iIMIndex /\ Split(s).disk = s.disk
BY DEF Split, Instance

LEMMA LoadIMReady ==
    ASSUME Provided, NEW s, Ready(s), NEW a \in Lazy
    PROVE  LET t == LoadIM(s, a)
           IN  /\ Ready(t) /\ t \in Instance
               /\ t.avail = s.avail /\ t.imList = s.imList
               /\ Offered(a) \subseteq t.initialized
               /\ s.initialized \subseteq t.initialized /\ s.loaded \subseteq t.loaded
<1> DEFINE t == LoadIM(s, a)
<1>1. s \in Instance /\ a \in installed /\ a \in Addon /\ Offered(a) \subseteq s.avail
  BY DEF Provided, Ready, Fit, Rebuildable, Stocked
<1>2. Fit(t) /\ t \in Instance
  BY <1>1, LoadIMFit DEF Ready, Fit, Rebuildable
<1>3. /\ t.avail = s.avail /\ t.initialized = s.initialized \cup Offered(a)
      /\ t.loaded = s.loaded \cup {a} /\ t.imList = s.imList
  BY <1>1 DEF LoadIM, Instance
<1> HIDE DEF t
<1>4. Ready(t)
  BY <1>2, <1>3 DEF Ready, Stocked, Calm
<1> QED BY <1>2, <1>3, <1>4 DEF t

LEMMA SteadyIsReady ==
    ASSUME NEW s, Steady(s)
    PROVE  Ready(s) /\ s \in Instance /\ Good(s)
BY DEF Steady, Ready, Good, Sound, Fit, Rebuildable

LEMMA CoveredSplit ==
    ASSUME NEW s, Steady(s), Lazy # {}, NEW t \in Instance,
           t.imList = s.imList, t.avail = s.avail
    PROVE  Range(s.imes) \subseteq Range(Split(t).imes) /\ Split(t).avail = s.avail
BY SplitIs DEF Steady, Covered

LEMMA LoadCurrentSteady ==
    ASSUME Provided, NEW s, Steady(s), InRange(s), SteadyBelow(s)
    PROVE  Onward(s, LoadCurrent(Rebuilt, s))
<1> DEFINE n == CurrentIM(s)
           s2 == Registered(s, n)
           s3 == Rebuilt[s2]
           i == IMIndexByName(s3, n)
           r == [s3 EXCEPT !.iIMIndex = i]
<1>1. s \in Instance /\ Ready(s)
  BY SteadyIsReady
<1>2. LoadCurrent(Rebuilt, s) = IF n \in s.avail \ s.initialized THEN r ELSE s
  BY DEF LoadCurrent, LazyLoad, Registered
<1>3. n \in s.avail => n \in Name /\ n \in Range(s.imes)
  <2>1. s.avail \in SUBSET Name /\ s.imes \in Seq(Name)
    BY <1>1 DEF Instance
  <2>2. n # NoName => n \in Range(s.imes)
    <3>1. n # NoName => s.iIMIndex + 1 \in DOMAIN s.imes /\ n = s.imes[s.iIMIndex + 1]
      BY <2>1 DEF CurrentIM, IMByIndex
    <3> HIDE DEF n
    <3> QED BY <3>1 DEF Range
  <2> HIDE DEF n
  <2> QED BY <2>1, <2>2, NameAssumption
<1> HIDE DEF n
<1>4. CASE n \in s.avail \ s.initialized
  <2> DEFINE a == Owner[n]
             s1 == LoadIM(s, a)
  <2>1. a \in Lazy /\ n \in Offered(a)
    BY <1>3, <1>4 DEF Steady, Stocked, Offered
  <2>2. s2 = IF n \in s1.initialized THEN s1 ELSE [s1 EXCEPT !.avail = @ \ {n}]
    BY DEF Registered
  <2> HIDE DEF a
  <2>3. Ready(s1) /\ s1.avail = s.avail /\ s1.imList = s.imList /\ n \in s1.initialized
    BY <1>1, <2>1, LoadIMReady
  <2> HIDE DEF s1
  <2>4. s2 = s1
    BY <2>2, <2>3
  <2>5. s2 \in Instance /\ Pending(s2) < Pending(s)
    BY <1>1, <1>4, RegisteredPending
  <2> HIDE DEF s2
  <2>6. Onward(Split(s2), s3)
    BY <2>3, <2>4, <2>5 DEF SteadyBelow
  <2>7. Range(s.imes) \subseteq Range(Split(s2).imes) /\ Split(s2).avail = s.avail
    BY <2>1, <2>3, <2>4, <2>5, CoveredSplit
  <2> HIDE DEF s3
  <2>8. s3 \in Instance /\ Steady(s3) /\ s3.avail = s.avail /\ Range(s.imes) \subseteq Range(s3.imes)
    BY <2>6, <2>7, SteadyIsReady DEF Onward
  <2>9. i \in Int /\ i \in 0 .. (Len(s3.imes) - 1)
    BY <1>3, <1>4, <2>8, IMIndexByNameType
  <2> HIDE DEF i
  <2>10. /\ r \in Instance /\ r.iIMIndex = i
         /\ r.avail = s3.avail /\ r.initialized = s3.initialized /\ r.imes = s3.imes
         /\ r.unused = s3.unused /\ r.imList = s3.imList /\ r.disk = s3.disk
         /\ r.imLoaded = s3.imLoaded
    BY <2>8, <2>9 DEF Instance
  <2> HIDE DEF r
  <2>11. Steady(r)
    BY <2>8, <2>10 DEF Steady, Good, Sound, Rebuildable, Stocked, Calm, Covered
  <2>12. InRange(r)
    BY <2>9, <2>10 DEF InRange
  <2> QED BY <1>2, <1>4, <2>8, <2>10, <2>11, <2>12 DEF Onward
<1>5. CASE n \notin s.avail \ s.initialized
  BY <1>2, <1>5 DEF Onward
<1> QED BY <1>4, <1>5

LEMMA FindFunctionSteady ==
    ASSUME Provided, NEW s, Steady(s), InRange(s), SteadyBelow(s), NEW a \in Lazy
    PROVE  Onward(s, FindFunction(Rebuilt, s, a))
<1> DEFINE t == LoadIM(s, a)
<1>1. s \in Instance /\ Ready(s) /\ a \in Addon /\ a \in installed
  BY SteadyIsReady DEF Provided
<1>2. t \in Instance /\ Ready(t) /\ t.avail = s.avail /\ t.imList = s.imList
  BY <1>1, LoadIMReady
<1>3. a \notin s.loaded => Pending(t) < Pending(s)
  BY <1>1, LoadIMPending
<1>4. FindFunction(Rebuilt, s, a) = IF a \in s.loaded THEN s ELSE Rebuilt[t]
  BY DEF FindFunction
<1> HIDE DEF t
<1>5. ASSUME a \notin s.loaded PROVE Onward(s, Rebuilt[t])
  <2>1. Onward(Split(t), Rebuilt[t])
    BY <1>2, <1>3, <1>5 DEF SteadyBelow
  <2>2. Range(s.imes) \subseteq Range(Split(t).imes) /\ Split(t).avail = s.avail
    BY <1>2, CoveredSplit
  <2> QED BY <2>1, <2>2 DEF Onward
<1> QED BY <1>4, <1>5 DEF Onward

LEMMA InitCurrentSteady ==
    ASSUME Provided, NEW s, Steady(s), InRange(s), SteadyBelow(s)
    PROVE  Onward(s, InitCurrent(Rebuilt, s))
<1> DEFINE n == CurrentIM(s)
<1>1. s \in Instance /\ s.iIMIndex \in Int
  BY SteadyIsReady DEF Instance
<1>2. n \in Name \cup {NoName}
  BY <1>1, IMByIndexType DEF CurrentIM
<1> HIDE DEF n
<1>3. n # NoName /\ Calls[n] \in installed => Calls[n] \in Lazy
  BY <1>2, NameAssumption DEF Provided
<1>4. InitCurrent(Rebuilt, s) =
        IF n # NoName THEN IF Calls[n] \in installed /\ Known(s, Calls[n])
                           THEN FindFunction(Rebuilt, s, Calls[n]) ELSE s
        ELSE s
  BY DEF InitCurrent, InitIM, n
<1>5. Onward(s, s)
  BY DEF Onward
<1> QED BY <1>3, <1>4, <1>5, FindFunctionSteady

LEMMA SaveProfileIs ==
    ASSUME NEW s \in Instance
    PROVE  LET t == SaveProfile(s)
           IN  /\ t \in Instance /\ t.imList = SavedList(s) /\ t.disk.imList = SavedList(s)
               /\ t.disk.imName = s.globalIM
               /\ t.avail = s.avail /\ t.initialized = s.initialized /\ t.loaded = s.loaded
               /\ t.imes = s.imes /\ t.unused = s.unused /\ t.globalIM = s.globalIM
               /\ t.iIMIndex = s.iIMIndex /\ t.ic = s.ic /\ t.imLoaded = s.imLoaded
               /\ SavedList(t) = SavedList(s)
<1> DEFINE t == SaveProfile(s)
<1>1. t \in Instance
  BY SavedListType
<1>2. /\ t.imList = SavedList(s) /\ t.disk.imList = SavedList(s)
      /\ t.disk.imName = s.globalIM
      /\ t.avail = s.avail /\ t.initialized = s.initialized /\ t.loaded = s.loaded
      /\ t.imes = s.imes /\ t.unused = s.unused /\ t.globalIM = s.globalIM
      /\ t.iIMIndex = s.iIMIndex /\ t.ic = s.ic /\ t.imLoaded = s.imLoaded
  BY DEF SaveProfile, Instance
<1> HIDE DEF t
<1>3. SavedList(t) = SavedList(s)
  BY <1>2 DEF SavedList
<1> QED BY <1>1, <1>2, <1>3 DEF t

LEMMA SaveProfileSteady ==
    ASSUME NEW s, Good(s), Stocked(s), InRange(s)
    PROVE  Onward(s, SaveProfile(s))
<1> DEFINE t == SaveProfile(s)
<1>1. s \in Instance /\ Sound(s)
  BY DEF Good, Sound, Rebuildable
<1>2. Good(t)
  BY SaveProfileSound DEF Good
<1>3. /\ t.imList = SavedList(s) /\ t.avail = s.avail /\ t.initialized = s.initialized
      /\ t.imes = s.imes /\ t.iIMIndex = s.iIMIndex
  BY <1>1, SaveProfileIs
<1> HIDE DEF t
<1>4. Names(SavedList(s)) = s.avail \cup Names(s.unused)
  BY <1>1, SavedListSound
<1>5. Listed(SavedList(s), s.avail) = s.imes
  BY <1>1, SavedListListed
<1>6. Stocked(t) /\ Calm(t) /\ Covered(t)
  BY <1>3, <1>4, <1>5 DEF Stocked, Calm, Covered
<1>7. Onward(s, t)
  BY <1>2, <1>3, <1>6 DEF Onward, Steady, InRange
<1> QED BY <1>7 DEF t

LEMMA UpdateGlobalSteady ==
    ASSUME NEW s, Steady(s), InRange(s), NEW n \in Name \cup {NoName}
    PROVE  Onward(s, UpdateGlobal(s, n))
<1> DEFINE t == [s EXCEPT !.globalIM = n]
<1>1. s \in Instance /\ Good(s)
  BY SteadyIsReady
<1>2. /\ t \in Instance
      /\ t.avail = s.avail /\ t.initialized = s.initialized /\ t.imes = s.imes
      /\ t.unused = s.unused /\ t.imList = s.imList /\ t.disk = s.disk
      /\ t.imLoaded = s.imLoaded /\ t.iIMIndex = s.iIMIndex
  BY <1>1 DEF Instance
<1>3. UpdateGlobal(s, n) = IF n \notin {NoName, s.globalIM} THEN SaveProfile(t) ELSE s
  BY DEF UpdateGlobal
<1> HIDE DEF t
<1>4. Good(t) /\ Stocked(t) /\ InRange(t)
  BY <1>1, <1>2 DEF Steady, Good, Sound, Rebuildable, Stocked, InRange
<1>5. Onward(t, SaveProfile(t))
  BY <1>4, SaveProfileSteady
<1> QED BY <1>2, <1>3, <1>5 DEF Onward

LEMMA SteadyBelowBelow ==
    ASSUME NEW s \in Instance, NEW t \in Instance, Pending(t) <= Pending(s), SteadyBelow(s)
    PROVE  SteadyBelow(t)
<1> SUFFICES ASSUME NEW u \in Instance, Ready(u), Pending(u) < Pending(t)
             PROVE  Onward(Split(u), Rebuilt[u])
  BY DEF SteadyBelow
<1>1. Pending(u) < Pending(s)
  BY PendingIsNat
<1> QED BY <1>1 DEF SteadyBelow

LEMMA SwitchIMInternalSteady ==
    ASSUME Provided, NEW s, Steady(s), SteadyBelow(s), NEW index \in Int, NEW skip, NEW global
    PROVE  Onward(s, SwitchIMInternal(Rebuilt, s, index, skip, global))
<1> DEFINE s0 == [s EXCEPT !.iIMIndex = Clamped(s, index, skip)]
           s1 == LoadCurrent(Rebuilt, s0)
           s2 == InitCurrent(Rebuilt, s1)
           end == IF global THEN UpdateGlobal(s2, IMByIndex(s2, s1.iIMIndex)) ELSE s2
<1>1. SwitchIMInternal(Rebuilt, s, index, skip, global) = end
  BY DEF SwitchIMInternal
<1>2. s \in Instance /\ Rebuilt \in Keeping
  BY RebuiltKeeps, SteadyIsReady DEF Provided
<1>3. /\ s0 \in Instance /\ s0.iIMIndex = Clamped(s, index, skip)
      /\ s0.avail = s.avail /\ s0.initialized = s.initialized /\ s0.imes = s.imes
      /\ s0.unused = s.unused /\ s0.imList = s.imList /\ s0.disk = s.disk
      /\ s0.imLoaded = s.imLoaded /\ s0.loaded = s.loaded
  BY <1>2, ClampedType DEF Instance
<1> HIDE DEF s0
<1>4. Steady(s0) /\ Pending(s0) = Pending(s) /\ Pending(s) \in Nat
  BY <1>2, <1>3, PendingSame, PendingIsNat
     DEF Steady, Good, Sound, Rebuildable, Stocked, Calm, Covered
<1>5. InRange(s0)
  BY <1>2, <1>3, ClampedType DEF InRange
<1>6. SteadyBelow(s0)
  BY <1>4 DEF SteadyBelow
<1>7. Onward(s, s1) /\ s1 \in Instance /\ Pending(s1) <= Pending(s)
  <2>1. Onward(s0, s1)
    BY <1>4, <1>5, <1>6, LoadCurrentSteady
  <2>2. s1 \in Instance /\ Pending(s1) <= Pending(s0)
    BY <1>2, <1>3, LoadCurrentKeeps
  <2> HIDE DEF s1
  <2> QED BY <1>3, <1>4, <2>1, <2>2 DEF Onward
<1> HIDE DEF s1
<1>8. SteadyBelow(s1)
  BY <1>2, <1>7, SteadyBelowBelow
<1>9. Onward(s1, s2)
  BY <1>7, <1>8, InitCurrentSteady DEF Onward
<1> HIDE DEF s2
<1>10. s2 \in Instance /\ s1.iIMIndex \in Int
  BY <1>7, <1>9, SteadyIsReady DEF Onward, Instance
<1>11. IMByIndex(s2, s1.iIMIndex) \in Name \cup {NoName}
  BY <1>10, IMByIndexType
<1>12. Onward(s2, end)
  <2>1. Onward(s2, UpdateGlobal(s2, IMByIndex(s2, s1.iIMIndex)))
    BY <1>9, <1>11, UpdateGlobalSteady DEF Onward
  <2> QED BY <1>9, <2>1 DEF Onward
<1> HIDE DEF end
<1> QED BY <1>1, <1>7, <1>9, <1>12 DEF Onward

LEMMA UpdateCurrentIMSteady ==
    ASSUME Provided, NEW s, Steady(s), SteadyBelow(s), NEW force, force \/ InRange(s)
    PROVE  Onward(s, UpdateCurrentIM(Rebuilt, s, force))
<1> DEFINE t == Repaired(s)
<1>1. s \in Instance
  BY SteadyIsReady
<1>2. /\ t \in Instance
      /\ t.avail = s.avail /\ t.initialized = s.initialized /\ t.imes = s.imes
      /\ t.unused = s.unused /\ t.imList = s.imList /\ t.disk = s.disk
      /\ t.imLoaded = s.imLoaded /\ t.iIMIndex = s.iIMIndex /\ Pending(t) = Pending(s)
  BY <1>1, RepairedIs
<1>3. UpdateCurrentIM(Rebuilt, s, force) =
        IF ~s.ic.here /\ ~force THEN s
        ELSE IF force \/ Repairs(s) \/ Wanted(s) # s.iIMIndex
             THEN SwitchIMInternal(Rebuilt, t, Wanted(s), Skips(s), Repairs(s))
             ELSE t
  BY <1>1, UpdateCurrentIMIs
<1> HIDE DEF t
<1>4. Steady(t)
  BY <1>2 DEF Steady, Good, Sound, Rebuildable, Stocked, Calm, Covered
<1>5. SteadyBelow(t)
  BY <1>2 DEF SteadyBelow
<1>6. Wanted(s) \in Int
  BY <1>1, WantedType
<1>7. Onward(t, SwitchIMInternal(Rebuilt, t, Wanted(s), Skips(s), Repairs(s)))
  BY <1>4, <1>5, <1>6, SwitchIMInternalSteady
<1>8. InRange(s) => Onward(s, s) /\ Onward(s, t)
  BY <1>2, <1>4 DEF Onward, InRange
<1>9. \A u : Onward(t, u) => Onward(s, u)
  BY <1>2 DEF Onward
<1> QED BY <1>3, <1>7, <1>8, <1>9

LEMMA SplitSteady ==
    ASSUME NEW s, Ready(s)
    PROVE  Steady(Split(s)) /\ Split(s) \in Instance /\ Pending(Split(s)) = Pending(s)
<1> DEFINE t == Split(s)
<1>1. s \in Instance /\ s.imList \in Seq(Entry) /\ s.avail \in SUBSET Name
  BY DEF Ready, Fit, Rebuildable, Instance
<1>2. Good(t) /\ t \in Instance /\ Pending(t) = Pending(s)
  BY <1>1, SplitSound, SplitType DEF Ready, Fit, Good
<1>3. /\ t.imes = Listed(s.imList, s.avail) /\ t.imList = Among(s.imList, EntryOf(s.avail))
      /\ t.avail = s.avail /\ t.initialized = s.initialized
  BY <1>1, SplitIs
<1> HIDE DEF t
<1>4. Stocked(t)
  BY <1>3 DEF Ready, Stocked
<1>5. Calm(s) => Calm(t) /\ Covered(t)
  BY <1>1, <1>3, ListedMore DEF Calm, Covered
<1> QED BY <1>2, <1>4, <1>5 DEF Ready, Steady, t

(* The rebuilding of a list keeps what the list enables and leaves the index *)
(* in it.                                                                  *)
LEMMA RebuiltSteady ==
    ASSUME Provided, NEW s, Ready(s)
    PROVE  Onward(Split(s), Rebuilt[s])
<1> DEFINE From == {t \in Instance : Ready(t)}
           Wrong == {t \in From : ~ Onward(Split(t), Rebuilt[t])}
<1>1. ASSUME NEW t \in From, \A u \in From : Pending(u) < Pending(t) => u \notin Wrong
      PROVE  Onward(Split(t), Rebuilt[t])
  <2> DEFINE t1 == Split(t)
             t2 == UpdateCurrentIM(Rebuilt, t1, TRUE)
  <2>1. t \in Instance /\ Ready(t) /\ t.imLoaded
    BY DEF Ready, Fit
  <2>2. SteadyBelow(t)
    BY <1>1 DEF SteadyBelow
  <2> HIDE DEF From, Wrong
  <2>3. Rebuilt[t] = SaveProfile(t2)
    BY <2>1, RebuiltDefined, UpdateIMListIs DEF Provided
  <2>4. t1 \in Instance /\ Pending(t1) = Pending(t) /\ Steady(t1)
    BY <2>1, SplitSteady
  <2> HIDE DEF t1
  <2>5. SteadyBelow(t1)
    BY <2>2, <2>4 DEF SteadyBelow
  <2>6. Onward(t1, t2)
    BY <2>4, <2>5, UpdateCurrentIMSteady
  <2> HIDE DEF t2
  <2>7. Onward(t2, SaveProfile(t2))
    BY <2>6, SaveProfileSteady DEF Onward, Steady
  <2>8. Onward(t1, SaveProfile(t2))
    BY <2>6, <2>7 DEF Onward
  <2> QED BY <2>3, <2>8 DEF t1
<1>2. Wrong = {}
  <2>1. From \in SUBSET Instance /\ Wrong \in SUBSET From
    OBVIOUS
  <2>2. ASSUME NEW t \in From, \A u \in From : Pending(u) < Pending(t) => u \notin Wrong
        PROVE  t \notin Wrong
    BY <1>1, <2>2
  <2> HIDE DEF From, Wrong
  <2> QED BY <2>1, <2>2, RebuiltInduction
<1>3. s \in From
  BY DEF Ready, Fit, Rebuildable
<1> QED BY <1>2, <1>3

LEMMA AllSteadyBelow ==
    ASSUME Provided, NEW s
    PROVE  SteadyBelow(s)
BY RebuiltSteady DEF SteadyBelow

(* The list in memory and the one on disk say what is enabled.              *)
Kept(s) == s.imList = SavedList(s) /\ s.disk.imList = SavedList(s)

LEMMA KeptSame ==
    ASSUME NEW s, Kept(s), NEW t, t.imes = s.imes, t.avail = s.avail, t.unused = s.unused,
           t.imList = s.imList, t.disk = s.disk
    PROVE  Kept(t)
<1>1. SavedList(t) = SavedList(s)
  BY DEF SavedList
<1> QED BY <1>1 DEF Kept

LEMMA SaveProfileKept ==
    ASSUME NEW s \in Instance
    PROVE  Kept(SaveProfile(s))
BY SaveProfileIs DEF Kept

LEMMA RebuiltKept ==
    ASSUME installed \in SUBSET Addon, NEW s, Fit(s)
    PROVE  Kept(Rebuilt[s]) /\ Rebuilt[s] \in Instance
<1> DEFINE t == UpdateCurrentIM(Rebuilt, Split(s), TRUE)
<1>1. s \in Instance /\ Split(s) \in Instance /\ Rebuilt \in Keeping
  BY SplitType, RebuiltKeeps DEF Fit, Rebuildable
<1>2. t \in Instance
  BY <1>1, UpdateCurrentIMKeeps
<1>3. Rebuilt[s] = SaveProfile(t)
  BY <1>1, RebuiltDefined, UpdateIMListIs DEF Fit
<1> HIDE DEF t
<1> QED BY <1>2, <1>3, SaveProfileKept, SaveProfileIs

LEMMA GoodIsFit ==
    ASSUME NEW s, Good(s)
    PROVE  Fit(s) /\ s \in Instance /\ Sound(s)
BY DEF Good, Sound, Fit, Rebuildable

LEMMA LoadCurrentKept ==
    ASSUME installed \in SUBSET Addon, NEW s, Good(s), Kept(s)
    PROVE  Kept(LoadCurrent(Rebuilt, s))
<1> DEFINE n == CurrentIM(s)
           s2 == Registered(s, n)
           s3 == Rebuilt[s2]
           i == IMIndexByName(s3, n)
           r == [s3 EXCEPT !.iIMIndex = i]
<1>1. LoadCurrent(Rebuilt, s) = IF n \in s.avail \ s.initialized THEN r ELSE s
  BY DEF LoadCurrent, LazyLoad, Registered
<1> HIDE DEF n
<1>2. CASE n \in s.avail \ s.initialized
  <2>1. Fit(s2)
    BY <1>2, GoodIsFit, RegisteredFit
  <2> HIDE DEF s2
  <2>2. Kept(s3) /\ s3 \in Instance
    BY <2>1, RebuiltKept
  <2> HIDE DEF s3
  <2> HIDE DEF i
  <2>3. /\ r.imes = s3.imes /\ r.avail = s3.avail /\ r.unused = s3.unused
        /\ r.imList = s3.imList /\ r.disk = s3.disk
    BY <2>2 DEF Instance
  <2> HIDE DEF r
  <2> QED BY <1>1, <1>2, <2>2, <2>3, KeptSame
<1> QED BY <1>1, <1>2

LEMMA FindFunctionKept ==
    ASSUME installed \in SUBSET Addon, NEW s, Good(s), Kept(s), NEW a \in installed
    PROVE  Kept(FindFunction(Rebuilt, s, a))
<1> DEFINE t == LoadIM(s, a)
<1>1. Fit(t)
  <2>1. a \in Addon
    OBVIOUS
  <2> QED BY <2>1, GoodIsFit, LoadIMFit
<1>2. FindFunction(Rebuilt, s, a) = IF a \in s.loaded THEN s ELSE Rebuilt[t]
  BY DEF FindFunction
<1> HIDE DEF t
<1> QED BY <1>1, <1>2, RebuiltKept

LEMMA InitCurrentKept ==
    ASSUME installed \in SUBSET Addon, NEW s, Good(s), Kept(s)
    PROVE  Kept(InitCurrent(Rebuilt, s))
<1> DEFINE n == CurrentIM(s)
<1>1. InitCurrent(Rebuilt, s) =
        IF n # NoName THEN IF Calls[n] \in installed /\ Known(s, Calls[n])
                           THEN FindFunction(Rebuilt, s, Calls[n]) ELSE s
        ELSE s
  BY DEF InitCurrent, InitIM
<1> HIDE DEF n
<1> QED BY <1>1, FindFunctionKept

LEMMA UpdateGlobalKept ==
    ASSUME NEW s, Good(s), Kept(s), NEW n \in Name \cup {NoName}
    PROVE  Kept(UpdateGlobal(s, n))
<1> DEFINE t == [s EXCEPT !.globalIM = n]
<1>1. t \in Instance
  <2>1. s \in Instance
    BY GoodIsFit
  <2> QED BY <2>1 DEF Instance
<1>2. UpdateGlobal(s, n) = IF n \notin {NoName, s.globalIM} THEN SaveProfile(t) ELSE s
  BY DEF UpdateGlobal
<1> HIDE DEF t
<1> QED BY <1>1, <1>2, SaveProfileKept

LEMMA SwitchIMInternalKept ==
    ASSUME installed \in SUBSET Addon, NEW s, Good(s), Kept(s),
           NEW index \in Int, NEW skip, NEW global
    PROVE  Kept(SwitchIMInternal(Rebuilt, s, index, skip, global))
<1> DEFINE s0 == [s EXCEPT !.iIMIndex = Clamped(s, index, skip)]
           s1 == LoadCurrent(Rebuilt, s0)
           s2 == InitCurrent(Rebuilt, s1)
           end == IF global THEN UpdateGlobal(s2, IMByIndex(s2, s1.iIMIndex)) ELSE s2
<1>1. SwitchIMInternal(Rebuilt, s, index, skip, global) = end
  BY DEF SwitchIMInternal
<1>2. s \in Instance /\ Clamped(s, index, skip) \in Int
  BY GoodIsFit, ClampedType
<1>3. /\ s0 \in Instance
      /\ s0.avail = s.avail /\ s0.initialized = s.initialized /\ s0.imes = s.imes
      /\ s0.unused = s.unused /\ s0.imList = s.imList /\ s0.disk = s.disk
      /\ s0.imLoaded = s.imLoaded
  BY <1>2 DEF Instance
<1> HIDE DEF s0
<1>4. Good(s0) /\ Kept(s0)
  BY <1>3, KeptSame DEF Good, Sound, Rebuildable
<1>5. Good(s1) /\ Kept(s1)
  BY <1>4, LoadCurrentGood, LoadCurrentKept, AllSoundBelow
<1> HIDE DEF s1
<1>6. Good(s2) /\ Kept(s2)
  BY <1>5, InitCurrentGood, InitCurrentKept, AllSoundBelow
<1> HIDE DEF s2
<1>7. s2 \in Instance /\ s1.iIMIndex \in Int
  BY <1>5, <1>6, GoodIsFit DEF Instance
<1>8. IMByIndex(s2, s1.iIMIndex) \in Name \cup {NoName}
  BY <1>7, IMByIndexType
<1>9. Kept(UpdateGlobal(s2, IMByIndex(s2, s1.iIMIndex)))
  BY <1>6, <1>8, UpdateGlobalKept
<1> QED BY <1>1, <1>6, <1>9

LEMMA UpdateCurrentIMKept ==
    ASSUME installed \in SUBSET Addon, NEW s, Good(s), Kept(s), NEW force
    PROVE  Kept(UpdateCurrentIM(Rebuilt, s, force))
<1> DEFINE t == Repaired(s)
<1>1. s \in Instance
  BY GoodIsFit
<1>2. /\ t \in Instance
      /\ t.avail = s.avail /\ t.initialized = s.initialized /\ t.imes = s.imes
      /\ t.unused = s.unused /\ t.imList = s.imList /\ t.disk = s.disk
      /\ t.imLoaded = s.imLoaded
  BY <1>1, RepairedIs
<1>3. UpdateCurrentIM(Rebuilt, s, force) =
        IF ~s.ic.here /\ ~force THEN s
        ELSE IF force \/ Repairs(s) \/ Wanted(s) # s.iIMIndex
             THEN SwitchIMInternal(Rebuilt, t, Wanted(s), Skips(s), Repairs(s))
             ELSE t
  BY <1>1, UpdateCurrentIMIs
<1> HIDE DEF t
<1>4. Good(t) /\ Kept(t)
  BY <1>2, KeptSame DEF Good, Sound, Rebuildable
<1>5. Kept(SwitchIMInternal(Rebuilt, t, Wanted(s), Skips(s), Repairs(s)))
  BY <1>1, <1>4, WantedType, SwitchIMInternalKept
<1> QED BY <1>3, <1>4, <1>5

-----------------------------------------------------------------------------

(* What holds of the instance between two steps.                           *)
Held(s) == Steady(s) /\ InRange(s) /\ (~Edits => Kept(s))

LEMMA HeldIsGood ==
    ASSUME NEW s, Held(s)
    PROVE  Good(s) /\ s \in Instance
BY SteadyIsReady DEF Held

LEMMA HeldSame ==
    ASSUME NEW s, Held(s), NEW t \in Instance,
           t.avail = s.avail, t.initialized = s.initialized, t.imes = s.imes,
           t.unused = s.unused, t.imList = s.imList, t.disk = s.disk,
           t.imLoaded = s.imLoaded, t.iIMIndex = s.iIMIndex
    PROVE  Held(t)
<1>1. Kept(s) => Kept(t)
  BY KeptSame
<1>2. Steady(t)
  BY DEF Held, Steady, Good, Sound, Rebuildable, Stocked, Calm, Covered
<1> QED BY <1>1, <1>2 DEF Held, InRange

LEMMA RebuiltHeld ==
    ASSUME Provided, NEW s, Ready(s)
    PROVE  Held(Rebuilt[s])
BY RebuiltSteady, RebuiltKept DEF Held, Onward, Provided, Ready

LEMMA UpdateCurrentIMHeld ==
    ASSUME Provided, NEW s, Held(s)
    PROVE  Held(UpdateCurrentIM(Rebuilt, s, FALSE))
<1>1. Onward(s, UpdateCurrentIM(Rebuilt, s, FALSE))
  BY UpdateCurrentIMSteady, AllSteadyBelow DEF Held
<1>2. Kept(s) => Kept(UpdateCurrentIM(Rebuilt, s, FALSE))
  BY UpdateCurrentIMKept, HeldIsGood DEF Provided
<1> QED BY <1>1, <1>2 DEF Held, Onward

LEMMA SwitchIMInternalHeld ==
    ASSUME Provided, NEW s, Held(s), NEW index \in Int, NEW skip, NEW global
    PROVE  Held(SwitchIMInternal(Rebuilt, s, index, skip, global))
<1> DEFINE t == SwitchIMInternal(Rebuilt, s, index, skip, global)
<1>1. Onward(s, t)
  BY SwitchIMInternalSteady, AllSteadyBelow DEF Held
<1>2. Kept(s) => Kept(t)
  BY SwitchIMInternalKept, HeldIsGood DEF Provided
<1> QED BY <1>1, <1>2 DEF Held, Onward

LEMMA SetLocalIMNameHeld ==
    ASSUME Provided, NEW s, Held(s), NEW n \in Name \cup {NoName}
    PROVE  Held(SetLocalIMName(s, n))
<1> DEFINE t == [s EXCEPT !.ic.imname = n]
<1>1. s \in Instance
  BY HeldIsGood
<1>2. /\ t \in Instance
      /\ t.avail = s.avail /\ t.initialized = s.initialized /\ t.imes = s.imes
      /\ t.unused = s.unused /\ t.imList = s.imList /\ t.disk = s.disk
      /\ t.imLoaded = s.imLoaded /\ t.iIMIndex = s.iIMIndex
  BY <1>1 DEF Instance, Context
<1>3. SetLocalIMName(s, n) = UpdateCurrentIM(Rebuilt, t, FALSE)
  BY DEF SetLocalIMName
<1> HIDE DEF t
<1>4. Held(t)
  BY <1>2, HeldSame
<1> QED BY <1>3, <1>4, UpdateCurrentIMHeld

LEMMA SetStateHeld ==
    ASSUME Provided, NEW s, Held(s), NEW active \in BOOLEAN
    PROVE  Held(SetState(s, active))
<1> DEFINE t == [s EXCEPT !.ic.active = active]
<1>1. s \in Instance
  BY HeldIsGood
<1>2. /\ t \in Instance
      /\ t.avail = s.avail /\ t.initialized = s.initialized /\ t.imes = s.imes
      /\ t.unused = s.unused /\ t.imList = s.imList /\ t.disk = s.disk
      /\ t.imLoaded = s.imLoaded /\ t.iIMIndex = s.iIMIndex
  BY <1>1 DEF Instance, Context
<1>3. SetState(s, active) = UpdateCurrentIM(Rebuilt, t, FALSE)
  BY DEF SetState
<1> HIDE DEF t
<1>4. Held(t)
  BY <1>2, HeldSame
<1> QED BY <1>3, <1>4, UpdateCurrentIMHeld

LEMMA ActivatedHeld ==
    ASSUME Provided, NEW s, Held(s)
    PROVE  Held(Activated(s))
BY SetStateHeld DEF Activated

LEMMA SwitchIMByIndexHeld ==
    ASSUME Provided, NEW s, Held(s), NEW index \in Int
    PROVE  Held(SwitchIMByIndex(s, index))
<1> DEFINE i  == Resolved(s, index)
           s1 == IF s.ic.here THEN SetLocalIMName(s, NoName) ELSE s
           s2 == SwitchIMInternal(Rebuilt, s1, i, TRUE, TRUE)
<1>1. i \in Int
  BY ResolvedType, HeldIsGood
<1>2. SwitchIMByIndex(s, index) =
        IF i = 0 THEN IF s.ic.here /\ s.ic.active THEN SetState(s, FALSE) ELSE s
        ELSE Activated(s2)
  BY DEF SwitchIMByIndex
<1>3. Held(s1)
  BY SetLocalIMNameHeld
<1> HIDE DEF i, s1
<1>4. Held(s2)
  BY <1>1, <1>3, SwitchIMInternalHeld
<1> HIDE DEF s2
<1>5. Held(Activated(s2))
  BY <1>4, ActivatedHeld
<1> QED BY <1>2, <1>5, SetStateHeld

(* A list that is empty or names the first input method, which is always    *)
(* offered.                                                                *)
Headed(list) == list = <<>> \/ Order[1] \in Names(list)

LEMMA KeptHeaded ==
    ASSUME NEW s, Held(s), ~Edits
    PROVE  Headed(s.imList) /\ Headed(s.disk.imList)
<1>1. Sound(s) /\ Order[1] \in s.avail
  BY DEF Held, Steady, Good, Stocked
<1>2. Order[1] \in Names(SavedList(s))
  BY <1>1, SavedListSound
<1> QED BY <1>2 DEF Held, Kept, Headed

LEMMA LoadAllIMHeld ==
    ASSUME Provided, Keyboard \in installed, NEW s, Rebuildable(s),
           Stocked(s) \/ (s.avail = {} /\ s.loaded = {}),
           Lazy # {} => Headed(s.imList)
    PROVE  Held(LoadAllIM(s))
<1> DEFINE files == {n \in Name : Owner[n] \in installed \cap Lazy}
           self  == installed \ (Lazy \cup s.loaded)
           own   == UNION {Offered(a) : a \in self}
           t == [s EXCEPT !.avail = @ \cup files \cup own, !.initialized = @ \cup own,
                          !.loaded = @ \cup self, !.imLoaded = TRUE]
<1>1. LoadAllIM(s) = Rebuilt[t]
  BY DEF LoadAllIM
<1>2. files \in SUBSET Name /\ self \in SUBSET Addon /\ own \in SUBSET Name
  BY DEF Offered, Provided
<1>3. Stocked(s) \/ Order[1] \in own
  <2>1. Order[1] \in Offered(Keyboard)
    BY NameAssumption, NameFacts DEF Offered
  <2>2. s.loaded = {} => Keyboard \in self
    BY NameAssumption
  <2> QED BY <2>1, <2>2
<1>4. \A n \in files : Owner[n] \in Lazy
  OBVIOUS
<1>5. \A a \in Lazy : Offered(a) \subseteq files
  BY DEF Offered, Provided
<1> HIDE DEF files, self, own
<1>6. /\ t \in Instance /\ t.initialized = s.initialized \cup own
      /\ t.avail = s.avail \cup files \cup own
      /\ t.imList = s.imList /\ t.disk = s.disk /\ t.imLoaded
  BY <1>2 DEF Rebuildable, Instance
<1> HIDE DEF t
<1>7. Fit(t)
  BY <1>6 DEF Fit, Rebuildable
<1>8. Stocked(t)
  <2>1. Order[1] \in t.avail
    BY <1>3, <1>6 DEF Stocked
  <2>2. \A n \in t.avail \ t.initialized : Owner[n] \in Lazy
    BY <1>4, <1>6 DEF Stocked
  <2>3. \A a \in Lazy : Offered(a) \subseteq t.avail
    BY <1>5, <1>6
  <2> QED BY <2>1, <2>2, <2>3 DEF Stocked
<1>9. Lazy # {} => Calm(t)
  BY <1>6, <1>8 DEF Headed, Calm, Stocked
<1>10. Ready(t)
  BY <1>7, <1>8, <1>9 DEF Ready
<1> QED BY <1>1, <1>10, RebuiltHeld

LEMMA StartedHeld ==
    ASSUME Provided, Keyboard \in installed, NEW disk \in Profile, Unique(disk.imList),
           Lazy # {} => Headed(disk.imList)
    PROVE  Held(Started(disk))
<1> DEFINE f == Fresh(disk)
           s == LoadAllIM(f)
           at == IMIndexByName(s, s.disk.imName)
           i  == IF at < 0 THEN 0 ELSE at
           r == [s EXCEPT !.iIMIndex = i]
<1>1. Rebuildable(f)
  BY FreshSound DEF Sound
<1>2. f.imList = disk.imList /\ f.avail = {} /\ f.loaded = {}
  BY DEF Fresh
<1>3. Started(disk) = SwitchIMByIndex(r, i)
  BY DEF Started
<1> HIDE DEF f
<1>4. Held(s)
  BY <1>1, <1>2, LoadAllIMHeld
<1> HIDE DEF s
<1>5. s \in Instance
  BY <1>4, HeldIsGood
<1>6. at \in Int /\ at \in -1 .. (Len(s.imes) - 1)
  BY <1>5, IMIndexByNameType
<1>7. i \in Int /\ i \in {0} \cup 0 .. (Len(s.imes) - 1)
  BY <1>6
<1> HIDE DEF i
<1>8. /\ r \in Instance /\ r.iIMIndex = i
      /\ r.avail = s.avail /\ r.initialized = s.initialized /\ r.imes = s.imes
      /\ r.unused = s.unused /\ r.imList = s.imList /\ r.disk = s.disk
      /\ r.imLoaded = s.imLoaded
  BY <1>5, <1>7 DEF Instance
<1> HIDE DEF r
<1>9. Held(r)
  <2>1. Kept(s) => Kept(r)
    BY <1>8, KeptSame
  <2>2. Steady(r)
    BY <1>4, <1>8 DEF Held, Steady, Good, Sound, Rebuildable, Stocked, Calm, Covered
  <2> QED BY <1>4, <1>7, <1>8, <2>1, <2>2 DEF Held, InRange
<1> QED BY <1>3, <1>7, <1>9, SwitchIMByIndexHeld

(* Engines that are loaded when they are needed stay installed, and with     *)
(* them the profile is not edited by hand.  (IMList's run imgone shows what  *)
(* happens otherwise.)                                                     *)
EnginesStay == Lazy \cap Removable = {} /\ (Edits => Lazy = {})

HeldInv ==
    /\ TypeInv
    /\ Provided /\ Keyboard \in installed
    /\ instance.imLoaded => Held(instance)
    /\ ~instance.imLoaded => instance.disk.imList = <<>> /\ ~reload

LEMMA HeldInit ==
    ASSUME EnginesStay, Init PROVE HeldInv
<1> DEFINE disk == [imList |-> <<>>, imName |-> NoName]
<1>1. disk \in Profile /\ Unique(disk.imList) /\ disk.imList = <<>>
  BY DEF Profile, Unique, NamesOf, IsInjective
<1>2. instance = Fresh(disk)
  BY DEF Init
<1> HIDE DEF disk
<1>3. ~instance.imLoaded /\ instance.disk = disk
  BY <1>1, <1>2, FreshSound DEF Fresh
<1>4. ~reload /\ installed \in SUBSET Addon /\ Keyboard \in installed /\ Addon \ Removable \subseteq installed
  BY DEF Init
<1>5. Provided /\ Keyboard \in installed
  BY <1>4, NameAssumption DEF EnginesStay, Provided
<1> QED BY <1>1, <1>3, <1>4, <1>5, TypeInit DEF HeldInv

LEMMA HeldAfter ==
    ASSUME HeldInv, TypeInv', installed' = installed, Held(instance')
    PROVE  HeldInv'
BY HeldIsGood DEF HeldInv, Good, Provided

LEMMA FocusChangedHeld ==
    ASSUME NEW s, Held(s), NEW ic \in Context
    PROVE  Held([s EXCEPT !.ic = ic])
<1> DEFINE t == [s EXCEPT !.ic = ic]
<1>1. s \in Instance
  BY HeldIsGood
<1>2. /\ t \in Instance
      /\ t.avail = s.avail /\ t.initialized = s.initialized /\ t.imes = s.imes
      /\ t.unused = s.unused /\ t.imList = s.imList /\ t.disk = s.disk
      /\ t.imLoaded = s.imLoaded /\ t.iIMIndex = s.iIMIndex
  BY <1>1 DEF Instance
<1> HIDE DEF t
<1>3. Held(t)
  BY <1>2, HeldSame
<1> QED BY <1>3 DEF t

LEMMA ProfileLoadHeld ==
    ASSUME EnginesStay, NEW s, Held(s)
    PROVE  Held(ProfileLoad(s))
<1> DEFINE t == ProfileLoad(s)
<1>1. s \in Instance
  BY HeldIsGood
<1>2. /\ t \in Instance
      /\ t.avail = s.avail /\ t.initialized = s.initialized /\ t.imes = s.imes
      /\ t.unused = s.unused /\ t.imList = s.disk.imList /\ t.disk = s.disk
      /\ t.imLoaded = s.imLoaded /\ t.iIMIndex = s.iIMIndex
  BY <1>1 DEF Instance, ProfileLoad, Profile
<1> HIDE DEF t
<1>3. CASE Edits
  <2>1. Good(t) /\ Lazy = {}
    BY <1>3, HeldIsGood, ProfileLoadGood DEF EnginesStay, t
  <2>2. Stocked(t)
    BY <1>2 DEF Held, Steady, Stocked
  <2>3. Steady(t)
    BY <2>1, <2>2 DEF Steady
  <2>4. InRange(t)
    BY <1>2 DEF Held, InRange
  <2> QED BY <1>3, <2>3, <2>4 DEF Held, t
<1>4. CASE ~Edits
  <2>1. t.imList = s.imList
    BY <1>2, <1>4 DEF Held, Kept
  <2> QED BY <1>2, <2>1, HeldSame DEF t
<1> QED BY <1>3, <1>4 DEF t

LEMMA EditHeld ==
    ASSUME EnginesStay, Edits, NEW s, Held(s), NEW list \in Lists
    PROVE  Held([s EXCEPT !.disk.imList = list])
<1> DEFINE t == [s EXCEPT !.disk.imList = list]
<1>1. Good(s) /\ s \in Instance
  BY HeldIsGood
<1>2. list \in Seq(Entry)
  BY ListsAssumption
<1>3. t.avail = s.avail /\ t.initialized = s.initialized /\ t.imes = s.imes
      /\ t.iIMIndex = s.iIMIndex
  BY <1>1 DEF Instance
<1>4. Good(t)
  BY <1>1, EditGood
<1> HIDE DEF t
<1>5. Steady(t) /\ InRange(t)
  BY <1>3, <1>4 DEF EnginesStay, Held, Steady, Stocked, InRange
<1> QED BY <1>5 DEF Held, t

LEMMA SetIMListReady ==
    ASSUME NEW s, s = instance, Held(s), NEW list \in Lists
    PROVE  Ready([s EXCEPT !.imList = Among(list, EntryOf(s.avail))])
<1> DEFINE l == Among(list, EntryOf(s.avail))
           t == [s EXCEPT !.imList = l]
<1>1. s \in Instance /\ Good(s)
  BY HeldIsGood
<1>2. list \in Seq(Entry)
  BY ListsAssumption
<1>3. l \in Seq(Entry) /\ Range(l) \subseteq EntryOf(s.avail)
  BY <1>2, EntriesAmong
<1>4. Fit(t)
  BY <1>1, SetIMListFit
<1> HIDE DEF l
<1>5. t.imList = l /\ t.avail = s.avail /\ t.initialized = s.initialized
  BY <1>1 DEF Instance
<1> HIDE DEF t
<1>6. Stocked(t)
  BY <1>5 DEF Held, Steady, Stocked
<1>7. Calm(t)
  <2>1. l = <<>> \/ \E e \in Range(l) : e \in EntryOf(s.avail)
    BY <1>3, EmptyRange
  <2>2. \A e \in EntryOf(s.avail) : e.name \in s.avail
    BY DEF EntryOf
  <2>3. \A e \in Range(l) : e.name \in Names(l)
    BY DEF Range, Names
  <2> QED BY <1>5, <2>1, <2>2, <2>3 DEF Calm
<1>8. Ready(t)
  BY <1>4, <1>6, <1>7 DEF Ready
<1> QED BY <1>8 DEF t, l

LEMMA DropReady ==
    ASSUME EnginesStay, NEW s, Held(s), NEW n, n \in Name => Owner[n] \notin Lazy \cup {Keyboard}
    PROVE  Ready([s EXCEPT !.avail = @ \ {n}, !.initialized = @ \ {n}])
<1> DEFINE t == [s EXCEPT !.avail = @ \ {n}, !.initialized = @ \ {n}]
<1>1. s \in Instance /\ Good(s)
  BY HeldIsGood
<1>2. Fit(t)
  BY <1>1, DropFit
<1>3. t.imList = s.imList /\ t.avail = s.avail \ {n} /\ t.initialized = s.initialized \ {n}
  BY <1>1 DEF Instance
<1> HIDE DEF t
<1>4. Stocked(t)
  <2>1. Stocked(s) /\ n # Order[1]
    BY NameAssumption, NameFacts DEF Held, Steady
  <2>2. \A a \in Lazy : n \notin Offered(a)
    BY DEF Offered
  <2> QED BY <1>3, <2>1, <2>2 DEF Stocked
<1>5. Lazy # {} => Calm(t)
  <2> SUFFICES ASSUME Lazy # {} PROVE Calm(t)
    OBVIOUS
  <2>1. Headed(s.imList)
    BY KeptHeaded DEF EnginesStay
  <2> QED BY <1>3, <1>4, <2>1 DEF Headed, Calm, Stocked
<1>6. Ready(t)
  BY <1>2, <1>4, <1>5 DEF Ready
<1> QED BY <1>6 DEF t

LEMMA HeldNext ==
    ASSUME EnginesStay, HeldInv, [Next]_vars PROVE HeldInv'
<1>0. TypeInv /\ TypeInv' /\ Provided /\ Keyboard \in installed
  BY TypeNext DEF HeldInv
<1>1. CASE Start
  <2>1. instance.disk \in Profile /\ Unique(instance.disk.imList)
    BY <1>0 DEF TypeInv, Sound, Rebuildable, Instance
  <2>2. Lazy # {} => Headed(instance.disk.imList)
    BY KeptHeaded DEF HeldInv, EnginesStay, Headed
  <2>3. Held(Started(instance.disk))
    BY <1>0, <2>1, <2>2, StartedHeld
  <2> QED BY <1>0, <1>1, <2>3, HeldAfter DEF Start
<1>2. CASE FocusOut
  <2> DEFINE ic == [here |-> FALSE, active |-> FALSE, imname |-> NoName]
  <2>1. Held(instance)
    BY <1>2 DEF HeldInv, FocusOut
  <2>2. ic \in Context
    BY DEF Context
  <2>3. instance' = [instance EXCEPT !.ic = ic] /\ installed' = installed
    BY <1>2 DEF FocusOut
  <2> HIDE DEF ic
  <2>4. Held([instance EXCEPT !.ic = ic])
    BY <2>1, <2>2, FocusChangedHeld
  <2> QED BY <1>0, <2>3, <2>4, HeldAfter
<1>3. CASE ClearLocal
  <2>1. Held(instance)
    BY <1>3 DEF HeldInv, TypeInv, ClearLocal
  <2> QED BY <1>0, <1>3, <2>1, SetLocalIMNameHeld, HeldAfter DEF ClearLocal
<1>4. CASE ChangeIMState
  <2>1. Held(instance) /\ (~instance.ic.active) \in BOOLEAN
    BY <1>4 DEF HeldInv, TypeInv, ChangeIMState
  <2>2. Held(SetState(instance, ~instance.ic.active))
    BY <1>0, <2>1, SetStateHeld
  <2> QED BY <1>0, <1>4, <2>2, HeldAfter DEF ChangeIMState
<1>5. CASE DropTable
  <2> DEFINE n == CurrentIM(instance)
             t == [instance EXCEPT !.avail = @ \ {n}, !.initialized = @ \ {n}]
  <2>1. Held(instance)
    BY <1>5 DEF HeldInv, TypeInv, DropTable
  <2>2. instance' = Rebuilt[t] /\ installed' = installed /\ Owner[n] \notin Lazy \cup {Keyboard}
    BY <1>5 DEF DropTable
  <2> HIDE DEF n
  <2>3. Ready(t)
    BY <2>1, <2>2, DropReady
  <2> HIDE DEF t
  <2>4. Held(Rebuilt[t])
    BY <1>0, <2>3, RebuiltHeld
  <2> QED BY <1>0, <2>2, <2>4, HeldAfter
<1>6. CASE ReloadConfig
  <2>1. Held(ProfileLoad(instance))
    BY <1>6, ProfileLoadHeld DEF ReloadConfig, HeldInv
  <2> QED BY <1>0, <1>6, <2>1, HeldAfter DEF ReloadConfig
<1>7. CASE ReloadAddon
  <2>1. Rebuildable(instance)
    BY <1>0 DEF TypeInv, Sound
  <2>2. CASE instance.imLoaded
    <3>1. Held(instance) /\ Stocked(instance)
      BY <2>2 DEF HeldInv, Held, Steady
    <3>2. Lazy # {} => Headed(instance.imList)
      BY <3>1, KeptHeaded DEF EnginesStay
    <3>3. Held(LoadAllIM(instance))
      BY <1>0, <2>1, <3>1, <3>2, LoadAllIMHeld
    <3> QED BY <1>0, <1>7, <3>3, HeldAfter DEF ReloadAddon
  <2>3. CASE ~instance.imLoaded
    BY <1>7, <2>3 DEF HeldInv, ReloadAddon
  <2> QED BY <2>2, <2>3
<1>8. CASE ReloadProfile
  <2>1. Held(ProfileLoad(instance))
    BY <1>8, ProfileLoadHeld DEF ReloadProfile, HeldInv
  <2> QED BY <1>0, <1>8, <2>1, HeldAfter DEF ReloadProfile
<1>9. ASSUME NEW a \in Removable, Install(a) \/ Uninstall(a) PROVE HeldInv'
  <2>1. a \notin Lazy /\ a # Keyboard
    BY NameAssumption DEF EnginesStay
  <2>2. instance' = instance /\ reload' = reload
        /\ (installed' = installed \cup {a} \/ installed' = installed \ {a})
    BY <1>9 DEF Install, Uninstall
  <2>3. Lazy \subseteq installed' /\ Keyboard \in installed'
    BY <1>0, <2>1, <2>2 DEF Provided
  <2>4. installed' \in SUBSET Addon
    BY <1>0 DEF TypeInv
  <2> QED BY <1>0, <2>2, <2>3, <2>4 DEF HeldInv, Provided
<1>10. ASSUME NEW a \in Lazy, CallEngine(a) PROVE HeldInv'
  <2>1. Held(instance) /\ a \in installed
    BY <1>0, <1>10, KnownIsLoaded DEF CallEngine, HeldInv, Good
  <2>2. Onward(instance, FindFunction(Rebuilt, instance, a))
    BY <1>0, <2>1, AllSteadyBelow, FindFunctionSteady DEF Held
  <2>3. Kept(instance) => Kept(FindFunction(Rebuilt, instance, a))
    BY <1>0, <2>1, FindFunctionKept, HeldIsGood DEF Provided
  <2>4. Held(FindFunction(Rebuilt, instance, a))
    BY <2>1, <2>2, <2>3 DEF Held, Onward
  <2> QED BY <1>0, <1>10, <2>4, HeldAfter DEF CallEngine
<1>11. ASSUME NEW list \in Lists, SetIMList(list) PROVE HeldInv'
  <2> DEFINE t == [instance EXCEPT !.imList = Among(list, EntryOf(instance.avail))]
  <2>1. Held(instance)
    BY <1>11 DEF SetIMList, HeldInv
  <2>2. instance' = Rebuilt[t] /\ installed' = installed
    BY <1>11 DEF SetIMList
  <2>3. Ready(t)
    BY <2>1, SetIMListReady
  <2> HIDE DEF t
  <2>4. Held(Rebuilt[t])
    BY <1>0, <2>3, RebuiltHeld
  <2> QED BY <1>0, <2>2, <2>4, HeldAfter
<1>12. ASSUME NEW list \in Lists, EditProfile(list) PROVE HeldInv'
  <2>1. Held([instance EXCEPT !.disk.imList = list])
    BY <1>12, EditHeld DEF EditProfile, HeldInv
  <2> QED BY <1>0, <1>12, <2>1, HeldAfter DEF EditProfile
<1>13. ASSUME NEW index \in Int, Switch(index) PROVE HeldInv'
  <2>1. Held(SwitchIMByIndex(instance, index))
    BY <1>0, <1>13, SwitchIMByIndexHeld DEF Switch, HeldInv
  <2> QED BY <1>0, <1>13, <2>1, HeldAfter DEF Switch
<1>14. ASSUME NEW n \in Name, SwitchIMByName(n) PROVE HeldInv'
  <2>1. IMIndexByName(instance, n) \in Int
    BY <1>0, IMIndexByNameType DEF TypeInv, Sound, Rebuildable
  <2> QED BY <1>13, <1>14, <2>1 DEF SwitchIMByName
<1>15. ASSUME NEW n \in Name, ChooseLocally(n) PROVE HeldInv'
  <2>1. Held(instance)
    BY <1>15 DEF HeldInv, TypeInv, ChooseLocally
  <2>2. Held(Activated(SetLocalIMName(instance, n)))
    BY <1>0, <2>1, SetLocalIMNameHeld, ActivatedHeld
  <2> QED BY <1>0, <1>15, <2>2, HeldAfter DEF ChooseLocally
<1>16. ASSUME NEW active \in BOOLEAN, NEW n \in Name \cup {NoName}, FocusIn(active, n)
       PROVE  HeldInv'
  <2> DEFINE ic == [here |-> TRUE, active |-> active, imname |-> n]
             t == [instance EXCEPT !.ic = ic]
  <2>1. Held(instance)
    BY <1>16 DEF FocusIn, HeldInv
  <2>2. ic \in Context
    BY DEF Context
  <2>3. instance' = UpdateCurrentIM(Rebuilt, t, FALSE) /\ installed' = installed
    BY <1>16 DEF FocusIn
  <2> HIDE DEF ic
  <2>4. Held(t)
    BY <2>1, <2>2, FocusChangedHeld
  <2> HIDE DEF t
  <2>5. Held(UpdateCurrentIM(Rebuilt, t, FALSE))
    BY <1>0, <2>4, UpdateCurrentIMHeld
  <2> QED BY <1>0, <2>3, <2>5, HeldAfter
<1>17. CASE UNCHANGED vars
  BY <1>0, <1>17 DEF vars, HeldInv, Provided
<1>18. -4..-1 \subseteq Int
  OBVIOUS
<1> QED BY <1>1, <1>2, <1>3, <1>4, <1>5, <1>6, <1>7, <1>8, <1>9, <1>10, <1>11, <1>12,
           <1>13, <1>14, <1>15, <1>16, <1>17, <1>18 DEF Next

(* The index is one of imes, however often the list is rebuilt.            *)
THEOREM IndexStaysInRange ==
    ASSUME EnginesStay PROVE Spec => []IndexInRange
<1>1. HeldInv => IndexInRange
  BY DEF HeldInv, Held, InRange, IndexInRange
<1> QED BY <1>1, HeldInit, HeldNext, PTL DEF Spec

-----------------------------------------------------------------------------
(* The name on disk stands for what the shared name does.                  *)

(* What is chosen when n is the name all contexts share: Chosen of IMList   *)
(* is the choice for globalIM.                                             *)
Choice(s, n) == IF IMIndexByName(s, n) > 0 THEN n ELSE IMByIndex(s, 1)

GlobalNamed(s) == Len(s.imes) > 1 => s.globalIM \in Range(s.imes)

(* The name on disk chooses what the one in memory does.                    *)
Agreed(s) ==
    /\ GlobalNamed(s)
    /\ Len(s.imes) > 1 => s.disk.imName \in Range(s.imes)
    /\ Choice(s, s.disk.imName) = Choice(s, s.globalIM)

LEMMA ChoiceSame ==
    ASSUME NEW s, NEW t, t.imes = s.imes, NEW n
    PROVE  Choice(t, n) = Choice(s, n) /\ IMIndexByName(t, n) = IMIndexByName(s, n)
           /\ \A i : IMByIndex(t, i) = IMByIndex(s, i)
BY DEF Choice, IMIndexByName, IMByIndex

LEMMA IndexOf ==
    ASSUME NEW s \in Instance, IsInjective(s.imes), NEW i \in 0 .. (Len(s.imes) - 1)
    PROVE  /\ i + 1 \in DOMAIN s.imes
           /\ IMByIndex(s, i) = s.imes[i + 1]
           /\ IMByIndex(s, i) \in Range(s.imes) /\ IMByIndex(s, i) \in Name
           /\ IMIndexByName(s, IMByIndex(s, i)) = i
<1> DEFINE n == s.imes[i + 1]
           j == IMIndexByName(s, n)
<1>1. s.imes \in Seq(Name) /\ DOMAIN s.imes = 1 .. Len(s.imes) /\ Len(s.imes) \in Nat
  BY DEF Instance
<1>2. i + 1 \in DOMAIN s.imes
  BY <1>1
<1>3. n \in Range(s.imes) /\ n \in Name
  BY <1>1, <1>2 DEF Range
<1>4. IMByIndex(s, i) = n
  BY DEF IMByIndex
<1> HIDE DEF n
<1>5. j \in 0 .. (Len(s.imes) - 1) /\ s.imes[j + 1] = n
  BY <1>3, IMIndexByNameType
<1>6. j + 1 \in DOMAIN s.imes
  BY <1>1, <1>5
<1>7. j + 1 = i + 1
  BY <1>2, <1>5, <1>6 DEF IsInjective, n
<1>8. j = i
  BY <1>5, <1>7
<1> QED BY <1>2, <1>3, <1>4, <1>8 DEF n

LEMMA IMByIndexNamed ==
    ASSUME NEW s \in Instance, NEW i \in Int
    PROVE  IMByIndex(s, i) \in Range(s.imes) \cup {NoName}
<1>1. s.imes \in Seq(Name) /\ DOMAIN s.imes = 1 .. Len(s.imes) /\ Len(s.imes) \in Nat
  BY DEF Instance
<1>2. i \in 0 .. (Len(s.imes) - 1) => i + 1 \in DOMAIN s.imes
  BY <1>1
<1> QED BY <1>2 DEF IMByIndex, Range

LEMMA SecondIs ==
    ASSUME NEW s, Good(s), Len(s.imes) > 1
    PROVE  /\ IMByIndex(s, 1) = s.imes[2] /\ s.imes[2] \in Range(s.imes) /\ s.imes[2] \in Name
           /\ IMIndexByName(s, s.imes[2]) = 1
<1>1. s \in Instance /\ IsInjective(s.imes) /\ Len(s.imes) \in Nat
  BY GoodIsFit DEF Good, Sound, Instance
<1>2. 1 \in 0 .. (Len(s.imes) - 1) /\ 1 + 1 = 2
  BY <1>1
<1> QED BY <1>1, <1>2, IndexOf

(* A repair does not change what is chosen.                                *)
LEMMA RepairedAgreed ==
    ASSUME NEW s, Good(s)
    PROVE  /\ GlobalNamed(Repaired(s)) /\ ~ Repairs(Repaired(s))
           /\ Choice(Repaired(s), Repaired(s).globalIM) = Choice(s, s.globalIM)
           /\ Agreed(s) => Agreed(Repaired(s))
<1> DEFINE t == Repaired(s)
<1>1. s \in Instance /\ Len(s.imes) \in Nat
  BY GoodIsFit DEF Instance
<1>2. /\ t \in Instance /\ t.imes = s.imes /\ t.disk = s.disk
      /\ t.globalIM = IF Repairs(s) THEN s.imes[2] ELSE s.globalIM
  BY <1>1, RepairedIs
<1> HIDE DEF t
<1>3. /\ \A n : Choice(t, n) = Choice(s, n) /\ IMIndexByName(t, n) = IMIndexByName(s, n)
      /\ \A i : IMByIndex(t, i) = IMByIndex(s, i)
  BY <1>2, ChoiceSame
<1>4. CASE Repairs(s)
  <2>1. /\ Len(s.imes) > 1 /\ IMIndexByName(s, s.globalIM) <= 0
        /\ IMIndexByName(s, s.globalIM) \in Int
    BY <1>1, <1>4, IMIndexByNameType DEF Repairs, Global
  <2>2. /\ IMByIndex(s, 1) = s.imes[2] /\ s.imes[2] \in Range(s.imes)
        /\ IMIndexByName(s, s.imes[2]) = 1
    BY <2>1, SecondIs
  <2>3. Choice(s, s.globalIM) = s.imes[2] /\ Choice(s, s.imes[2]) = s.imes[2]
    BY <2>1, <2>2 DEF Choice
  <2>4. ~ Repairs(t) /\ GlobalNamed(t)
    BY <1>2, <1>3, <1>4, <2>2 DEF Repairs, Global, GlobalNamed
  <2>5. Choice(t, t.globalIM) = Choice(s, s.globalIM)
    BY <1>2, <1>3, <1>4, <2>3
  <2>6. Agreed(s) => Agreed(t)
    BY <1>2, <1>3, <2>4, <2>5 DEF Agreed
  <2> QED BY <2>4, <2>5, <2>6 DEF t
<1>5. CASE ~ Repairs(s)
  <2>1. t.globalIM = s.globalIM
    BY <1>2, <1>5
  <2>2. ~ Repairs(t)
    BY <1>2, <1>3, <1>5, <2>1 DEF Repairs, Global
  <2>3. GlobalNamed(t)
    <3>1. IMIndexByName(s, s.globalIM) \in Int
          /\ (s.globalIM \notin Range(s.imes) => IMIndexByName(s, s.globalIM) = -1)
      BY <1>1, IMIndexByNameType
    <3> QED BY <1>1, <1>2, <1>5, <2>1, <3>1 DEF GlobalNamed, Repairs, Global
  <2>4. Agreed(s) => Agreed(t)
    BY <1>2, <1>3, <2>1, <2>3 DEF Agreed
  <2> QED BY <1>3, <2>1, <2>2, <2>3, <2>4 DEF t
<1> QED BY <1>4, <1>5

LEMMA AgreedSame ==
    ASSUME NEW s, NEW t, t.imes = s.imes, t.globalIM = s.globalIM, t.disk.imName = s.disk.imName
    PROVE  /\ GlobalNamed(s) => GlobalNamed(t)
           /\ Agreed(s) => Agreed(t)
BY ChoiceSame DEF GlobalNamed, Agreed

LEMMA SaveProfileAgreed ==
    ASSUME NEW s \in Instance, GlobalNamed(s)
    PROVE  Agreed(SaveProfile(s))
<1> DEFINE t == SaveProfile(s)
<1>1. t.imes = s.imes /\ t.globalIM = s.globalIM /\ t.disk.imName = s.globalIM
  BY SaveProfileIs
<1> HIDE DEF t
<1>2. Agreed(t)
  BY <1>1 DEF Agreed, GlobalNamed
<1> QED BY <1>2 DEF t

AgreedBelow(s) ==
    \A t \in Instance : Fit(t) /\ Pending(t) < Pending(s) => Agreed(Rebuilt[t])

LEMMA LoadCurrentAgreed ==
    ASSUME installed \in SUBSET Addon, NEW s, Good(s), AgreedBelow(s)
    PROVE  LET t == LoadCurrent(Rebuilt, s)
           IN  (GlobalNamed(s) => GlobalNamed(t)) /\ (Agreed(s) => Agreed(t))
<1> DEFINE n == CurrentIM(s)
           s2 == Registered(s, n)
           s3 == Rebuilt[s2]
           i == IMIndexByName(s3, n)
           r == [s3 EXCEPT !.iIMIndex = i]
<1>1. LoadCurrent(Rebuilt, s) = IF n \in s.avail \ s.initialized THEN r ELSE s
  BY DEF LoadCurrent, LazyLoad, Registered
<1> HIDE DEF n
<1>2. CASE n \in s.avail \ s.initialized
  <2>1. Fit(s2) /\ s2 \in Instance /\ Pending(s2) < Pending(s)
    BY <1>2, GoodIsFit, RegisteredFit, RegisteredPending
  <2> HIDE DEF s2
  <2>2. Agreed(s3)
    BY <2>1 DEF AgreedBelow
  <2>3. s3 \in Instance
    BY <2>1, RebuiltKept
  <2> HIDE DEF s3, i
  <2>4. r.imes = s3.imes /\ r.globalIM = s3.globalIM /\ r.disk.imName = s3.disk.imName
    BY <2>3 DEF Instance
  <2> HIDE DEF r
  <2>5. Agreed(r)
    BY <2>2, <2>4, AgreedSame
  <2> QED BY <1>1, <1>2, <2>5 DEF Agreed
<1> QED BY <1>1, <1>2

LEMMA FindFunctionAgreed ==
    ASSUME installed \in SUBSET Addon, NEW s, Good(s), AgreedBelow(s), NEW a \in installed
    PROVE  LET t == FindFunction(Rebuilt, s, a)
           IN  (GlobalNamed(s) => GlobalNamed(t)) /\ (Agreed(s) => Agreed(t))
<1> DEFINE t == LoadIM(s, a)
<1>1. a \in Addon /\ s \in Instance /\ Fit(s)
  BY GoodIsFit
<1>2. t \in Instance /\ Fit(t) /\ (a \notin s.loaded => Pending(t) < Pending(s))
  BY <1>1, LoadIMFit, LoadIMPending
<1>3. FindFunction(Rebuilt, s, a) = IF a \in s.loaded THEN s ELSE Rebuilt[t]
  BY DEF FindFunction
<1> HIDE DEF t
<1>4. a \notin s.loaded => Agreed(Rebuilt[t])
  BY <1>2 DEF AgreedBelow
<1> QED BY <1>3, <1>4 DEF Agreed

LEMMA InitCurrentAgreed ==
    ASSUME installed \in SUBSET Addon, NEW s, Good(s), AgreedBelow(s)
    PROVE  LET t == InitCurrent(Rebuilt, s)
           IN  (GlobalNamed(s) => GlobalNamed(t)) /\ (Agreed(s) => Agreed(t))
<1> DEFINE n == CurrentIM(s)
<1>1. InitCurrent(Rebuilt, s) =
        IF n # NoName THEN IF Calls[n] \in installed /\ Known(s, Calls[n])
                           THEN FindFunction(Rebuilt, s, Calls[n]) ELSE s
        ELSE s
  BY DEF InitCurrent, InitIM
<1> HIDE DEF n
<1> QED BY <1>1, FindFunctionAgreed

LEMMA UpdateGlobalAgreed ==
    ASSUME NEW s, Good(s), NEW n \in Range(s.imes) \cup {NoName}
    PROVE  LET t == UpdateGlobal(s, n)
           IN  (GlobalNamed(s) => GlobalNamed(t)) /\ (Agreed(s) => Agreed(t))
<1> DEFINE t == [s EXCEPT !.globalIM = n]
<1>1. s \in Instance
  BY GoodIsFit
<1>2. n \in Name \cup {NoName}
  <2>1. s.imes \in Seq(Name)
    BY <1>1 DEF Instance
  <2>2. Range(s.imes) \subseteq Name
    BY <2>1 DEF Range
  <2> QED BY <2>2
<1>3. t \in Instance /\ t.imes = s.imes /\ t.globalIM = n
  BY <1>1, <1>2 DEF Instance
<1>4. UpdateGlobal(s, n) = IF n \notin {NoName, s.globalIM} THEN SaveProfile(t) ELSE s
  BY DEF UpdateGlobal
<1> HIDE DEF t
<1>5. n # NoName => Agreed(SaveProfile(t))
  BY <1>3, SaveProfileAgreed DEF GlobalNamed
<1> QED BY <1>4, <1>5 DEF Agreed

LEMMA AgreedBelowBelow ==
    ASSUME NEW s \in Instance, NEW t \in Instance, Pending(t) <= Pending(s), AgreedBelow(s)
    PROVE  AgreedBelow(t)
<1> SUFFICES ASSUME NEW u \in Instance, Fit(u), Pending(u) < Pending(t)
             PROVE  Agreed(Rebuilt[u])
  BY DEF AgreedBelow
<1>1. Pending(u) < Pending(s)
  BY PendingIsNat
<1> QED BY <1>1 DEF AgreedBelow

LEMMA SwitchIMInternalAgreed ==
    ASSUME installed \in SUBSET Addon, NEW s, Good(s), AgreedBelow(s),
           NEW index \in Int, NEW skip, NEW global
    PROVE  LET t == SwitchIMInternal(Rebuilt, s, index, skip, global)
           IN  (GlobalNamed(s) => GlobalNamed(t)) /\ (Agreed(s) => Agreed(t))
<1> DEFINE s0 == [s EXCEPT !.iIMIndex = Clamped(s, index, skip)]
           s1 == LoadCurrent(Rebuilt, s0)
           s2 == InitCurrent(Rebuilt, s1)
           end == IF global THEN UpdateGlobal(s2, IMByIndex(s2, s1.iIMIndex)) ELSE s2
<1>1. SwitchIMInternal(Rebuilt, s, index, skip, global) = end
  BY DEF SwitchIMInternal
<1>2. s \in Instance /\ Rebuilt \in Keeping /\ Clamped(s, index, skip) \in Int
  BY RebuiltKeeps, GoodIsFit, ClampedType
<1>3. /\ s0 \in Instance
      /\ s0.avail = s.avail /\ s0.initialized = s.initialized /\ s0.imes = s.imes
      /\ s0.unused = s.unused /\ s0.imList = s.imList /\ s0.disk = s.disk
      /\ s0.imLoaded = s.imLoaded /\ s0.loaded = s.loaded /\ s0.globalIM = s.globalIM
  BY <1>2 DEF Instance
<1> HIDE DEF s0
<1>4. Good(s0) /\ Pending(s0) = Pending(s) /\ Pending(s) \in Nat
  BY <1>2, <1>3, PendingSame, PendingIsNat DEF Good, Sound, Rebuildable
<1>5. AgreedBelow(s0)
  BY <1>4 DEF AgreedBelow
<1>6. (GlobalNamed(s) => GlobalNamed(s0)) /\ (Agreed(s) => Agreed(s0))
  BY <1>3, AgreedSame
<1>7. Good(s1) /\ s1 \in Instance /\ Pending(s1) <= Pending(s)
  BY <1>2, <1>3, <1>4, AllSoundBelow, LoadCurrentGood, LoadCurrentKeeps
<1>8. (GlobalNamed(s) => GlobalNamed(s1)) /\ (Agreed(s) => Agreed(s1))
  BY <1>4, <1>5, <1>6, LoadCurrentAgreed
<1> HIDE DEF s1
<1>9. AgreedBelow(s1)
  BY <1>2, <1>7, AgreedBelowBelow
<1>10. Good(s2)
  BY <1>7, AllSoundBelow, InitCurrentGood
<1>11. (GlobalNamed(s) => GlobalNamed(s2)) /\ (Agreed(s) => Agreed(s2))
  BY <1>7, <1>8, <1>9, InitCurrentAgreed
<1> HIDE DEF s2
<1>12. s2 \in Instance /\ s1.iIMIndex \in Int
  BY <1>7, <1>10, GoodIsFit DEF Instance
<1>13. IMByIndex(s2, s1.iIMIndex) \in Range(s2.imes) \cup {NoName}
  BY <1>12, IMByIndexNamed
<1>14. LET t == UpdateGlobal(s2, IMByIndex(s2, s1.iIMIndex))
       IN  (GlobalNamed(s2) => GlobalNamed(t)) /\ (Agreed(s2) => Agreed(t))
  BY <1>10, <1>13, UpdateGlobalAgreed
<1> QED BY <1>1, <1>11, <1>14

LEMMA UpdateCurrentIMAgreed ==
    ASSUME installed \in SUBSET Addon, NEW s, Good(s), AgreedBelow(s), NEW force
    PROVE  LET t == UpdateCurrentIM(Rebuilt, s, force)
           IN  (force \/ GlobalNamed(s) => GlobalNamed(t)) /\ (Agreed(s) => Agreed(t))
<1> DEFINE t == Repaired(s)
           u == SwitchIMInternal(Rebuilt, t, Wanted(s), Skips(s), Repairs(s))
<1>1. s \in Instance
  BY GoodIsFit
<1>2. /\ t \in Instance
      /\ t.avail = s.avail /\ t.initialized = s.initialized /\ t.imes = s.imes
      /\ t.unused = s.unused /\ t.imList = s.imList /\ t.disk = s.disk
      /\ t.imLoaded = s.imLoaded /\ Pending(t) = Pending(s)
  BY <1>1, RepairedIs
<1>3. UpdateCurrentIM(Rebuilt, s, force) =
        IF ~s.ic.here /\ ~force THEN s
        ELSE IF force \/ Repairs(s) \/ Wanted(s) # s.iIMIndex THEN u ELSE t
  BY <1>1, UpdateCurrentIMIs
<1>4. GlobalNamed(t) /\ (Agreed(s) => Agreed(t))
  BY RepairedAgreed
<1> HIDE DEF t
<1>5. Good(t)
  BY <1>2 DEF Good, Sound, Rebuildable
<1>6. AgreedBelow(t)
  BY <1>2 DEF AgreedBelow
<1>7. (GlobalNamed(t) => GlobalNamed(u)) /\ (Agreed(t) => Agreed(u))
  BY <1>1, <1>5, <1>6, WantedType, SwitchIMInternalAgreed
<1> HIDE DEF u
<1> QED BY <1>3, <1>4, <1>7

LEMMA RebuiltAgreed ==
    ASSUME installed \in SUBSET Addon, NEW s, Fit(s)
    PROVE  Agreed(Rebuilt[s])
<1> DEFINE From == {t \in Instance : Fit(t)}
           Wrong == {t \in From : ~ Agreed(Rebuilt[t])}
<1>1. ASSUME NEW t \in From, \A u \in From : Pending(u) < Pending(t) => u \notin Wrong
      PROVE  Agreed(Rebuilt[t])
  <2> DEFINE t1 == Split(t)
             t2 == UpdateCurrentIM(Rebuilt, t1, TRUE)
  <2>1. t \in Instance /\ Fit(t)
    OBVIOUS
  <2>2. AgreedBelow(t)
    BY <1>1 DEF AgreedBelow
  <2> HIDE DEF From, Wrong
  <2>3. t1 \in Instance /\ Pending(t1) = Pending(t) /\ Good(t1)
    BY <2>1, SplitType, SplitSound DEF Fit, Good
  <2>4. Rebuilt[t] = SaveProfile(t2)
    BY <2>1, RebuiltDefined, UpdateIMListIs DEF Fit
  <2> HIDE DEF t1
  <2>5. AgreedBelow(t1)
    BY <2>2, <2>3 DEF AgreedBelow
  <2>6. GlobalNamed(t2) /\ t2 \in Instance
    BY <2>3, <2>5, UpdateCurrentIMAgreed, UpdateCurrentIMGood, AllSoundBelow, GoodIsFit
  <2> HIDE DEF t2
  <2> QED BY <2>4, <2>6, SaveProfileAgreed
<1>2. Wrong = {}
  <2>1. From \in SUBSET Instance /\ Wrong \in SUBSET From
    OBVIOUS
  <2>2. ASSUME NEW t \in From, \A u \in From : Pending(u) < Pending(t) => u \notin Wrong
        PROVE  t \notin Wrong
    BY <1>1, <2>2
  <2> HIDE DEF From, Wrong
  <2> QED BY <2>1, <2>2, RebuiltInduction
<1>3. s \in From
  BY DEF Fit, Rebuildable
<1> QED BY <1>2, <1>3

LEMMA AllAgreedBelow ==
    ASSUME installed \in SUBSET Addon, NEW s
    PROVE  AgreedBelow(s)
BY RebuiltAgreed DEF AgreedBelow

-----------------------------------------------------------------------------
(* A list that is in force is rebuilt to itself.                           *)

(* What is not loaded yet is there, and offers what it ever will.           *)
Loadable(s) ==
    /\ \A n \in s.avail \ s.initialized : Owner[n] \in Lazy \cap installed
    /\ \A a \in Lazy \cap installed : Offered(a) \subseteq s.avail

(* A list that says the same without the entries nothing offers.           *)
Plain(s) == Listed(Among(s.imList, EntryOf(s.avail)), s.avail) = Listed(s.imList, s.avail)

Firm(s) == s.imes = Listed(s.imList, s.avail) /\ Plain(s)

Exact(s) == Good(s) /\ Loadable(s) /\ (Lazy # {} => Firm(s))

(* Nothing is to be repaired.                                              *)
Tidy(s) ==
    /\ s.ic.imname \in Range(s.imes) \cup {NoName}
    /\ Repairs(s) => s.ic.here /\ ~s.ic.active /\ s.globalIM = IMByIndex(s, 0)

Alike(s, t) ==
    /\ t.imes = s.imes /\ t.avail = s.avail /\ t.globalIM = s.globalIM /\ t.ic = s.ic

Whole(s) == Fit(s) /\ Loadable(s) /\ (Lazy # {} => Plain(s))

ExactBelow(s) ==
    \A t \in Instance : Whole(t) /\ Tidy(Split(t)) /\ Pending(t) < Pending(s)
                           => Alike(Split(t), Rebuilt[t]) /\ Exact(Rebuilt[t])

LEMMA ListedFull ==
    ASSUME NEW list \in Seq(Entry), NEW avail \in SUBSET Name, avail \subseteq Names(list)
    PROVE  /\ Listed(list, avail) = NamesOf(Among(list, EnabledEntry(avail)))
           /\ Listed(Among(list, EntryOf(avail)), avail) = Listed(list, avail)
<1> DEFINE less == Among(list, EntryOf(avail))
           old == NamesOf(Among(list, EnabledEntry(avail)))
<1>1. old \in Seq(Name)
  BY EnabledNames
<1>2. Among(less, EnabledEntry(avail)) = Among(list, EnabledEntry(avail))
  <2>1. EnabledEntry(avail) \cap Entry \subseteq EntryOf(avail)
    BY DEF EnabledEntry, EntryOf
  <2> QED BY <2>1, AmongAmong
<1>3. avail \subseteq Names(less)
  <2>1. Range(less) = Range(list) \cap EntryOf(avail)
    BY EntriesAmong
  <2> HIDE DEF less
  <2>2. \A l : Names(l) = {e.name : e \in Range(l)}
    BY DEF Names, Range
  <2> SUFFICES ASSUME NEW n \in avail PROVE n \in Names(less)
    OBVIOUS
  <2>3. PICK e \in Range(list) : e.name = n
    BY <2>2
  <2>4. e \in Entry
    BY <2>3 DEF Range
  <2>5. e \in EntryOf(avail)
    BY <2>3, <2>4 DEF Entry, EntryOf
  <2> QED BY <2>1, <2>2, <2>3, <2>5
<1>4. {n \in avail : ~IsInNameList(list, n)} = {}
  BY NamedIsInNameList
<1>5. {n \in avail : ~IsInNameList(less, n)} = {}
  <2> HIDE DEF less
  <2> QED BY <1>3, NamedIsInNameList
<1>6. Listed(list, avail) = WithNew(old, {}, list = <<>>)
  BY <1>4 DEF Listed
<1>7. Listed(less, avail) = WithNew(old, {}, less = <<>>)
  BY <1>2, <1>5 DEF Listed
<1> HIDE DEF old, less
<1>8. WithNew(old, {}, list = <<>>) = old /\ WithNew(old, {}, less = <<>>) = old
  BY <1>1, WithNewNone
<1> QED BY <1>6, <1>7, <1>8 DEF old, less

LEMMA SplitFirm ==
    ASSUME NEW s \in Instance, Plain(s)
    PROVE  Firm(Split(s))
<1> DEFINE l == s.imList
           E == EntryOf(s.avail)
<1>1. l \in Seq(Entry)
  BY DEF Instance
<1>2. /\ Split(s).imes = Listed(l, s.avail) /\ Split(s).imList = Among(l, E)
      /\ Split(s).avail = s.avail
  BY SplitIs
<1>3. Listed(Among(l, E), s.avail) = Listed(l, s.avail)
  BY DEF Plain
<1> HIDE DEF l
<1>4. Among(Among(l, E), E) = Among(l, E)
  BY <1>1, AmongAmong
<1> QED BY <1>2, <1>3, <1>4 DEF Firm, Plain

LEMMA SavedListPlain ==
    ASSUME NEW s, Sound(s), NEW t, t.imList = SavedList(s), t.avail \in SUBSET s.avail
    PROVE  Plain(t)
<1> DEFINE list == SavedList(s)
<1>1. list \in Seq(Entry) /\ Names(list) = s.avail \cup Names(s.unused)
  BY SavedListSound
<1>2. s.avail \subseteq Name
  BY DEF Sound, Rebuildable, Instance
<1> HIDE DEF list
<1>3. t.avail \in SUBSET Name /\ t.avail \subseteq Names(list) /\ t.imList = list
  BY <1>1, <1>2 DEF list
<1> QED BY <1>1, <1>3, ListedFull DEF Plain

LEMMA KeptFirm ==
    ASSUME NEW s, Sound(s), s.imList = SavedList(s)
    PROVE  Firm(s)
BY SavedListListed, SavedListPlain DEF Firm

LEMMA SaveProfileExact ==
    ASSUME NEW s, Good(s), Loadable(s)
    PROVE  Exact(SaveProfile(s)) /\ Alike(s, SaveProfile(s))
<1> DEFINE t == SaveProfile(s)
<1>1. s \in Instance /\ Sound(s)
  BY GoodIsFit
<1>2. Good(t)
  BY <1>1, SaveProfileSound DEF Good
<1>3. /\ t.imList = SavedList(s) /\ SavedList(t) = SavedList(s)
      /\ t.avail = s.avail /\ t.initialized = s.initialized
      /\ t.imes = s.imes /\ t.globalIM = s.globalIM /\ t.ic = s.ic
  BY <1>1, SaveProfileIs
<1> HIDE DEF t
<1>4. Firm(t)
  BY <1>2, <1>3, KeptFirm DEF Good
<1>5. Loadable(t)
  BY <1>3 DEF Loadable
<1>6. Exact(t) /\ Alike(s, t)
  BY <1>2, <1>3, <1>4, <1>5 DEF Exact, Alike
<1> QED BY <1>6 DEF t

LEMMA AlikeTidy ==
    ASSUME NEW s, NEW t, t.imes = s.imes, t.globalIM = s.globalIM, t.ic = s.ic
    PROVE  Tidy(s) <=> Tidy(t)
<1>1. IMIndexByName(t, t.globalIM) = IMIndexByName(s, s.globalIM) /\ IMByIndex(t, 0) = IMByIndex(s, 0)
  BY ChoiceSame
<1> QED BY <1>1 DEF Tidy, Repairs, Global

LEMMA ExactSame ==
    ASSUME NEW s, Exact(s), NEW t \in Instance,
           t.avail = s.avail, t.initialized = s.initialized, t.imes = s.imes,
           t.unused = s.unused, t.imList = s.imList, t.disk = s.disk,
           t.imLoaded = s.imLoaded
    PROVE  Exact(t)
BY DEF Exact, Good, Sound, Rebuildable, Loadable, Firm, Plain

(* An engine that is asked for: the list that is rebuilt is the same.       *)
LEMMA LoadIMWhole ==
    ASSUME installed \in SUBSET Addon, NEW s, Exact(s), Tidy(s), NEW a \in Lazy \cap installed
    PROVE  LET t == LoadIM(s, a)
           IN  /\ t \in Instance /\ Whole(t) /\ Tidy(Split(t)) /\ Alike(s, Split(t))
               /\ Offered(a) \subseteq t.initialized
<1> DEFINE t == LoadIM(s, a)
<1>1. s \in Instance /\ Fit(s) /\ a \in Addon /\ Offered(a) \subseteq s.avail /\ Lazy # {}
  BY GoodIsFit DEF Exact, Loadable
<1>2. t \in Instance /\ Fit(t)
  BY <1>1, LoadIMFit, LoadIMPending
<1>3. /\ t.avail = s.avail /\ t.initialized = s.initialized \cup Offered(a)
      /\ t.imList = s.imList /\ t.globalIM = s.globalIM /\ t.ic = s.ic
  BY <1>1 DEF LoadIM, Instance
<1> HIDE DEF t
<1>4. Whole(t)
  BY <1>1, <1>2, <1>3 DEF Whole, Exact, Loadable, Firm, Plain
<1>5. Alike(s, Split(t))
  <2>1. /\ Split(t).imes = Listed(t.imList, t.avail) /\ Split(t).avail = t.avail
        /\ Split(t).globalIM = t.globalIM /\ Split(t).ic = t.ic
    BY <1>2, SplitIs
  <2> QED BY <1>1, <1>3, <2>1 DEF Alike, Exact, Firm
<1>6. Tidy(Split(t))
  BY <1>5, AlikeTidy DEF Alike
<1> QED BY <1>2, <1>3, <1>4, <1>5, <1>6 DEF t

LEMMA LoadCurrentExact ==
    ASSUME installed \in SUBSET Addon, NEW s, Exact(s), Tidy(s), ExactBelow(s)
    PROVE  LET t == LoadCurrent(Rebuilt, s)
           IN  Exact(t) /\ Alike(s, t) /\ t.iIMIndex = s.iIMIndex
<1> DEFINE n == CurrentIM(s)
           s2 == Registered(s, n)
           s3 == Rebuilt[s2]
           i == IMIndexByName(s3, n)
           r == [s3 EXCEPT !.iIMIndex = i]
<1>1. s \in Instance /\ Good(s) /\ IsInjective(s.imes) /\ s.iIMIndex \in Int
  BY GoodIsFit DEF Exact, Good, Sound, Instance
<1>2. LoadCurrent(Rebuilt, s) = IF n \in s.avail \ s.initialized THEN r ELSE s
  BY DEF LoadCurrent, LazyLoad, Registered
<1>3. n \in s.avail => /\ n \in Name /\ IMIndexByName(s, n) = s.iIMIndex
  <2>1. s.avail \in SUBSET Name
    BY <1>1 DEF Instance
  <2>2. n # NoName => s.iIMIndex \in 0 .. (Len(s.imes) - 1) /\ n = IMByIndex(s, s.iIMIndex)
    BY DEF CurrentIM, IMByIndex
  <2> HIDE DEF n
  <2>3. n # NoName => IMIndexByName(s, n) = s.iIMIndex
    BY <1>1, <2>2, IndexOf
  <2> QED BY <2>1, <2>3, NameAssumption
<1> HIDE DEF n
<1>4. CASE n \in s.avail \ s.initialized
  <2> DEFINE a == Owner[n]
             s1 == LoadIM(s, a)
  <2>1. a \in Lazy \cap installed /\ n \in Offered(a)
    BY <1>3, <1>4 DEF Exact, Loadable, Offered
  <2>2. s2 = IF n \in s1.initialized THEN s1 ELSE [s1 EXCEPT !.avail = @ \ {n}]
    BY DEF Registered
  <2> HIDE DEF a
  <2>3. Whole(s1) /\ Tidy(Split(s1)) /\ Alike(s, Split(s1)) /\ n \in s1.initialized
    BY <2>1, LoadIMWhole
  <2> HIDE DEF s1
  <2>4. s2 = s1
    BY <2>2, <2>3
  <2>5. s2 \in Instance /\ Pending(s2) < Pending(s)
    BY <1>1, <1>4, RegisteredPending
  <2> HIDE DEF s2
  <2>6. Alike(Split(s2), s3) /\ Exact(s3)
    BY <2>3, <2>4, <2>5 DEF ExactBelow
  <2> HIDE DEF s3
  <2>7. Alike(s, s3) /\ s3 \in Instance
    BY <2>3, <2>4, <2>6, GoodIsFit DEF Alike, Exact
  <2>8. i = s.iIMIndex
    <3>1. i = IMIndexByName(s, n)
      BY <2>7, ChoiceSame DEF Alike
    <3> QED BY <1>3, <1>4, <3>1
  <2> HIDE DEF i
  <2>9. /\ r \in Instance /\ r.iIMIndex = i
        /\ r.avail = s3.avail /\ r.initialized = s3.initialized /\ r.imes = s3.imes
        /\ r.unused = s3.unused /\ r.imList = s3.imList /\ r.disk = s3.disk
        /\ r.imLoaded = s3.imLoaded /\ r.globalIM = s3.globalIM /\ r.ic = s3.ic
    BY <1>1, <2>7, <2>8 DEF Instance
  <2> HIDE DEF r
  <2>10. Exact(r)
    BY <2>6, <2>9, ExactSame
  <2>11. Alike(s, r)
    BY <2>7, <2>9 DEF Alike
  <2> QED BY <1>2, <1>4, <2>8, <2>9, <2>10, <2>11
<1>5. CASE n \notin s.avail \ s.initialized
  BY <1>2, <1>5 DEF Alike
<1> QED BY <1>4, <1>5

NoCalls == \A n \in Name : Calls[n] = NoName

LEMMA FindFunctionExact ==
    ASSUME installed \in SUBSET Addon, NEW s, Exact(s), Tidy(s), ExactBelow(s),
           NEW a \in Lazy \cap installed
    PROVE  LET t == FindFunction(Rebuilt, s, a)
           IN  Exact(t) /\ Alike(s, t)
<1> DEFINE t == LoadIM(s, a)
<1>1. s \in Instance /\ a \in Addon /\ a \in installed
  BY GoodIsFit DEF Exact
<1>2. t \in Instance /\ Whole(t) /\ Tidy(Split(t)) /\ Alike(s, Split(t))
  BY LoadIMWhole
<1>3. a \notin s.loaded => Pending(t) < Pending(s)
  BY <1>1, LoadIMPending
<1>4. FindFunction(Rebuilt, s, a) = IF a \in s.loaded THEN s ELSE Rebuilt[t]
  BY DEF FindFunction
<1> HIDE DEF t
<1>5. ASSUME a \notin s.loaded PROVE Exact(Rebuilt[t]) /\ Alike(s, Rebuilt[t])
  <2>1. Alike(Split(t), Rebuilt[t]) /\ Exact(Rebuilt[t])
    BY <1>2, <1>3, <1>5 DEF ExactBelow
  <2> QED BY <1>2, <2>1 DEF Alike
<1> QED BY <1>4, <1>5 DEF Alike

LEMMA InitCurrentExact ==
    ASSUME installed \in SUBSET Addon, NEW s, Exact(s), Tidy(s), ExactBelow(s)
    PROVE  LET t == InitCurrent(Rebuilt, s)
           IN  Exact(t) /\ Alike(s, t) /\ (NoCalls => t = s)
<1> DEFINE n == CurrentIM(s)
<1>1. s \in Instance /\ s.iIMIndex \in Int
  BY GoodIsFit DEF Exact, Instance
<1>2. n \in Name \cup {NoName}
  BY <1>1, IMByIndexType DEF CurrentIM
<1>3. InitCurrent(Rebuilt, s) =
        IF n # NoName THEN IF Calls[n] \in installed /\ Known(s, Calls[n])
                           THEN FindFunction(Rebuilt, s, Calls[n]) ELSE s
        ELSE s
  BY DEF InitCurrent, InitIM
<1> HIDE DEF n
<1>4. n # NoName /\ Calls[n] \in installed => Calls[n] \in Lazy \cap installed
  BY <1>2, NameAssumption
<1>5. NoCalls /\ n # NoName => Calls[n] \notin installed
  BY <1>2, NameAssumption DEF NoCalls
<1>6. Alike(s, s)
  BY DEF Alike
<1> QED BY <1>3, <1>4, <1>5, <1>6, FindFunctionExact

LEMMA UpdateGlobalExact ==
    ASSUME NEW s, Exact(s), NEW n \in Name \cup {NoName}
    PROVE  LET t == UpdateGlobal(s, n)
           IN  /\ Exact(t) /\ t.imes = s.imes /\ t.avail = s.avail /\ t.ic = s.ic
               /\ t.iIMIndex = s.iIMIndex
               /\ t.globalIM = IF n = NoName THEN s.globalIM ELSE n
<1> DEFINE t == [s EXCEPT !.globalIM = n]
           u == SaveProfile(t)
<1>1. s \in Instance
  BY GoodIsFit DEF Exact
<1>2. /\ t \in Instance /\ t.globalIM = n
      /\ t.avail = s.avail /\ t.initialized = s.initialized /\ t.imes = s.imes
      /\ t.unused = s.unused /\ t.imList = s.imList /\ t.disk = s.disk
      /\ t.imLoaded = s.imLoaded /\ t.iIMIndex = s.iIMIndex /\ t.ic = s.ic
  BY <1>1 DEF Instance
<1>3. UpdateGlobal(s, n) = IF n \notin {NoName, s.globalIM} THEN u ELSE s
  BY DEF UpdateGlobal
<1> HIDE DEF t
<1>4. Exact(t)
  BY <1>2, ExactSame
<1>5. Exact(u) /\ Alike(t, u) /\ u.iIMIndex = t.iIMIndex
  BY <1>2, <1>4, SaveProfileExact, SaveProfileIs DEF Exact
<1> HIDE DEF u
<1>6. Exact(u) /\ u.imes = s.imes /\ u.avail = s.avail /\ u.ic = s.ic
      /\ u.iIMIndex = s.iIMIndex /\ u.globalIM = n
  BY <1>2, <1>5 DEF Alike
<1> QED BY <1>3, <1>6

LEMMA ExactBelowBelow ==
    ASSUME NEW s \in Instance, NEW t \in Instance, Pending(t) <= Pending(s), ExactBelow(s)
    PROVE  ExactBelow(t)
<1> SUFFICES ASSUME NEW u \in Instance, Whole(u), Tidy(Split(u)), Pending(u) < Pending(t)
             PROVE  Alike(Split(u), Rebuilt[u]) /\ Exact(Rebuilt[u])
  BY DEF ExactBelow
<1>1. Pending(u) < Pending(s)
  BY PendingIsNat
<1> QED BY <1>1 DEF ExactBelow

(* A switch changes the index, and the name all share when it is asked to:  *)
(* to the input method that is switched to.                                *)
LEMMA SwitchIMInternalExact ==
    ASSUME installed \in SUBSET Addon, NEW s, Exact(s), Tidy(s), ExactBelow(s),
           NEW index \in Int, NEW skip, NEW global
    PROVE  LET t == SwitchIMInternal(Rebuilt, s, index, skip, global)
               n == IMByIndex(s, Clamped(s, index, skip))
           IN  /\ Exact(t) /\ t.imes = s.imes /\ t.avail = s.avail /\ t.ic = s.ic
               /\ t.globalIM = IF global /\ n # NoName THEN n ELSE s.globalIM
               /\ NoCalls => t.iIMIndex = Clamped(s, index, skip)
<1> DEFINE c  == Clamped(s, index, skip)
           s0 == [s EXCEPT !.iIMIndex = c]
           s1 == LoadCurrent(Rebuilt, s0)
           s2 == InitCurrent(Rebuilt, s1)
           n  == IMByIndex(s2, s1.iIMIndex)
           u  == UpdateGlobal(s2, n)
           end == IF global THEN u ELSE s2
<1>1. SwitchIMInternal(Rebuilt, s, index, skip, global) = end
  BY DEF SwitchIMInternal
<1>2. s \in Instance /\ Rebuilt \in Keeping /\ c \in Int
  BY RebuiltKeeps, GoodIsFit, ClampedType DEF Exact
<1> HIDE DEF c
<1>3. /\ s0 \in Instance /\ s0.iIMIndex = c
      /\ s0.avail = s.avail /\ s0.initialized = s.initialized /\ s0.imes = s.imes
      /\ s0.unused = s.unused /\ s0.imList = s.imList /\ s0.disk = s.disk
      /\ s0.imLoaded = s.imLoaded /\ s0.loaded = s.loaded
      /\ s0.globalIM = s.globalIM /\ s0.ic = s.ic
  BY <1>2 DEF Instance
<1> HIDE DEF s0
<1>4. Exact(s0) /\ Tidy(s0) /\ Pending(s0) = Pending(s) /\ Alike(s, s0)
  BY <1>3, PendingSame, ExactSame, AlikeTidy DEF Alike
<1>5. ExactBelow(s0)
  BY <1>4 DEF ExactBelow
<1>6. Exact(s1) /\ Alike(s0, s1) /\ s1.iIMIndex = c
  BY <1>3, <1>4, <1>5, LoadCurrentExact
<1>7. s1 \in Instance /\ Pending(s1) <= Pending(s0)
  BY <1>2, <1>3, LoadCurrentKeeps
<1> HIDE DEF s1
<1>8. ExactBelow(s1) /\ Tidy(s1)
  BY <1>3, <1>4, <1>5, <1>6, <1>7, ExactBelowBelow, AlikeTidy DEF Alike
<1>9. Exact(s2) /\ Alike(s1, s2) /\ (NoCalls => s2 = s1)
  BY <1>6, <1>8, InitCurrentExact
<1> HIDE DEF s2
<1>10. Alike(s, s2)
  BY <1>4, <1>6, <1>9 DEF Alike
<1>11. n = IMByIndex(s, c) /\ n \in Name \cup {NoName}
  <2>1. IMByIndex(s2, c) = IMByIndex(s, c)
    BY <1>10, ChoiceSame DEF Alike
  <2> QED BY <1>2, <1>6, <2>1, IMByIndexType
<1> HIDE DEF n
<1>12. /\ Exact(u) /\ u.imes = s2.imes /\ u.avail = s2.avail /\ u.ic = s2.ic
       /\ u.iIMIndex = s2.iIMIndex
       /\ u.globalIM = IF n = NoName THEN s2.globalIM ELSE n
  BY <1>9, <1>11, UpdateGlobalExact
<1> HIDE DEF u
<1>13. /\ Exact(end) /\ end.imes = s.imes /\ end.avail = s.avail /\ end.ic = s.ic
       /\ end.globalIM = IF global /\ n # NoName THEN n ELSE s.globalIM
       /\ NoCalls => end.iIMIndex = c
  BY <1>6, <1>9, <1>10, <1>12 DEF Alike
<1> HIDE DEF end
<1> QED BY <1>1, <1>11, <1>13 DEF c

LEMMA RepairedExact ==
    ASSUME NEW s, Exact(s)
    PROVE  /\ Exact(Repaired(s)) /\ Tidy(Repaired(s))
           /\ Tidy(s) => /\ Repaired(s).ic = s.ic
                         /\ ~ Repairs(s) => Alike(s, Repaired(s))
<1> DEFINE t == Repaired(s)
<1>1. s \in Instance /\ Good(s)
  BY GoodIsFit DEF Exact
<1>2. /\ t \in Instance
      /\ t.avail = s.avail /\ t.initialized = s.initialized /\ t.imes = s.imes
      /\ t.unused = s.unused /\ t.imList = s.imList /\ t.disk = s.disk
      /\ t.imLoaded = s.imLoaded
      /\ t.globalIM = IF Repairs(s) THEN s.imes[2] ELSE s.globalIM
      /\ t.ic.here = s.ic.here /\ t.ic.active = s.ic.active
      /\ t.ic.imname = IF s.ic.imname \in Range(s.imes) THEN s.ic.imname ELSE NoName
  BY <1>1, RepairedIs
<1>3. ~ Repairs(t)
  BY <1>1, RepairedAgreed
<1>4. Tidy(s) => t.ic = s.ic
  <2> SUFFICES ASSUME Tidy(s) PROVE t.ic = s.ic
    OBVIOUS
  <2>1. t.ic.imname = s.ic.imname
    BY <1>2 DEF Tidy
  <2>2. t.ic \in Context /\ s.ic \in Context
    BY <1>1, <1>2 DEF Instance
  <2> HIDE DEF t
  <2> QED BY <1>2, <2>1, <2>2 DEF Context
<1> HIDE DEF t
<1>5. Exact(t)
  BY <1>2, ExactSame
<1>6. Tidy(t)
  BY <1>2, <1>3 DEF Tidy
<1>7. Tidy(s) /\ ~ Repairs(s) => Alike(s, t)
  BY <1>2, <1>4 DEF Alike
<1> QED BY <1>4, <1>5, <1>6, <1>7 DEF t

(* The repaired name is the second, but where the context is inactive the   *)
(* first is switched to, and becomes the shared name.                      *)
LEMMA RepairChooses ==
    ASSUME NEW s, Good(s), Repairs(s)
    PROVE  LET t == Repaired(s)
               c == Clamped(t, Wanted(s), Skips(s))
           IN  /\ IMByIndex(t, c) # NoName /\ IMByIndex(t, c) = IMByIndex(s, c)
               /\ IMIndexByName(s, IMByIndex(t, c)) = c
               /\ IF Skips(s) THEN c > 0 ELSE c = 0
<1> DEFINE t == Repaired(s)
           c == Clamped(t, Wanted(s), Skips(s))
<1>1. s \in Instance /\ IsInjective(s.imes)
  BY GoodIsFit DEF Sound
<1>2. /\ t \in Instance /\ t.imes = s.imes /\ t.ic.here = s.ic.here
      /\ t.ic.active = s.ic.active
  BY <1>1, RepairedIs
<1>3. Wanted(s) \in Int /\ Len(t.imes) \in Nat /\ Len(t.imes) > 1
  <2>1. Len(s.imes) \in Nat /\ Len(s.imes) > 1
    BY <1>1 DEF Repairs, Instance
  <2> QED BY <1>1, <1>2, <2>1, WantedType
<1>4. ~ Skips(s) => Wanted(s) = 0
  BY <1>2 DEF Skips, Wanted, Target
<1> HIDE DEF t
<1>5. c \in 0 .. (Len(t.imes) - 1) /\ (IF Skips(s) THEN c > 0 ELSE c = 0)
  BY <1>3, <1>4 DEF Clamped
<1> HIDE DEF c
<1>6. c \in 0 .. (Len(s.imes) - 1)
  BY <1>2, <1>5
<1>7. IMByIndex(s, c) \in Name /\ IMIndexByName(s, IMByIndex(s, c)) = c
  BY <1>1, <1>6, IndexOf
<1>8. IMByIndex(t, c) = IMByIndex(s, c)
  BY <1>2, ChoiceSame
<1> QED BY <1>5, <1>7, <1>8, NameAssumption DEF c, t

LEMMA UpdateCurrentIMExact ==
    ASSUME installed \in SUBSET Addon, NEW s, Exact(s), ExactBelow(s), NEW force,
           s.ic.here \/ force
    PROVE  LET t == Repaired(s)
               u == UpdateCurrentIM(Rebuilt, s, force)
               n == IMByIndex(t, Clamped(t, Wanted(s), Skips(s)))
           IN  /\ Exact(u) /\ u.imes = s.imes /\ u.avail = s.avail /\ u.ic = t.ic
               /\ u.globalIM = IF Repairs(s) /\ n # NoName THEN n ELSE t.globalIM
               /\ Tidy(u) /\ (Tidy(s) => Alike(s, u))
               /\ NoCalls => \/ u.iIMIndex = Clamped(t, Wanted(s), Skips(s))
                             \/ u.iIMIndex = Wanted(s) /\ ~ Repairs(s)
<1> DEFINE t == Repaired(s)
           w == SwitchIMInternal(Rebuilt, t, Wanted(s), Skips(s), Repairs(s))
           u == UpdateCurrentIM(Rebuilt, s, force)
           n == IMByIndex(t, Clamped(t, Wanted(s), Skips(s)))
<1>1. s \in Instance
  BY GoodIsFit DEF Exact
<1>2. t \in Instance /\ t.imes = s.imes /\ t.avail = s.avail /\ Pending(t) = Pending(s)
      /\ t.iIMIndex = s.iIMIndex
  BY <1>1, RepairedIs
<1>3. u = IF force \/ Repairs(s) \/ Wanted(s) # s.iIMIndex THEN w ELSE t
  BY <1>1, UpdateCurrentIMIs
<1>4. /\ Exact(t) /\ Tidy(t) /\ t.ic.here = s.ic.here /\ t.ic.active = s.ic.active
      /\ Tidy(s) => t.ic = s.ic /\ (~ Repairs(s) => Alike(s, t))
  BY <1>1, RepairedExact, RepairedIs
<1> HIDE DEF t
<1>5. ExactBelow(t)
  BY <1>2 DEF ExactBelow
<1>6. Wanted(s) \in Int
  BY <1>1, WantedType
<1>7. /\ Exact(w) /\ w.imes = t.imes /\ w.avail = t.avail /\ w.ic = t.ic
      /\ w.globalIM = IF Repairs(s) /\ n # NoName THEN n ELSE t.globalIM
      /\ NoCalls => w.iIMIndex = Clamped(t, Wanted(s), Skips(s))
  BY <1>4, <1>5, <1>6, SwitchIMInternalExact
<1>8. Repairs(s) =>
        /\ n # NoName /\ (Skips(s) => IMIndexByName(s, n) > 0)
        /\ ~ Skips(s) => n = IMByIndex(s, 0)
  BY RepairChooses DEF t, Exact
<1> HIDE DEF w, n, u
<1>9. /\ Exact(u) /\ u.imes = s.imes /\ u.avail = s.avail /\ u.ic = t.ic
      /\ u.globalIM = IF Repairs(s) /\ n # NoName THEN n ELSE t.globalIM
      /\ NoCalls => \/ u.iIMIndex = Clamped(t, Wanted(s), Skips(s))
                    \/ u.iIMIndex = Wanted(s) /\ ~ Repairs(s)
  <2>1. CASE u = w
    BY <1>2, <1>7, <2>1
  <2>2. CASE u = t /\ ~ Repairs(s) /\ Wanted(s) = s.iIMIndex
    BY <1>2, <1>4, <2>2
  <2> QED BY <1>3, <2>1, <2>2
<1>10. CASE Repairs(s)
  <2>1. u.globalIM = n /\ Global(u) = IMIndexByName(s, n)
    BY <1>8, <1>9, <1>10, ChoiceSame DEF Global
  <2>2. Skips(s) => ~ Repairs(u)
    <3>1. IMIndexByName(s, n) \in Int
      BY <1>1, IMIndexByNameType
    <3> QED BY <1>8, <1>10, <2>1, <3>1 DEF Repairs
  <2>3. ~ Skips(s) => u.ic.here /\ ~u.ic.active /\ u.globalIM = IMByIndex(u, 0)
    BY <1>4, <1>8, <1>9, <1>10, <2>1, ChoiceSame DEF Skips
  <2>4. Tidy(u)
    BY <1>2, <1>4, <1>9, <2>2, <2>3 DEF Tidy
  <2>5. Tidy(s) => Alike(s, u)
    BY <1>4, <1>8, <1>9, <1>10, <2>1 DEF Tidy, Alike, Skips
  <2> QED BY <1>9, <2>4, <2>5 DEF t, n, u
<1>11. CASE ~ Repairs(s)
  <2>1. u.imes = t.imes /\ u.globalIM = t.globalIM /\ u.ic = t.ic
    BY <1>2, <1>9, <1>11
  <2>2. Tidy(u)
    BY <1>4, <2>1, AlikeTidy
  <2>3. Tidy(s) => Alike(s, u)
    BY <1>4, <1>9, <1>11 DEF Alike
  <2> QED BY <1>9, <2>2, <2>3 DEF t, n, u
<1> QED BY <1>10, <1>11

LEMMA SplitExact ==
    ASSUME NEW s, Whole(s)
    PROVE  Exact(Split(s)) /\ Split(s) \in Instance /\ Pending(Split(s)) = Pending(s)
<1> DEFINE t == Split(s)
<1>1. s \in Instance /\ Fit(s)
  BY DEF Whole, Fit, Rebuildable
<1>2. t \in Instance /\ Pending(t) = Pending(s) /\ Good(t)
  BY <1>1, SplitType, SplitSound DEF Fit, Good
<1>3. t.avail = s.avail /\ t.initialized = s.initialized
  BY <1>1, SplitIs
<1>4. Lazy # {} => Firm(t)
  BY <1>1, SplitFirm DEF Whole
<1> HIDE DEF t
<1>5. Loadable(t)
  BY <1>3 DEF Whole, Loadable
<1> QED BY <1>2, <1>4, <1>5 DEF Exact, t

(* The rebuilding of a list that is already in force changes nothing.       *)
LEMMA RebuiltExact ==
    ASSUME installed \in SUBSET Addon, NEW s, Whole(s), Tidy(Split(s))
    PROVE  Alike(Split(s), Rebuilt[s]) /\ Exact(Rebuilt[s])
<1> DEFINE From == {t \in Instance : Whole(t) /\ Tidy(Split(t))}
           Wrong == {t \in From : ~ (Alike(Split(t), Rebuilt[t]) /\ Exact(Rebuilt[t]))}
<1>1. ASSUME NEW t \in From, \A u \in From : Pending(u) < Pending(t) => u \notin Wrong
      PROVE  Alike(Split(t), Rebuilt[t]) /\ Exact(Rebuilt[t])
  <2> DEFINE t1 == Split(t)
             t2 == UpdateCurrentIM(Rebuilt, t1, TRUE)
  <2>1. t \in Instance /\ Whole(t) /\ t.imLoaded /\ Tidy(Split(t))
    BY DEF Whole, Fit
  <2>2. ExactBelow(t)
    BY <1>1 DEF ExactBelow
  <2> HIDE DEF From, Wrong
  <2>3. Rebuilt[t] = SaveProfile(t2)
    BY <2>1, RebuiltDefined, UpdateIMListIs
  <2>4. t1 \in Instance /\ Pending(t1) = Pending(t) /\ Exact(t1) /\ Tidy(t1)
    BY <2>1, SplitExact
  <2> HIDE DEF t1
  <2>5. ExactBelow(t1)
    BY <2>2, <2>4 DEF ExactBelow
  <2>6. Exact(t2) /\ Alike(t1, t2)
    BY <2>4, <2>5, UpdateCurrentIMExact
  <2> HIDE DEF t2
  <2>7. Exact(SaveProfile(t2)) /\ Alike(t2, SaveProfile(t2))
    BY <2>6, SaveProfileExact DEF Exact
  <2>8. Alike(t1, SaveProfile(t2))
    BY <2>6, <2>7 DEF Alike
  <2> QED BY <2>3, <2>7, <2>8 DEF t1
<1>2. Wrong = {}
  <2>1. From \in SUBSET Instance /\ Wrong \in SUBSET From
    OBVIOUS
  <2>2. ASSUME NEW t \in From, \A u \in From : Pending(u) < Pending(t) => u \notin Wrong
        PROVE  t \notin Wrong
    BY <1>1, <2>2
  <2> HIDE DEF From, Wrong
  <2> QED BY <2>1, <2>2, RebuiltInduction
<1>3. s \in From
  BY DEF Whole, Fit, Rebuildable
<1> QED BY <1>2, <1>3

LEMMA AllExactBelow ==
    ASSUME installed \in SUBSET Addon, NEW s
    PROVE  ExactBelow(s)
BY RebuiltExact DEF ExactBelow

-----------------------------------------------------------------------------
(* What is on disk is what a start makes of it.                            *)

(* What is on disk is what a start would make of it: the list that is in    *)
(* force, and a name that stands for the same choice as the shared one.     *)
Saved(s) == Good(s) /\ Agreed(s) /\ (~Edits => Kept(s))

LEMMA RebuiltSaved ==
    ASSUME installed \in SUBSET Addon, NEW s, Fit(s)
    PROVE  Saved(Rebuilt[s])
BY RebuiltGood, RebuiltAgreed, RebuiltKept DEF Saved

LEMMA UpdateCurrentIMSaved ==
    ASSUME installed \in SUBSET Addon, NEW s, Saved(s), NEW force
    PROVE  Saved(UpdateCurrentIM(Rebuilt, s, force))
<1> DEFINE t == UpdateCurrentIM(Rebuilt, s, force)
<1>1. Good(s)
  BY DEF Saved
<1>2. Good(t)
  BY <1>1, AllSoundBelow, UpdateCurrentIMGood
<1>3. Agreed(s) => Agreed(t)
  BY <1>1, AllAgreedBelow, UpdateCurrentIMAgreed
<1>4. Kept(s) => Kept(t)
  BY <1>1, UpdateCurrentIMKept
<1> QED BY <1>2, <1>3, <1>4 DEF Saved

LEMMA SwitchIMInternalSaved ==
    ASSUME installed \in SUBSET Addon, NEW s, Saved(s), NEW index \in Int, NEW skip, NEW global
    PROVE  Saved(SwitchIMInternal(Rebuilt, s, index, skip, global))
<1> DEFINE t == SwitchIMInternal(Rebuilt, s, index, skip, global)
<1>1. Good(s)
  BY DEF Saved
<1>2. Good(t)
  BY <1>1, AllSoundBelow, SwitchIMInternalGood
<1>3. Agreed(s) => Agreed(t)
  BY <1>1, AllAgreedBelow, SwitchIMInternalAgreed
<1>4. Kept(s) => Kept(t)
  BY <1>1, SwitchIMInternalKept
<1> QED BY <1>2, <1>3, <1>4 DEF Saved

LEMMA SavedSame ==
    ASSUME NEW s, Saved(s), NEW t \in Instance,
           t.avail = s.avail, t.initialized = s.initialized, t.imes = s.imes,
           t.unused = s.unused, t.imList = s.imList, t.disk = s.disk,
           t.imLoaded = s.imLoaded, t.globalIM = s.globalIM
    PROVE  Saved(t)
<1>1. Good(t)
  BY DEF Saved, Good, Sound, Rebuildable
<1>2. Agreed(s) => Agreed(t)
  BY AgreedSame
<1>3. Kept(s) => Kept(t)
  BY KeptSame
<1> QED BY <1>1, <1>2, <1>3 DEF Saved

(* The focus moves, or the context changes.                                *)
LEMMA FocusChangedSaved ==
    ASSUME NEW s, Saved(s), NEW ic \in Context
    PROVE  Saved([s EXCEPT !.ic = ic])
<1> DEFINE t == [s EXCEPT !.ic = ic]
<1>1. s \in Instance
  BY GoodIsFit DEF Saved
<1>2. /\ t \in Instance
      /\ t.avail = s.avail /\ t.initialized = s.initialized /\ t.imes = s.imes
      /\ t.unused = s.unused /\ t.imList = s.imList /\ t.disk = s.disk
      /\ t.imLoaded = s.imLoaded /\ t.globalIM = s.globalIM
  BY <1>1 DEF Instance
<1> HIDE DEF t
<1>3. Saved(t)
  BY <1>2, SavedSame
<1> QED BY <1>3 DEF t

LEMMA SetLocalIMNameSaved ==
    ASSUME installed \in SUBSET Addon, NEW s, Saved(s), NEW n \in Name \cup {NoName}
    PROVE  Saved(SetLocalIMName(s, n))
<1> DEFINE ic == [s.ic EXCEPT !.imname = n]
           t  == [s EXCEPT !.ic = ic]
<1>1. s \in Instance
  BY GoodIsFit DEF Saved
<1>2. ic \in Context
  BY <1>1 DEF Instance, Context
<1>3. SetLocalIMName(s, n) = UpdateCurrentIM(Rebuilt, t, FALSE)
  BY DEF SetLocalIMName
<1> HIDE DEF ic
<1>4. Saved(t)
  BY <1>2, FocusChangedSaved
<1> HIDE DEF t
<1> QED BY <1>3, <1>4, UpdateCurrentIMSaved

LEMMA SetStateSaved ==
    ASSUME installed \in SUBSET Addon, NEW s, Saved(s), NEW active \in BOOLEAN
    PROVE  Saved(SetState(s, active))
<1> DEFINE ic == [s.ic EXCEPT !.active = active]
           t  == [s EXCEPT !.ic = ic]
<1>1. s \in Instance
  BY GoodIsFit DEF Saved
<1>2. ic \in Context
  BY <1>1 DEF Instance, Context
<1>3. SetState(s, active) = UpdateCurrentIM(Rebuilt, t, FALSE)
  BY DEF SetState
<1> HIDE DEF ic
<1>4. Saved(t)
  BY <1>2, FocusChangedSaved
<1> HIDE DEF t
<1> QED BY <1>3, <1>4, UpdateCurrentIMSaved

LEMMA ActivatedSaved ==
    ASSUME installed \in SUBSET Addon, NEW s, Saved(s)
    PROVE  Saved(Activated(s))
BY SetStateSaved DEF Activated

LEMMA SwitchIMByIndexSaved ==
    ASSUME installed \in SUBSET Addon, NEW s, Saved(s), NEW index \in Int
    PROVE  Saved(SwitchIMByIndex(s, index))
<1> DEFINE i  == Resolved(s, index)
           s1 == IF s.ic.here THEN SetLocalIMName(s, NoName) ELSE s
           s2 == SwitchIMInternal(Rebuilt, s1, i, TRUE, TRUE)
<1>1. i \in Int
  BY ResolvedType, GoodIsFit DEF Saved
<1>2. SwitchIMByIndex(s, index) =
        IF i = 0 THEN IF s.ic.here /\ s.ic.active THEN SetState(s, FALSE) ELSE s
        ELSE Activated(s2)
  BY DEF SwitchIMByIndex
<1>3. Saved(s1)
  BY SetLocalIMNameSaved
<1> HIDE DEF i, s1
<1>4. Saved(s2)
  BY <1>1, <1>3, SwitchIMInternalSaved
<1> HIDE DEF s2
<1>5. Saved(Activated(s2))
  BY <1>4, ActivatedSaved
<1> QED BY <1>2, <1>5, SetStateSaved

LEMMA LoadAllIMSaved ==
    ASSUME installed \in SUBSET Addon, NEW s, Rebuildable(s)
    PROVE  Saved(LoadAllIM(s))
<1> DEFINE files == {n \in Name : Owner[n] \in installed \cap Lazy}
           self  == installed \ (Lazy \cup s.loaded)
           own   == UNION {Offered(a) : a \in self}
           t == [s EXCEPT !.avail = @ \cup files \cup own, !.initialized = @ \cup own,
                          !.loaded = @ \cup self, !.imLoaded = TRUE]
<1>1. LoadAllIM(s) = Rebuilt[t]
  BY DEF LoadAllIM
<1>2. files \in SUBSET Name /\ self \in SUBSET Addon /\ own \in SUBSET Name
  BY DEF Offered
<1> HIDE DEF files, self, own
<1>3. /\ t \in Instance /\ t.initialized \subseteq t.avail
      /\ t.imList = s.imList /\ t.disk = s.disk /\ t.imLoaded
  BY <1>2 DEF Rebuildable, Instance
<1> HIDE DEF t
<1>4. Fit(t)
  BY <1>3 DEF Fit, Rebuildable
<1> QED BY <1>1, <1>4, RebuiltSaved

LEMMA StartedSaved ==
    ASSUME installed \in SUBSET Addon, NEW disk \in Profile, Unique(disk.imList)
    PROVE  Saved(Started(disk))
<1> DEFINE s == LoadAllIM(Fresh(disk))
           at == IMIndexByName(s, s.disk.imName)
           i  == IF at < 0 THEN 0 ELSE at
           r  == [s EXCEPT !.iIMIndex = i]
<1>1. Saved(s)
  BY FreshSound, LoadAllIMSaved DEF Sound
<1>2. Started(disk) = SwitchIMByIndex(r, i)
  BY DEF Started
<1> HIDE DEF s
<1>3. s \in Instance
  BY <1>1, GoodIsFit DEF Saved
<1>4. i \in Int
  BY <1>3, IMIndexByNameType
<1> HIDE DEF i
<1>5. /\ r \in Instance
      /\ r.avail = s.avail /\ r.initialized = s.initialized /\ r.imes = s.imes
      /\ r.unused = s.unused /\ r.imList = s.imList /\ r.disk = s.disk
      /\ r.imLoaded = s.imLoaded /\ r.globalIM = s.globalIM
  BY <1>3, <1>4 DEF Instance
<1> HIDE DEF r
<1>6. Saved(r)
  BY <1>1, <1>5, SavedSame
<1> QED BY <1>2, <1>4, <1>6, SwitchIMByIndexSaved

LEMMA ProfileLoadSaved ==
    ASSUME NEW s, Saved(s)
    PROVE  Saved(ProfileLoad(s))
<1> DEFINE t == ProfileLoad(s)
<1>1. s \in Instance
  BY GoodIsFit DEF Saved
<1>2. /\ t.avail = s.avail /\ t.imes = s.imes /\ t.unused = s.unused
      /\ t.imList = s.disk.imList /\ t.disk = s.disk /\ t.globalIM = s.disk.imName
  BY <1>1 DEF Instance, ProfileLoad
<1>3. Good(t)
  BY ProfileLoadGood DEF Saved
<1> HIDE DEF t
<1>4. Agreed(t)
  BY <1>2 DEF Saved, Agreed, GlobalNamed
<1>5. Kept(s) => Kept(t)
  BY <1>2, KeptSame DEF Kept
<1> QED BY <1>3, <1>4, <1>5 DEF Saved, t

LEMMA EditSaved ==
    ASSUME NEW s, Saved(s), NEW list \in Lists, Edits
    PROVE  Saved([s EXCEPT !.disk.imList = list])
<1> DEFINE t == [s EXCEPT !.disk.imList = list]
<1>1. s \in Instance /\ Good(s)
  BY GoodIsFit DEF Saved
<1>2. t.imes = s.imes /\ t.globalIM = s.globalIM /\ t.disk.imName = s.disk.imName
  BY <1>1 DEF Instance, Profile
<1>3. Good(t)
  BY <1>1, EditGood
<1> HIDE DEF t
<1>4. Agreed(s) => Agreed(t)
  BY <1>2, AgreedSame
<1> QED BY <1>3, <1>4 DEF Saved, t

-----------------------------------------------------------------------------

SavedInv == TypeInv /\ (instance.imLoaded => Saved(instance))

LEMMA SavedAfter ==
    ASSUME TypeInv', Saved(instance') PROVE SavedInv'
BY DEF SavedInv

LEMMA SavedNext ==
    ASSUME SavedInv, [Next]_vars PROVE SavedInv'
<1>0. TypeInv /\ TypeInv' /\ installed \in SUBSET Addon
  BY TypeNext DEF SavedInv, TypeInv
<1>1. CASE Start
  <2>1. instance.disk \in Profile /\ Unique(instance.disk.imList)
    BY <1>0 DEF TypeInv, Sound, Rebuildable, Instance
  <2> QED BY <1>0, <1>1, <2>1, StartedSaved, SavedAfter DEF Start
<1>2. CASE FocusOut
  <2> DEFINE ic == [here |-> FALSE, active |-> FALSE, imname |-> NoName]
  <2>1. ic \in Context
    BY DEF Context
  <2>2. instance' = [instance EXCEPT !.ic = ic] /\ Saved(instance)
    BY <1>2 DEF FocusOut, SavedInv
  <2> HIDE DEF ic
  <2>3. Saved([instance EXCEPT !.ic = ic])
    BY <2>1, <2>2, FocusChangedSaved
  <2> QED BY <1>0, <2>2, <2>3, SavedAfter
<1>3. CASE ClearLocal
  <2>1. Saved(instance)
    BY <1>3 DEF SavedInv, TypeInv, ClearLocal
  <2> QED BY <1>0, <1>3, <2>1, SetLocalIMNameSaved, SavedAfter DEF ClearLocal
<1>4. CASE ChangeIMState
  <2>1. Saved(instance) /\ (~instance.ic.active) \in BOOLEAN
    BY <1>4 DEF SavedInv, TypeInv, ChangeIMState
  <2>2. Saved(SetState(instance, ~instance.ic.active))
    BY <1>0, <2>1, SetStateSaved
  <2> QED BY <1>0, <1>4, <2>2, SavedAfter DEF ChangeIMState
<1>5. CASE DropTable
  <2> DEFINE n == CurrentIM(instance)
             t == [instance EXCEPT !.avail = @ \ {n}, !.initialized = @ \ {n}]
  <2>1. Good(instance)
    BY <1>5 DEF SavedInv, TypeInv, Saved, DropTable
  <2>2. instance' = Rebuilt[t]
    BY <1>5 DEF DropTable
  <2> HIDE DEF n
  <2>3. Fit(t)
    BY <2>1, DropFit
  <2> HIDE DEF t
  <2>4. Saved(Rebuilt[t])
    BY <1>0, <2>3, RebuiltSaved
  <2> QED BY <1>0, <2>2, <2>4, SavedAfter
<1>6. CASE ReloadConfig \/ ReloadProfile
  <2>1. Saved(ProfileLoad(instance))
    BY <1>6, ProfileLoadSaved DEF ReloadConfig, ReloadProfile, SavedInv
  <2> QED BY <1>0, <1>6, <2>1, SavedAfter DEF ReloadConfig, ReloadProfile
<1>7. CASE ReloadAddon
  <2>1. Saved(LoadAllIM(instance))
    BY <1>0, LoadAllIMSaved DEF TypeInv, Sound
  <2> QED BY <1>0, <1>7, <2>1, SavedAfter DEF ReloadAddon
<1>8. ASSUME instance' = instance PROVE SavedInv'
  BY <1>0, <1>8 DEF SavedInv
<1>9. ASSUME NEW a \in Lazy, CallEngine(a) PROVE SavedInv'
  <2>1. Saved(instance) /\ a \in installed
    BY <1>0, <1>9, KnownIsLoaded DEF CallEngine, SavedInv, Good
  <2>2. Good(instance)
    BY <2>1 DEF Saved
  <2>3. Good(FindFunction(Rebuilt, instance, a))
    BY <1>0, <2>1, <2>2, AllSoundBelow, FindFunctionGood
  <2>4. Agreed(instance) => Agreed(FindFunction(Rebuilt, instance, a))
    BY <1>0, <2>1, <2>2, AllAgreedBelow, FindFunctionAgreed
  <2>5. Kept(instance) => Kept(FindFunction(Rebuilt, instance, a))
    BY <1>0, <2>1, <2>2, FindFunctionKept
  <2>6. Saved(FindFunction(Rebuilt, instance, a))
    BY <2>1, <2>3, <2>4, <2>5 DEF Saved
  <2> QED BY <1>0, <1>9, <2>6, SavedAfter DEF CallEngine
<1>10. ASSUME NEW list \in Lists, SetIMList(list) PROVE SavedInv'
  <2> DEFINE t == [instance EXCEPT !.imList = Among(list, EntryOf(instance.avail))]
  <2>1. Good(instance)
    BY <1>10 DEF SetIMList, SavedInv, Saved
  <2>2. instance' = Rebuilt[t]
    BY <1>10 DEF SetIMList
  <2>3. Fit(t)
    BY <2>1, SetIMListFit
  <2> HIDE DEF t
  <2>4. Saved(Rebuilt[t])
    BY <1>0, <2>3, RebuiltSaved
  <2> QED BY <1>0, <2>2, <2>4, SavedAfter
<1>11. ASSUME NEW list \in Lists, EditProfile(list) PROVE SavedInv'
  <2>1. Saved([instance EXCEPT !.disk.imList = list])
    BY <1>11, EditSaved DEF EditProfile, SavedInv
  <2> QED BY <1>0, <1>11, <2>1, SavedAfter DEF EditProfile
<1>12. ASSUME NEW index \in Int, Switch(index) PROVE SavedInv'
  <2>1. Saved(SwitchIMByIndex(instance, index))
    BY <1>0, <1>12, SwitchIMByIndexSaved DEF Switch, SavedInv
  <2> QED BY <1>0, <1>12, <2>1, SavedAfter DEF Switch
<1>13. ASSUME NEW n \in Name, SwitchIMByName(n) PROVE SavedInv'
  <2>1. IMIndexByName(instance, n) \in Int
    BY <1>0, IMIndexByNameType DEF TypeInv, Sound, Rebuildable
  <2> QED BY <1>12, <1>13, <2>1 DEF SwitchIMByName
<1>14. ASSUME NEW n \in Name, ChooseLocally(n) PROVE SavedInv'
  <2>1. Saved(instance)
    BY <1>14 DEF SavedInv, TypeInv, ChooseLocally
  <2>2. Saved(Activated(SetLocalIMName(instance, n)))
    BY <1>0, <2>1, SetLocalIMNameSaved, ActivatedSaved
  <2> QED BY <1>0, <1>14, <2>2, SavedAfter DEF ChooseLocally
<1>15. ASSUME NEW active \in BOOLEAN, NEW n \in Name \cup {NoName}, FocusIn(active, n)
       PROVE  SavedInv'
  <2> DEFINE ic == [here |-> TRUE, active |-> active, imname |-> n]
             t == [instance EXCEPT !.ic = ic]
  <2>1. Saved(instance)
    BY <1>15 DEF FocusIn, SavedInv
  <2>2. ic \in Context
    BY DEF Context
  <2>3. instance' = UpdateCurrentIM(Rebuilt, t, FALSE)
    BY <1>15 DEF FocusIn
  <2> HIDE DEF ic
  <2>4. Saved(t)
    BY <2>1, <2>2, FocusChangedSaved
  <2> HIDE DEF t
  <2>5. Saved(UpdateCurrentIM(Rebuilt, t, FALSE))
    BY <1>0, <2>4, UpdateCurrentIMSaved
  <2> QED BY <1>0, <2>3, <2>5, SavedAfter
<1>16. \A a \in Removable : Install(a) \/ Uninstall(a) => instance' = instance
  BY DEF Install, Uninstall
<1>17. UNCHANGED vars => instance' = instance
  BY DEF vars
<1>18. -4..-1 \subseteq Int
  OBVIOUS
<1> QED BY <1>1, <1>2, <1>3, <1>4, <1>5, <1>6, <1>7, <1>8, <1>9, <1>10, <1>11, <1>12,
           <1>13, <1>14, <1>15, <1>16, <1>17, <1>18 DEF Next

(* What is offered stays offered: an engine that is installed registers     *)
(* each input method that its configuration files offered.                 *)
Stays(s, t) == t.avail = s.avail /\ Loadable(t)

StaysBelow(s) ==
    \A t \in Instance : Fit(t) /\ Loadable(t) /\ Pending(t) < Pending(s) => Stays(t, Rebuilt[t])

LEMMA LoadIMStays ==
    ASSUME NEW s \in Instance, Loadable(s), NEW a \in Lazy \cap installed
    PROVE  Stays(s, LoadIM(s, a)) /\ Offered(a) \subseteq LoadIM(s, a).initialized
<1> DEFINE t == LoadIM(s, a)
<1>1. Offered(a) \subseteq s.avail
  BY DEF Loadable
<1>2. t.avail = s.avail /\ t.initialized = s.initialized \cup Offered(a)
  BY <1>1 DEF LoadIM, Instance
<1> HIDE DEF t
<1> QED BY <1>2 DEF Stays, Loadable, t

LEMMA LoadCurrentStays ==
    ASSUME installed \in SUBSET Addon, NEW s, Good(s), Loadable(s), StaysBelow(s)
    PROVE  Stays(s, LoadCurrent(Rebuilt, s))
<1> DEFINE n == CurrentIM(s)
           s2 == Registered(s, n)
           s3 == Rebuilt[s2]
           i == IMIndexByName(s3, n)
           r == [s3 EXCEPT !.iIMIndex = i]
<1>1. LoadCurrent(Rebuilt, s) = IF n \in s.avail \ s.initialized THEN r ELSE s
  BY DEF LoadCurrent, LazyLoad, Registered
<1>2. s \in Instance
  BY GoodIsFit
<1> HIDE DEF n
<1>3. CASE n \in s.avail \ s.initialized
  <2> DEFINE a == Owner[n]
             s1 == LoadIM(s, a)
  <2>1. a \in Lazy \cap installed /\ n \in Offered(a)
    BY <1>2, <1>3 DEF Loadable, Offered, Instance
  <2>2. s2 = IF n \in s1.initialized THEN s1 ELSE [s1 EXCEPT !.avail = @ \ {n}]
    BY DEF Registered
  <2> HIDE DEF a
  <2>3. Stays(s, s1) /\ n \in s1.initialized
    BY <1>2, <2>1, LoadIMStays
  <2>4. Fit(s2) /\ s2 \in Instance /\ Pending(s2) < Pending(s)
    BY <1>3, GoodIsFit, RegisteredFit, RegisteredPending
  <2> HIDE DEF s1, s2
  <2>5. Stays(s, s2)
    BY <2>2, <2>3
  <2>6. Stays(s2, s3)
    BY <2>4, <2>5 DEF StaysBelow, Stays
  <2>7. s3 \in Instance
    BY <2>4, RebuiltKept
  <2> HIDE DEF s3, i
  <2>8. r.avail = s3.avail /\ r.initialized = s3.initialized
    BY <2>7 DEF Instance
  <2> HIDE DEF r
  <2> QED BY <1>1, <1>3, <2>5, <2>6, <2>8 DEF Stays, Loadable
<1> QED BY <1>1, <1>3 DEF Stays

LEMMA InitCurrentStays ==
    ASSUME installed \in SUBSET Addon, NEW s, Good(s), Loadable(s), StaysBelow(s)
    PROVE  Stays(s, InitCurrent(Rebuilt, s))
<1> DEFINE n == CurrentIM(s)
           a == Calls[n]
           t == LoadIM(s, a)
<1>1. s \in Instance /\ Fit(s) /\ s.iIMIndex \in Int
  BY GoodIsFit DEF Instance
<1>2. n \in Name \cup {NoName}
  BY <1>1, IMByIndexType DEF CurrentIM
<1>3. InitCurrent(Rebuilt, s) =
        IF n # NoName /\ a \in installed /\ Known(s, a) /\ a \notin s.loaded THEN Rebuilt[t]
        ELSE s
  BY DEF InitCurrent, InitIM, FindFunction
<1> HIDE DEF n
<1>4. n # NoName /\ a \in installed => a \in Lazy \cap installed
  BY <1>2, NameAssumption
<1> HIDE DEF a
<1>5. ASSUME a \in Lazy \cap installed, a \notin s.loaded PROVE Stays(s, Rebuilt[t])
  <2>1. Stays(s, t)
    BY <1>1, <1>5, LoadIMStays
  <2>2. a \in Addon /\ t \in Instance /\ Fit(t) /\ Pending(t) < Pending(s)
    BY <1>1, <1>5, LoadIMFit, LoadIMPending
  <2> HIDE DEF t
  <2> QED BY <2>1, <2>2 DEF StaysBelow, Stays
<1> QED BY <1>3, <1>4, <1>5 DEF Stays

LEMMA UpdateGlobalStays ==
    ASSUME NEW s, Good(s), Loadable(s), NEW n \in Name \cup {NoName}
    PROVE  Stays(s, UpdateGlobal(s, n))
<1> DEFINE t == [s EXCEPT !.globalIM = n]
<1>1. s \in Instance
  BY GoodIsFit
<1>2. t \in Instance /\ t.avail = s.avail /\ t.initialized = s.initialized
  BY <1>1 DEF Instance
<1>3. UpdateGlobal(s, n) = IF n \notin {NoName, s.globalIM} THEN SaveProfile(t) ELSE s
  BY DEF UpdateGlobal
<1> HIDE DEF t
<1>4. SaveProfile(t).avail = s.avail /\ SaveProfile(t).initialized = s.initialized
  BY <1>2, SaveProfileIs
<1> QED BY <1>3, <1>4 DEF Stays, Loadable

LEMMA StaysBelowBelow ==
    ASSUME NEW s \in Instance, NEW t \in Instance, Pending(t) <= Pending(s), StaysBelow(s)
    PROVE  StaysBelow(t)
<1> SUFFICES ASSUME NEW u \in Instance, Fit(u), Loadable(u), Pending(u) < Pending(t)
             PROVE  Stays(u, Rebuilt[u])
  BY DEF StaysBelow
<1>1. Pending(u) < Pending(s)
  BY PendingIsNat
<1> QED BY <1>1 DEF StaysBelow

LEMMA SwitchIMInternalStays ==
    ASSUME installed \in SUBSET Addon, NEW s, Good(s), Loadable(s), StaysBelow(s),
           NEW index \in Int, NEW skip, NEW global
    PROVE  Stays(s, SwitchIMInternal(Rebuilt, s, index, skip, global))
<1> DEFINE s0 == [s EXCEPT !.iIMIndex = Clamped(s, index, skip)]
           s1 == LoadCurrent(Rebuilt, s0)
           s2 == InitCurrent(Rebuilt, s1)
           n  == IMByIndex(s2, s1.iIMIndex)
           end == IF global THEN UpdateGlobal(s2, n) ELSE s2
<1>1. SwitchIMInternal(Rebuilt, s, index, skip, global) = end
  BY DEF SwitchIMInternal
<1>2. s \in Instance /\ Rebuilt \in Keeping /\ Clamped(s, index, skip) \in Int
  BY RebuiltKeeps, GoodIsFit, ClampedType
<1>3. Good(s0)
  BY <1>2, IndexGood
<1>4. /\ s0 \in Instance /\ s0.avail = s.avail /\ s0.initialized = s.initialized
      /\ s0.loaded = s.loaded
  BY <1>2 DEF Instance
<1> HIDE DEF s0
<1>5. Stays(s, s0) /\ Pending(s0) = Pending(s) /\ Pending(s) \in Nat
  BY <1>2, <1>4, PendingSame, PendingIsNat DEF Stays, Loadable
<1>6. StaysBelow(s0)
  BY <1>5 DEF StaysBelow
<1>7. Good(s1) /\ s1 \in Instance /\ Pending(s1) <= Pending(s)
  BY <1>2, <1>3, <1>4, <1>5, AllSoundBelow, LoadCurrentGood, LoadCurrentKeeps
<1>8. Stays(s0, s1)
  BY <1>3, <1>5, <1>6, LoadCurrentStays DEF Stays
<1> HIDE DEF s1
<1>9. StaysBelow(s1)
  BY <1>2, <1>7, StaysBelowBelow
<1>10. Good(s2) /\ Stays(s1, s2)
  BY <1>7, <1>8, <1>9, AllSoundBelow, InitCurrentGood, InitCurrentStays DEF Stays
<1> HIDE DEF s2
<1>11. s2 \in Instance /\ s1.iIMIndex \in Int
  BY <1>7, <1>10, GoodIsFit DEF Instance
<1>12. n \in Name \cup {NoName}
  BY <1>11, IMByIndexType
<1> HIDE DEF n
<1>13. Stays(s2, end)
  BY <1>10, <1>12, UpdateGlobalStays DEF Stays
<1> HIDE DEF end
<1> QED BY <1>1, <1>5, <1>8, <1>10, <1>13 DEF Stays

LEMMA UpdateCurrentIMStays ==
    ASSUME installed \in SUBSET Addon, NEW s, Good(s), Loadable(s), StaysBelow(s), NEW force
    PROVE  Stays(s, UpdateCurrentIM(Rebuilt, s, force))
<1> DEFINE t == Repaired(s)
           u == SwitchIMInternal(Rebuilt, t, Wanted(s), Skips(s), Repairs(s))
<1>1. s \in Instance
  BY GoodIsFit
<1>2. /\ t \in Instance
      /\ t.avail = s.avail /\ t.initialized = s.initialized /\ t.imes = s.imes
      /\ t.unused = s.unused /\ t.imList = s.imList /\ t.disk = s.disk
      /\ t.imLoaded = s.imLoaded /\ Pending(t) = Pending(s)
  BY <1>1, RepairedIs
<1>3. UpdateCurrentIM(Rebuilt, s, force) =
        IF ~s.ic.here /\ ~force THEN s
        ELSE IF force \/ Repairs(s) \/ Wanted(s) # s.iIMIndex THEN u ELSE t
  BY <1>1, UpdateCurrentIMIs
<1> HIDE DEF t
<1>4. Good(t) /\ Stays(s, t)
  BY <1>2 DEF Good, Sound, Rebuildable, Stays, Loadable
<1>5. StaysBelow(t)
  BY <1>2 DEF StaysBelow
<1>6. Stays(t, u)
  BY <1>1, <1>4, <1>5, WantedType, SwitchIMInternalStays DEF Stays
<1> HIDE DEF u
<1> QED BY <1>3, <1>4, <1>6 DEF Stays

LEMMA RebuiltStays ==
    ASSUME installed \in SUBSET Addon, NEW s, Fit(s), Loadable(s)
    PROVE  Stays(s, Rebuilt[s])
<1> DEFINE From == {t \in Instance : Fit(t) /\ Loadable(t)}
           Wrong == {t \in From : ~ Stays(t, Rebuilt[t])}
<1>1. ASSUME NEW t \in From, \A u \in From : Pending(u) < Pending(t) => u \notin Wrong
      PROVE  Stays(t, Rebuilt[t])
  <2> DEFINE t1 == Split(t)
             t2 == UpdateCurrentIM(Rebuilt, t1, TRUE)
  <2>1. t \in Instance /\ Fit(t) /\ Loadable(t)
    OBVIOUS
  <2>2. StaysBelow(t)
    BY <1>1 DEF StaysBelow
  <2> HIDE DEF From, Wrong
  <2>3. t1 \in Instance /\ Pending(t1) = Pending(t) /\ Good(t1)
    BY <2>1, SplitType, SplitSound DEF Fit, Good
  <2>4. t1.avail = t.avail /\ t1.initialized = t.initialized
    BY <2>1, SplitIs
  <2>5. Rebuilt[t] = SaveProfile(t2)
    BY <2>1, RebuiltDefined, UpdateIMListIs DEF Fit
  <2> HIDE DEF t1
  <2>6. StaysBelow(t1) /\ Stays(t, t1)
    BY <2>1, <2>2, <2>3, <2>4 DEF StaysBelow, Stays, Loadable
  <2>7. Stays(t1, t2)
    BY <2>3, <2>6, UpdateCurrentIMStays DEF Stays
  <2>8. t2 \in Instance
    BY <2>3, UpdateCurrentIMGood, AllSoundBelow, GoodIsFit
  <2> HIDE DEF t2
  <2>9. SaveProfile(t2).avail = t2.avail /\ SaveProfile(t2).initialized = t2.initialized
    BY <2>8, SaveProfileIs
  <2> QED BY <2>5, <2>6, <2>7, <2>9 DEF Stays, Loadable
<1>2. Wrong = {}
  <2>1. From \in SUBSET Instance /\ Wrong \in SUBSET From
    OBVIOUS
  <2>2. ASSUME NEW t \in From, \A u \in From : Pending(u) < Pending(t) => u \notin Wrong
        PROVE  t \notin Wrong
    BY <1>1, <2>2
  <2> HIDE DEF From, Wrong
  <2> QED BY <2>1, <2>2, RebuiltInduction
<1>3. s \in From
  BY DEF Fit, Rebuildable
<1> QED BY <1>2, <1>3

LEMMA AllStaysBelow ==
    ASSUME installed \in SUBSET Addon, NEW s
    PROVE  StaysBelow(s)
BY RebuiltStays DEF StaysBelow

(* A list that is built for no context: the shared name is repaired, and    *)
(* saved.                                                                   *)
LEMMA RebuiltAlone ==
    ASSUME installed \in SUBSET Addon, NEW s, Whole(s), ~s.ic.here
    PROVE  LET t == Rebuilt[s]
           IN  /\ Exact(t) /\ ~t.ic.here /\ ~Repairs(t)
               /\ s.ic.imname = NoName => t.ic.imname = NoName
               /\ t.imes = Listed(s.imList, s.avail) /\ t.avail = s.avail
               /\ t.disk.imName = t.globalIM
               /\ Choice(t, t.globalIM) = Choice(t, s.globalIM)
<1> DEFINE x == Split(s)
           p == Repaired(x)
           u == UpdateCurrentIM(Rebuilt, x, TRUE)
           t == SaveProfile(u)
           c == Clamped(p, Wanted(x), Skips(x))
           n == IMByIndex(p, c)
<1>1. Exact(x) /\ x \in Instance /\ Good(x) /\ s \in Instance /\ s.imLoaded
  BY SplitExact DEF Exact, Whole, Fit, Rebuildable
<1>2. /\ x.imes = Listed(s.imList, s.avail) /\ x.avail = s.avail
      /\ x.globalIM = s.globalIM /\ x.ic = s.ic
  BY <1>1, SplitIs
<1>3. Rebuilt[s] = t
  BY <1>1, RebuiltDefined, UpdateIMListIs
<1> HIDE DEF x
<1>4. /\ p \in Instance /\ p.imes = x.imes /\ ~p.ic.here
      /\ p.globalIM = IF Repairs(x) THEN x.imes[2] ELSE x.globalIM
      /\ s.ic.imname = NoName => p.ic.imname = NoName
  BY <1>1, <1>2, RepairedIs
<1>5. ~Repairs(p) /\ Choice(p, p.globalIM) = Choice(x, x.globalIM)
  BY <1>1, RepairedAgreed
<1>6. Repairs(x) => n = p.globalIM
  <2> SUFFICES ASSUME Repairs(x) PROVE n = p.globalIM
    OBVIOUS
  <2>1. Len(p.imes) \in Nat /\ Len(p.imes) > 1
    BY <1>4 DEF Repairs, Instance
  <2>2. Wanted(x) = 1
    BY <1>4 DEF Wanted, Target
  <2>3. c = 1
    BY <2>1, <2>2 DEF Clamped
  <2>4. IMByIndex(p, 1) = p.imes[2]
    BY <2>1 DEF IMByIndex
  <2> HIDE DEF c, p
  <2> QED BY <1>4, <2>3, <2>4
<1>7. /\ Exact(u) /\ u.imes = x.imes /\ u.avail = x.avail /\ u.ic = p.ic
      /\ u.globalIM = IF Repairs(x) /\ n # NoName THEN n ELSE p.globalIM
  BY <1>1, AllExactBelow, UpdateCurrentIMExact
<1> HIDE DEF p, c, n, u
<1>8. u.globalIM = p.globalIM /\ u \in Instance
  BY <1>6, <1>7, GoodIsFit DEF Exact
<1>9. Exact(t) /\ Alike(u, t) /\ t.disk.imName = u.globalIM
  BY <1>7, <1>8, SaveProfileExact, SaveProfileIs DEF Exact
<1> HIDE DEF t
<1>10. t.imes = p.imes /\ t.globalIM = p.globalIM /\ t.imes = x.imes
  BY <1>4, <1>7, <1>8, <1>9 DEF Alike
<1>11. ~Repairs(t)
  BY <1>5, <1>10, ChoiceSame DEF Repairs, Global
<1>12. Choice(t, t.globalIM) = Choice(t, s.globalIM)
  <2>1. Choice(t, p.globalIM) = Choice(p, p.globalIM) /\ Choice(t, x.globalIM) = Choice(x, x.globalIM)
    BY <1>10, ChoiceSame
  <2> QED BY <1>2, <1>5, <1>10, <2>1
<1> QED BY <1>2, <1>3, <1>4, <1>7, <1>8, <1>9, <1>10, <1>11, <1>12 DEF Alike

(* The index that a start computes is the one of the shared name, so the    *)
(* switch to it chooses that name again.                                   *)
LEMMA SwitchBack ==
    ASSUME installed \in SUBSET Addon, NEW s, Exact(s), ~Repairs(s), ~s.ic.here,
           s.ic.imname = NoName, NEW i \in Int, i = IF Global(s) < 0 THEN 0 ELSE Global(s)
    PROVE  LET t == SwitchIMByIndex(s, i)
           IN  t.imes = s.imes /\ t.avail = s.avail /\ t.globalIM = s.globalIM
<1> DEFINE yes == TRUE
           u == SwitchIMInternal(Rebuilt, s, i, yes, yes)
           c == Clamped(s, i, yes)
           n == IMByIndex(s, c)
<1>1. s \in Instance /\ Good(s)
  BY GoodIsFit DEF Exact
<1>2. Global(s) \in Int /\ Global(s) \in -1 .. (Len(s.imes) - 1) /\ Len(s.imes) \in Nat
  BY <1>1, IMIndexByNameType DEF Global, Instance
<1>3. Resolved(s, i) = i
  BY <1>2 DEF Resolved
<1>4. SwitchIMByIndex(s, i) = IF i = 0 THEN s ELSE Activated(u)
  BY <1>3 DEF SwitchIMByIndex
<1>5. CASE i = 0
  BY <1>4, <1>5
<1>6. CASE i # 0
  <2>1. i = Global(s) /\ i \in 1 .. (Len(s.imes) - 1)
    BY <1>2, <1>6
  <2>2. c = i
    BY <1>2, <2>1 DEF Clamped
  <2>3. s.globalIM \in Range(s.imes) /\ IMByIndex(s, Global(s)) = s.globalIM
    BY <1>1, <1>2, <2>1, IMIndexByNameType DEF Global, IMByIndex
  <2>4. n = s.globalIM
    BY <2>1, <2>2, <2>3
  <2>5. Tidy(s) /\ ExactBelow(s)
    BY AllExactBelow DEF Tidy
  <2>8. yes
    OBVIOUS
  <2> HIDE DEF yes
  <2>6. /\ u.imes = s.imes /\ u.avail = s.avail /\ u.ic = s.ic
        /\ u.globalIM = IF yes /\ n # NoName THEN n ELSE s.globalIM
    BY <2>5, SwitchIMInternalExact
  <2> HIDE DEF u, n
  <2>7. Activated(u) = u
    BY <2>6 DEF Activated
  <2> QED BY <1>4, <1>6, <2>4, <2>6, <2>7, <2>8
<1> QED BY <1>5, <1>6

LEMMA FocusChangedStays ==
    ASSUME installed \in SUBSET Addon, NEW s, Good(s), Loadable(s), NEW ic \in Context
    PROVE  LET u == UpdateCurrentIM(Rebuilt, [s EXCEPT !.ic = ic], FALSE)
           IN  Good(u) /\ Stays(s, u)
<1> DEFINE t == [s EXCEPT !.ic = ic]
           u == UpdateCurrentIM(Rebuilt, t, FALSE)
<1>1. Good(t)
  BY FocusChanged
<1>2. t.avail = s.avail /\ t.initialized = s.initialized
  <2>1. s \in Instance
    BY GoodIsFit
  <2> QED BY <2>1 DEF Instance
<1> HIDE DEF t
<1>3. Loadable(t)
  BY <1>2 DEF Loadable
<1>4. Good(u) /\ Stays(t, u)
  BY <1>1, <1>3, AllSoundBelow, AllStaysBelow, UpdateCurrentIMGood, UpdateCurrentIMStays
<1> HIDE DEF u
<1>5. Stays(s, u)
  BY <1>2, <1>4 DEF Stays
<1> QED BY <1>4, <1>5 DEF u, t

LEMMA SwitchIMByIndexStays ==
    ASSUME installed \in SUBSET Addon, NEW s, Good(s), Loadable(s), NEW index \in Int
    PROVE  SwitchIMByIndex(s, index).avail = s.avail
<1>1. ASSUME NEW t, Good(t), Loadable(t), NEW active \in BOOLEAN
      PROVE  Good(SetState(t, active)) /\ Stays(t, SetState(t, active))
  <2> DEFINE ic == [t.ic EXCEPT !.active = active]
  <2>1. ic \in Context
    <3>1. t \in Instance
      BY <1>1, GoodIsFit
    <3> QED BY <3>1 DEF Instance, Context
  <2>2. SetState(t, active) = UpdateCurrentIM(Rebuilt, [t EXCEPT !.ic = ic], FALSE)
    BY DEF SetState
  <2> HIDE DEF ic
  <2> QED BY <1>1, <2>1, <2>2, FocusChangedStays
<1>2. Good(SetLocalIMName(s, NoName)) /\ Stays(s, SetLocalIMName(s, NoName))
  <2> DEFINE ic == [s.ic EXCEPT !.imname = NoName]
  <2>1. ic \in Context
    <3>1. s \in Instance
      BY GoodIsFit
    <3> QED BY <3>1 DEF Instance, Context
  <2>2. SetLocalIMName(s, NoName) = UpdateCurrentIM(Rebuilt, [s EXCEPT !.ic = ic], FALSE)
    BY DEF SetLocalIMName
  <2> HIDE DEF ic
  <2> QED BY <2>1, <2>2, FocusChangedStays
<1> DEFINE i  == Resolved(s, index)
           s1 == IF s.ic.here THEN SetLocalIMName(s, NoName) ELSE s
           s2 == SwitchIMInternal(Rebuilt, s1, i, TRUE, TRUE)
<1>3. i \in Int
  BY ResolvedType, GoodIsFit
<1>4. SwitchIMByIndex(s, index) =
        IF i = 0 THEN IF s.ic.here /\ s.ic.active THEN SetState(s, FALSE) ELSE s
        ELSE Activated(s2)
  BY DEF SwitchIMByIndex
<1>5. Good(s1) /\ Stays(s, s1)
  BY <1>2 DEF Stays
<1> HIDE DEF i, s1
<1>6. Good(s2) /\ Stays(s1, s2)
  <2>1. Loadable(s1)
    BY <1>5 DEF Stays
  <2> QED BY <1>3, <1>5, <2>1, AllSoundBelow, AllStaysBelow, SwitchIMInternalGood, SwitchIMInternalStays
<1> HIDE DEF s2
<1>7. Stays(s2, Activated(s2))
  BY <1>1, <1>6 DEF Stays, Activated
<1> HIDE DEF Activated
<1> QED BY <1>1, <1>4, <1>5, <1>6, <1>7 DEF Stays

LEMMA Restarted ==
    ASSUME installed \in SUBSET Addon, NEW s, Good(s), Agreed(s), Kept(s),
           Started(s.disk).avail = s.avail
    PROVE  LET u == Started(s.disk)
           IN  u.imes = s.imes /\ Choice(u, u.globalIM) = Choice(s, s.globalIM)
<1> DEFINE disk == s.disk
           f     == Fresh(disk)
           files == {n \in Name : Owner[n] \in installed \cap Lazy}
           self  == installed \ (Lazy \cup f.loaded)
           own   == UNION {Offered(a) : a \in self}
           t == [f EXCEPT !.avail = @ \cup files \cup own, !.initialized = @ \cup own,
                          !.loaded = @ \cup self, !.imLoaded = TRUE]
           l == Rebuilt[t]
           at == IMIndexByName(l, l.disk.imName)
           i == IF at < 0 THEN 0 ELSE at
           x == [l EXCEPT !.iIMIndex = i]
           u == SwitchIMByIndex(x, i)
<1>1. Started(disk) = u
  BY DEF Started, LoadAllIM
<1>2. disk \in Profile /\ Unique(disk.imList) /\ Sound(s)
  BY DEF Good, Sound, Rebuildable, Instance
<1>3. f \in Instance /\ Rebuildable(f)
  BY <1>2, FreshSound DEF Sound, Rebuildable
<1>4. files \in SUBSET Name /\ self \in SUBSET Addon /\ own \in SUBSET Name
  BY DEF Offered
<1>5. /\ \A n \in files : Owner[n] \in Lazy \cap installed
      /\ \A a \in Lazy \cap installed : Offered(a) \subseteq files
  BY DEF Offered
<1>6. /\ f.avail = {} /\ f.initialized = {} /\ f.imList = disk.imList /\ f.disk = disk
      /\ f.globalIM = disk.imName
      /\ f.ic = [here |-> FALSE, active |-> FALSE, imname |-> NoName]
  BY DEF Fresh
<1> HIDE DEF f, files, self, own
<1>7. /\ t \in Instance /\ t.avail = files \cup own /\ t.initialized = own
      /\ t.imList = disk.imList /\ t.disk = disk /\ t.imLoaded /\ t.globalIM = disk.imName
      /\ t.ic = [here |-> FALSE, active |-> FALSE, imname |-> NoName]
  BY <1>3, <1>4, <1>6 DEF Instance
<1> HIDE DEF t
<1>8. Fit(t) /\ Loadable(t)
  BY <1>2, <1>5, <1>7 DEF Fit, Rebuildable, Loadable
<1>9. l.avail = t.avail /\ Loadable(l) /\ Good(l)
  BY <1>8, RebuiltStays, RebuiltGood DEF Stays
<1> HIDE DEF l
<1>10. l \in Instance
  BY <1>9, GoodIsFit
<1>11. i \in Int
  BY <1>10, IMIndexByNameType
<1> HIDE DEF i
<1>12. /\ x \in Instance /\ x.avail = l.avail /\ x.initialized = l.initialized
       /\ x.imes = l.imes /\ x.globalIM = l.globalIM /\ x.ic = l.ic /\ x.iIMIndex = i
  BY <1>10, <1>11 DEF Instance
<1>13. Good(x) /\ Loadable(x)
  BY <1>9, <1>11, <1>12, IndexGood DEF Loadable
<1> HIDE DEF x
<1>14. u.avail = x.avail
  BY <1>11, <1>13, SwitchIMByIndexStays
<1>15. t.avail = s.avail
  BY <1>1, <1>9, <1>12, <1>14
<1>16. Whole(t)
  <2>1. Plain(t)
    BY <1>2, <1>7, <1>15, SavedListPlain DEF Kept
  <2> QED BY <1>8, <2>1 DEF Whole
<1>17. ~t.ic.here /\ t.ic.imname = NoName /\ t.imList = SavedList(s)
  BY <1>7 DEF Kept
<1>18. /\ Exact(l) /\ ~l.ic.here /\ ~Repairs(l) /\ l.ic.imname = NoName
       /\ l.imes = s.imes /\ l.disk.imName = l.globalIM
       /\ Choice(l, l.globalIM) = Choice(l, t.globalIM)
  <2>1. Listed(t.imList, t.avail) = s.imes
    BY <1>2, <1>15, <1>17, SavedListListed
  <2> QED BY <1>16, <1>17, <2>1, RebuiltAlone DEF l
<1>19. Exact(x) /\ ~Repairs(x) /\ ~x.ic.here /\ Global(x) = Global(l)
  <2>1. /\ x.unused = l.unused /\ x.imList = l.imList /\ x.disk = l.disk
        /\ x.imLoaded = l.imLoaded
    BY <1>10, <1>11 DEF Instance, x
  <2>2. Exact(x)
    BY <1>12, <1>18, <2>1, ExactSame
  <2>3. Global(x) = Global(l)
    BY <1>12, ChoiceSame DEF Global
  <2> QED BY <1>12, <1>18, <2>2, <2>3 DEF Repairs
<1>20. i = IF Global(x) < 0 THEN 0 ELSE Global(x)
  BY <1>18, <1>19 DEF Global, i
<1>21. x.ic.imname = NoName
  BY <1>12, <1>18
<1>22. u.imes = x.imes /\ u.globalIM = x.globalIM
  BY <1>11, <1>19, <1>20, <1>21, SwitchBack
<1> HIDE DEF u
<1>23. u.imes = s.imes /\ l.imes = s.imes /\ u.globalIM = l.globalIM
  BY <1>12, <1>18, <1>22
<1>24. Choice(u, u.globalIM) = Choice(l, t.globalIM)
  BY <1>18, <1>23, ChoiceSame
<1>25. Choice(l, t.globalIM) = Choice(s, disk.imName)
  BY <1>7, <1>23, ChoiceSame
<1> QED BY <1>1, <1>23, <1>24, <1>25 DEF Agreed

(* A restart gives the list and the shared choice there were.              *)
THEOREM RestartRestores ==
    ASSUME ~Edits PROVE Spec => RestartKeepsList
<1>1. ASSUME SavedInv, [Next]_vars, Start, instance.imLoaded, instance'.avail = instance.avail
      PROVE  instance'.imes = instance.imes /\ Chosen(instance') = Chosen(instance)
  <2>1. installed \in SUBSET Addon /\ Good(instance) /\ Agreed(instance) /\ Kept(instance)
    BY <1>1 DEF SavedInv, TypeInv, Saved
  <2>2. instance' = Started(instance.disk)
    BY <1>1 DEF Start
  <2> DEFINE u == Started(instance.disk)
  <2>3. u.imes = instance.imes /\ Choice(u, u.globalIM) = Choice(instance, instance.globalIM)
    BY <1>1, <2>1, <2>2, Restarted
  <2> HIDE DEF u
  <2>4. instance' = u
    BY <2>2 DEF u
  <2> QED BY <2>3, <2>4 DEF Chosen, Choice
<1>2. Init => SavedInv
  <2> SUFFICES ASSUME Init PROVE SavedInv
    OBVIOUS
  <2>1. ~instance.imLoaded
    BY DEF Init, Fresh
  <2> QED BY <2>1, TypeInit DEF SavedInv
<1> QED BY <1>1, <1>2, SavedNext, PTL DEF Spec, RestartKeepsList

-----------------------------------------------------------------------------
(* The current input method follows the context that has the focus.        *)

(* What the current index is, while a context has the focus.               *)
Follow(s) ==
    s.ic.here /\ Len(s.imes) > 1 =>
        IF ~s.ic.active THEN s.iIMIndex = 0
        ELSE IF s.ic.imname # NoName
        THEN \/ CurrentIM(s) = s.ic.imname
             \/ s.ic.imname = IMByIndex(s, 0) /\ s.iIMIndex = 1
        ELSE CurrentIM(s) = Choice(s, s.globalIM)

LEMMA FollowSame ==
    ASSUME NEW s, Follow(s), NEW t, t.imes = s.imes, t.iIMIndex = s.iIMIndex,
           t.globalIM = s.globalIM, t.ic = s.ic
    PROVE  Follow(t)
BY ChoiceSame DEF Follow, CurrentIM

LEMMA Clamping ==
    ASSUME NEW w \in Int, NEW n \in Nat
    PROVE  LET i == IF w >= n THEN n - 1 ELSE IF w < 0 THEN 0 ELSE w
           IN  /\ n > 1 => (i = 0 <=> w <= 0)
               /\ n > 1 /\ w > 0 => i = IF w >= n THEN n - 1 ELSE w
OBVIOUS

LEMMA ClampedIs ==
    ASSUME NEW s, NEW w \in Int, Len(s.imes) \in Nat, NEW skips \in BOOLEAN
    PROVE  Clamped(s, w, skips) = IF Len(s.imes) <= 1 THEN 0
                                  ELSE IF w >= Len(s.imes) THEN Len(s.imes) - 1
                                  ELSE IF w <= 0 THEN IF skips THEN 1 ELSE 0
                                  ELSE w
<1> DEFINE n == Len(s.imes)
           i == IF w >= n THEN n - 1 ELSE IF w < 0 THEN 0 ELSE w
<1>1. Clamped(s, w, skips) = IF n <= 1 THEN 0 ELSE IF skips /\ i = 0 THEN 1 ELSE i
  BY DEF Clamped
<1>2. n \in Nat
  OBVIOUS
<1> HIDE DEF n
<1>3. /\ n > 1 => (i = 0 <=> w <= 0)
      /\ n > 1 /\ w > 0 => i = IF w >= n THEN n - 1 ELSE w
  BY <1>2, Clamping
<1>4. n <= 1 \/ n > 1
  BY <1>2
<1>5. w > 0 => ~(w <= 0)
  OBVIOUS
<1>6. w <= 0 \/ w > 0
  OBVIOUS
<1>7. n > 1 => ~(n <= 1)
  BY <1>2
<1>8. n > 1 /\ w <= 0 => ~(w >= n)
  BY <1>2
<1> HIDE DEF i
<1>9. Clamped(s, w, skips) = IF n <= 1 THEN 0
                             ELSE IF w >= n THEN n - 1
                             ELSE IF w <= 0 THEN IF skips THEN 1 ELSE 0
                             ELSE w
  <2>1. CASE n <= 1
    BY <1>1, <2>1
  <2>2. CASE n > 1 /\ w <= 0
    BY <1>1, <1>3, <1>7, <1>8, <2>2
  <2>3. CASE n > 1 /\ w > 0
    BY <1>1, <1>3, <1>5, <1>7, <2>3
  <2> QED BY <1>4, <1>6, <2>1, <2>2, <2>3
<1> QED BY <1>9 DEF n

LEMMA UpdatedFollows ==
    ASSUME NoCalls, installed \in SUBSET Addon, NEW s, Exact(s), s.ic.here, NEW force
    PROVE  LET u == UpdateCurrentIM(Rebuilt, s, force)
           IN  /\ Follow(u) /\ Exact(u) /\ Tidy(u)
               /\ u.imes = s.imes /\ u.ic.here /\ u.ic.active = s.ic.active
               /\ u.ic.imname = IF s.ic.imname \in Range(s.imes) THEN s.ic.imname ELSE NoName
               /\ ~Repairs(s) => u.globalIM = s.globalIM
<1> DEFINE t == Repaired(s)
           u == UpdateCurrentIM(Rebuilt, s, force)
           w == Wanted(s)
           c == Clamped(t, w, Skips(s))
           n == IMByIndex(t, c)
<1>1. s \in Instance /\ Good(s) /\ ExactBelow(s)
  BY GoodIsFit, AllExactBelow DEF Exact
<1>2. /\ t \in Instance /\ t.imes = s.imes
      /\ t.ic.here = s.ic.here /\ t.ic.active = s.ic.active
      /\ t.ic.imname = IF s.ic.imname \in Range(s.imes) THEN s.ic.imname ELSE NoName
      /\ t.globalIM = IF Repairs(s) THEN s.imes[2] ELSE s.globalIM
  BY <1>1, RepairedIs
<1>3. /\ Exact(u) /\ u.imes = s.imes /\ u.ic = t.ic
      /\ u.globalIM = IF Repairs(s) /\ n # NoName THEN n ELSE t.globalIM
      /\ Tidy(u)
      /\ u.iIMIndex = c \/ (u.iIMIndex = w /\ ~ Repairs(s))
  BY <1>1, UpdateCurrentIMExact
<1>4. Repairs(s) => /\ n # NoName /\ IMIndexByName(s, n) = c
                    /\ IF Skips(s) THEN c > 0 ELSE c = 0
  BY <1>1, RepairChooses
<1>5. w = IF ~t.ic.active THEN 0
          ELSE IF t.ic.imname # NoName THEN IMIndexByName(t, t.ic.imname)
          ELSE IF Repairs(s) THEN 1 ELSE Global(s)
  BY <1>2 DEF Wanted, Target
<1>6. w \in Int /\ Len(t.imes) \in Nat
  <2>1. w \in Int
    BY <1>1, WantedType
  <2> HIDE DEF w, t
  <2>2. Len(t.imes) \in Nat
    BY <1>2 DEF Instance
  <2> QED BY <2>1, <2>2
<1> HIDE DEF t, w
<1>0. Skips(s) \in BOOLEAN
  BY DEF Skips
<1>7. c = IF Len(t.imes) <= 1 THEN 0
          ELSE IF w >= Len(t.imes) THEN Len(t.imes) - 1
          ELSE IF w <= 0 THEN IF Skips(s) THEN 1 ELSE 0
          ELSE w
  BY <1>0, <1>6, ClampedIs
<1>8. Skips(s) <=> t.ic.active
  BY <1>2 DEF Skips
<1> HIDE DEF c, n, u
<1>9. ASSUME Len(s.imes) > 1, ~u.ic.active PROVE u.iIMIndex = 0
  BY <1>2, <1>3, <1>5, <1>7, <1>8, <1>9
<1>10. ASSUME Len(s.imes) > 1, u.ic.active, u.ic.imname # NoName
       PROVE  \/ CurrentIM(u) = u.ic.imname
              \/ u.ic.imname = IMByIndex(u, 0) /\ u.iIMIndex = 1
  <2> DEFINE m == u.ic.imname
  <2>1. m = t.ic.imname /\ m \in Range(t.imes) /\ w = IMIndexByName(t, m)
    BY <1>2, <1>3, <1>5, <1>10
  <2> HIDE DEF m
  <2>2. w \in 0 .. (Len(t.imes) - 1) /\ t.imes[w + 1] = m
    BY <1>2, <2>1, IMIndexByNameType
  <2>3. c = IF w = 0 THEN 1 ELSE w
    BY <1>2, <1>3, <1>6, <1>7, <1>8, <1>10, <2>2
  <2>4. IMByIndex(u, w) = m
    BY <1>2, <1>3, <2>2 DEF IMByIndex
  <2> QED BY <1>3, <2>3, <2>4 DEF m, CurrentIM
<1>11. ASSUME Len(s.imes) > 1, u.ic.active, u.ic.imname = NoName
       PROVE  CurrentIM(u) = Choice(u, u.globalIM)
  <2>1. CASE Repairs(s)
    <3>1. c > 0 /\ u.iIMIndex = c /\ u.globalIM = n
      BY <1>2, <1>3, <1>4, <1>8, <1>11, <2>1
    <3>2. IMIndexByName(u, n) = c /\ IMByIndex(u, c) = n
      BY <1>2, <1>3, <1>4, <2>1, ChoiceSame DEF n
    <3> QED BY <3>1, <3>2 DEF Choice, CurrentIM
  <2>2. CASE ~ Repairs(s)
    <3> DEFINE g == s.globalIM
    <3>1. w = Global(s) /\ u.globalIM = g /\ w = IMIndexByName(s, g)
      BY <1>2, <1>3, <1>5, <1>11, <2>2 DEF Global
    <3>2. w > 0 /\ w \in 0 .. (Len(s.imes) - 1) /\ s.imes[w + 1] = g
      <4>1. w > 0
        BY <1>6, <1>11, <2>2, <3>1 DEF Repairs
      <4>2. g \in Range(s.imes)
        BY <1>1, <3>1, <4>1, IMIndexByNameType
      <4> QED BY <1>1, <3>1, <4>1, <4>2, IMIndexByNameType
    <3> HIDE DEF g
    <3>3. c = w /\ u.iIMIndex = w
      BY <1>2, <1>3, <1>6, <1>7, <1>11, <3>2
    <3>4. IMIndexByName(u, g) = w /\ IMByIndex(u, w) = g
      BY <1>3, <3>1, <3>2, ChoiceSame DEF IMByIndex
    <3> QED BY <3>1, <3>2, <3>3, <3>4 DEF Choice, CurrentIM
  <2> QED BY <2>1, <2>2
<1>12. Follow(u)
  BY <1>3, <1>9, <1>10, <1>11 DEF Follow
<1> QED BY <1>2, <1>3, <1>12 DEF u

LEMMA RebuiltFollows ==
    ASSUME NoCalls, installed \in SUBSET Addon, NEW s, Whole(s)
    PROVE  Follow(Rebuilt[s])
<1> DEFINE x == Split(s)
           yes == TRUE
           u == UpdateCurrentIM(Rebuilt, x, yes)
<1>1. Exact(x) /\ s \in Instance /\ s.imLoaded
  BY SplitExact DEF Whole, Fit, Rebuildable
<1>2. Rebuilt[s] = SaveProfile(u)
  BY <1>1, RebuiltDefined, UpdateIMListIs
<1>3. x.ic = s.ic
  BY <1>1, SplitIs
<1> HIDE DEF x, yes
<1>4. CASE s.ic.here
  <2>1. Follow(u) /\ Exact(u)
    BY <1>1, <1>3, <1>4, UpdatedFollows
  <2>2. u \in Instance
    BY <2>1, GoodIsFit DEF Exact
  <2> HIDE DEF u
  <2> QED BY <1>2, <2>1, <2>2, SaveProfileIs, FollowSame
<1>5. CASE ~s.ic.here
  <2>1. Onto(s, Rebuilt[s])
    BY <1>1, RebuiltDefined
  <2> QED BY <1>5, <2>1 DEF Onto, Follow
<1> QED BY <1>4, <1>5

(* A new focus, or a change of the context.                                *)
LEMMA FocusChangedFollows ==
    ASSUME NoCalls, installed \in SUBSET Addon, NEW s, Exact(s), NEW ic \in Context, ic.here
    PROVE  LET u == UpdateCurrentIM(Rebuilt, [s EXCEPT !.ic = ic], FALSE)
           IN  /\ Follow(u) /\ Exact(u) /\ Tidy(u)
               /\ u.imes = s.imes /\ u.ic.here /\ u.ic.active = ic.active
               /\ u.ic.imname = IF ic.imname \in Range(s.imes) THEN ic.imname ELSE NoName
               /\ ~Repairs(s) => u.globalIM = s.globalIM
<1> DEFINE t == [s EXCEPT !.ic = ic]
           no == FALSE
<1>1. s \in Instance
  BY GoodIsFit DEF Exact
<1>2. /\ t \in Instance /\ t.ic = ic
      /\ t.avail = s.avail /\ t.initialized = s.initialized /\ t.imes = s.imes
      /\ t.unused = s.unused /\ t.imList = s.imList /\ t.disk = s.disk
      /\ t.imLoaded = s.imLoaded
  BY <1>1 DEF Instance
<1> HIDE DEF t, no
<1>3. Exact(t)
  BY <1>2, ExactSame
<1>4. LET u == UpdateCurrentIM(Rebuilt, t, no)
      IN  /\ Follow(u) /\ Exact(u) /\ Tidy(u)
          /\ u.imes = t.imes /\ u.ic.here /\ u.ic.active = t.ic.active
          /\ u.ic.imname = IF t.ic.imname \in Range(t.imes) THEN t.ic.imname ELSE NoName
          /\ ~Repairs(t) => u.globalIM = t.globalIM
  BY <1>2, <1>3, UpdatedFollows
<1>5. t.globalIM = s.globalIM
  BY <1>1 DEF Instance, t
<1>6. Repairs(t) <=> Repairs(s)
  BY <1>2, <1>5, ChoiceSame DEF Repairs, Global
<1> QED BY <1>2, <1>4, <1>5, <1>6 DEF t, no

LEMMA SetLocalIMNameFollows ==
    ASSUME NoCalls, installed \in SUBSET Addon, NEW s, Exact(s), s.ic.here,
           NEW n \in Name \cup {NoName}
    PROVE  LET u == SetLocalIMName(s, n)
           IN  /\ Follow(u) /\ Exact(u) /\ Tidy(u)
               /\ u.imes = s.imes /\ u.ic.here /\ u.ic.active = s.ic.active
               /\ u.ic.imname = IF n \in Range(s.imes) THEN n ELSE NoName
<1> DEFINE ic == [s.ic EXCEPT !.imname = n]
<1>1. s \in Instance
  BY GoodIsFit DEF Exact
<1>2. ic \in Context /\ ic.here /\ ic.active = s.ic.active /\ ic.imname = n
  BY <1>1 DEF Instance, Context
<1>3. SetLocalIMName(s, n) = UpdateCurrentIM(Rebuilt, [s EXCEPT !.ic = ic], FALSE)
  BY DEF SetLocalIMName
<1> HIDE DEF ic
<1>4. LET u == UpdateCurrentIM(Rebuilt, [s EXCEPT !.ic = ic], FALSE)
      IN  /\ Follow(u) /\ Exact(u) /\ Tidy(u)
          /\ u.imes = s.imes /\ u.ic.here /\ u.ic.active = ic.active
          /\ u.ic.imname = IF ic.imname \in Range(s.imes) THEN ic.imname ELSE NoName
          /\ ~Repairs(s) => u.globalIM = s.globalIM
  BY <1>2, FocusChangedFollows
<1> QED BY <1>2, <1>3, <1>4

LEMMA SetStateFollows ==
    ASSUME NoCalls, installed \in SUBSET Addon, NEW s, Exact(s), s.ic.here,
           NEW active \in BOOLEAN
    PROVE  LET u == SetState(s, active)
           IN  /\ Follow(u) /\ Exact(u) /\ Tidy(u)
               /\ u.imes = s.imes /\ u.ic.here /\ u.ic.active = active
               /\ s.ic.imname = NoName => u.ic.imname = NoName
               /\ ~Repairs(s) => u.globalIM = s.globalIM
<1> DEFINE ic == [s.ic EXCEPT !.active = active]
<1>1. s \in Instance
  BY GoodIsFit DEF Exact
<1>2. ic \in Context /\ ic.here /\ ic.active = active /\ ic.imname = s.ic.imname
  BY <1>1 DEF Instance, Context
<1>3. SetState(s, active) = UpdateCurrentIM(Rebuilt, [s EXCEPT !.ic = ic], FALSE)
  BY DEF SetState
<1> HIDE DEF ic
<1>4. LET u == UpdateCurrentIM(Rebuilt, [s EXCEPT !.ic = ic], FALSE)
      IN  /\ Follow(u) /\ Exact(u) /\ Tidy(u)
          /\ u.imes = s.imes /\ u.ic.here /\ u.ic.active = ic.active
          /\ u.ic.imname = IF ic.imname \in Range(s.imes) THEN ic.imname ELSE NoName
          /\ ~Repairs(s) => u.globalIM = s.globalIM
  BY <1>2, FocusChangedFollows
<1> QED BY <1>2, <1>3, <1>4

LEMMA ActivatedFollows ==
    ASSUME NoCalls, installed \in SUBSET Addon, NEW s, Exact(s)
    PROVE  Follow(Activated(s)) \/ Activated(s) = s
BY SetStateFollows DEF Activated

LEMMA HeldExact ==
    ASSUME Provided, Edits => Lazy = {}, NEW s, Held(s)
    PROVE  Exact(s)
<1>1. Good(s) /\ Sound(s) /\ Stocked(s)
  BY HeldIsGood, GoodIsFit DEF Held, Steady
<1>2. Loadable(s)
  BY <1>1 DEF Stocked, Loadable, Provided
<1>3. Lazy # {} => Firm(s)
  BY <1>1, KeptFirm DEF Held, Kept
<1> QED BY <1>1, <1>2, <1>3 DEF Exact

(* Engines that are always there are loaded by the first start.             *)
Settled(s) == Addon \ (Removable \cup Lazy) \subseteq s.loaded

Further(s, t) == s.loaded \subseteq t.loaded /\ t.ic.here = s.ic.here

LEMMA FocusFurther ==
    ASSUME installed \in SUBSET Addon, NEW s \in Instance, NEW ic \in Context
    PROVE  LET u == UpdateCurrentIM(Rebuilt, [s EXCEPT !.ic = ic], FALSE)
           IN  u \in Instance /\ s.loaded \subseteq u.loaded /\ u.ic.here = ic.here
<1> DEFINE t == [s EXCEPT !.ic = ic]
           no == FALSE
           u == UpdateCurrentIM(Rebuilt, t, no)
<1>1. t \in Instance /\ t.ic = ic /\ t.loaded = s.loaded
  BY DEF Instance
<1> HIDE DEF t, no
<1>2. u \in Instance /\ Onto(t, u)
  BY <1>1, RebuiltKeeps, UpdateCurrentIMKeeps
<1>3. u \in Instance /\ s.loaded \subseteq u.loaded /\ u.ic.here = ic.here
  BY <1>1, <1>2 DEF Onto
<1> QED BY <1>3 DEF t, no

LEMMA SetLocalFurther ==
    ASSUME installed \in SUBSET Addon, NEW s \in Instance, NEW n \in Name \cup {NoName}
    PROVE  SetLocalIMName(s, n) \in Instance /\ Further(s, SetLocalIMName(s, n))
<1> DEFINE ic == [s.ic EXCEPT !.imname = n]
           u == UpdateCurrentIM(Rebuilt, [s EXCEPT !.ic = ic], FALSE)
<1>1. ic \in Context /\ ic.here = s.ic.here
  BY DEF Instance, Context
<1>2. SetLocalIMName(s, n) = u
  BY DEF SetLocalIMName
<1> HIDE DEF ic
<1>3. u \in Instance /\ s.loaded \subseteq u.loaded /\ u.ic.here = ic.here
  BY <1>1, FocusFurther
<1> HIDE DEF u
<1> QED BY <1>1, <1>2, <1>3 DEF Further

LEMMA SetStateFurther ==
    ASSUME installed \in SUBSET Addon, NEW s \in Instance, NEW active \in BOOLEAN
    PROVE  SetState(s, active) \in Instance /\ Further(s, SetState(s, active))
<1> DEFINE ic == [s.ic EXCEPT !.active = active]
           u == UpdateCurrentIM(Rebuilt, [s EXCEPT !.ic = ic], FALSE)
<1>1. ic \in Context /\ ic.here = s.ic.here
  BY DEF Instance, Context
<1>2. SetState(s, active) = u
  BY DEF SetState
<1> HIDE DEF ic
<1>3. u \in Instance /\ s.loaded \subseteq u.loaded /\ u.ic.here = ic.here
  BY <1>1, FocusFurther
<1> HIDE DEF u
<1> QED BY <1>1, <1>2, <1>3 DEF Further

LEMMA ActivatedFurther ==
    ASSUME installed \in SUBSET Addon, NEW s \in Instance
    PROVE  Activated(s) \in Instance /\ Further(s, Activated(s))
<1>1. CASE s.ic.here /\ ~s.ic.active
  <2> DEFINE yes == TRUE
  <2>1. yes \in BOOLEAN
    OBVIOUS
  <2>2. Activated(s) = SetState(s, yes)
    BY <1>1 DEF Activated
  <2> HIDE DEF yes
  <2> QED BY <2>1, <2>2, SetStateFurther
<1>2. CASE ~(s.ic.here /\ ~s.ic.active)
  BY <1>2 DEF Activated, Further
<1> QED BY <1>1, <1>2

LEMMA SwitchFurther ==
    ASSUME installed \in SUBSET Addon, NEW s \in Instance, NEW index \in Int
    PROVE  SwitchIMByIndex(s, index) \in Instance /\ Further(s, SwitchIMByIndex(s, index))
<1> DEFINE i  == Resolved(s, index)
           yes == TRUE
           no == FALSE
           s1 == IF s.ic.here THEN SetLocalIMName(s, NoName) ELSE s
           s2 == SwitchIMInternal(Rebuilt, s1, i, yes, yes)
           off == SetState(s, no)
<1>1. i \in Int /\ no \in BOOLEAN
  BY ResolvedType
<1>2. SwitchIMByIndex(s, index) =
        IF i = 0 THEN IF s.ic.here /\ s.ic.active THEN off ELSE s ELSE Activated(s2)
  BY DEF SwitchIMByIndex
<1>3. s1 \in Instance /\ Further(s, s1)
  BY SetLocalFurther DEF Further
<1> HIDE DEF i, s1, yes, no
<1>4. s2 \in Instance /\ Onto(s1, s2)
  BY <1>1, <1>3, RebuiltKeeps, SwitchIMInternalKeeps
<1>5. off \in Instance /\ Further(s, off)
  BY <1>1, SetStateFurther
<1> HIDE DEF s2, off
<1>6. Activated(s2) \in Instance /\ Further(s2, Activated(s2))
  BY <1>4, ActivatedFurther
<1> HIDE DEF Activated
<1> QED BY <1>2, <1>3, <1>4, <1>5, <1>6 DEF Further, Onto

LEMMA LoadAllIMFurther ==
    ASSUME installed \in SUBSET Addon, NEW s \in Instance
    PROVE  /\ LoadAllIM(s) \in Instance /\ Further(s, LoadAllIM(s))
           /\ installed \ Lazy \subseteq LoadAllIM(s).loaded
<1> DEFINE files == {n \in Name : Owner[n] \in installed \cap Lazy}
           self  == installed \ (Lazy \cup s.loaded)
           own   == UNION {Offered(a) : a \in self}
           t == [s EXCEPT !.avail = @ \cup files \cup own, !.initialized = @ \cup own,
                          !.loaded = @ \cup self, !.imLoaded = TRUE]
           u == Rebuilt[t]
<1>1. LoadAllIM(s) = u
  BY DEF LoadAllIM
<1>2. files \in SUBSET Name /\ self \in SUBSET Addon /\ own \in SUBSET Name
  BY DEF Offered
<1>3. installed \ Lazy \subseteq s.loaded \cup self
  OBVIOUS
<1> HIDE DEF files, self, own
<1>4. t \in Instance /\ t.loaded = s.loaded \cup self /\ t.ic = s.ic
  BY <1>2 DEF Instance
<1> HIDE DEF t
<1>5. u \in Instance /\ Onto(t, u)
  BY <1>4, RebuiltDefined
<1> HIDE DEF u
<1> QED BY <1>1, <1>3, <1>4, <1>5 DEF Further, Onto

LEMMA StartedFurther ==
    ASSUME installed \in SUBSET Addon, NEW disk \in Profile, Unique(disk.imList)
    PROVE  /\ ~Started(disk).ic.here
           /\ installed \ Lazy \subseteq Started(disk).loaded
<1> DEFINE f == Fresh(disk)
           l == LoadAllIM(f)
           at == IMIndexByName(l, l.disk.imName)
           i == IF at < 0 THEN 0 ELSE at
           x == [l EXCEPT !.iIMIndex = i]
           u == SwitchIMByIndex(x, i)
<1>1. Started(disk) = u
  BY DEF Started
<1>2. f \in Instance
  BY FreshSound DEF Sound, Rebuildable
<1>3. ~f.ic.here
  BY DEF Fresh
<1> HIDE DEF f
<1>4. l \in Instance /\ Further(f, l) /\ installed \ Lazy \subseteq l.loaded
  BY <1>2, LoadAllIMFurther
<1> HIDE DEF l
<1>5. i \in Int
  BY <1>4, IMIndexByNameType
<1> HIDE DEF i
<1>6. x \in Instance /\ x.loaded = l.loaded /\ x.ic = l.ic
  BY <1>4, <1>5 DEF Instance
<1> HIDE DEF x
<1>7. u \in Instance /\ Further(x, u)
  BY <1>5, <1>6, SwitchFurther
<1> HIDE DEF u
<1> QED BY <1>1, <1>3, <1>4, <1>6, <1>7 DEF Further

(* A list that names something that is offered says the same without the   *)
(* rest, as long as no name that is new begins another.                    *)
LEMMA PlainWhen ==
    ASSUME NEW s \in Instance, Names(s.imList) \cap s.avail # {},
           \A n \in s.avail : n \in Names(s.imList) \/ PrefixOf[n] = {n}
    PROVE  Plain(s)
<1> DEFINE list == s.imList
           avail == s.avail
           less == Among(list, EntryOf(avail))
<1>1. list \in Seq(Entry) /\ avail \in SUBSET Name
  BY DEF Instance
<1>2. Among(less, EnabledEntry(avail)) = Among(list, EnabledEntry(avail))
  <2>1. EnabledEntry(avail) \cap Entry \subseteq EntryOf(avail)
    BY DEF EnabledEntry, EntryOf
  <2> QED BY <1>1, <2>1, AmongAmong
<1>3. Names(less) = Names(list) \cap avail
  <2>1. Range(less) = Range(list) \cap EntryOf(avail)
    BY <1>1, EntriesAmong
  <2>2. \A e \in Range(list) : e \in Entry
    BY <1>1 DEF Range
  <2> HIDE DEF less, list
  <2>3. \A l : Names(l) = {e.name : e \in Range(l)}
    BY DEF Names, Range
  <2>4. \A e \in Range(list) : e \in EntryOf(avail) <=> e.name \in avail
    BY <2>2 DEF Entry, EntryOf
  <2> QED BY <2>1, <2>3, <2>4
<1>4. list # <<>> /\ less # <<>>
  <2> HIDE DEF less
  <2> QED BY <1>3 DEF Names
<1> HIDE DEF less
<1>5. ASSUME NEW n \in avail PROVE IsInNameList(less, n) <=> IsInNameList(list, n)
  <2>1. n \in Name
    BY <1>1
  <2>2. CASE n \in Names(list)
    BY <1>3, <1>5, <2>1, <2>2, NamedIsInNameList
  <2>3. CASE n \notin Names(list)
    BY <1>3, <1>5, <2>3 DEF IsInNameList
  <2> QED BY <2>2, <2>3
<1>6. {n \in avail : ~IsInNameList(less, n)} = {n \in avail : ~IsInNameList(list, n)}
  BY <1>5
<1>7. Listed(less, avail) = Listed(list, avail)
  BY <1>2, <1>4, <1>6 DEF Listed
<1> QED BY <1>7 DEF Plain, less

(* No name of an engine that may come and go is the beginning of another.   *)
(* Without this a rebuilding can enable more than the one around it did: the *)
(* outer one sees the entry of an absent input method and takes a new one   *)
(* for listed, and the inner one no longer sees it (imnames.cfg).          *)
NamesApart == Lazy = {} \/ \A n \in Name : Owner[n] \in Removable => PrefixOf[n] = {n}

LEMMA RebuiltFurther ==
    ASSUME installed \in SUBSET Addon, NEW s \in Instance, NEW t \in Instance, Further(s, t)
    PROVE  Further(s, Rebuilt[t])
<1>1. Onto(t, Rebuilt[t])
  BY RebuiltDefined
<1> QED BY <1>1 DEF Further, Onto

LEMMA FindFunctionFurther ==
    ASSUME installed \in SUBSET Addon, NEW s \in Instance, NEW a \in Addon
    PROVE  Further(s, FindFunction(Rebuilt, s, a))
<1> DEFINE t == LoadIM(s, a)
<1>1. t \in Instance /\ Further(s, t)
  BY LoadIMPending DEF Onto, Further
<1> HIDE DEF t
<1>2. Further(s, Rebuilt[t])
  BY <1>1, RebuiltFurther
<1> QED BY <1>2 DEF FindFunction, Further, t

SettledInv ==
    /\ TypeInv
    /\ Addon \ Removable \subseteq installed
    /\ instance.imLoaded => Settled(instance)

LEMMA SettledFurther ==
    ASSUME NEW s, NEW t, Settled(s), Further(s, t)
    PROVE  Settled(t)
BY DEF Settled, Further

LEMMA SettledAfter ==
    ASSUME SettledInv, TypeInv', installed' = installed, instance.imLoaded,
           Further(instance, instance')
    PROVE  SettledInv'
BY SettledFurther DEF SettledInv

LEMMA SettledNext ==
    ASSUME SettledInv, [Next]_vars PROVE SettledInv'
<1>0. /\ TypeInv /\ TypeInv' /\ installed \in SUBSET Addon /\ instance \in Instance
      /\ instance.ic.here => instance.imLoaded
  BY TypeNext DEF SettledInv, TypeInv, Sound, Rebuildable
<1>1. CASE Start
  <2>1. instance.disk \in Profile /\ Unique(instance.disk.imList)
    BY <1>0 DEF TypeInv, Sound, Rebuildable, Instance
  <2>2. installed \ Lazy \subseteq instance'.loaded /\ installed' = installed
    BY <1>0, <1>1, <2>1, StartedFurther DEF Start
  <2> QED BY <1>0, <2>2 DEF SettledInv, Settled
<1>2. CASE FocusOut
  <2>1. instance'.loaded = instance.loaded /\ instance.imLoaded /\ installed' = installed
    BY <1>0, <1>2 DEF FocusOut, Instance
  <2> QED BY <1>0, <2>1 DEF SettledInv, Settled
<1>3. CASE ClearLocal
  <2>1. instance' = SetLocalIMName(instance, NoName) /\ installed' = installed /\ instance.imLoaded
    BY <1>0, <1>3 DEF ClearLocal
  <2>2. Further(instance, SetLocalIMName(instance, NoName))
    BY <1>0, SetLocalFurther
  <2> QED BY <1>0, <2>1, <2>2, SettledAfter
<1>4. CASE ChangeIMState
  <2> DEFINE active == ~instance.ic.active
  <2>1. instance' = SetState(instance, active) /\ installed' = installed /\ instance.imLoaded
    BY <1>0, <1>4 DEF ChangeIMState
  <2>2. active \in BOOLEAN
    OBVIOUS
  <2> HIDE DEF active
  <2>3. Further(instance, SetState(instance, active))
    BY <1>0, <2>2, SetStateFurther
  <2> QED BY <1>0, <2>1, <2>3, SettledAfter
<1>5. CASE DropTable
  <2> DEFINE n == CurrentIM(instance)
             t == [instance EXCEPT !.avail = @ \ {n}, !.initialized = @ \ {n}]
  <2>1. instance' = Rebuilt[t] /\ installed' = installed /\ instance.imLoaded
    BY <1>0, <1>5 DEF DropTable
  <2>2. t \in Instance /\ Further(instance, t)
    BY <1>0 DEF Instance, Further
  <2> HIDE DEF t
  <2>3. Further(instance, Rebuilt[t])
    BY <1>0, <2>2, RebuiltFurther
  <2> QED BY <1>0, <2>1, <2>3, SettledAfter
<1>6. CASE ReloadConfig \/ ReloadProfile
  <2>1. instance' = ProfileLoad(instance) /\ installed' = installed /\ instance.imLoaded
    BY <1>6 DEF ReloadConfig, ReloadProfile
  <2>2. Further(instance, ProfileLoad(instance))
    BY <1>0 DEF ProfileLoad, Instance, Further
  <2> QED BY <1>0, <2>1, <2>2, SettledAfter
<1>7. CASE ReloadAddon
  <2>1. installed \ Lazy \subseteq instance'.loaded /\ installed' = installed
    BY <1>0, <1>7, LoadAllIMFurther DEF ReloadAddon
  <2> QED BY <1>0, <2>1 DEF SettledInv, Settled
<1>8. ASSUME NEW a \in Removable, Install(a) \/ Uninstall(a) PROVE SettledInv'
  <2>1. instance' = instance /\ (installed' = installed \cup {a} \/ installed' = installed \ {a})
    BY <1>8 DEF Install, Uninstall
  <2> QED BY <1>0, <2>1 DEF SettledInv
<1>9. ASSUME NEW a \in Lazy, CallEngine(a) PROVE SettledInv'
  <2>1. instance.imLoaded
    BY <1>0, <1>9, KnownIsLoaded DEF CallEngine, Good
  <2>2. instance' = FindFunction(Rebuilt, instance, a) /\ installed' = installed /\ a \in Addon
    BY <1>9, NameAssumption DEF CallEngine
  <2>3. Further(instance, FindFunction(Rebuilt, instance, a))
    BY <1>0, <2>2, FindFunctionFurther
  <2> QED BY <1>0, <2>1, <2>2, <2>3, SettledAfter
<1>10. ASSUME NEW list \in Lists, SetIMList(list) PROVE SettledInv'
  <2> DEFINE t == [instance EXCEPT !.imList = Among(list, EntryOf(instance.avail))]
  <2>1. instance' = Rebuilt[t] /\ installed' = installed /\ instance.imLoaded
    BY <1>10 DEF SetIMList
  <2>2. Fit(t)
    BY <1>0, <2>1, SetIMListFit DEF TypeInv, Good
  <2>3. t \in Instance
    BY <2>2 DEF Fit, Rebuildable
  <2>4. Further(instance, t)
    BY <1>0 DEF Instance, Further
  <2> HIDE DEF t
  <2>5. Further(instance, Rebuilt[t])
    BY <1>0, <2>3, <2>4, RebuiltFurther
  <2> QED BY <1>0, <2>1, <2>5, SettledAfter
<1>11. ASSUME NEW list \in Lists, EditProfile(list) PROVE SettledInv'
  <2>1. instance'.loaded = instance.loaded /\ instance.imLoaded /\ installed' = installed
    BY <1>0, <1>11 DEF EditProfile, Instance
  <2> QED BY <1>0, <2>1 DEF SettledInv, Settled
<1>12. ASSUME NEW index \in Int, Switch(index) PROVE SettledInv'
  <2>1. /\ instance' = SwitchIMByIndex(instance, index) /\ installed' = installed
        /\ instance.imLoaded
    BY <1>12 DEF Switch
  <2>2. Further(instance, SwitchIMByIndex(instance, index))
    BY <1>0, SwitchFurther
  <2> QED BY <1>0, <2>1, <2>2, SettledAfter
<1>13. ASSUME NEW n \in Name, SwitchIMByName(n) PROVE SettledInv'
  <2>1. IMIndexByName(instance, n) \in Int
    BY <1>0, IMIndexByNameType
  <2> QED BY <1>12, <1>13, <2>1 DEF SwitchIMByName
<1>14. ASSUME NEW n \in Name, ChooseLocally(n) PROVE SettledInv'
  <2> DEFINE s1 == SetLocalIMName(instance, n)
  <2>1. instance' = Activated(s1) /\ installed' = installed /\ instance.imLoaded
    BY <1>0, <1>14 DEF ChooseLocally
  <2>2. s1 \in Instance /\ Further(instance, s1)
    BY <1>0, SetLocalFurther
  <2> HIDE DEF s1
  <2>3. Further(s1, Activated(s1))
    BY <1>0, <2>2, ActivatedFurther
  <2> HIDE DEF Activated
  <2>4. Further(instance, Activated(s1))
    BY <2>2, <2>3 DEF Further
  <2> QED BY <1>0, <2>1, <2>4, SettledAfter
<1>15. ASSUME NEW active \in BOOLEAN, NEW n \in Name \cup {NoName}, FocusIn(active, n)
       PROVE  SettledInv'
  <2> DEFINE ic == [here |-> TRUE, active |-> active, imname |-> n]
             u == UpdateCurrentIM(Rebuilt, [instance EXCEPT !.ic = ic], FALSE)
  <2>1. instance' = u /\ installed' = installed /\ instance.imLoaded
    BY <1>15 DEF FocusIn
  <2>2. ic \in Context
    BY DEF Context
  <2> HIDE DEF ic
  <2>3. instance.loaded \subseteq u.loaded
    BY <1>0, <2>2, FocusFurther
  <2> HIDE DEF u
  <2> QED BY <1>0, <2>1, <2>3 DEF SettledInv, Settled
<1>16. CASE UNCHANGED vars
  BY <1>0, <1>16 DEF vars, SettledInv
<1>17. -4..-1 \subseteq Int
  OBVIOUS
<1> QED BY <1>1, <1>2, <1>3, <1>4, <1>5, <1>6, <1>7, <1>8, <1>9, <1>10, <1>11, <1>12,
           <1>13, <1>14, <1>15, <1>16, <1>17 DEF Next

LEMMA FindFunctionFollows ==
    ASSUME NoCalls, installed \in SUBSET Addon, NEW s, Exact(s), NEW a \in Lazy \cap installed
    PROVE  Follow(FindFunction(Rebuilt, s, a)) \/ FindFunction(Rebuilt, s, a) = s
<1> DEFINE t == LoadIM(s, a)
<1>1. s \in Instance /\ Fit(s) /\ a \in Addon /\ Offered(a) \subseteq s.avail /\ Lazy # {}
  BY GoodIsFit DEF Exact, Loadable
<1>2. t \in Instance /\ Fit(t)
  BY <1>1, LoadIMFit, LoadIMPending
<1>3. /\ t.avail = s.avail /\ t.initialized = s.initialized \cup Offered(a)
      /\ t.imList = s.imList
  BY <1>1 DEF LoadIM, Instance
<1> HIDE DEF t
<1>4. Whole(t)
  BY <1>1, <1>2, <1>3 DEF Whole, Exact, Loadable, Firm, Plain
<1>5. Follow(Rebuilt[t])
  BY <1>4, RebuiltFollows
<1> QED BY <1>5 DEF FindFunction, t

LEMMA DropFollows ==
    ASSUME NoCalls, Provided, Edits => Lazy = {}, NEW s, Held(s),
           NEW n, n \in Name => Owner[n] \notin Lazy
    PROVE  Follow(Rebuilt[[s EXCEPT !.avail = @ \ {n}, !.initialized = @ \ {n}]])
<1> DEFINE t == [s EXCEPT !.avail = @ \ {n}, !.initialized = @ \ {n}]
<1>1. Exact(s) /\ s \in Instance /\ Good(s) /\ Sound(s)
  BY HeldExact, GoodIsFit DEF Exact
<1>2. Fit(t)
  BY <1>1, DropFit
<1>3. t.imList = s.imList /\ t.avail = s.avail \ {n} /\ t.initialized = s.initialized \ {n}
  BY <1>1 DEF Instance
<1> HIDE DEF t
<1>4. Loadable(t)
  <2>1. \A a \in Lazy : n \notin Offered(a)
    BY DEF Offered
  <2> QED BY <1>1, <1>3, <2>1 DEF Exact, Loadable
<1>5. Lazy # {} => Plain(t)
  <2> SUFFICES ASSUME Lazy # {} PROVE Plain(t)
    OBVIOUS
  <2>1. t.imList = SavedList(s) /\ t.avail \in SUBSET s.avail
    BY <1>3 DEF Held, Kept
  <2> QED BY <1>1, <2>1, SavedListPlain
<1>6. Follow(Rebuilt[t])
  BY <1>2, <1>4, <1>5, RebuiltFollows DEF Whole, Provided
<1> QED BY <1>6 DEF t

LEMMA SetIMListFollows ==
    ASSUME NoCalls, installed \in SUBSET Addon, Exact(instance), NEW list \in Lists
    PROVE  Follow(Rebuilt[[instance EXCEPT !.imList = Among(list, EntryOf(instance.avail))]])
<1> DEFINE l == Among(list, EntryOf(instance.avail))
           t == [instance EXCEPT !.imList = l]
<1>1. Good(instance) /\ instance \in Instance
  BY GoodIsFit DEF Exact
<1>2. Fit(t)
  BY <1>1, SetIMListFit
<1>3. list \in Seq(Entry)
  BY ListsAssumption
<1>4. Among(l, EntryOf(instance.avail)) = l
  BY <1>3, AmongAmong
<1> HIDE DEF l
<1>5. t.imList = l /\ t.avail = instance.avail /\ t.initialized = instance.initialized
  BY <1>1 DEF Instance
<1> HIDE DEF t
<1>6. Whole(t)
  BY <1>2, <1>4, <1>5 DEF Whole, Exact, Loadable, Plain
<1>7. Follow(Rebuilt[t])
  BY <1>6, RebuiltFollows
<1> QED BY <1>7 DEF t, l

(* Whatever begins with what, an inactive context has the first.            *)
Rests(s) == s.ic.here /\ ~s.ic.active /\ Len(s.imes) > 1 => s.iIMIndex = 0

(* What is true of the index in any case, and what is when names are apart. *)
Heeds(s) == Rests(s) /\ (NamesApart => Follow(s))

LEMMA FollowHeeds ==
    ASSUME NEW s, Follow(s)
    PROVE  Heeds(s)
BY DEF Heeds, Follow, Rests

LEMMA HeedsSame ==
    ASSUME NEW s, Heeds(s), NEW t, t.imes = s.imes, t.iIMIndex = s.iIMIndex,
           t.globalIM = s.globalIM, t.ic = s.ic
    PROVE  Heeds(t)
<1>1. Follow(s) => Follow(t)
  BY FollowSame
<1> QED BY <1>1 DEF Heeds, Rests

LEMMA HeadStays ==
    ASSUME NEW T, NEW a \in Seq(T), NEW b \in Seq(T)
    PROVE  Len(a) = 1 => a \o b \in Seq(T) /\ Len(a \o b) > 0 /\ (a \o b)[1] = a[1]
<1> DEFINE c == a \o b
           m == Len(a)
<1>1. /\ m \in Nat /\ DOMAIN a = 1 .. m
      /\ Len(b) \in Nat /\ DOMAIN b = 1 .. Len(b)
      /\ DOMAIN c = 1 .. (m + Len(b))
      /\ \A i \in 1 .. m : c[i] = a[i]
  OBVIOUS
<1>2. c \in Seq(T) /\ DOMAIN c = 1 .. Len(c) /\ Len(c) \in Nat
  OBVIOUS
<1> HIDE DEF c, m
<1>3. m = 1 => c \in Seq(T) /\ Len(c) > 0 /\ c[1] = a[1]
  BY <1>1, <1>2
<1> QED BY <1>3 DEF c, m

LEMMA IndexSet ==
    ASSUME NEW s \in Instance, NEW k \in Int
    PROVE  [s EXCEPT !.iIMIndex = k] \in Instance /\ [s EXCEPT !.iIMIndex = k].iIMIndex = k
BY DEF Instance

(* New ones come behind the first, unless the first of all is new.          *)
LEMMA WithNewHead ==
    ASSUME NEW old \in Seq(Name), NEW new \in SUBSET Name, Order[1] \notin new, NEW empty
    PROVE  LET list == WithNew(old, new, empty)
           IN  /\ old = <<>> => list = <<>>
               /\ old # <<>> => list # <<>> /\ list[1] = Head(old)
<1> DEFINE more == Among(Order, new \cap Fits(empty))
           back == Reverse(more)
           list == WithNew(old, new, empty)
<1>1. list = IF old = <<>> THEN old ELSE <<Head(old)>> \o back \o Tail(old)
  BY DEF WithNew, Fits
<1>2. more \in Seq(Name)
  BY AmongOrder
<1> HIDE DEF more, list
<1>3. back \in Seq(Name)
  BY <1>2, ReverseSeq
<1> HIDE DEF back
<1>4. CASE old # <<>>
  <2> DEFINE h == <<Head(old)>>
             hb == h \o back
             t == Tail(old)
  <2>1. h \in Seq(Name) /\ t \in Seq(Name) /\ Len(h) = 1 /\ h[1] = Head(old)
    BY <1>4, HeadTail
  <2>2. list = hb \o t
    BY <1>1, <1>4
  <2> HIDE DEF h, t
  <2>3. hb \in Seq(Name) /\ Len(hb) > 0 /\ hb[1] = Head(old)
    BY <1>3, <2>1, HeadStays
  <2> HIDE DEF hb
  <2>4. list # <<>> /\ list[1] = hb[1]
    BY <2>1, <2>2, <2>3
  <2> QED BY <1>4, <2>3, <2>4 DEF list
<1>5. CASE old = <<>>
  BY <1>1, <1>5 DEF list
<1> QED BY <1>4, <1>5

(* A list that names the first of all begins alike without the entries that *)
(* nothing offers.                                                         *)
LEMMA ListedHead ==
    ASSUME NEW list \in Seq(Entry), NEW avail \in SUBSET Name,
           Order[1] \in Names(list) \cap avail, Listed(list, avail) # <<>>
    PROVE  LET less == Among(list, EntryOf(avail))
           IN  Listed(less, avail) # <<>> /\ Listed(less, avail)[1] = Listed(list, avail)[1]
<1> DEFINE less == Among(list, EntryOf(avail))
           old == NamesOf(Among(list, EnabledEntry(avail)))
           new == {n \in avail : ~IsInNameList(list, n)}
           more == {n \in avail : ~IsInNameList(less, n)}
<1>1. Listed(list, avail) = WithNew(old, new, list = <<>>)
  BY DEF Listed
<1>2. Among(less, EnabledEntry(avail)) = Among(list, EnabledEntry(avail))
  <2>1. EnabledEntry(avail) \cap Entry \subseteq EntryOf(avail)
    BY DEF EnabledEntry, EntryOf
  <2> QED BY <2>1, AmongAmong
<1>3. Listed(less, avail) = WithNew(old, more, less = <<>>)
  BY <1>2 DEF Listed
<1>4. Range(less) = Range(list) \cap EntryOf(avail)
  BY EntriesAmong
<1>5. old \in Seq(Name)
  BY EnabledNames
<1>6. Order[1] \in Names(less)
  <2> HIDE DEF less
  <2>1. \A l : Names(l) = {e.name : e \in Range(l)}
    BY DEF Names, Range
  <2>2. PICK e \in Range(list) : e.name = Order[1]
    BY <2>1
  <2>3. e \in Entry
    BY <2>2 DEF Range
  <2>4. e \in EntryOf(avail)
    BY <2>2, <2>3 DEF Entry, EntryOf
  <2> QED BY <1>4, <2>1, <2>2, <2>4
<1> HIDE DEF less
<1>7. Order[1] \notin new /\ Order[1] \notin more
  BY <1>6, NamedIsInNameList, NameFacts
<1>8. new \in SUBSET Name /\ more \in SUBSET Name
  OBVIOUS
<1> HIDE DEF old, new, more
<1>9. old # <<>>
  BY <1>1, <1>5, <1>7, <1>8, WithNewHead
<1>10. /\ WithNew(old, new, list = <<>>)[1] = Head(old)
       /\ WithNew(old, more, less = <<>>) # <<>>
       /\ WithNew(old, more, less = <<>>)[1] = Head(old)
  BY <1>5, <1>7, <1>8, <1>9, WithNewHead
<1> QED BY <1>1, <1>3, <1>10 DEF less

(* A list without such entries is not changed by a rebuilding inside.       *)
LEMMA RebuiltLists ==
    ASSUME installed \in SUBSET Addon, NEW s, Whole(s)
    PROVE  Exact(Rebuilt[s]) /\ Rebuilt[s].imes = Listed(s.imList, s.avail)
<1> DEFINE x == Split(s)
           yes == TRUE
           u == UpdateCurrentIM(Rebuilt, x, yes)
<1>1. Exact(x) /\ s \in Instance /\ s.imLoaded
  BY SplitExact DEF Whole, Fit, Rebuildable
<1>2. Rebuilt[s] = SaveProfile(u)
  BY <1>1, RebuiltDefined, UpdateIMListIs
<1>3. x.imes = Listed(s.imList, s.avail)
  BY <1>1, SplitIs
<1>4. yes
  OBVIOUS
<1> HIDE DEF x, yes
<1>5. Exact(u) /\ u.imes = x.imes
  BY <1>1, <1>4, AllExactBelow, UpdateCurrentIMExact
<1> HIDE DEF u
<1>6. Exact(SaveProfile(u)) /\ SaveProfile(u).imes = u.imes
  BY <1>5, SaveProfileExact DEF Exact, Alike
<1> QED BY <1>2, <1>3, <1>5, <1>6

LEMMA InitCurrentNone ==
    ASSUME NoCalls, installed \in SUBSET Addon, NEW s \in Instance, NEW g
    PROVE  InitCurrent(g, s) = s
<1> DEFINE n == CurrentIM(s)
<1>1. s.iIMIndex \in Int
  BY DEF Instance
<1>2. n \in Name \cup {NoName}
  BY <1>1, IMByIndexType DEF CurrentIM
<1>3. InitCurrent(g, s) =
        IF n # NoName THEN IF Calls[n] \in installed /\ Known(s, Calls[n])
                           THEN FindFunction(g, s, Calls[n]) ELSE s
        ELSE s
  BY DEF InitCurrent, InitIM
<1> HIDE DEF n
<1>4. n # NoName => Calls[n] \notin installed
  BY <1>2, NameAssumption DEF NoCalls
<1> QED BY <1>3, <1>4

(* The first input method of a list is loaded, and is the first of what is  *)
(* rebuilt.                                                                *)
LEMMA FirstLoaded ==
    ASSUME installed \in SUBSET Addon, NEW s, Good(s), Loadable(s), s.iIMIndex = 0,
           Lazy # {} => /\ s.imList = Among(s.imList, EntryOf(s.avail))
                        /\ s.imes # <<>> => /\ Listed(s.imList, s.avail) # <<>>
                                            /\ Listed(s.imList, s.avail)[1] = s.imes[1]
    PROVE  LET t == LoadCurrent(Rebuilt, s)
           IN  t \in Instance /\ t.iIMIndex = 0
<1> DEFINE n == CurrentIM(s)
           s2 == Registered(s, n)
           s3 == Rebuilt[s2]
           r == [s3 EXCEPT !.iIMIndex = IMIndexByName(s3, n)]
<1>1. s \in Instance /\ Fit(s) /\ Sound(s)
  BY GoodIsFit
<1>2. LoadCurrent(Rebuilt, s) = IF n \in s.avail \ s.initialized THEN r ELSE s
  BY DEF LoadCurrent, LazyLoad, Registered
<1>3. n \in s.avail => n \in Name /\ s.imes # <<>> /\ n = s.imes[1]
  <2>1. s.avail \in SUBSET Name /\ s.imes \in Seq(Name)
    BY <1>1 DEF Instance
  <2>2. n \in s.avail => n # NoName
    BY <2>1, NameAssumption
  <2>3. n # NoName => 0 \in 0 .. (Len(s.imes) - 1) /\ n = s.imes[1]
    BY DEF CurrentIM, IMByIndex
  <2> HIDE DEF n
  <2> QED BY <2>1, <2>2, <2>3
<1> HIDE DEF n
<1>4. CASE n \in s.avail \ s.initialized
  <2> DEFINE a == Owner[n]
             s1 == LoadIM(s, a)
  <2>1. a \in Lazy \cap installed /\ n \in Offered(a) /\ Offered(a) \subseteq s.avail
    BY <1>3, <1>4 DEF Loadable, Offered
  <2>2. s2 = IF n \in s1.initialized THEN s1 ELSE [s1 EXCEPT !.avail = @ \ {n}]
    BY DEF Registered
  <2> HIDE DEF a
  <2>3. /\ s1.avail = s.avail /\ s1.initialized = s.initialized \cup Offered(a)
        /\ s1.imList = s.imList /\ s1 \in Instance
    BY <1>1, <2>1, LoadIMPending DEF LoadIM, Instance
  <2>4. Fit(s1)
    BY <1>1, <2>1, LoadIMFit
  <2> HIDE DEF s1
  <2>5. s2 = s1
    BY <2>1, <2>2, <2>3
  <2> HIDE DEF s2
  <2>6. Whole(s2)
    BY <2>1, <2>3, <2>4, <2>5 DEF Whole, Loadable, Plain
  <2>7. Exact(s3) /\ s3.imes = Listed(s.imList, s.avail)
    BY <2>3, <2>5, <2>6, RebuiltLists
  <2> HIDE DEF s3
  <2>8. s3 \in Instance /\ IsInjective(s3.imes)
    BY <2>7, GoodIsFit DEF Exact, Sound
  <2>9. s3.imes # <<>> /\ s3.imes[1] = n /\ s3.imes \in Seq(Name)
    BY <1>3, <1>4, <2>1, <2>7, <2>8 DEF Instance
  <2>10. 0 \in 0 .. (Len(s3.imes) - 1)
    BY <2>9
  <2>11. IMByIndex(s3, 0) = n
    BY <2>9, <2>10 DEF IMByIndex
  <2>12. IMIndexByName(s3, n) = 0
    BY <2>8, <2>10, <2>11, IndexOf
  <2>13. r \in Instance /\ r.iIMIndex = 0
    <3> DEFINE k == IMIndexByName(s3, n)
    <3>1. k = 0 /\ k \in Int
      BY <2>12
    <3> HIDE DEF k
    <3>2. [s3 EXCEPT !.iIMIndex = k] \in Instance /\ [s3 EXCEPT !.iIMIndex = k].iIMIndex = k
      BY <2>8, <3>1, IndexSet, Zenon
    <3> QED BY <3>1, <3>2, Zenon DEF k
  <2> QED BY <1>2, <1>4, <2>13
<1>5. CASE n \notin s.avail \ s.initialized
  BY <1>1, <1>2, <1>5
<1> QED BY <1>4, <1>5

LEMMA UpdateGlobalIndex ==
    ASSUME NEW s \in Instance, NEW n \in Name \cup {NoName}
    PROVE  UpdateGlobal(s, n) \in Instance /\ UpdateGlobal(s, n).iIMIndex = s.iIMIndex
<1> DEFINE t == [s EXCEPT !.globalIM = n]
<1>1. t \in Instance /\ t.iIMIndex = s.iIMIndex
  BY DEF Instance
<1>2. UpdateGlobal(s, n) = IF n \notin {NoName, s.globalIM} THEN SaveProfile(t) ELSE s
  BY DEF UpdateGlobal
<1> HIDE DEF t
<1>3. SaveProfile(t) \in Instance /\ SaveProfile(t).iIMIndex = t.iIMIndex
  BY <1>1, SaveProfileIs
<1> QED BY <1>1, <1>2, <1>3

(* The rebuilding chooses the first input method of the new list: it does   *)
(* so too when that one's engine must be loaded for it, which rebuilds the  *)
(* list of what the first rebuilding left.                                 *)
LEMMA SwitchedToFirst ==
    ASSUME NoCalls, installed \in SUBSET Addon, NEW s, Good(s), Loadable(s),
           NEW w \in Int, NEW skip, NEW global, Clamped(s, w, skip) = 0,
           s.imList = Among(s.imList, EntryOf(s.avail)),
           s.imes # <<>> => /\ Listed(s.imList, s.avail) # <<>>
                            /\ Listed(s.imList, s.avail)[1] = s.imes[1]
    PROVE  LET t == SwitchIMInternal(Rebuilt, s, w, skip, global)
           IN  t \in Instance /\ t.iIMIndex = 0
<1> DEFINE c  == Clamped(s, w, skip)
           s0 == [s EXCEPT !.iIMIndex = c]
           s1 == LoadCurrent(Rebuilt, s0)
           s2 == InitCurrent(Rebuilt, s1)
           n  == IMByIndex(s2, s1.iIMIndex)
           u  == UpdateGlobal(s2, n)
           end == IF global THEN u ELSE s2
<1>1. SwitchIMInternal(Rebuilt, s, w, skip, global) = end
  BY DEF SwitchIMInternal
<1>2. s \in Instance /\ c = 0 /\ c \in Int
  BY GoodIsFit
<1> HIDE DEF c
<1>3. Good(s0)
  BY <1>2, IndexGood
<1>4. /\ s0.iIMIndex = 0 /\ s0.avail = s.avail /\ s0.initialized = s.initialized
      /\ s0.imes = s.imes /\ s0.imList = s.imList
  BY <1>2 DEF Instance
<1> HIDE DEF s0
<1>5. Loadable(s0)
  BY <1>4 DEF Loadable
<1>6. s1 \in Instance /\ s1.iIMIndex = 0
  BY <1>3, <1>4, <1>5, FirstLoaded
<1> HIDE DEF s1
<1>7. s2 = s1
  BY <1>6, InitCurrentNone
<1> HIDE DEF s2
<1>8. n \in Name \cup {NoName}
  BY <1>6, <1>7, IMByIndexType
<1> HIDE DEF n
<1>9. u \in Instance /\ u.iIMIndex = 0
  BY <1>6, <1>7, <1>8, UpdateGlobalIndex
<1> HIDE DEF u
<1> QED BY <1>1, <1>6, <1>7, <1>9

LEMMA RebuiltRests ==
    ASSUME NoCalls, installed \in SUBSET Addon, NEW s, Fit(s), Loadable(s),
           Order[1] \in Names(s.imList) \cap s.avail
    PROVE  Rests(Rebuilt[s])
<1> DEFINE x == Split(s)
           yes == TRUE
           t == Repaired(x)
           w == Wanted(x)
           u == UpdateCurrentIM(Rebuilt, x, yes)
<1>1. /\ s \in Instance /\ s.imLoaded /\ Rebuildable(s)
      /\ s.imList \in Seq(Entry) /\ s.avail \in SUBSET Name
  BY DEF Fit, Rebuildable, Instance
<1>2. Rebuilt[s] = SaveProfile(u)
  BY <1>1, RebuiltDefined, UpdateIMListIs
<1>3. /\ x.imes = Listed(s.imList, s.avail) /\ x.imList = Among(s.imList, EntryOf(s.avail))
      /\ x.avail = s.avail /\ x.initialized = s.initialized /\ x.ic = s.ic
  BY <1>1, SplitIs
<1>4. Good(x)
  BY <1>1, SplitSound DEF Good
<1>5. yes
  OBVIOUS
<1> HIDE DEF x, yes
<1>6. x \in Instance
  BY <1>4, GoodIsFit
<1>7. CASE ~(s.ic.here /\ ~s.ic.active)
  <2>1. Onto(s, Rebuilt[s])
    BY <1>1, RebuiltDefined
  <2> QED BY <1>7, <2>1 DEF Onto, Rests
<1>8. CASE s.ic.here /\ ~s.ic.active
  <2>1. u = SwitchIMInternal(Rebuilt, t, w, Skips(x), Repairs(x))
    BY <1>5, <1>6, UpdateCurrentIMIs
  <2>2. /\ t \in Instance /\ t.imes = x.imes /\ t.imList = x.imList
        /\ t.avail = x.avail /\ t.initialized = x.initialized
        /\ t.unused = x.unused /\ t.disk = x.disk /\ t.imLoaded = x.imLoaded
        /\ t.ic.here = x.ic.here /\ t.ic.active = x.ic.active
    BY <1>6, RepairedIs
  <2>3. w = 0 /\ ~Skips(x)
    BY <1>3, <1>8, <2>2 DEF Wanted, Target, Skips
  <2> HIDE DEF t, w, u
  <2>4. Good(t)
    BY <1>4, <2>2 DEF Good, Sound, Rebuildable
  <2>5. Loadable(t)
    BY <1>3, <2>2 DEF Loadable
  <2>6. Clamped(t, w, Skips(x)) = 0
    <3>1. Len(t.imes) \in Nat
      BY <2>2 DEF Instance
    <3>2. Skips(x) \in BOOLEAN /\ w \in Int
      BY <2>3 DEF Skips
    <3>3. Clamped(t, w, Skips(x)) = IF Len(t.imes) <= 1 THEN 0
                                    ELSE IF w >= Len(t.imes) THEN Len(t.imes) - 1
                                    ELSE IF w <= 0 THEN IF Skips(x) THEN 1 ELSE 0
                                    ELSE w
      BY <3>1, <3>2, ClampedIs
    <3> QED BY <2>3, <3>1, <3>3
  <2>7. t.imList = Among(t.imList, EntryOf(t.avail))
    BY <1>1, <1>3, <2>2, AmongAmong
  <2>8. t.imes # <<>> => /\ Listed(t.imList, t.avail) # <<>>
                         /\ Listed(t.imList, t.avail)[1] = t.imes[1]
    BY <1>1, <1>3, <2>2, ListedHead
  <2>9. w \in Int
    BY <2>3
  <2>10. u \in Instance /\ u.iIMIndex = 0
    BY <2>1, <2>4, <2>5, <2>6, <2>7, <2>8, <2>9, SwitchedToFirst
  <2>11. SaveProfile(u).iIMIndex = 0
    BY <2>10, SaveProfileIs
  <2> QED BY <1>2, <2>11 DEF Rests
<1> QED BY <1>7, <1>8

LEMMA LoadAllIMHeeds ==
    ASSUME NoCalls, Provided, Edits => Lazy = {}, NEW s, Held(s), Settled(s)
    PROVE  Heeds(LoadAllIM(s))
<1> DEFINE files == {n \in Name : Owner[n] \in installed \cap Lazy}
           self  == installed \ (Lazy \cup s.loaded)
           own   == UNION {Offered(a) : a \in self}
           t == [s EXCEPT !.avail = @ \cup files \cup own, !.initialized = @ \cup own,
                          !.loaded = @ \cup self, !.imLoaded = TRUE]
<1>1. LoadAllIM(s) = Rebuilt[t]
  BY DEF LoadAllIM
<1>2. files \in SUBSET Name /\ self \in SUBSET Addon /\ own \in SUBSET Name
  BY DEF Offered, Provided
<1>3. Stocked(s) /\ Good(s) /\ Sound(s) /\ s \in Instance /\ Rebuildable(s)
  BY HeldIsGood, GoodIsFit DEF Held, Steady, Good, Sound
<1>4. files \subseteq s.avail
  <2>1. \A n \in files : Owner[n] \in Lazy /\ n \in Offered(Owner[n])
    BY DEF Offered
  <2> HIDE DEF files
  <2> QED BY <1>3, <2>1 DEF Stocked
<1>5. \A n \in own : Owner[n] \in Removable
  BY DEF Offered, Settled, Provided
<1> HIDE DEF files, self, own
<1>6. /\ t \in Instance /\ t.initialized = s.initialized \cup own
      /\ t.avail = s.avail \cup own
      /\ t.imList = s.imList /\ t.disk = s.disk /\ t.imLoaded
  BY <1>2, <1>3, <1>4 DEF Instance
<1> HIDE DEF t
<1>7. Fit(t)
  BY <1>3, <1>6 DEF Fit, Rebuildable
<1>8. Loadable(t)
  BY <1>3, <1>6 DEF Loadable, Stocked, Provided
<1>9. Lazy # {} => Order[1] \in Names(t.imList) \cap t.avail /\ (NamesApart => Plain(t))
  <2> SUFFICES ASSUME Lazy # {}
               PROVE  Order[1] \in Names(t.imList) \cap t.avail /\ (NamesApart => Plain(t))
    OBVIOUS
  <2>1. t.imList = SavedList(s)
    BY <1>6 DEF Held, Kept
  <2>2. Names(SavedList(s)) = s.avail \cup Names(s.unused)
    BY <1>3, SavedListSound
  <2>3. Order[1] \in Names(t.imList) \cap t.avail
    BY <1>3, <1>6, <2>1, <2>2 DEF Stocked
  <2>4. NamesApart => \A n \in t.avail : n \in Names(t.imList) \/ PrefixOf[n] = {n}
    BY <1>2, <1>5, <1>6, <2>1, <2>2 DEF NamesApart
  <2> QED BY <1>6, <2>3, <2>4, PlainWhen
<1>10. installed \in SUBSET Addon
  BY DEF Provided
<1>11. ASSUME Lazy = {} \/ NamesApart PROVE Follow(Rebuilt[t])
  <2>1. Whole(t)
    BY <1>7, <1>8, <1>9, <1>11 DEF Whole
  <2> QED BY <1>10, <2>1, RebuiltFollows
<1>12. Rests(Rebuilt[t])
  <2>1. CASE Lazy = {}
    BY <1>11, <2>1, FollowHeeds DEF Heeds
  <2>2. CASE Lazy # {}
    BY <1>7, <1>8, <1>9, <1>10, <2>2, RebuiltRests
  <2> QED BY <2>1, <2>2
<1> QED BY <1>1, <1>11, <1>12 DEF Heeds

LEMMA ProfileLoadHeeds ==
    ASSUME NEW s \in Instance, Agreed(s), Heeds(s)
    PROVE  Heeds(ProfileLoad(s))
<1> DEFINE t == ProfileLoad(s)
<1>1. /\ t.imes = s.imes /\ t.iIMIndex = s.iIMIndex /\ t.ic = s.ic
      /\ t.globalIM = s.disk.imName
  BY DEF ProfileLoad, Instance
<1> HIDE DEF t
<1>2. Choice(t, t.globalIM) = Choice(s, s.globalIM)
  BY <1>1, ChoiceSame DEF Agreed
<1>3. Follow(s) => Follow(t)
  BY <1>1, <1>2, ChoiceSame DEF Follow, CurrentIM
<1>4. Heeds(t)
  BY <1>1, <1>3 DEF Heeds, Rests
<1> QED BY <1>4 DEF t

(* The switch to an index that is not the first, for a context: its own     *)
(* choice is forgotten, and the index and the shared name become what is    *)
(* switched to.                                                            *)
LEMMA SwitchedLocally ==
    ASSUME NoCalls, installed \in SUBSET Addon, NEW s, Exact(s), s.ic.here,
           Len(s.imes) > 1, NEW i \in Int
    PROVE  LET s1 == SetLocalIMName(s, NoName)
               t  == SwitchIMInternal(Rebuilt, s1, i, TRUE, TRUE)
           IN  /\ Exact(t) /\ t.imes = s.imes /\ t.ic.here /\ t.ic.active = s.ic.active
               /\ t.ic.imname = NoName /\ t.iIMIndex > 0 /\ CurrentIM(t) = t.globalIM
               /\ IMIndexByName(t, t.globalIM) = t.iIMIndex
               /\ i \in 1 .. (Len(s.imes) - 1) => t.iIMIndex = i
<1> DEFINE s1 == SetLocalIMName(s, NoName)
           yes == TRUE
           c == Clamped(s1, i, yes)
           n == IMByIndex(s1, c)
           t == SwitchIMInternal(Rebuilt, s1, i, yes, yes)
<1>1. /\ Exact(s1) /\ Tidy(s1)
      /\ s1.imes = s.imes /\ s1.ic.here /\ s1.ic.active = s.ic.active
      /\ s1.ic.imname = NoName
  BY SetLocalIMNameFollows
<1> HIDE DEF s1
<1>2. ExactBelow(s1) /\ s1 \in Instance /\ IsInjective(s1.imes)
  BY <1>1, AllExactBelow, GoodIsFit DEF Exact, Sound
<1>3. Len(s1.imes) \in Nat
  BY <1>2 DEF Instance
<1>4. c = IF Len(s1.imes) <= 1 THEN 0
          ELSE IF i >= Len(s1.imes) THEN Len(s1.imes) - 1
          ELSE IF i <= 0 THEN IF yes THEN 1 ELSE 0
          ELSE i
  BY <1>3, ClampedIs
<1>5. yes
  OBVIOUS
<1> HIDE DEF yes, c
<1>6. c \in 1 .. (Len(s1.imes) - 1) /\ (i \in 1 .. (Len(s1.imes) - 1) => c = i)
  BY <1>1, <1>3, <1>4, <1>5
<1>7. IMIndexByName(s1, n) = c /\ n # NoName
  BY <1>2, <1>6, IndexOf, NameAssumption
<1> HIDE DEF n
<1>8. /\ Exact(t) /\ t.imes = s1.imes /\ t.ic = s1.ic
      /\ t.globalIM = IF yes /\ n # NoName THEN n ELSE s1.globalIM
      /\ t.iIMIndex = c
  <2> DEFINE m == IMByIndex(s1, Clamped(s1, i, yes))
  <2>1. m = n /\ c = Clamped(s1, i, yes)
    BY DEF n, c
  <2>2. /\ Exact(t) /\ t.imes = s1.imes /\ t.ic = s1.ic
        /\ t.globalIM = IF yes /\ m # NoName THEN m ELSE s1.globalIM
        /\ t.iIMIndex = Clamped(s1, i, yes)
    BY <1>1, <1>2, SwitchIMInternalExact
  <2> HIDE DEF m, t
  <2> QED BY <2>1, <2>2
<1>9. t.globalIM = n
  BY <1>5, <1>7, <1>8
<1> HIDE DEF t
<1>10. IMIndexByName(t, n) = c /\ IMByIndex(t, c) = n
  BY <1>7, <1>8, ChoiceSame DEF n
<1>11. t.iIMIndex > 0
  BY <1>3, <1>6, <1>8
<1>12. /\ Exact(t) /\ t.imes = s.imes /\ t.ic.here /\ t.ic.active = s.ic.active
       /\ t.ic.imname = NoName /\ t.iIMIndex > 0 /\ CurrentIM(t) = t.globalIM
       /\ IMIndexByName(t, t.globalIM) = t.iIMIndex
       /\ i \in 1 .. (Len(s.imes) - 1) => t.iIMIndex = i
  BY <1>1, <1>6, <1>8, <1>9, <1>10, <1>11 DEF CurrentIM
<1> QED BY <1>12 DEF t, s1, yes

LEMMA SwitchFollows ==
    ASSUME NoCalls, installed \in SUBSET Addon, NEW s, Exact(s), NEW index \in Int
    PROVE  Follow(SwitchIMByIndex(s, index)) \/ SwitchIMByIndex(s, index) = s
<1> DEFINE i == Resolved(s, index)
           yes == TRUE
           no == FALSE
           s1 == SetLocalIMName(s, NoName)
           s2 == SwitchIMInternal(Rebuilt, s1, i, yes, yes)
           u == SwitchIMByIndex(s, index)
<1>1. s \in Instance
  BY GoodIsFit DEF Exact
<1>2. i \in Int /\ no \in BOOLEAN
  BY <1>1, ResolvedType
<1>3. s.ic.here => u = IF i = 0 THEN IF s.ic.active THEN SetState(s, no) ELSE s
                       ELSE Activated(s2)
  BY DEF SwitchIMByIndex
<1>4. CASE ~s.ic.here
  <2> HIDE DEF u
  <2>1. Further(s, u)
    BY <1>1, SwitchFurther DEF u
  <2>2. Follow(u)
    BY <1>4, <2>1 DEF Further, Follow
  <2> QED BY <2>2 DEF u
<1>5. CASE s.ic.here /\ i = 0
  <2> HIDE DEF no
  <2>1. Follow(SetState(s, no))
    BY <1>2, <1>5, SetStateFollows
  <2> QED BY <1>3, <1>5, <2>1
<1>6. CASE s.ic.here /\ i # 0 /\ Len(s.imes) > 1
  <2> HIDE DEF i
  <2>1. /\ Exact(s2) /\ s2.imes = s.imes /\ s2.ic.here /\ s2.ic.active = s.ic.active
        /\ s2.ic.imname = NoName /\ s2.iIMIndex > 0 /\ CurrentIM(s2) = s2.globalIM
        /\ IMIndexByName(s2, s2.globalIM) = s2.iIMIndex
    BY <1>2, <1>6, SwitchedLocally
  <2> HIDE DEF s2
  <2>2. CASE s.ic.active
    <3>1. Follow(s2)
      BY <2>1, <2>2 DEF Follow, Choice
    <3>2. Activated(s2) = s2
      BY <2>1, <2>2 DEF Activated
    <3> QED BY <1>3, <1>6, <3>1, <3>2
  <2>3. CASE ~s.ic.active
    <3>1. Activated(s2) = SetState(s2, yes) /\ yes \in BOOLEAN
      BY <2>1, <2>3 DEF Activated
    <3> HIDE DEF yes
    <3>2. Follow(SetState(s2, yes))
      BY <2>1, <3>1, SetStateFollows
    <3> QED BY <1>3, <1>6, <3>1, <3>2
  <2> QED BY <2>2, <2>3
<1>7. CASE s.ic.here /\ i # 0 /\ ~(Len(s.imes) > 1)
  <2>1. Exact(s1) /\ Tidy(s1) /\ s1.imes = s.imes
    BY <1>7, SetLocalIMNameFollows
  <2>2. ExactBelow(s1)
    BY AllExactBelow
  <2> HIDE DEF s1, i, yes
  <2>3. Exact(s2) /\ s2.imes = s1.imes
    BY <1>2, <2>1, <2>2, SwitchIMInternalExact
  <2> HIDE DEF s2
  <2>4. Follow(s2)
    BY <1>7, <2>1, <2>3 DEF Follow
  <2>5. Follow(Activated(s2)) \/ Activated(s2) = s2
    BY <2>3, ActivatedFollows
  <2> QED BY <1>3, <1>7, <2>4, <2>5
<1> QED BY <1>4, <1>5, <1>6, <1>7

FollowInv ==
    /\ HeldInv /\ SavedInv /\ SettledInv
    /\ instance.imLoaded => Heeds(instance)

LEMMA FollowInit ==
    ASSUME EnginesStay, Init PROVE FollowInv
<1>1. ~instance.imLoaded
  BY DEF Init, Fresh
<1>2. Addon \ Removable \subseteq installed
  BY DEF Init
<1> QED BY <1>1, <1>2, HeldInit, TypeInit DEF FollowInv, SavedInv, SettledInv

LEMMA FollowNext ==
    ASSUME EnginesStay, NoCalls, FollowInv, [Next]_vars PROVE FollowInv'
<1>0. /\ HeldInv' /\ SavedInv' /\ SettledInv'
      /\ installed \in SUBSET Addon /\ Provided /\ instance \in Instance
      /\ (Edits => Lazy = {})
  BY HeldNext, SavedNext, SettledNext
     DEF FollowInv, HeldInv, EnginesStay, TypeInv, Sound, Rebuildable
<1>a. SUFFICES Heeds(instance')
  BY <1>0 DEF FollowInv
<1>b. ASSUME instance.imLoaded
      PROVE  /\ Held(instance) /\ Exact(instance) /\ Heeds(instance) /\ Settled(instance)
             /\ Agreed(instance)
  BY <1>0, <1>b, HeldExact DEF FollowInv, HeldInv, SettledInv, SavedInv, Saved
<1>c. ~instance.imLoaded => ~instance.ic.here /\ ~reload
  BY DEF FollowInv, HeldInv, TypeInv
<1>1. CASE Start
  <2>1. instance.disk \in Profile /\ Unique(instance.disk.imList)
    BY <1>0 DEF FollowInv, HeldInv, TypeInv, Sound, Rebuildable, Instance
  <2>2. ~instance'.ic.here
    BY <1>0, <1>1, <2>1, StartedFurther DEF Start
  <2> QED BY <2>2, FollowHeeds DEF Follow
<1>2. CASE FocusOut
  <2>1. ~instance'.ic.here
    BY <1>0, <1>2 DEF FocusOut, Instance
  <2> QED BY <2>1, FollowHeeds DEF Follow
<1>3. CASE ClearLocal
  BY <1>0, <1>b, <1>c, <1>3, SetLocalIMNameFollows, FollowHeeds DEF ClearLocal
<1>4. CASE ChangeIMState
  <2> DEFINE active == ~instance.ic.active
  <2>1. active \in BOOLEAN
    OBVIOUS
  <2>2. instance.ic.here /\ instance' = SetState(instance, active)
    BY <1>4 DEF ChangeIMState
  <2> HIDE DEF active
  <2> QED BY <1>0, <1>b, <1>c, <2>1, <2>2, SetStateFollows, FollowHeeds
<1>5. CASE DropTable
  <2> DEFINE n == CurrentIM(instance)
             t == [instance EXCEPT !.avail = @ \ {n}, !.initialized = @ \ {n}]
  <2>1. instance' = Rebuilt[t] /\ instance.ic.here /\ Owner[n] \notin Lazy
    BY <1>5 DEF DropTable
  <2> HIDE DEF n
  <2>2. Follow(Rebuilt[t])
    BY <1>0, <1>b, <1>c, <2>1, DropFollows
  <2> QED BY <2>1, <2>2, FollowHeeds
<1>6. CASE ReloadConfig \/ ReloadProfile
  <2>1. instance' = ProfileLoad(instance) /\ instance.imLoaded
    BY <1>6 DEF ReloadConfig, ReloadProfile
  <2> QED BY <1>0, <1>b, <2>1, ProfileLoadHeeds
<1>7. CASE ReloadAddon
  BY <1>0, <1>b, <1>c, <1>7, LoadAllIMHeeds DEF ReloadAddon
<1>8. ASSUME NEW a \in Removable, Install(a) \/ Uninstall(a) PROVE Heeds(instance')
  BY <1>b, <1>8 DEF Install, Uninstall
<1>9. ASSUME NEW a \in Lazy, CallEngine(a) PROVE Heeds(instance')
  <2>1. instance.imLoaded
    BY <1>9, KnownIsLoaded DEF CallEngine, Good, FollowInv, HeldInv
  <2>2. instance' = FindFunction(Rebuilt, instance, a) /\ a \in Lazy \cap installed
    BY <1>9 DEF CallEngine
  <2> QED BY <1>0, <1>b, <2>1, <2>2, FindFunctionFollows, FollowHeeds
<1>10. ASSUME NEW list \in Lists, SetIMList(list) PROVE Heeds(instance')
  <2> DEFINE t == [instance EXCEPT !.imList = Among(list, EntryOf(instance.avail))]
  <2>1. instance' = Rebuilt[t] /\ instance.imLoaded
    BY <1>10 DEF SetIMList
  <2>2. Follow(Rebuilt[t])
    BY <1>0, <1>b, <2>1, SetIMListFollows
  <2> QED BY <2>1, <2>2, FollowHeeds
<1>11. ASSUME NEW list \in Lists, EditProfile(list) PROVE Heeds(instance')
  <2>1. /\ instance'.imes = instance.imes /\ instance'.iIMIndex = instance.iIMIndex
        /\ instance'.globalIM = instance.globalIM /\ instance'.ic = instance.ic
        /\ instance.imLoaded
    BY <1>0, <1>11 DEF EditProfile, Instance
  <2> QED BY <1>b, <2>1, HeedsSame
<1>12. ASSUME NEW index \in Int, Switch(index) PROVE Heeds(instance')
  BY <1>0, <1>b, <1>12, SwitchFollows, FollowHeeds DEF Switch
<1>13. ASSUME NEW n \in Name, SwitchIMByName(n) PROVE Heeds(instance')
  <2>1. IMIndexByName(instance, n) \in Int
    BY <1>0, IMIndexByNameType
  <2> QED BY <1>12, <1>13, <2>1 DEF SwitchIMByName
<1>14. ASSUME NEW n \in Name, ChooseLocally(n) PROVE Heeds(instance')
  <2> DEFINE s1 == SetLocalIMName(instance, n)
  <2>1. instance' = Activated(s1) /\ instance.ic.here
    BY <1>14 DEF ChooseLocally
  <2>2. Exact(s1) /\ Follow(s1)
    BY <1>0, <1>b, <1>c, <2>1, SetLocalIMNameFollows
  <2> HIDE DEF s1
  <2> QED BY <1>0, <2>1, <2>2, ActivatedFollows, FollowHeeds
<1>15. ASSUME NEW active \in BOOLEAN, NEW n \in Name \cup {NoName}, FocusIn(active, n)
       PROVE  Heeds(instance')
  <2> DEFINE ic == [here |-> TRUE, active |-> active, imname |-> n]
             u == UpdateCurrentIM(Rebuilt, [instance EXCEPT !.ic = ic], FALSE)
  <2>1. instance' = u /\ instance.imLoaded
    BY <1>15 DEF FocusIn
  <2>2. ic \in Context /\ ic.here
    BY DEF Context
  <2> HIDE DEF ic
  <2>3. Follow(u)
    BY <1>0, <1>b, <2>1, <2>2, FocusChangedFollows
  <2> QED BY <2>1, <2>3, FollowHeeds
<1>16. CASE UNCHANGED vars
  <2>1. instance' = instance
    BY <1>16 DEF vars
  <2>2. CASE instance.imLoaded
    BY <1>b, <2>1, <2>2
  <2>3. CASE ~instance.imLoaded
    BY <1>c, <2>1, <2>3, FollowHeeds DEF Follow
  <2> QED BY <2>2, <2>3
<1>17. -4..-1 \subseteq Int
  OBVIOUS
<1> QED BY <1>1, <1>2, <1>3, <1>4, <1>5, <1>6, <1>7, <1>8, <1>9, <1>10, <1>11, <1>12,
           <1>13, <1>14, <1>15, <1>16, <1>17 DEF Next

(* While a context has the focus, the current input method is the one its   *)
(* state asks for.                                                         *)
LEMMA FollowedIndex ==
    ASSUME NEW s, Good(s), GlobalNamed(s), Follow(s), s.ic.here, Len(s.imes) > 1
    PROVE  LET chosen == IF ~s.ic.active THEN s.imes[1]
                         ELSE IF s.ic.imname # NoName THEN s.ic.imname ELSE s.globalIM
           IN  \/ CurrentIM(s) = chosen
               \/ s.ic.active /\ chosen = s.imes[1] /\ s.iIMIndex = 1
<1>1. s \in Instance /\ IsInjective(s.imes) /\ Len(s.imes) \in Nat
  BY GoodIsFit DEF Good, Sound, Instance
<1>2. IMByIndex(s, 0) = s.imes[1] /\ 0 \in 0 .. (Len(s.imes) - 1)
  BY <1>1 DEF IMByIndex
<1>3. CASE ~s.ic.active
  BY <1>2, <1>3 DEF Follow, CurrentIM
<1>4. CASE s.ic.active /\ s.ic.imname # NoName
  BY <1>2, <1>4 DEF Follow
<1>5. CASE s.ic.active /\ s.ic.imname = NoName
  <2> DEFINE g == s.globalIM
             k == IMIndexByName(s, g)
  <2>1. CurrentIM(s) = Choice(s, g) /\ g \in Range(s.imes)
    BY <1>5 DEF Follow, GlobalNamed
  <2> HIDE DEF g
  <2>2. k \in 0 .. (Len(s.imes) - 1) /\ s.imes[k + 1] = g
    BY <1>1, <2>1, IMIndexByNameType
  <2> HIDE DEF k
  <2>3. CASE k > 0
    BY <1>5, <2>1, <2>3 DEF Choice, k, g
  <2>4. CASE k = 0
    <3>1. g = s.imes[1] /\ ~(k > 0)
      BY <2>2, <2>4
    <3>2. CurrentIM(s) = IMByIndex(s, 1) /\ 1 \in 0 .. (Len(s.imes) - 1)
      BY <1>1, <2>1, <3>1 DEF Choice, k
    <3>3. IMIndexByName(s, CurrentIM(s)) = 1 /\ IMByIndex(s, 1) # NoName
      BY <1>1, <3>2, IndexOf, NameAssumption
    <3>4. s.iIMIndex \in 0 .. (Len(s.imes) - 1)
      BY <3>2, <3>3 DEF CurrentIM, IMByIndex
    <3>5. s.iIMIndex = 1
      BY <1>1, <3>3, <3>4, IndexOf DEF CurrentIM
    <3> QED BY <1>5, <3>1, <3>5 DEF g
  <2> QED BY <2>2, <2>3, <2>4
<1> QED BY <1>3, <1>4, <1>5

(* The current input method is the one the focused context and the shared   *)
(* name ask for, whatever has been rebuilt since.                          *)
THEOREM IndexAlwaysFollows ==
    ASSUME EnginesStay, NoCalls, NamesApart PROVE Spec => []IndexFollowsFocus
<1>1. FollowInv => IndexFollowsFocus
  <2> SUFFICES ASSUME FollowInv, instance.ic.here, Len(instance.imes) > 1
               PROVE  IndexFollowsFocus
    BY DEF IndexFollowsFocus
  <2>1. Good(instance) /\ GlobalNamed(instance) /\ Follow(instance)
    BY DEF FollowInv, SavedInv, Saved, Agreed, TypeInv, Heeds
  <2> QED BY <2>1, FollowedIndex DEF IndexFollowsFocus
<1> QED BY <1>1, FollowInit, FollowNext, PTL DEF Spec

-----------------------------------------------------------------------------
LEMMA NamedSwitch ==
    ASSUME NoCalls, installed \in SUBSET Addon, NEW s, Exact(s), Rests(s), InRange(s),
           s.ic.here, NEW n \in Range(s.imes)
    PROVE  \A j, t : j = IMIndexByName(s, n) /\ t = SwitchIMByIndex(s, j) /\ InRange(t)
                         => CurrentIM(t) = n
<1> DEFINE i == IMIndexByName(s, n)
           yes == TRUE
           no == FALSE
           s1 == SetLocalIMName(s, NoName)
           s2 == SwitchIMInternal(Rebuilt, s1, i, yes, yes)
           u == SwitchIMByIndex(s, i)
<1>1. s \in Instance /\ Len(s.imes) \in Nat /\ s.iIMIndex \in Int
  BY GoodIsFit DEF Exact, Instance
<1>2. /\ i \in Int /\ i \in 0 .. (Len(s.imes) - 1) /\ s.imes[i + 1] = n
      /\ no \in BOOLEAN /\ yes \in BOOLEAN
  BY <1>1, IMIndexByNameType
<1>3. Resolved(s, i) = i
  <2> HIDE DEF i
  <2> QED BY <1>1, <1>2 DEF Resolved
<1>4. u = IF i = 0 THEN IF s.ic.active THEN SetState(s, no) ELSE s ELSE Activated(s2)
  BY <1>3 DEF SwitchIMByIndex
<1>5. ASSUME NEW t, t \in Instance, t.imes = s.imes, Rests(t), InRange(t), t.ic.here, ~t.ic.active, i = 0
      PROVE  CurrentIM(t) = n
  <2>1. t.iIMIndex = 0
    <3>1. CASE Len(t.imes) > 1
      BY <1>5, <3>1 DEF Rests
    <3>2. CASE ~(Len(t.imes) > 1)
      BY <1>1, <1>5, <3>2 DEF InRange
    <3> QED BY <3>1, <3>2
  <2> HIDE DEF i
  <2> QED BY <1>1, <1>2, <1>5, <2>1 DEF CurrentIM, IMByIndex
<1>6. CASE i = 0
  <2>1. CASE ~s.ic.active
    BY <1>1, <1>4, <1>5, <1>6, <2>1
  <2>2. CASE s.ic.active
    <3> DEFINE t == SetState(s, no)
    <3>0. ~no
      OBVIOUS
    <3> HIDE DEF no
    <3>1. Follow(t) /\ Exact(t) /\ t.imes = s.imes /\ t.ic.here /\ t.ic.active = no
      BY <1>2, SetStateFollows
    <3> HIDE DEF t
    <3>2. t \in Instance
      BY <3>1, GoodIsFit DEF Exact
    <3>3. u = t
      BY <1>4, <1>6, <2>2 DEF t
    <3>4. Rests(t)
      BY <3>1, FollowHeeds DEF Heeds
    <3> QED BY <1>5, <1>6, <3>0, <3>1, <3>2, <3>3, <3>4
  <2> QED BY <2>1, <2>2
<1>7. CASE i # 0
  <2> HIDE DEF i
  <2>1. i \in 1 .. (Len(s.imes) - 1) /\ Len(s.imes) > 1 /\ i > 0
    BY <1>1, <1>2, <1>7
  <2>2. /\ Exact(s2) /\ s2.imes = s.imes /\ s2.ic.here /\ s2.ic.active = s.ic.active
        /\ s2.ic.imname = NoName /\ s2.iIMIndex = i /\ CurrentIM(s2) = s2.globalIM
        /\ IMIndexByName(s2, s2.globalIM) = s2.iIMIndex
    BY <1>2, <2>1, SwitchedLocally
  <2> HIDE DEF s2
  <2>3. CurrentIM(s2) = n
    BY <1>1, <1>2, <2>2 DEF CurrentIM, IMByIndex
  <2>4. CASE s.ic.active
    <3>1. u = s2
      BY <1>4, <1>7, <2>2, <2>4 DEF Activated
    <3> QED BY <2>3, <3>1 DEF i
  <2>5. CASE ~s.ic.active
    <3> DEFINE t == SetState(s2, yes)
    <3>1. u = t
      BY <1>4, <1>7, <2>2, <2>5 DEF Activated
    <3>2. ~Repairs(s2)
      BY <2>1, <2>2 DEF Repairs, Global
    <3>3. yes
      OBVIOUS
    <3> HIDE DEF yes
    <3>4. /\ Follow(t) /\ t.imes = s2.imes /\ t.ic.here /\ t.ic.active = yes
          /\ s2.ic.imname = NoName => t.ic.imname = NoName
          /\ ~Repairs(s2) => t.globalIM = s2.globalIM
      BY <1>2, <2>2, SetStateFollows
    <3> HIDE DEF t
    <3>5. CurrentIM(t) = Choice(t, t.globalIM) /\ t.globalIM = n
      BY <2>1, <2>2, <2>3, <3>2, <3>3, <3>4 DEF Follow
    <3>6. IMIndexByName(t, n) > 0
      BY <2>1, <2>2, <2>3, <3>4, ChoiceSame
    <3>7. CurrentIM(t) = n
      BY <3>5, <3>6 DEF Choice
    <3> QED BY <3>1, <3>7 DEF i
  <2> QED BY <2>4, <2>5
<1>8. InRange(u) => CurrentIM(u) = n
  BY <1>6, <1>7
<1> HIDE DEF i, u
<1> SUFFICES ASSUME NEW j, NEW t, j = IMIndexByName(s, n), t = SwitchIMByIndex(s, j), InRange(t)
             PROVE  CurrentIM(t) = n
  OBVIOUS
<1>9. j = i
  BY DEF i
<1>10. t = u
  BY <1>9 DEF u
<1> QED BY <1>8, <1>10

(* A switch by name makes the input method it names the current one, for an *)
(* inactive context and for one with its own choice too.                   *)
THEOREM SwitchAlwaysTakesEffect ==
    ASSUME EnginesStay, NoCalls PROVE Spec => SwitchTakesEffect
<1>1. ASSUME FollowInv
      PROVE  \A n \in Name : SwitchIMByName(n) => CurrentIM(instance') = n
  <2> SUFFICES ASSUME NEW n \in Name, SwitchIMByName(n) PROVE CurrentIM(instance') = n
    OBVIOUS
  <2> DEFINE s == instance
             i == IMIndexByName(s, n)
             t == SwitchIMByIndex(s, i)
  <2>1. s.imLoaded /\ s.ic.here /\ n \in Range(s.imes) /\ instance' = t
    BY DEF SwitchIMByName, Switch
  <2>2. /\ Held(s) /\ Rests(s) /\ installed \in SUBSET Addon /\ Provided
        /\ (Edits => Lazy = {})
    BY <1>1, <2>1 DEF FollowInv, HeldInv, TypeInv, EnginesStay, Heeds
  <2> HIDE DEF s
  <2>3. Exact(s) /\ InRange(s) /\ s \in Instance
    BY <2>2, HeldExact, HeldIsGood DEF Held
  <2>4. i \in Int
    BY <2>3, IMIndexByNameType
  <2>5. s.ic.here /\ n \in Range(s.imes)
    BY <2>1
  <2>6. InRange(t) => CurrentIM(t) = n
    <3>1. i = IMIndexByName(s, n)
      OBVIOUS
    <3> HIDE DEF i
    <3>2. t = SwitchIMByIndex(s, i)
      OBVIOUS
    <3> HIDE DEF t
    <3> QED BY <2>2, <2>3, <2>5, <3>1, <3>2, NamedSwitch
  <2> HIDE DEF i
  <2>7. Held(t)
    BY <2>2, <2>4, SwitchIMByIndexHeld
  <2> HIDE DEF t
  <2> QED BY <2>1, <2>6, <2>7 DEF Held
<1> QED BY <1>1, FollowInit, FollowNext, PTL DEF Spec, SwitchTakesEffect

-----------------------------------------------------------------------------
(* What is not offered is remembered.                                      *)

(* Nothing is left to be loaded: a switch leaves the list as it is.         *)
Complete(s) == Good(s) /\ s.avail \subseteq s.initialized

Same(s, t) ==
    /\ t.imes = s.imes /\ t.unused = s.unused
    /\ t.avail = s.avail /\ t.initialized = s.initialized

Still(s, t) == Complete(t) /\ Same(s, t) /\ (Kept(s) => Kept(t))

LEMMA StillTwice ==
    ASSUME NEW s, NEW t, NEW u, Still(s, t), Still(t, u)
    PROVE  Still(s, u)
BY DEF Same, Still

LEMMA StillSame ==
    ASSUME NEW s, Complete(s)
    PROVE  Still(s, s)
BY DEF Same, Still

LEMMA SwitchIMInternalSame ==
    ASSUME Lazy = {}, installed \in SUBSET Addon, NEW s, Complete(s),
           NEW index \in Int, NEW skip, NEW global
    PROVE  LET t == SwitchIMInternal(Rebuilt, s, index, skip, global)
           IN  Still(s, t)
<1> DEFINE s0 == [s EXCEPT !.iIMIndex = Clamped(s, index, skip)]
           n == IMByIndex(s0, s0.iIMIndex)
           r == [s0 EXCEPT !.globalIM = n]
           t == SwitchIMInternal(Rebuilt, s, index, skip, global)
<1>1. s \in Instance /\ Good(s)
  BY GoodIsFit DEF Complete
<1>2. Good(t)
  BY <1>1, AllSoundBelow, SwitchIMInternalGood
<1>3. s0 \in Instance /\ Same(s, s0)
  BY <1>1, ClampedType DEF Instance, Same
<1> HIDE DEF s0
<1>4. LoadCurrent(Rebuilt, s0) = s0
  BY <1>3 DEF LoadCurrent, Complete, Same
<1>5. InitCurrent(Rebuilt, s0) = s0
  <2>1. CurrentIM(s0) \in Name \cup {NoName}
    BY <1>3, IMByIndexType DEF CurrentIM, Instance
  <2>2. CurrentIM(s0) # NoName => Calls[CurrentIM(s0)] \notin installed
    BY <2>1, NameAssumption
  <2> QED BY <2>2 DEF InitCurrent, InitIM
<1>6. t = IF global THEN UpdateGlobal(s0, n) ELSE s0
  BY <1>4, <1>5 DEF SwitchIMInternal, s0
<1>7. n \in Name \cup {NoName}
  BY <1>3, IMByIndexType DEF Instance
<1> HIDE DEF n, t
<1>8. r \in Instance /\ Same(s0, r)
  BY <1>3, <1>7 DEF Instance, Same
<1>9. UpdateGlobal(s0, n) = IF n \notin {NoName, s0.globalIM} THEN SaveProfile(r) ELSE s0
  BY DEF UpdateGlobal
<1> HIDE DEF r
<1>10. Same(r, SaveProfile(r))
  BY <1>8, SaveProfileIs DEF Same
<1>11. Same(s, t)
  BY <1>3, <1>6, <1>8, <1>9, <1>10 DEF Same
<1>12. Complete(t)
  BY <1>2, <1>11 DEF Complete, Same
<1>13. Kept(s) => Kept(t)
  BY <1>1, SwitchIMInternalKept DEF t
<1> QED BY <1>11, <1>12, <1>13 DEF t, Still

LEMMA UpdateCurrentIMSame ==
    ASSUME Lazy = {}, installed \in SUBSET Addon, NEW s, Complete(s), NEW force
    PROVE  LET t == UpdateCurrentIM(Rebuilt, s, force)
           IN  Still(s, t)
<1> DEFINE r == Repaired(s)
           w == Wanted(s)
           k == Skips(s)
           b == Repairs(s)
           x == SwitchIMInternal(Rebuilt, r, w, k, b)
           t == UpdateCurrentIM(Rebuilt, s, force)
<1>1. s \in Instance /\ Good(s) /\ w \in Int
  BY GoodIsFit, WantedType DEF Complete
<1>2. Good(t)
  BY <1>1, AllSoundBelow, UpdateCurrentIMGood
<1>3. t = IF ~s.ic.here /\ ~force THEN s
          ELSE IF force \/ b \/ w # s.iIMIndex THEN x ELSE r
  BY <1>1, UpdateCurrentIMIs
<1>4. Same(s, r) /\ Complete(r)
  <2>1. /\ r \in Instance /\ Same(s, r)
        /\ r.imList = s.imList /\ r.disk = s.disk /\ r.imLoaded = s.imLoaded
    BY <1>1, RepairedIs DEF Same
  <2> HIDE DEF r
  <2>2. Good(r)
    BY <1>1, <2>1 DEF Same, Good, Sound, Rebuildable
  <2> QED BY <2>1, <2>2 DEF Same, Complete
<1> HIDE DEF r, w, k, b, t
<1>5. Same(r, x)
  BY <1>1, <1>4, SwitchIMInternalSame DEF Still
<1> HIDE DEF x
<1>6. Same(s, t)
  BY <1>3, <1>4, <1>5 DEF Same
<1>7. Complete(t)
  BY <1>2, <1>6 DEF Complete, Same
<1>8. Kept(s) => Kept(t)
  BY <1>1, UpdateCurrentIMKept DEF t
<1> QED BY <1>6, <1>7, <1>8 DEF t, Still

LEMMA FocusChangedSame ==
    ASSUME Lazy = {}, installed \in SUBSET Addon, NEW s, Complete(s), NEW ic \in Context
    PROVE  LET t == UpdateCurrentIM(Rebuilt, [s EXCEPT !.ic = ic], FALSE)
           IN  Still(s, t)
<1> DEFINE x == [s EXCEPT !.ic = ic]
           no == FALSE
           t == UpdateCurrentIM(Rebuilt, x, no)
<1>1. s \in Instance /\ Good(x)
  BY FocusChanged, GoodIsFit DEF Complete
<1>2. Same(s, x) /\ x.imList = s.imList /\ x.disk = s.disk
  BY <1>1 DEF Instance, Same
<1> HIDE DEF x, no
<1>3. Still(s, x)
  BY <1>1, <1>2, KeptSame DEF Complete, Same, Still
<1>4. Still(x, t)
  BY <1>3, UpdateCurrentIMSame DEF Still
<1> HIDE DEF t
<1>5. Still(s, t)
  BY <1>3, <1>4, StillTwice
<1> QED BY <1>5 DEF t, x, no

LEMMA SetLocalIMNameSame ==
    ASSUME Lazy = {}, installed \in SUBSET Addon, NEW s, Complete(s), NEW n \in Name \cup {NoName}
    PROVE  Still(s, SetLocalIMName(s, n))
<1> DEFINE ic == [s.ic EXCEPT !.imname = n]
<1>1. s \in Instance
  BY GoodIsFit DEF Complete
<1>2. ic \in Context
  BY <1>1 DEF Instance, Context
<1>3. SetLocalIMName(s, n) = UpdateCurrentIM(Rebuilt, [s EXCEPT !.ic = ic], FALSE)
  BY DEF SetLocalIMName
<1> HIDE DEF ic
<1> QED BY <1>2, <1>3, FocusChangedSame

LEMMA SetStateSame ==
    ASSUME Lazy = {}, installed \in SUBSET Addon, NEW s, Complete(s), NEW active \in BOOLEAN
    PROVE  Still(s, SetState(s, active))
<1> DEFINE ic == [s.ic EXCEPT !.active = active]
<1>1. s \in Instance
  BY GoodIsFit DEF Complete
<1>2. ic \in Context
  BY <1>1 DEF Instance, Context
<1>3. SetState(s, active) = UpdateCurrentIM(Rebuilt, [s EXCEPT !.ic = ic], FALSE)
  BY DEF SetState
<1> HIDE DEF ic
<1> QED BY <1>2, <1>3, FocusChangedSame

LEMMA ActivatedSame ==
    ASSUME Lazy = {}, installed \in SUBSET Addon, NEW s, Complete(s)
    PROVE  Still(s, Activated(s))
<1> DEFINE yes == TRUE
<1>1. yes \in BOOLEAN
  OBVIOUS
<1>2. Activated(s) = IF s.ic.here /\ ~s.ic.active THEN SetState(s, yes) ELSE s
  BY DEF Activated
<1> HIDE DEF yes
<1>3. Still(s, SetState(s, yes))
  BY <1>1, SetStateSame
<1> QED BY <1>2, <1>3, StillSame

LEMMA SwitchIMByIndexSame ==
    ASSUME Lazy = {}, installed \in SUBSET Addon, NEW s, Complete(s), NEW index \in Int
    PROVE  Still(s, SwitchIMByIndex(s, index))
<1> DEFINE i  == Resolved(s, index)
           yes == TRUE
           no == FALSE
           s1 == IF s.ic.here THEN SetLocalIMName(s, NoName) ELSE s
           s2 == SwitchIMInternal(Rebuilt, s1, i, yes, yes)
           off == SetState(s, no)
<1>1. i \in Int /\ no \in BOOLEAN
  BY ResolvedType, GoodIsFit DEF Complete
<1>2. SwitchIMByIndex(s, index) =
        IF i = 0 THEN IF s.ic.here /\ s.ic.active THEN off ELSE s ELSE Activated(s2)
  BY DEF SwitchIMByIndex
<1>3. Still(s, s1)
  BY SetLocalIMNameSame, StillSame
<1> HIDE DEF i, s1, yes, no
<1>4. Still(s1, s2)
  BY <1>1, <1>3, SwitchIMInternalSame DEF Still
<1>5. Still(s, off)
  BY <1>1, SetStateSame
<1> HIDE DEF s2, off
<1>6. Still(s2, Activated(s2))
  BY <1>4, ActivatedSame DEF Still
<1> HIDE DEF Activated
<1>7. Still(s, Activated(s2))
  BY <1>3, <1>4, <1>6, StillTwice
<1> QED BY <1>2, <1>5, <1>7, StillSame

LEMMA SameSaved ==
    ASSUME NEW s, NEW t, Same(s, t)
    PROVE  SavedList(t) = SavedList(s)
BY DEF Same, SavedList

(* What a list says of the input methods that are not offered is kept.     *)
Remembers(list, t) ==
    \A e \in Range(list) : e.name \in t.avail \/ e \in Range(t.disk.imList)

LEMMA StillRemembers ==
    ASSUME NEW s, NEW t, Still(s, t), Kept(s)
    PROVE  Remembers(s.disk.imList, t)
BY SameSaved DEF Still, Kept, Remembers

LEMMA RebuiltRemembers ==
    ASSUME Lazy = {}, installed \in SUBSET Addon, NEW s, Fit(s), s.avail \subseteq s.initialized
    PROVE  Remembers(s.imList, Rebuilt[s]) /\ Complete(Rebuilt[s])
<1> DEFINE x == Split(s)
           yes == TRUE
           u == UpdateCurrentIM(Rebuilt, x, yes)
           t == SaveProfile(u)
           list == s.imList
<1>1. s \in Instance /\ list \in Seq(Entry)
  BY DEF Fit, Rebuildable, Instance
<1>2. Rebuilt[s] = t
  BY <1>1, RebuiltDefined, UpdateIMListIs DEF Fit
<1>3. Sound(x) /\ x.imLoaded /\ x.avail = s.avail /\ x.initialized = s.initialized
  BY <1>1, SplitSound, SplitIs DEF Fit
<1>4. Range(x.unused) = Range(list) \cap EntryOf(Name \ s.avail)
  <2>1. x.unused = Among(s.imList, EntryOf(Name \ s.avail))
    <3>1. s \in Instance
      BY <1>1
    <3> QED BY <3>1 DEF Split, Instance
  <2> HIDE DEF x
  <2> QED BY <1>1, <2>1, EntriesAmong
<1> HIDE DEF x, yes, list
<1>5. Complete(x)
  BY <1>3 DEF Complete, Good
<1>6. Complete(u) /\ Same(x, u)
  BY <1>5, UpdateCurrentIMSame DEF Still
<1> HIDE DEF u
<1>7. u \in Instance /\ Sound(u)
  BY <1>6, GoodIsFit DEF Complete
<1>8. t.avail = s.avail /\ t.disk.imList = SavedList(u) /\ Same(u, t) /\ u.unused = x.unused
  BY <1>3, <1>6, <1>7, SaveProfileIs DEF Same
<1>9. Complete(t)
  <2>1. Good(t)
    BY <1>6, <1>7, SaveProfileSound DEF Complete, Good
  <2> QED BY <1>6, <1>8, <2>1 DEF Complete, Same
<1>10. Range(u.unused) \subseteq Range(SavedList(u))
  <2> DEFINE o == OnPart(u)
             f == OffPart(u)
             a == o \o f
             b == u.unused
  <2>0. SavedList(u) = a \o b /\ o \in Seq(Entry) /\ f \in Seq(Entry) /\ b \in Seq(Entry)
    BY <1>7, SavedListParts
  <2> HIDE DEF o, f, b
  <2>1. a \in Seq(Entry) /\ b \in Seq(Entry) /\ SavedList(u) = a \o b
    BY <2>0
  <2> HIDE DEF a
  <2>2. Range(a \o b) = Range(a) \cup Range(b)
    BY <2>1, ConcatInjective
  <2> QED BY <2>1, <2>2 DEF b
<1> HIDE DEF t
<1>11. Remembers(list, t)
  <2> SUFFICES ASSUME NEW e \in Range(list), e.name \notin t.avail
               PROVE  e \in Range(t.disk.imList)
    BY DEF Remembers
  <2>1. e \in Entry
    BY <1>1 DEF Range
  <2>2. e \in EntryOf(Name \ s.avail)
    BY <1>8, <2>1 DEF Entry, EntryOf
  <2> QED BY <1>4, <1>8, <1>10, <2>2
<1> QED BY <1>2, <1>9, <1>11 DEF list

LEMMA LoadAllIMRemembers ==
    ASSUME Lazy = {}, installed \in SUBSET Addon, NEW s, Rebuildable(s),
           s.avail \subseteq s.initialized
    PROVE  /\ Remembers(s.imList, LoadAllIM(s)) /\ Complete(LoadAllIM(s))
           /\ Kept(LoadAllIM(s))
<1> DEFINE files == {n \in Name : Owner[n] \in installed \cap Lazy}
           self  == installed \ (Lazy \cup s.loaded)
           own   == UNION {Offered(a) : a \in self}
           t == [s EXCEPT !.avail = @ \cup files \cup own, !.initialized = @ \cup own,
                          !.loaded = @ \cup self, !.imLoaded = TRUE]
<1>1. LoadAllIM(s) = Rebuilt[t]
  BY DEF LoadAllIM
<1>2. files = {} /\ self \in SUBSET Addon /\ own \in SUBSET Name
  BY DEF Offered
<1> HIDE DEF files, self, own
<1>3. /\ t \in Instance /\ t.initialized \subseteq t.avail /\ t.avail \subseteq t.initialized
      /\ t.imList = s.imList /\ t.disk = s.disk /\ t.imLoaded
  BY <1>2 DEF Rebuildable, Instance
<1> HIDE DEF t
<1>4. Fit(t)
  BY <1>3 DEF Fit, Rebuildable
<1> QED BY <1>1, <1>3, <1>4, RebuiltRemembers, RebuiltKept

LEMMA StartedRemembers ==
    ASSUME Lazy = {}, installed \in SUBSET Addon, NEW disk \in Profile, Unique(disk.imList)
    PROVE  Remembers(disk.imList, Started(disk))
<1> DEFINE f == Fresh(disk)
           l == LoadAllIM(f)
           at == IMIndexByName(l, l.disk.imName)
           i == IF at < 0 THEN 0 ELSE at
           x == [l EXCEPT !.iIMIndex = i]
           u == SwitchIMByIndex(x, i)
<1>1. Started(disk) = u
  BY DEF Started
<1>2. Rebuildable(f)
  BY FreshSound DEF Sound
<1>3. f.imList = disk.imList /\ f.avail = {}
  BY DEF Fresh
<1> HIDE DEF f
<1>4. Remembers(disk.imList, l) /\ Complete(l) /\ Kept(l)
  BY <1>2, <1>3, LoadAllIMRemembers
<1> HIDE DEF l
<1>5. l \in Instance /\ Good(l)
  BY <1>4, GoodIsFit DEF Complete
<1>6. i \in Int
  BY <1>5, IMIndexByNameType
<1> HIDE DEF i
<1>7. Same(l, x) /\ x.imList = l.imList /\ x.disk = l.disk /\ Good(x)
  BY <1>5, <1>6, IndexGood DEF Instance, Same
<1> HIDE DEF x
<1>8. Complete(x) /\ Kept(x)
  BY <1>4, <1>7, KeptSame DEF Complete, Same
<1>9. Still(x, u)
  BY <1>6, <1>8, SwitchIMByIndexSame
<1>10. Same(x, u) /\ Kept(u)
  BY <1>8, <1>9 DEF Still
<1> HIDE DEF u
<1>11. u.disk.imList = l.disk.imList /\ u.avail = l.avail
  BY <1>4, <1>7, <1>10, SameSaved DEF Same, Kept
<1> QED BY <1>1, <1>4, <1>11 DEF Remembers

(* What is said of an input method that is not offered is still said after  *)
(* each step but the setting of another list, when no engine is loaded at   *)
(* its first use.                                                          *)
THEOREM UnavailableStaysRemembered ==
    ASSUME Lazy = {} PROVE Spec => UnavailableRemembered
<1>0. EnginesStay
  BY DEF EnginesStay
<1>1. ASSUME HeldInv, [Next]_vars, ~(UNCHANGED vars),
             instance.disk.imList = SavedList(instance),
             instance.imList = instance.disk.imList
      PROVE  \/ \E list \in Lists : SetIMList(list) \/ EditProfile(list)
             \/ Remembers(instance.disk.imList, instance')
  <2> DEFINE s == instance
             list == s.disk.imList
  <2>1. /\ installed \in SUBSET Addon /\ s \in Instance /\ Rebuildable(s)
        /\ list \in Seq(Entry) /\ Unique(list) /\ s.disk \in Profile
        /\ s.imList = list /\ Kept(s)
    BY <1>1 DEF HeldInv, TypeInv, Sound, Rebuildable, Instance, Profile, Kept
  <2>2. s.imLoaded => Complete(s)
    BY <1>1 DEF HeldInv, Held, Steady, Stocked, Complete
  <2>3. s.avail \subseteq s.initialized /\ (s.ic.here => s.imLoaded)
    BY <1>1, <2>2 DEF HeldInv, TypeInv, Complete
  <2>4. ASSUME NEW t, Still(s, t), instance' = t PROVE Remembers(list, instance')
    BY <2>1, <2>4, StillRemembers
  <2>5. ASSUME instance'.disk.imList = list PROVE Remembers(list, instance')
    BY <2>5 DEF Remembers
  <2>6. ASSUME Start PROVE Remembers(list, instance')
    BY <2>1, <2>6, StartedRemembers DEF Start
  <2>7. ASSUME FocusOut PROVE Remembers(list, instance')
    BY <2>1, <2>5, <2>7 DEF FocusOut, Instance
  <2>8. ASSUME ClearLocal PROVE Remembers(list, instance')
    BY <2>1, <2>2, <2>3, <2>4, <2>8, SetLocalIMNameSame DEF ClearLocal
  <2>9. ASSUME ChangeIMState PROVE Remembers(list, instance')
    <3> DEFINE active == ~s.ic.active
    <3>1. active \in BOOLEAN /\ s.ic.here /\ instance' = SetState(s, active)
      BY <2>9 DEF ChangeIMState
    <3> HIDE DEF active, s
    <3> QED BY <2>1, <2>2, <2>3, <2>4, <3>1, SetStateSame
  <2>10. ASSUME DropTable PROVE Remembers(list, instance')
    <3> DEFINE n == CurrentIM(s)
               t == [s EXCEPT !.avail = @ \ {n}, !.initialized = @ \ {n}]
    <3>1. instance' = Rebuilt[t] /\ s.ic.here
      BY <2>10 DEF DropTable
    <3>2. Fit(t)
      BY <2>2, <2>3, <3>1, DropFit DEF Complete
    <3>3. t.imList = list /\ t.avail \subseteq t.initialized
      BY <2>1, <2>3 DEF Instance
    <3> HIDE DEF t, list
    <3>4. Remembers(list, Rebuilt[t])
      BY <2>1, <3>2, <3>3, RebuiltRemembers
    <3> QED BY <3>1, <3>4
  <2>11. ASSUME ReloadConfig \/ ReloadProfile PROVE Remembers(list, instance')
    BY <2>1, <2>5, <2>11 DEF ReloadConfig, ReloadProfile, ProfileLoad, Instance
  <2>12. ASSUME ReloadAddon PROVE Remembers(list, instance')
    BY <2>1, <2>3, <2>12, LoadAllIMRemembers DEF ReloadAddon
  <2>13. ASSUME NEW a \in Removable, Install(a) \/ Uninstall(a) PROVE Remembers(list, instance')
    BY <2>5, <2>13 DEF Install, Uninstall
  <2>14. ASSUME NEW index \in Int, Switch(index) PROVE Remembers(list, instance')
    BY <2>1, <2>2, <2>4, <2>14, SwitchIMByIndexSame DEF Switch
  <2>15. ASSUME NEW n \in Name, SwitchIMByName(n) PROVE Remembers(list, instance')
    <3>1. IMIndexByName(instance, n) \in Int
      BY <2>1, IMIndexByNameType
    <3> QED BY <2>14, <2>15, <3>1 DEF SwitchIMByName
  <2>16. ASSUME NEW n \in Name, ChooseLocally(n) PROVE Remembers(list, instance')
    <3> DEFINE t == SetLocalIMName(s, n)
    <3>1. instance' = Activated(t) /\ s.ic.here
      BY <2>16 DEF ChooseLocally
    <3>2. Still(s, t)
      BY <2>1, <2>2, <2>3, <3>1, SetLocalIMNameSame
    <3> HIDE DEF t, s
    <3>3. Still(t, Activated(t))
      BY <2>1, <3>2, ActivatedSame DEF Still
    <3> HIDE DEF Activated
    <3>4. Still(s, Activated(t))
      BY <3>2, <3>3, StillTwice
    <3> QED BY <2>4, <3>1, <3>4
  <2>17. ASSUME NEW active \in BOOLEAN, NEW n \in Name \cup {NoName}, FocusIn(active, n)
         PROVE  Remembers(list, instance')
    <3> DEFINE ic == [here |-> TRUE, active |-> active, imname |-> n]
               t == UpdateCurrentIM(Rebuilt, [s EXCEPT !.ic = ic], FALSE)
    <3>1. instance' = t /\ s.imLoaded
      BY <2>17 DEF FocusIn
    <3>2. ic \in Context
      BY DEF Context
    <3> HIDE DEF ic, s
    <3>3. Still(s, t)
      BY <2>1, <2>2, <3>1, <3>2, FocusChangedSame
    <3> QED BY <2>4, <3>1, <3>3
  <2>18. -4..-1 \subseteq Int
    OBVIOUS
  <2> QED BY <1>1, <2>6, <2>7, <2>8, <2>9, <2>10, <2>11, <2>12, <2>13, <2>14, <2>15,
             <2>16, <2>17, <2>18 DEF Next
<1>2. ASSUME HeldInv, [Next]_vars
      PROVE  [instance.disk.imList = SavedList(instance)
              /\ instance.imList = instance.disk.imList =>
                \/ \E list \in Lists : SetIMList(list) \/ EditProfile(list)
                \/ \A e \in Range(instance.disk.imList) :
                      e.name \in instance'.avail \/ e \in Range(instance'.disk.imList)]_vars
  BY <1>1, <1>2 DEF Remembers
<1> QED BY <1>0, <1>2, HeldInit, HeldNext, PTL DEF Spec, UnavailableRemembered

=============================================================================
