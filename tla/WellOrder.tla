----------------------------- MODULE WellOrder -----------------------------
(* Least elements of sets of naturals, from the well-foundedness of strict *)
(* inclusion on finite sets: the induction the other proof modules use.    *)
EXTENDS Naturals, FiniteSets, FiniteSetTheorems, TLAPS

(* Every non-empty set of naturals has a least element. *)
LEMMA LeastNat ==
  ASSUME NEW T \in SUBSET Nat, T # {}
  PROVE \E x \in T : \A y \in T : x <= y
<1> DEFINE Up == {1..n : n \in T}
<1>1. IsWellFoundedOn(StrictSubsetOrdering(Nat), FiniteSubsetsOf(Nat))
  BY FS_StrictSubsetOrderingWellFounded
<1>2. \A n \in Nat : IsFiniteSet(1..n)
  BY FS_Interval
<1>3. Up \subseteq FiniteSubsetsOf(Nat) /\ Up # {}
  <2>1. \A n \in T : 1..n \in FiniteSubsetsOf(Nat)
    BY <1>2 DEF FiniteSubsetsOf
  <2> QED BY <2>1
<1>4. PICK X \in Up : \A Y \in Up : ~ (<<Y, X>> \in StrictSubsetOrdering(Nat))
  BY <1>1, <1>3, WFMin
<1>5. PICK x \in T : X = 1..x
  OBVIOUS
<1>6. ASSUME NEW y \in T, y < x PROVE FALSE
  <2>1. 1..y \in Up OBVIOUS
  <2>2. 1..y \subseteq 1..x /\ 1..y # 1..x
    BY <1>6
  <2>3. <<1..y, 1..x>> \in StrictSubsetOrdering(Nat)
    BY <2>2 DEF StrictSubsetOrdering
  <2> QED BY <1>4, <1>5, <2>1, <2>3
<1> QED BY <1>6

(* Every non-empty set of numbers up to n has a greatest element. *)
LEMMA GreatestBelow ==
  ASSUME NEW n \in Nat, NEW S \in SUBSET (1 .. n), S # {}
  PROVE  \E x \in S : \A y \in S : y <= x
<1> DEFINE T == {n - x : x \in S}
<1>1. \A x \in S : x \in 1 .. n
  OBVIOUS
<1>2. \A x \in S : n - x \in Nat
  BY <1>1
<1>3. T \in SUBSET Nat /\ T # {}
  BY <1>2
<1>4. PICK m \in T : \A y \in T : m <= y
  BY <1>3, LeastNat
<1>5. PICK x \in S : m = n - x
  OBVIOUS
<1>6. \A y \in S : n - x <= n - y
  BY <1>4, <1>5
<1>7. \A y \in S : y <= x
  BY <1>1, <1>6
<1> QED
  BY <1>7

(* The code's scan of a log stops somewhere: of 0 .. n there is a first    *)
(* place whose successor is not in C.                                      *)
LEMMA PrefixEnds ==
  ASSUME NEW n \in Nat, NEW C
  PROVE  \E k \in 0 .. n : /\ \A i \in 1 .. k : i \in C
                           /\ k < n => (k + 1) \notin C
<1> DEFINE Out == {m \in Nat : m > 0 /\ (m > n \/ m \notin C)}
<1>1. n + 1 \in Out /\ Out \in SUBSET Nat
  OBVIOUS
<1>2. PICK m \in Out : \A y \in Out : m <= y
  BY <1>1, LeastNat
<1>3. m - 1 \in 0 .. n
  BY <1>1, <1>2
<1>4. \A i \in 1 .. (m - 1) : i \in C
  BY <1>2
<1>5. m - 1 < n => ((m - 1) + 1) \notin C
  BY <1>2
<1> QED
  BY <1>3, <1>4, <1>5
=============================================================================
