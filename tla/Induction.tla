------------------------------ MODULE Induction ------------------------------
(***************************************************************************)
(* Two facts about natural numbers the proofs of this project rest on,     *)
(* stated with sets so that they can be cited: a set of naturals has a     *)
(* least element, and a set that holds 0 and the successor of each of its  *)
(* members holds every natural.  Both come from the well-foundedness of <. *)
(***************************************************************************)
EXTENDS Integers, TLAPS, WellFoundedInduction

Before == OpToRel(<, Nat)

\* There is no infinite descent in Nat.
LEMMA BeforeWellFounded == IsWellFoundedOn(Before, Nat)
BY NatLessThanWellFounded, Zenon DEF Before

LEMMA BeforeMeans ==
  \A a, b \in Nat : <<a, b>> \in Before <=> a < b
BY DEF Before, OpToRel

\* A set of naturals that is not empty has a least element.
LEMMA Least ==
  ASSUME NEW S \in SUBSET Nat, S # {}
  PROVE  \E m \in S : \A k \in S : m <= k
<1>1. PICK m \in S : \A k \in S : <<k, m>> \notin Before
  BY BeforeWellFounded, WFMin
<1>2. \A k \in S : ~(k < m)
  BY <1>1, BeforeMeans
<1> QED
  BY <1>2

\* Induction over Nat.
LEMMA NatInduct ==
  ASSUME NEW S, 0 \in S, \A n \in Nat : n \in S => n + 1 \in S
  PROVE  Nat \subseteq S
<1>1. SUFFICES ASSUME Nat \ S # {}
               PROVE  FALSE
  OBVIOUS
<1>2. PICK m \in Nat \ S : \A k \in Nat \ S : m <= k
  BY <1>1, Least
<1>3. m # 0 /\ m - 1 \in Nat /\ (m - 1) + 1 = m
  BY <1>2
<1>4. m - 1 \in S
  BY <1>2, <1>3
<1> QED
  BY <1>2, <1>3, <1>4

\* A loop that replaces d by F[d] again and again: its first n turns.
Turns(F, d, n, w) ==
  w = [k \in 0 .. n |-> IF k = 0 THEN d ELSE F[w[k - 1]]]

\* Such a recursion defines a function.
LEMMA TurnsExist ==
  ASSUME NEW F, NEW d, NEW n \in Nat
  PROVE  \E w : Turns(F, d, n, w)
<1> DEFINE N == {m \in Nat : \E w : Turns(F, d, m, w)}
<1>1. 0 \in N
  <2> DEFINE w == [k \in 0 .. 0 |-> d]
  <2>1. \A k \in 0 .. 0 : k = 0
    OBVIOUS
  <2>2. Turns(F, d, 0, w)
    BY <2>1 DEF Turns
  <2> QED
    BY <2>2
<1>2. ASSUME NEW m \in Nat, m \in N
      PROVE  m + 1 \in N
  <2>1. PICK w : Turns(F, d, m, w)
    BY <1>2
  <2> DEFINE v == [k \in 0 .. m + 1 |->
                     IF k \in 0 .. m THEN w[k] ELSE F[w[m]]]
  <2>2. /\ \A k \in 0 .. m : v[k] = w[k]
        /\ v[m + 1] = F[w[m]]
        /\ v = [k \in 0 .. m + 1 |-> v[k]]
    OBVIOUS
  <2>3. \A k \in 0 .. m : w[k] = IF k = 0 THEN d ELSE F[w[k - 1]]
    BY <2>1 DEF Turns
  <2> HIDE DEF v
  <2>4. ASSUME NEW k \in 0 .. m + 1
        PROVE  v[k] = IF k = 0 THEN d ELSE F[v[k - 1]]
    <3>1. CASE k = 0
      <4>1. 0 \in 0 .. m
        OBVIOUS
      <4> QED
        BY <2>2, <2>3, <3>1, <4>1
    <3>2. CASE k # 0 /\ k \in 0 .. m
      <4>1. k - 1 \in 0 .. m
        BY <3>2
      <4> QED
        BY <2>2, <2>3, <3>2, <4>1
    <3>3. CASE k = m + 1
      <4>1. k # 0 /\ k - 1 = m /\ m \in 0 .. m
        BY <3>3
      <4> QED
        BY <2>2, <3>3, <4>1
    <3> QED
      BY <3>1, <3>2, <3>3
  <2>5. [k \in 0 .. m + 1 |-> v[k]]
          = [k \in 0 .. m + 1 |-> IF k = 0 THEN d ELSE F[v[k - 1]]]
    BY <2>4
  <2>6. Turns(F, d, m + 1, v)
    BY <2>2, <2>5 DEF Turns
  <2> QED
    BY <2>6
<1>3. n \in N
  <2> HIDE DEF N
  <2> QED
    BY <1>1, <1>2, NatInduct
<1> QED
  BY <1>3

LEMMA TurnsMean ==
  ASSUME NEW F, NEW d, NEW n \in Nat, NEW w, Turns(F, d, n, w)
  PROVE  /\ w[0] = d
         /\ \A k \in 0 .. n : k # 0 => w[k] = F[w[k - 1]]
BY DEF Turns
=============================================================================
