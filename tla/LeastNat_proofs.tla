--------------------------- MODULE LeastNat_proofs ---------------------------
(***************************************************************************)
(* The facts behind the first-fit scans and the loops of the kernel.       *)
(***************************************************************************)
EXTENDS Naturals, FiniteSetTheorems, TLAPS

(* A nonempty set of naturals has a least element.  (Intervals 0..s are    *)
(* finite and strict inclusion of finite sets is well founded.)            *)
LEMMA LeastExists ==
  ASSUME NEW S \in SUBSET Nat, S # {}
  PROVE  \E m \in S : \A t \in S : m <= t
<1> DEFINE R == StrictSubsetOrdering(Nat)
           I == {0 .. s : s \in S}
<1>1. IsWellFoundedOn(R, FiniteSubsetsOf(Nat))
  BY FS_StrictSubsetOrderingWellFounded
<1>2. I \subseteq FiniteSubsetsOf(Nat)
  <2> SUFFICES ASSUME NEW s \in S PROVE 0 .. s \in FiniteSubsetsOf(Nat)
    OBVIOUS
  <2>1. IsFiniteSet(0 .. s)
    BY FS_Interval
  <2> QED BY <2>1 DEF FiniteSubsetsOf
<1>3. PICK x \in I : \A y \in I : <<y, x>> \notin R
  <2> HIDE DEF R, I
  <2>1. I # {}
    BY DEF I
  <2> QED BY <1>1, <1>2, <2>1, WFMin
<1>4. PICK m \in S : x = 0 .. m
  OBVIOUS
<1>5. ASSUME NEW t \in S, t < m PROVE FALSE
  <2>1. /\ 0 .. t \subseteq 0 .. m /\ 0 .. t # 0 .. m
        /\ 0 .. t \subseteq Nat /\ 0 .. m \subseteq Nat
    BY <1>5
  <2>2. <<0 .. t, x>> \in R
    BY <2>1, <1>4 DEF StrictSubsetOrdering
  <2> QED BY <2>2, <1>3
<1> QED BY <1>5

(* Induction over the steps of a loop that is run n times.                 *)
LEMMA LoopInduction ==
  ASSUME NEW n \in Nat, NEW B, 0 \in B, \A i \in 1 .. n : i - 1 \in B => i \in B
  PROVE  \A i \in 0 .. n : i \in B
<1> DEFINE bad == {i \in 0 .. n : i \notin B}
<1>1. ASSUME bad # {} PROVE FALSE
  <2>1. bad \in SUBSET Nat
    OBVIOUS
  <2>2. PICK m \in bad : \A t \in bad : m <= t
    <3> HIDE DEF bad
    <3> QED BY <1>1, <2>1, LeastExists
  <2>3. m # 0 /\ m \in 1 .. n /\ m - 1 \in 0 .. n /\ m - 1 < m
    BY <2>2
  <2>4. m - 1 \in B
    BY <2>2, <2>3
  <2> QED BY <2>2, <2>3, <2>4
<1> QED BY <1>1
=============================================================================
