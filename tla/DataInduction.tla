---------------------------- MODULE DataInduction ----------------------------
(***************************************************************************)
(* Induction over numbers as a statement about a set, which a proof can    *)
(* cite for any property it can collect in a set: what holds at the start  *)
(* and is handed on by every step holds throughout.  Proofs about          *)
(* recursive functions (Replay, Closed) rest on it.                        *)
(***************************************************************************)
EXTENDS Integers, FiniteSetTheorems, WellFoundedInduction, TLAPS

\* A set that has 0 and the successor of each number in it has every number: the
\* least number outside it would be neither 0 nor a successor.
THEOREM Induction ==
  ASSUME NEW S, 0 \in S, \A n \in Nat : n \in S => n + 1 \in S
  PROVE  Nat \subseteq S
<1> DEFINE T == Nat \ S
           U == {1 .. n : n \in T}
           R == StrictSubsetOrdering(Nat)
<1>1. IsWellFoundedOn(R, FiniteSubsetsOf(Nat))
  BY FS_StrictSubsetOrderingWellFounded
<1>2. U \subseteq FiniteSubsetsOf(Nat)
  <2>1. \A n \in Nat : 1 .. n \in FiniteSubsetsOf(Nat)
    BY FS_Interval DEF FiniteSubsetsOf
  <2> QED
    BY <2>1
<1>3. \A n, m \in Nat : n < m => <<1 .. n, 1 .. m>> \in R
  <2> SUFFICES ASSUME NEW n \in Nat, NEW m \in Nat, n < m PROVE <<1 .. n, 1 .. m>> \in R
    OBVIOUS
  <2>1. 1 .. n \in SUBSET Nat /\ 1 .. m \in SUBSET Nat /\ m \in 1 .. m /\ m \notin 1 .. n
    OBVIOUS
  <2>2. 1 .. n \subseteq 1 .. m
    OBVIOUS
  <2> QED
    BY <2>1, <2>2 DEF StrictSubsetOrdering
<1>4. SUFFICES ASSUME T # {} PROVE FALSE
  OBVIOUS
<1>5. U # {}
  BY <1>4
<1> HIDE DEF R, U
<1>6. PICK x \in U : \A y \in U : ~ (<<y, x>> \in R)
  BY <1>1, <1>2, <1>5, WFMin
<1>7. PICK n \in T : x = 1 .. n
  BY DEF U
<1>8. n \in Nat /\ n # 0
  OBVIOUS
<1>9. n - 1 \in Nat /\ n - 1 < n /\ (n - 1) + 1 = n
  BY <1>8
<1>10. n - 1 \notin T
  BY <1>3, <1>6, <1>7, <1>8, <1>9 DEF U
<1> QED
  BY <1>8, <1>9, <1>10

\* The same up to a bound.
THEOREM BoundedInduction ==
  ASSUME NEW S, NEW b \in Nat, 0 \in S, \A n \in 0 .. b - 1 : n \in S => n + 1 \in S
  PROVE  0 .. b \subseteq S
<1> DEFINE A == {n \in Nat : n <= b => n \in S}
<1>1. 0 \in A
  OBVIOUS
<1>2. \A n \in Nat : n \in A => n + 1 \in A
  <2> SUFFICES ASSUME NEW n \in Nat, n \in A, n + 1 <= b PROVE n + 1 \in S
    OBVIOUS
  <2>1. n \in 0 .. b - 1 /\ n \in S
    OBVIOUS
  <2> QED
    BY <2>1
<1> HIDE DEF A
<1>3. Nat \subseteq A
  BY <1>1, <1>2, Induction
<1> QED
  BY <1>3 DEF A
=============================================================================
