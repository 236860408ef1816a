------------------------------ MODULE Maxima --------------------------------
(***************************************************************************)
(* Bounded sets of naturals have a largest element.                        *)
(***************************************************************************)
EXTENDS Naturals, WellFoundedInduction, TLAPS

(***************************************************************************)
(* A nonempty set of naturals has a least element.                         *)
(***************************************************************************)
LEMMA Least ==
    ASSUME NEW T, T \subseteq Nat, T # {}
    PROVE  \E x \in T : \A y \in T : x <= y
<1>. DEFINE Rel == OpToRel(<, Nat)
<1>1. IsWellFoundedOn(Rel, Nat)
  BY NatLessThanWellFounded, Zenon, ZenonT(40)
<1>2. \A x, y \in Nat : <<y, x>> \notin Rel => x <= y
  BY DEF OpToRel
<1>. HIDE DEF Rel
<1>3. PICK x \in T : \A y \in T : <<y, x>> \notin Rel
  BY <1>1, WFMin, Zenon, ZenonT(40)
<1>4. \A y \in T : x <= y
  BY <1>2, <1>3, Zenon, ZenonT(40)
<1>. QED BY <1>4, Zenon, ZenonT(40)

(***************************************************************************)
(* A nonempty set of naturals with an upper bound has a largest element.   *)
(***************************************************************************)
LEMMA Largest ==
    ASSUME NEW N \in Nat, NEW T, T \subseteq 0 .. N, T # {}
    PROVE  \E x \in T : \A y \in T : y <= x
<1>. DEFINE Gaps == {N - x : x \in T}
<1>1. Gaps \subseteq Nat /\ Gaps # {}
  <2>1. ASSUME NEW x \in T
        PROVE  N - x \in Nat
    <3>1. x \in 0 .. N
      BY ZenonT(40)
    <3>. QED BY <3>1
  <2>2. \E x : x \in Gaps
    BY ZenonT(40)
  <2>. QED BY <2>1, <2>2, ZenonT(40)
<1>2. PICK g \in Gaps : \A h \in Gaps : g <= h
  <2>. HIDE DEF Gaps
  <2>. QED BY <1>1, Least, Zenon, ZenonT(40)
<1>3. PICK x \in T : \A y \in T : N - x <= N - y
  BY <1>2, ZenonT(40)
<1>4. ASSUME NEW y \in T
      PROVE  y <= x
  <2>1. N - x <= N - y
    BY <1>3, ZenonT(40)
  <2>2. x \in 0 .. N /\ y \in 0 .. N
    BY ZenonT(40)
  <2>. QED BY <2>1, <2>2
<1>. QED BY <1>4, ZenonT(40)
=============================================================================
