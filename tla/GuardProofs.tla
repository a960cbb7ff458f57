---------------------------- MODULE GuardProofs ----------------------------
(***************************************************************************)
(* Theorems about GuardSpec, for every number of instances and heartbeats. *)
(***************************************************************************)
EXTENDS GuardSpec, TLAPS

IInv == TypeOK /\ ExpectationConsistent /\ HeartbeatsConserved

\* The 85% threshold of a count is a count, and rounds down (guard.go:22).
LEMMA ThresholdOfNat ==
  ASSUME NEW n \in Nat
  PROVE  Threshold(n) \in Nat /\ 20 * Threshold(n) <= 17 * n
BY DEF Threshold

\* A new Guard satisfies the inductive invariant (registery.go:79).
LEMMA InitIInv == Init => IInv
BY DEF Init, GuardInit, IInv, TypeOK, ExpectationConsistent, HeartbeatsConserved, Threshold, Nothing

\* Each operation of the guard preserves it, one case per operation.
LEMMA NextIInv == IInv /\ [Next]_vars => IInv'
<1> SUFFICES ASSUME IInv, [Next]_vars PROVE IInv'
  OBVIOUS
<1> USE DEF IInv, TypeOK, ExpectationConsistent, HeartbeatsConserved, Nothing
<1>1. CASE Register
  <2>1. expPerMin + 2 \in Nat /\ (expPerMin + 2) % 2 = 0
    OBVIOUS
  <2> QED  BY <1>1, <2>1, ThresholdOfNat DEF Register, IncrExp
<1>2. CASE Cancel
  <2>1. expPerMin > 0 => expPerMin - 2 \in Nat /\ (expPerMin - 2) % 2 = 0
    OBVIOUS
  <2> QED  BY SMTT(30), <1>2, <2>1, ThresholdOfNat DEF Cancel, DecrExp, guardVars
<1>3. CASE Recount
  <2>1. PICK cnt \in 0..MaxCount : SetExp(cnt)
    BY <1>3 DEF Recount
  <2>2. cnt * 2 \in Nat /\ (cnt * 2) % 2 = 0
    BY MaxCountAssumption
  <2> QED  BY <1>3, <2>1, <2>2, ThresholdOfNat DEF Recount, SetExp
<1>4. CASE Heartbeat
  BY <1>4 DEF Heartbeat, IncrFac
<1>5. CASE BeginMinute
  BY <1>5 DEF BeginMinute, SwapFac
<1>6. CASE EndMinute
  BY <1>6 DEF EndMinute, StoreFac
<1>7. CASE UNCHANGED vars
  BY <1>7 DEF vars, guardVars
<1> QED
  BY <1>1, <1>2, <1>3, <1>4, <1>5, <1>6, <1>7 DEF Next

\* So it holds of every reachable state of the guard.
LEMMA Invariance == Spec => []IInv
BY InitIInv, NextIInv, PTL DEF Spec

(***************************************************************************)
(* No operation takes the four fields below zero or past their bounds, in  *)
(* whatever order registrations, cancellations, recounts, heartbeats and   *)
(* the minutes interleave: decrExp checks before it subtracts.             *)
(***************************************************************************)
THEOREM TypeCorrect == Spec => []TypeOK
<1>1. IInv => TypeOK
  BY DEF IInv
<1> QED  BY <1>1, Invariance, PTL

(***************************************************************************)
(* The threshold is always that of the expectation, which stays a whole    *)
(* number of instances, in every order of registrations, cancellations and *)
(* recounts.                                                               *)
(***************************************************************************)
THEOREM ExpectationCorrect == Spec => []ExpectationConsistent
<1>1. IInv => ExpectationConsistent
  BY DEF IInv
<1> QED  BY <1>1, Invariance, PTL

(***************************************************************************)
(* No heartbeat is lost or counted twice while a minute is being closed.   *)
(***************************************************************************)
THEOREM HeartbeatsCorrect == Spec => []HeartbeatsConserved
<1>1. IInv => HeartbeatsConserved
  BY DEF IInv
<1> QED  BY <1>1, Invariance, PTL

(***************************************************************************)
(* Rounding never protects: ok is true only on a real shortage.            *)
(***************************************************************************)
THEOREM ProtectionCorrect == Spec => []ProtectsOnlyOnShortage
<1>1. IInv => ProtectsOnlyOnShortage
  <2> SUFFICES ASSUME IInv, Protects PROVE 20 * facLastMin < 17 * expPerMin
    BY DEF ProtectsOnlyOnShortage
  <2>1. expPerMin \in Nat /\ facLastMin \in Nat /\ expThreshold = Threshold(expPerMin)
    BY DEF IInv, TypeOK, ExpectationConsistent
  <2>2. facLastMin < Threshold(expPerMin)
    BY <2>1 DEF Protects
  <2> QED  BY <2>1, <2>2, ThresholdOfNat
<1> QED  BY <1>1, Invariance, PTL

=============================================================================
