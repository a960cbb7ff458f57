----------------------------- MODULE GuardSpec -----------------------------
(***************************************************************************)
(* The guard alone.  Request goroutines call incrExp, decrExp and incrFac  *)
(* in any order, while the proc goroutine of registery.go closes a minute  *)
(* (updateFac) or recounts (setExp).                                       *)
(*                                                                         *)
(* inHand is what proc swapped out and has not stored yet, or Nothing.     *)
(* received and closed are history variables: the heartbeats counted by    *)
(* incrFac and those a completed updateFac has moved into a closed minute. *)
(***************************************************************************)
EXTENDS Guard

CONSTANT MaxCount   \* bound on the instances counted and heartbeats received

ASSUME MaxCountAssumption == MaxCount \in Nat

VARIABLES inHand, received, closed

vars == <<guardVars, inHand, received, closed>>

Nothing == -1

Init ==
  /\ GuardInit
  /\ inHand = Nothing
  /\ received = 0
  /\ closed = 0

Register == expPerMin < 2 * MaxCount /\ IncrExp /\ UNCHANGED <<inHand, received, closed>>

Cancel == DecrExp /\ UNCHANGED <<inHand, received, closed>>

Recount ==
  /\ inHand = Nothing
  /\ \E cnt \in 0..MaxCount : SetExp(cnt)
  /\ UNCHANGED <<inHand, received, closed>>

Heartbeat ==
  /\ received < MaxCount
  /\ IncrFac
  /\ received' = received + 1
  /\ UNCHANGED <<inHand, closed>>

\* updateFac as a plain read followed by a reset, as if it were not a swap.
BeginMinuteByReading ==
  /\ inHand = Nothing
  /\ inHand' = facInMin
  /\ UNCHANGED <<guardVars, received, closed>>
BeginMinute ==
  /\ inHand = Nothing
  /\ inHand' = facInMin
  /\ SwapFac
  /\ UNCHANGED <<received, closed>>

EndMinute ==
  /\ inHand # Nothing
  /\ StoreFac(inHand)
  /\ closed' = closed + inHand
  /\ inHand' = Nothing
  /\ UNCHANGED received

Next ==
  \/ Register
  \/ Cancel
  \/ Recount
  \/ Heartbeat
  \/ BeginMinute
  \/ EndMinute

Spec == Init /\ [][Next]_vars

-----------------------------------------------------------------------------
TypeOK ==
  /\ expPerMin \in Nat
  /\ expThreshold \in Nat
  /\ facInMin \in Nat
  /\ facLastMin \in Nat
  /\ inHand \in Nat \cup {Nothing}
  /\ received \in Nat
  /\ closed \in Nat

(***************************************************************************)
(* The two expectation fields are written together: the threshold that ok  *)
(* reads without the lock is always the one of the expectation, which is a *)
(* whole number of instances and never negative, whatever the order of     *)
(* registrations, cancellations and recounts (guard.go:19-40).             *)
(***************************************************************************)
ExpectationConsistent ==
  /\ expThreshold = Threshold(expPerMin)
  /\ expPerMin >= 0
  /\ expPerMin % 2 = 0

(***************************************************************************)
(* No heartbeat is lost or counted twice while a minute is closed: each    *)
(* one is in the running minute, in the hands of updateFac, or in a closed *)
(* minute, also when a renewal runs between its two atomic instructions    *)
(* (guard.go:42-48).                                                       *)
(***************************************************************************)
HeartbeatsConserved ==
  received = closed + facInMin + (IF inHand = Nothing THEN 0 ELSE inHand)

(***************************************************************************)
(* Protection is never a rounding artefact: when ok protects, strictly     *)
(* less than 85% of the expected heartbeats arrived in the closed minute   *)
(* (guard.go:50-52).                                                       *)
(***************************************************************************)
ProtectsOnlyOnShortage == Protects => 20 * facLastMin < 17 * expPerMin

=============================================================================
