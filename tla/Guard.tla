------------------------------- MODULE Guard -------------------------------
(***************************************************************************)
(* The self-preservation counters of a registry (registry/guard.go).       *)
(*                                                                         *)
(* expPerMin is the number of heartbeats the registry expects per minute,  *)
(* two per registered instance; facInMin counts the heartbeats of the      *)
(* current minute and facLastMin those of the last closed one.  When fewer *)
(* heartbeats than 85% of the expected ones arrived, eviction is           *)
(* protective.                                                             *)
(*                                                                         *)
(* The operations are action operators: GuardSpec runs them alone, and     *)
(* Registry uses them in the steps of its handlers.  updateFac is two      *)
(* atomic instructions and hence two steps; every other operation is one   *)
(* critical section of Guard.lock or one atomic instruction.               *)
(***************************************************************************)
EXTENDS Integers

VARIABLES expPerMin, expThreshold, facInMin, facLastMin

guardVars == <<expPerMin, expThreshold, facInMin, facLastMin>>

(***************************************************************************)
(* int64(float64(n) * _percentThreshold).  The double nearest to 0.85 is   *)
(* off by less than half a unit in the last place of any product, so that  *)
(* the conversion is the floor of 17n/20 (guard_test.go: 20 gives 17).     *)
(***************************************************************************)
Threshold(n) == (n * 17) \div 20

SetExp(cnt) ==
  /\ expPerMin' = cnt * 2
  /\ expThreshold' = Threshold(cnt * 2)
  /\ UNCHANGED <<facInMin, facLastMin>>

IncrExp ==
  /\ expPerMin' = expPerMin + 2
  /\ expThreshold' = Threshold(expPerMin + 2)
  /\ UNCHANGED <<facInMin, facLastMin>>

DecrExpKeepingThreshold ==
  /\ expPerMin' = IF expPerMin > 0 THEN expPerMin - 2 ELSE expPerMin
  /\ UNCHANGED <<expThreshold, facInMin, facLastMin>>
DecrExpUnguarded ==
  /\ expPerMin' = expPerMin - 2
  /\ expThreshold' = Threshold(expPerMin - 2)
  /\ UNCHANGED <<facInMin, facLastMin>>
DecrExp ==
  \/ /\ expPerMin > 0
     /\ expPerMin' = expPerMin - 2
     /\ expThreshold' = Threshold(expPerMin - 2)
     /\ UNCHANGED <<facInMin, facLastMin>>
  \/ expPerMin <= 0 /\ UNCHANGED guardVars

IncrFac ==
  /\ facInMin' = facInMin + 1
  /\ UNCHANGED <<expPerMin, expThreshold, facLastMin>>

\* atomic.SwapInt64(&g.facInMin, 0): the caller holds the old value.
SwapFac ==
  /\ facInMin' = 0
  /\ UNCHANGED <<expPerMin, expThreshold, facLastMin>>

\* atomic.StoreInt64(&g.facLastMin, v)
StoreFac(v) ==
  /\ facLastMin' = v
  /\ UNCHANGED <<expPerMin, expThreshold, facInMin>>

\* Guard.ok as if it protected also at the threshold itself.
ProtectsAtThreshold == facLastMin <= expThreshold
Protects == facLastMin < expThreshold        \* Guard.ok

GuardInit ==
  /\ expPerMin = 0
  /\ expThreshold = 0
  /\ facInMin = 0
  /\ facLastMin = 0

=============================================================================
