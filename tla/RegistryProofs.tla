--------------------------- MODULE RegistryProofs ---------------------------
(***************************************************************************)
(* Theorems about Registry, for every set of handlers, zones and hosts and *)
(* every number of requests: first the types and the accounting of the     *)
(* guard, then that it finds what its answers promise and implements       *)
(* Directory.                                                              *)
(***************************************************************************)
EXTENDS Registry, FiniteSetTheorems, TLAPS

\* The steps at which a handler holds an Apps object, and an App object.
HoldingApps == Steps \ {"idle", "apps", "newApps"}
HoldingApp == HoldingApps \ {"newApp"}

PointersOK ==
  /\ at \in [Handlers -> Pointers]
  /\ \A r \in Handlers :
       /\ pc[r] \in HoldingApps => at[r].apps # None
       /\ pc[r] \in HoldingApp => at[r].app # None

(***************************************************************************)
(* The inductive invariant.  A handler past its lookup holds objects that  *)
(* exist, so that TypeOK is kept; GuardAccount counts exactly what decrExp *)
(* may take away, so that expPerMin stays a natural number.                *)
(***************************************************************************)
IInv ==
  /\ TypeOK
  /\ PointersOK
  /\ IsFiniteSet(DOMAIN inst)
  /\ GuardAccount

-----------------------------------------------------------------------------
(* How the pending sets and the instances are counted.                     *)

\* The size of a set a handler enters or leaves, before and after.
Moves(enters, leaves, before, after) ==
  /\ enters /\ ~leaves => after = before + 1
  /\ ~enters /\ leaves => after = before - 1
  /\ (enters <=> leaves) => after = before

PendingMove(r, s) ==
  /\ Cardinality(IncrPending) \in Nat
  /\ Cardinality(DecrPending) \in Nat
  /\ Moves(s = "incrExp", pc[r] = "incrExp", Cardinality(IncrPending),
           Cardinality(IncrPending'))
  /\ Moves(s \in CancelSteps, pc[r] \in CancelSteps, Cardinality(DecrPending),
           Cardinality(DecrPending'))

\* How the numbers of pending counts change when handler r goes to step s.
LEMMA PendingCounts ==
  ASSUME NEW r \in Handlers, NEW s,
         pc \in [Handlers -> Steps], pc' = [pc EXCEPT ![r] = s]
  PROVE  PendingMove(r, s)
<1>1. IsFiniteSet(IncrPending) /\ IsFiniteSet(DecrPending)
  BY FS_Subset, RegistryAssumption DEF IncrPending, DecrPending
<1>2. /\ Cardinality(IncrPending) \in Nat
      /\ Cardinality(DecrPending) \in Nat
  BY <1>1, FS_CardinalityType
<1>3. IncrPending' = IF s = "incrExp" THEN IncrPending \cup {r} ELSE IncrPending \ {r}
  BY DEF IncrPending
<1>4. DecrPending' = IF s \in CancelSteps THEN DecrPending \cup {r} ELSE DecrPending \ {r}
  BY DEF DecrPending
<1>5. r \in IncrPending <=> pc[r] = "incrExp"
  BY DEF IncrPending
<1>6. r \in DecrPending <=> pc[r] \in CancelSteps
  BY DEF DecrPending
<1>7. /\ Cardinality(IncrPending \cup {r}) =
           IF r \in IncrPending THEN Cardinality(IncrPending) ELSE Cardinality(IncrPending) + 1
      /\ Cardinality(IncrPending \ {r}) =
           IF r \in IncrPending THEN Cardinality(IncrPending) - 1 ELSE Cardinality(IncrPending)
  BY <1>1, FS_AddElement, FS_RemoveElement
<1>8. /\ Cardinality(DecrPending \cup {r}) =
           IF r \in DecrPending THEN Cardinality(DecrPending) ELSE Cardinality(DecrPending) + 1
      /\ Cardinality(DecrPending \ {r}) =
           IF r \in DecrPending THEN Cardinality(DecrPending) - 1 ELSE Cardinality(DecrPending)
  BY <1>1, FS_AddElement, FS_RemoveElement
<1>9. Moves(s = "incrExp", pc[r] = "incrExp", Cardinality(IncrPending),
            Cardinality(IncrPending'))
  BY <1>2, <1>3, <1>5, <1>7 DEF Moves
<1>10. Moves(s \in CancelSteps, pc[r] \in CancelSteps, Cardinality(DecrPending),
             Cardinality(DecrPending'))
  BY <1>2, <1>4, <1>6, <1>8 DEF Moves
<1> QED  BY <1>2, <1>9, <1>10 DEF PendingMove

\* Storing under a key adds at most that key to the instances held.
LEMMA PutCounts ==
  ASSUME NEW f, NEW k, NEW v, IsFiniteSet(DOMAIN f)
  PROVE  /\ IsFiniteSet(DOMAIN Put(f, k, v))
         /\ Cardinality(DOMAIN Put(f, k, v)) =
              Cardinality(DOMAIN f) + (IF k \in DOMAIN f THEN 0 ELSE 1)
<1>1. DOMAIN Put(f, k, v) = DOMAIN f \cup {k}
  BY DEF Put
<1>2. Cardinality(DOMAIN f) \in Nat
  BY FS_CardinalityType
<1> QED  BY <1>1, <1>2, FS_AddElement

\* Deleting an instance that is there leaves one less.
LEMMA DropCounts ==
  ASSUME NEW f, NEW k, IsFiniteSet(DOMAIN f), k \in DOMAIN f
  PROVE  /\ IsFiniteSet(DOMAIN Drop(f, k))
         /\ Cardinality(DOMAIN Drop(f, k)) = Cardinality(DOMAIN f) - 1
<1>1. DOMAIN Drop(f, k) = DOMAIN f \ {k}
  BY DEF Drop
<1> QED  BY <1>1, FS_RemoveElement

-----------------------------------------------------------------------------
(* The account of the guard.                                               *)

Counted ==
  /\ IsFiniteSet(DOMAIN inst)
  /\ expPerMin \in Nat
  /\ skipped \in Nat
  /\ GuardAccount

\* A step that counts nothing, stores nothing and removes nothing.
LEMMA UncountedStep ==
  ASSUME Counted, NEW r \in Handlers, NEW s,
         pc \in [Handlers -> Steps], pc' = [pc EXCEPT ![r] = s],
         s = "incrExp" <=> pc[r] = "incrExp",
         s \in CancelSteps <=> pc[r] \in CancelSteps,
         DOMAIN inst' = DOMAIN inst, UNCHANGED <<expPerMin, skipped>>
  PROVE  Counted'
<1>0. PendingMove(r, s)
  BY PendingCounts
<1>1. /\ Cardinality(IncrPending') = Cardinality(IncrPending)
      /\ Cardinality(DecrPending') = Cardinality(DecrPending)
  BY <1>0 DEF PendingMove, Moves
<1> QED  BY <1>1 DEF Counted, GuardAccount

\* Each critical section keeps the account of the guard: incrExp, decrExp,
\* App.NewInstance and App.Cancel move it, the others leave it alone.
LEMMA CountedStep ==
  ASSUME Counted, pc \in [Handlers -> Steps],
         arg \in [Handlers -> Requests \cup {NoArg}],
         NEW r \in Handlers, pc[r] = "apps" => arg[r] # NoArg,
         Step(r)
  PROVE  Counted'
<1> DEFINE n == Cardinality(DOMAIN inst)
<1>0. n \in Nat
  BY FS_CardinalityType DEF Counted
<1> USE DEF Goto, Answer, AnswerKnowing, store
<1>1. CASE Request(r)
  <2>1. PICK s \in {"newApps", "apps"} : pc' = [pc EXCEPT ![r] = s]
    BY <1>1 DEF Request, Arrive
  <2>2. pc[r] = "idle" /\ UNCHANGED <<inst, expPerMin, skipped>>
    BY <1>1 DEF Request, Arrive, guardVars
  <2> QED  BY <2>1, <2>2, UncountedStep DEF CancelSteps
<1>2. CASE NewApps(r)
  <2>1. pc[r] = "newApps" /\ pc' = [pc EXCEPT ![r] = "newApp"]
    BY <1>2 DEF NewApps
  <2>2. UNCHANGED <<inst, expPerMin, skipped>>
    BY <1>2 DEF NewApps, guardVars
  <2> QED  BY <2>1, <2>2, UncountedStep DEF CancelSteps
<1>3. CASE NewApp(r)
  <2>1. pc[r] = "newApp" /\ pc' = [pc EXCEPT ![r] = "newInstance"]
    BY <1>3 DEF NewApp
  <2>2. UNCHANGED <<inst, expPerMin, skipped>>
    BY <1>3 DEF NewApp, guardVars
  <2> QED  BY <2>1, <2>2, UncountedStep DEF CancelSteps
<1>4. CASE NewInstance(r)
  <2>1. PICK lts : inst' = Put(inst, Place(r), lts)
    BY <1>4 DEF NewInstance
  <2>2. pc[r] = "newInstance" /\ UNCHANGED <<expPerMin, skipped>>
    BY <1>4 DEF NewInstance, guardVars
  <2>3. /\ IsFiniteSet(DOMAIN inst')
        /\ Cardinality(DOMAIN inst') = n + (IF Place(r) \in DOMAIN inst THEN 0 ELSE 1)
    BY <2>1, PutCounts DEF Counted
  <2>4. pc' = [pc EXCEPT ![r] = IF Place(r) \in DOMAIN inst THEN "idle" ELSE "incrExp"]
    BY <1>4 DEF NewInstance
  <2>5. PendingMove(r, IF Place(r) \in DOMAIN inst THEN "idle" ELSE "incrExp")
    BY <2>4, PendingCounts
  <2> QED
    BY <1>0, <2>2, <2>3, <2>5 DEF Counted, GuardAccount, PendingMove, Moves, CancelSteps
<1>5. CASE CountRegister(r)
  <2>1. pc[r] = "incrExp" /\ pc' = [pc EXCEPT ![r] = "idle"]
    BY <1>5 DEF CountRegister
  <2>2. expPerMin' = expPerMin + 2 /\ UNCHANGED <<inst, skipped>>
    BY <1>5 DEF CountRegister, IncrExp
  <2>3. PendingMove(r, "idle")
    BY <2>1, PendingCounts
  <2> QED
    BY <1>0, <2>1, <2>2, <2>3 DEF Counted, GuardAccount, PendingMove, Moves, CancelSteps
<1>6. CASE Lookup(r)
  <2>1. PICK s \in Ops \cup {"idle"} : pc' = [pc EXCEPT ![r] = s]
    BY <1>6 DEF Lookup, Requests, NoArg
  <2>2. pc[r] = "apps" /\ UNCHANGED <<inst, expPerMin, skipped>>
    BY <1>6 DEF Lookup, guardVars
  <2> QED  BY <2>1, <2>2, UncountedStep DEF CancelSteps, Ops
<1>7. CASE Renew(r)
  <2>1. PICK s \in {"idle", "incrFac"} : pc' = [pc EXCEPT ![r] = s]
    BY <1>7 DEF Renew
  <2>2. pc[r] = "Renew" /\ UNCHANGED <<inst, expPerMin, skipped>>
    BY <1>7 DEF Renew, guardVars
  <2> QED  BY <2>1, <2>2, UncountedStep DEF CancelSteps
<1>8. CASE CountRenew(r)
  <2>1. pc[r] = "incrFac" /\ pc' = [pc EXCEPT ![r] = "idle"]
    BY <1>8 DEF CountRenew
  <2>2. UNCHANGED <<inst, expPerMin, skipped>>
    BY <1>8 DEF CountRenew, IncrFac
  <2> QED  BY <2>1, <2>2, UncountedStep DEF CancelSteps
<1>9. CASE Set(r)
  <2>1. pc[r] = "Set" /\ pc' = [pc EXCEPT ![r] = "idle"]
    BY <1>9 DEF Set
  <2>2. DOMAIN inst' = DOMAIN inst
    BY <1>9 DEF Set, Put
  <2>3. UNCHANGED <<expPerMin, skipped>>
    BY <1>9 DEF Set, guardVars
  <2> QED  BY <2>1, <2>2, <2>3, UncountedStep DEF CancelSteps
<1>10. CASE Cancel(r)
  <2>1. pc[r] = "Cancel" /\ UNCHANGED <<expPerMin, skipped>>
    BY <1>10 DEF Cancel, guardVars
  <2>2. CASE Place(r) \in DOMAIN inst
    <3>1. inst' = Drop(inst, Place(r)) /\ pc' = [pc EXCEPT ![r] = "updateLatest"]
      BY <1>10, <2>2 DEF Cancel
    <3>2. IsFiniteSet(DOMAIN inst') /\ Cardinality(DOMAIN inst') = n - 1
      BY <2>2, <3>1, DropCounts DEF Counted
    <3>3. PendingMove(r, "updateLatest")
      BY <3>1, PendingCounts
    <3> QED
      BY <1>0, <2>1, <3>2, <3>3 DEF Counted, GuardAccount, PendingMove, Moves, CancelSteps
  <2>3. CASE Place(r) \notin DOMAIN inst
    <3>1. UNCHANGED inst /\ pc' = [pc EXCEPT ![r] = "idle"]
      BY <1>10, <2>3 DEF Cancel
    <3> QED  BY <2>1, <3>1, UncountedStep DEF CancelSteps
  <2> QED  BY <2>2, <2>3
<1>11. CASE UpdateLatest(r)
  <2>1. PICK s \in {"len", "emptyCheck"} : pc' = [pc EXCEPT ![r] = s]
    BY <1>11 DEF UpdateLatest
  <2>2. pc[r] = "updateLatest" /\ UNCHANGED <<inst, expPerMin, skipped>>
    BY <1>11 DEF UpdateLatest, guardVars
  <2> QED  BY <2>1, <2>2, UncountedStep DEF CancelSteps
<1>12. CASE CheckLen(r)
  <2>1. PICK s \in {"del", "emptyCheck"} : pc' = [pc EXCEPT ![r] = s]
    BY <1>12 DEF CheckLen
  <2>2. pc[r] = "len" /\ UNCHANGED <<inst, expPerMin, skipped>>
    BY <1>12 DEF CheckLen, guardVars
  <2> QED  BY <2>1, <2>2, UncountedStep DEF CancelSteps
<1>13. CASE DelZone(r)
  <2>1. pc[r] = "del" /\ pc' = [pc EXCEPT ![r] = "emptyCheck"]
    BY <1>13 DEF DelZone
  <2>2. UNCHANGED <<inst, expPerMin, skipped>>
    BY <1>13 DEF DelZone, guardVars
  <2> QED  BY <2>1, <2>2, UncountedStep DEF CancelSteps
<1>14. CASE CheckEmpty(r)
  <2>1. PICK s \in {"delete", "decrExp"} : pc' = [pc EXCEPT ![r] = s]
    BY <1>14 DEF CheckEmpty
  <2>2. pc[r] = "emptyCheck" /\ UNCHANGED <<inst, expPerMin, skipped>>
    BY <1>14 DEF CheckEmpty, guardVars
  <2> QED  BY <2>1, <2>2, UncountedStep DEF CancelSteps
<1>15. CASE DeleteApps(r)
  <2>1. pc[r] = "delete" /\ pc' = [pc EXCEPT ![r] = "decrExp"]
    BY <1>15 DEF DeleteApps
  <2>2. UNCHANGED <<inst, expPerMin, skipped>>
    BY <1>15 DEF DeleteApps, guardVars
  <2> QED  BY <2>1, <2>2, UncountedStep DEF CancelSteps
<1>16. CASE CountCancel(r)
  <2>1. pc[r] = "decrExp" /\ pc' = [pc EXCEPT ![r] = "idle"] /\ UNCHANGED inst
    BY <1>16 DEF CountCancel
  <2>2. PendingMove(r, "idle")
    BY <2>1, PendingCounts
  <2>3. CASE expPerMin > 0
    <3>1. expPerMin' = expPerMin - 2 /\ skipped' = skipped
      BY <1>16, <2>3 DEF Counted, CountCancel, DecrExp
    <3> QED
      BY <1>0, <2>1, <2>2, <2>3, <3>1 DEF Counted, GuardAccount, PendingMove, Moves, CancelSteps
  <2>4. CASE ~(expPerMin > 0)
    <3>1. expPerMin' = expPerMin /\ skipped' = skipped + 1
      BY <1>16, <2>4 DEF CountCancel, DecrExp, guardVars
    <3> QED
      BY <1>0, <2>1, <2>2, <3>1 DEF Counted, GuardAccount, PendingMove, Moves, CancelSteps
  <2> QED  BY <2>3, <2>4
<1> QED
  BY <1>1, <1>2, <1>3, <1>4, <1>5, <1>6, <1>7, <1>8, <1>9, <1>10, <1>11,
     <1>12, <1>13, <1>14, <1>15, <1>16 DEF Step

-----------------------------------------------------------------------------
(* Control: program counters, requests and history.                        *)

\* A handler that goes to its next step keeps the control state well formed.
LEMMA GotoControl ==
  ASSUME ControlOK, NEW r \in Handlers, NEW s \in Steps \ {"idle"}, pc[r] # "idle", Goto(r, s),
         s \in RegisterSteps => arg[r].op = "Register", s \in Ops => s = arg[r].op
  PROVE  ControlOK'
<1>1. /\ pc' = [pc EXCEPT ![r] = s]
      /\ UNCHANGED <<arg, overlapped, known>>
  BY DEF Goto
<1>2. Active' = Active
  BY <1>1 DEF Active, ControlOK
<1> QED  BY <1>1, <1>2 DEF ControlOK

\* So does a handler that answers its request,
LEMMA AnswerControl ==
  ASSUME ControlOK, NEW r \in Handlers, NEW v \in Nat \cup {Unknown}, pc[r] # "idle",
         AnswerKnowing(r, v)
  PROVE  ControlOK'
<1>1. /\ pc' = [pc EXCEPT ![r] = "idle"]
      /\ arg' = [arg EXCEPT ![r] = NoArg]
      /\ overlapped' = overlapped \ {r}
      /\ known' = [known EXCEPT ![Key(r)] = IF r \in overlapped THEN Unknown ELSE v]
  BY DEF AnswerKnowing
<1>2. pc' \in [Handlers -> Steps] /\ arg' \in [Handlers -> Requests \cup {NoArg}]
  BY <1>1 DEF ControlOK, Steps
<1>3. known' \in [Zones \X Hosts -> Nat \cup {Unknown}]
  BY <1>1 DEF ControlOK
<1>4. overlapped' \subseteq Active'
  BY <1>1 DEF ControlOK, Active
<1> QED  BY <1>1, <1>2, <1>3, <1>4 DEF ControlOK, RegisterSteps, Ops

\* and one that a request arrives at.
LEMMA RequestControl ==
  ASSUME ControlOK, clock \in Nat, NEW r \in Handlers, Request(r)
  PROVE  ControlOK'
<1>1. PICK op \in Ops, zone \in Zones, host \in Hosts, ts \in Nat : Arrive(r, op, zone, host, ts)
  BY DEF Request, Ops, None
<1> DEFINE new == [op |-> op, zone |-> zone, host |-> host, ts |-> ts]
           s == IF op = "Register" THEN "newApps" ELSE "apps"
<1>2. /\ pc' = [pc EXCEPT ![r] = s]
      /\ arg' = [arg EXCEPT ![r] = new]
      /\ known' = known
      /\ overlapped' \subseteq overlapped \cup Active \cup {r}
  BY <1>1 DEF Arrive
<1>3. new \in Requests /\ new # NoArg
  BY DEF Requests, NoArg, Ops
<1>4. pc' \in [Handlers -> Steps] /\ arg' \in [Handlers -> Requests \cup {NoArg}]
  BY <1>2, <1>3 DEF ControlOK, Steps, RegisterSteps
<1>5. overlapped' \subseteq Active'
  BY <1>2 DEF ControlOK, Active
<1> QED  BY <1>2, <1>3, <1>4, <1>5 DEF ControlOK, RegisterSteps, Ops

\* Each critical section leaves every handler at a step of its own operation.
LEMMA ControlStep ==
  ASSUME ControlOK, clock \in Nat, NEW r \in Handlers, Step(r)
  PROVE  ControlOK'
<1>1. CASE Request(r)
  BY <1>1, RequestControl
<1> DEFINE Stays == \E s \in Steps \ {"idle"} :
                      /\ Goto(r, s)
                      /\ s \in RegisterSteps => arg[r].op = "Register"
                      /\ s \in Ops => s = arg[r].op
           Answers == \E v \in Nat \cup {Unknown} : AnswerKnowing(r, v)
<1>2. CASE pc[r] # "idle" /\ (Stays \/ Answers)
  BY <1>2, GotoControl, AnswerControl
<1>3. SUFFICES ASSUME ~Request(r)
               PROVE  pc[r] # "idle" /\ (Stays \/ Answers)
  BY SMTT(30), <1>1, <1>2
<1>4. pc[r] # "idle"
  BY <1>3 DEF Step, NewApps, NewApp, NewInstance, CountRegister, Lookup, Renew, CountRenew, Set,
     Cancel, UpdateLatest, CheckLen, DelZone, CheckEmpty, DeleteApps, CountCancel
<1>5. arg[r] \in Requests
  BY <1>4 DEF ControlOK
<1>6. Key(r) \in Zones \X Hosts /\ known[Key(r)] \in Nat \cup {Unknown} /\ arg[r].ts \in Nat
  BY <1>5 DEF ControlOK, Key, Requests
<1>7. Answer(r) => Answers
  BY <1>6 DEF Answer
<1> USE DEF Steps, RegisterSteps, CancelSteps, Ops, ControlOK
<1>8. CASE NewApps(r) \/ NewApp(r)
  <2>1. arg[r].op = "Register"
    BY <1>8 DEF NewApps, NewApp
  <2>2. Goto(r, "newApp") \/ Goto(r, "newInstance")
    BY <1>8 DEF NewApps, NewApp
  <2> QED  BY <1>4, <2>1, <2>2
<1>9. CASE NewInstance(r)
  <2>1. Newest(known[Key(r)], arg[r].ts) \in Nat \cup {Unknown}
    BY <1>6 DEF Newest
  <2>2. arg[r].op = "Register"
    BY <1>9 DEF NewInstance
  <2>3. Goto(r, "incrExp") \/ AnswerKnowing(r, Newest(known[Key(r)], arg[r].ts))
    BY <1>9 DEF NewInstance
  <2>4. AnswerKnowing(r, Newest(known[Key(r)], arg[r].ts)) => Answers
    BY <2>1
  <2>5. Goto(r, "incrExp") => Stays
    BY <2>2
  <2> HIDE DEF Stays, Answers
  <2> QED  BY <1>4, <2>3, <2>4, <2>5
<1>10. CASE CountRegister(r)
  BY <1>10, <1>6 DEF CountRegister
<1>11. CASE Lookup(r)
  BY <1>11, <1>5, <1>7 DEF Lookup, Requests
<1>12. CASE Renew(r) \/ CountRenew(r)
  BY <1>12, <1>7 DEF Renew, CountRenew
<1>13. CASE Set(r)
  <2>1. (IF known[Key(r)] > 0 THEN arg[r].ts ELSE known[Key(r)]) \in Nat \cup {Unknown}
    BY <1>6
  <2> QED  BY <1>13, <1>7, <2>1 DEF Set
<1>14. CASE Cancel(r) \/ UpdateLatest(r) \/ CheckLen(r) \/ DelZone(r) \/ CheckEmpty(r) \/ DeleteApps(r)
  BY SMTT(30), <1>14, <1>7 DEF Cancel, UpdateLatest, CheckLen, DelZone, CheckEmpty, DeleteApps
<1>15. CASE CountCancel(r)
  <2>1. None \in Nat
    BY DEF None
  <2> QED  BY <1>15, <2>1 DEF CountCancel
<1> QED
  BY <1>3, <1>8, <1>9, <1>10, <1>11, <1>12, <1>13, <1>14, <1>15 DEF Step

-----------------------------------------------------------------------------
(* The store and the pointers into it.                                     *)

\* An element of a sequence has the type of its elements,
LEMMA SeqElement ==
  ASSUME NEW S, NEW q \in Seq(S), NEW i \in 1..Len(q)
  PROVE  q[i] \in S
OBVIOUS

\* a sequence with one element replaced has the type it had,
LEMMA SeqUpdate ==
  ASSUME NEW S, NEW T, S \subseteq T, NEW q \in Seq(S), NEW i \in 1..Len(q), NEW v \in T
  PROVE  /\ [q EXCEPT ![i] = v] \in Seq(T)
         /\ Len([q EXCEPT ![i] = v]) = Len(q)
OBVIOUS

\* and so has the zone table of an Apps object (Apps.NewApp, Apps.Del).
LEMMA ZoneUpdate ==
  ASSUME NEW n \in Nat, NEW m \in Nat, n <= m,
         NEW f \in [Zones -> 0..n], NEW z, NEW v \in 0..m
  PROVE  [f EXCEPT ![z] = v] \in [Zones -> 0..m]
<1>1. \A y \in Zones : f[y] \in 0..m
  OBVIOUS
<1> QED  BY <1>1

AppsRecord == [latest : Nat, zone : [Zones -> 0..nApp]]

\* A handler past its lookup holds objects that are in the store.
LEMMA Holding ==
  ASSUME StoreOK, ControlOK, PointersOK, NEW r \in Handlers
  PROVE  /\ pc[r] \in HoldingApps => at[r].apps \in 1..Len(apps) /\ apps[at[r].apps] \in AppsRecord
         /\ pc[r] \in HoldingApp => at[r].app \in 1..nApp
         /\ pc[r] # "idle" => arg[r] \in Requests
<1>1. at[r] \in Pointers /\ Len(apps) \in Nat /\ nApp \in Nat
  BY DEF StoreOK, PointersOK
<1>2. at[r].apps \in 0..Len(apps) /\ at[r].app \in 0..nApp
  BY <1>1 DEF Pointers
<1>3. pc[r] \in HoldingApps => at[r].apps \in 1..Len(apps)
  BY <1>1, <1>2 DEF PointersOK, None
<1>4. pc[r] \in HoldingApp => at[r].app \in 1..nApp
  BY <1>1, <1>2 DEF PointersOK, None
<1>5. \A i \in 1..Len(apps) : apps[i] \in AppsRecord
  <2>1. apps \in Seq(AppsRecord)
    BY DEF StoreOK, AppsRecord
  <2> QED  BY <2>1, SeqElement
<1>6. pc[r] # "idle" => arg[r] \in Requests
  BY DEF ControlOK
<1> QED  BY <1>3, <1>4, <1>5, <1>6

\* Each critical section keeps the objects well formed; none disappears while
\* a handler may hold a pointer to it.
LEMMA StoreStep ==
  ASSUME StoreOK, ControlOK, PointersOK, NEW r \in Handlers, Step(r)
  PROVE  StoreOK' /\ Len(apps) <= Len(apps') /\ nApp <= nApp'
<1> USE DEF StoreOK, None
<1> DEFINE Record(n) == [latest : Nat, zone : [Zones -> 0..n]]
<1>0. Len(apps) \in Nat
  OBVIOUS
<1>1. CASE UNCHANGED store
  BY <1>0, <1>1 DEF store
<1>2. CASE NewApps(r)
  <2>1. UNCHANGED <<nApp, inst>>
    BY <1>2 DEF NewApps
  <2>2. [latest |-> None, zone |-> [z \in Zones |-> None]] \in Record(nApp)
    OBVIOUS
  <2>3. CASE appm = None
    <3>1. /\ apps' = Append(apps, [latest |-> None, zone |-> [z \in Zones |-> None]])
          /\ appm' = Len(apps) + 1
      BY <1>2, <2>3 DEF NewApps
    <3>2. apps' \in Seq(Record(nApp)) /\ Len(apps') = Len(apps) + 1
      BY <2>2, <3>1
    <3> QED  BY <1>0, <2>1, <3>1, <3>2
  <2>4. CASE appm # None
    BY <1>0, <1>2, <2>1, <2>4 DEF NewApps
  <2> QED  BY <2>3, <2>4
<1>3. CASE NewApp(r)
  <2> DEFINE p == at[r].apps
             zone == arg[r].zone
             old == apps[p].zone[zone]
             app == IF old = None THEN nApp + 1 ELSE old
             lts == Bump(apps[p].latest, arg[r].ts)
             new == [latest |-> lts, zone |-> [apps[p].zone EXCEPT ![zone] = app]]
  <2>1. p \in 1..Len(apps) /\ apps[p] \in Record(nApp) /\ arg[r] \in Requests
    BY <1>3, Holding DEF NewApp, HoldingApps, Steps, RegisterSteps, AppsRecord
  <2>2. /\ apps' = [apps EXCEPT ![p] = new]
        /\ nApp' = IF old = None THEN app ELSE nApp
        /\ UNCHANGED <<appm, inst>>
    BY <1>3 DEF NewApp
  <2>3. zone \in Zones /\ arg[r].ts \in Nat
    BY <2>1 DEF Requests
  <2>4. old \in 0..nApp /\ apps[p].latest \in Nat /\ apps[p].zone \in [Zones -> 0..nApp]
    BY <2>1, <2>3
  <2> HIDE DEF old
  <2>5. nApp' \in Nat /\ nApp <= nApp' /\ app \in 1..nApp'
    BY <2>2, <2>4
  <2> HIDE DEF app
  <2>9. lts \in Nat
    BY SMTT(30), <2>3, <2>4 DEF Bump
  <2> HIDE DEF lts
  <2>6. Record(nApp) \subseteq Record(nApp')
    BY <2>5
  <2>7. new \in Record(nApp')
    <3>1. [apps[p].zone EXCEPT ![zone] = app] \in [Zones -> 0..nApp']
      <4>1. nApp \in Nat /\ app \in 0..nApp'
        BY <2>5
      <4> QED  BY <2>4, <2>5, <4>1, ZoneUpdate, Zenon
    <3> QED  BY <2>9, <3>1
  <2> HIDE DEF new, p
  <2>8. apps' \in Seq(Record(nApp')) /\ Len(apps') = Len(apps)
    <3>1. apps \in Seq(Record(nApp))
      OBVIOUS
    <3> HIDE DEF Record
    <3> QED  BY <2>1, <2>2, <2>6, <2>7, <3>1, SeqUpdate
  <2> QED  BY <1>0, <2>2, <2>5, <2>8
<1>4. CASE NewInstance(r) \/ Set(r)
  <2>1. UNCHANGED <<appm, apps, nApp>>
    BY <1>4 DEF NewInstance, Set
  <2>2. Place(r) \in (1..nApp) \X Hosts /\ arg[r].ts \in Nat
    BY <1>4, Holding DEF NewInstance, Set, HoldingApp, HoldingApps, Steps, RegisterSteps, Ops,
       Place, Requests
  <2>3. Place(r) \in DOMAIN inst => Keep(inst[Place(r)], arg[r].ts) \in Nat
    BY <2>2 DEF Keep
  <2>4. inst' = inst \/ \E v \in Nat : inst' = Put(inst, Place(r), v)
    BY <1>4, <2>2, <2>3 DEF NewInstance, Set
  <2> QED  BY SMTT(30), <1>0, <2>1, <2>2, <2>4 DEF Put
<1>5. CASE Cancel(r)
  <2>1. UNCHANGED <<appm, apps, nApp>> /\ (inst' = inst \/ inst' = Drop(inst, Place(r)))
    BY <1>5 DEF Cancel
  <2> QED  BY <1>0, <2>1 DEF Drop
<1>6. CASE UpdateLatest(r) \/ DelZone(r)
  <2> DEFINE p == at[r].apps
  <2>1. p \in 1..Len(apps) /\ apps[p] \in Record(nApp) /\ arg[r] \in Requests
    BY <1>6, Holding
       DEF UpdateLatest, DelZone, HoldingApps, Steps, CancelSteps, AppsRecord
  <2>2. Bump(apps[p].latest, arg[r].ts) \in Nat
    <3>1. apps[p].latest \in Nat /\ arg[r].ts \in Nat
      BY <2>1 DEF Requests
    <3> QED  BY <3>1 DEF Bump
  <2>3. \E new \in Record(nApp) : apps' = [apps EXCEPT ![p] = new]
    <3>1. CASE UpdateLatest(r)
      <4>1. apps' = [apps EXCEPT ![p] =
                       [apps[p] EXCEPT !.latest = Bump(apps[p].latest, arg[r].ts)]]
        BY <3>1 DEF UpdateLatest
      <4> QED  BY <2>1, <2>2, <4>1
    <3>2. CASE DelZone(r)
      <4>1. apps' = [apps EXCEPT ![p] =
                       [apps[p] EXCEPT !.zone = [apps[p].zone EXCEPT ![arg[r].zone] = None]]]
        BY <3>2 DEF DelZone
      <4>2. [apps[p].zone EXCEPT ![arg[r].zone] = None] \in [Zones -> 0..nApp]
        <5>1. apps[p].zone \in [Zones -> 0..nApp] /\ arg[r].zone \in Zones
          BY <2>1 DEF Requests
        <5>2. nApp \in Nat /\ nApp <= nApp /\ None \in 0..nApp
          OBVIOUS
        <5> QED  BY <5>1, <5>2, ZoneUpdate
      <4> QED  BY <2>1, <4>1, <4>2
    <3> QED  BY <1>6, <3>1, <3>2
  <2>4. UNCHANGED <<appm, nApp, inst>>
    BY <1>6 DEF UpdateLatest, DelZone
  <2> QED  BY <1>0, <2>1, <2>3, <2>4
<1>7. CASE DeleteApps(r)
  BY <1>0, <1>7 DEF DeleteApps
<1> QED
  BY <1>1, <1>2, <1>3, <1>4, <1>5, <1>6, <1>7 DEF Step, Request, Arrive, CountRegister, Lookup,
     Renew, CountRenew, CheckLen, CheckEmpty, CountCancel

\* Each critical section leaves the handlers with pointers to objects that
\* exist: none of registery.go:102-198 follows a nil App or Apps.
LEMMA PointersStep ==
  ASSUME StoreOK, ControlOK, PointersOK, NEW r \in Handlers, Step(r)
  PROVE  PointersOK'
<1>1. /\ nApp \in Nat /\ Len(apps) \in Nat /\ nApp' \in Nat /\ Len(apps') \in Nat
      /\ Len(apps) <= Len(apps') /\ nApp <= nApp' /\ appm' \in 0..Len(apps')
  BY StoreStep DEF StoreOK
<1>2. Pointers \subseteq Pointers'
  BY <1>1 DEF Pointers
<1> USE DEF Goto, Answer, AnswerKnowing
\* The handler goes to s and then holds p.
<1> DEFINE Holds(s, p) ==
             /\ pc' = [pc EXCEPT ![r] = s]
             /\ at' = [at EXCEPT ![r] = p]
             /\ s \in HoldingApps => p.apps # None
             /\ s \in HoldingApp => p.app # None
<1>3. ASSUME NEW s, NEW p \in Pointers', Holds(s, p)
      PROVE  PointersOK'
  <2>1. at' \in [Handlers -> Pointers']
    BY <1>2, <1>3 DEF PointersOK
  <2>2. \A q \in Handlers : pc'[q] \in HoldingApps => at'[q].apps # None
    BY <1>3 DEF PointersOK, ControlOK
  <2>3. \A q \in Handlers : pc'[q] \in HoldingApp => at'[q].app # None
    BY <1>3 DEF PointersOK, ControlOK
  <2> QED  BY <2>1, <2>2, <2>3 DEF PointersOK, HoldingApps, HoldingApp, Steps,
             RegisterSteps, CancelSteps, Ops
<1>4. at[r] \in Pointers /\ at[r] \in Pointers'
  BY <1>2 DEF PointersOK
<1>5. at = [at EXCEPT ![r] = at[r]]
  BY DEF PointersOK
<1>6. NoPointers \in Pointers'
  BY <1>1 DEF NoPointers, Pointers, None
<1> HIDE DEF Holds
<1>7. CASE Request(r)
  <2>1. PICK s \in {"newApps", "apps"} : pc' = [pc EXCEPT ![r] = s] /\ at' = at
    BY <1>7 DEF Request, Arrive
  <2>2. Holds(s, at[r])
    BY <1>5, <2>1 DEF Holds, HoldingApps, HoldingApp
  <2> QED  BY <1>3, <1>4, <2>2
<1>8. CASE \E v : AnswerKnowing(r, v)
  <2>1. Holds("idle", NoPointers)
    BY <1>8 DEF Holds, HoldingApps, HoldingApp
  <2> QED  BY <1>3, <1>6, <2>1
\* The handler keeps both objects.
<1>9. ASSUME pc[r] \in HoldingApp, NEW s, Goto(r, s), at' = at
      PROVE  PointersOK'
  <2>1. Holds(s, at[r])
    BY <1>5, <1>9 DEF Holds, HoldingApp, PointersOK
  <2> QED  BY <1>3, <1>4, <2>1
<1>10. CASE NewApps(r)
  <2> DEFINE p == [at[r] EXCEPT !.apps = appm']
  <2>1. pc' = [pc EXCEPT ![r] = "newApp"] /\ at' = [at EXCEPT ![r] = p]
    BY <1>10 DEF NewApps, PointersOK
  <2>2. appm' # None
    BY <1>1, <1>10 DEF NewApps, None
  <2>3. p \in Pointers' /\ p.apps = appm'
    BY <1>1, <1>4 DEF Pointers
  <2>4. Holds("newApp", p)
    BY <2>1, <2>2, <2>3 DEF Holds, HoldingApp
  <2> QED  BY <1>3, <2>3, <2>4
<1>11. CASE NewApp(r)
  <2> DEFINE old == apps[at[r].apps].zone[arg[r].zone]
             app == IF old = None THEN nApp + 1 ELSE old
             p == [at[r] EXCEPT !.app = app]
  <2>1. pc[r] = "newApp" /\ pc' = [pc EXCEPT ![r] = "newInstance"] /\ at' = [at EXCEPT ![r] = p]
    BY <1>11 DEF NewApp, PointersOK
  <2>2. apps[at[r].apps] \in AppsRecord /\ arg[r] \in Requests /\ at[r].apps # None
    BY <1>1, <2>1, Holding DEF HoldingApps, Steps, RegisterSteps, None
  <2>3. old \in 0..nApp
    BY <2>2 DEF AppsRecord, Requests
  <2>4. nApp' = IF old = None THEN app ELSE nApp
    BY <1>11 DEF NewApp
  <2> HIDE DEF old
  <2>5. app \in 0..nApp' /\ app # None
    BY <1>1, <2>3, <2>4 DEF None
  <2> HIDE DEF app
  <2>6. p \in Pointers' /\ p.app = app /\ p.apps = at[r].apps
    BY <1>4, <2>5 DEF Pointers
  <2> HIDE DEF p
  <2>7. Holds("newInstance", p)
    BY <2>1, <2>2, <2>5, <2>6 DEF Holds
  <2> QED  BY <1>3, <2>6, <2>7
<1>12. CASE Lookup(r)
  <2> DEFINE app == AppOf(arg[r].zone)
             p == [at[r] EXCEPT !.apps = appm, !.app = app]
  <2>1. SUFFICES ASSUME app # None
                 PROVE  PointersOK'
    BY <1>8, <1>12 DEF Lookup
  <2>2. pc' = [pc EXCEPT ![r] = arg[r].op] /\ at' = [at EXCEPT ![r] = p] /\ UNCHANGED store
    BY <1>8, <1>12, <2>1 DEF Lookup, PointersOK
  <2>3. appm # None /\ appm \in 0..Len(apps) /\ app = apps[appm].zone[arg[r].zone]
    BY <2>1 DEF AppOf, StoreOK
  <2>4. arg[r] \in Requests
    BY <1>12, Holding DEF Lookup
  <2>5. apps[appm] \in AppsRecord
    <3>1. apps \in Seq(AppsRecord) /\ appm \in 1..Len(apps)
      BY <1>1, <2>3 DEF StoreOK, AppsRecord, None
    <3> QED  BY <3>1, SeqElement
  <2>6. app \in 0..nApp
    BY <2>3, <2>4, <2>5 DEF AppsRecord, Requests
  <2> HIDE DEF app
  <2>7. p \in Pointers /\ p.apps = appm /\ p.app = app
    BY <1>4, <2>3, <2>6 DEF Pointers
  <2> HIDE DEF p
  <2>8. Holds(arg[r].op, p)
    BY <2>1, <2>2, <2>3, <2>7 DEF Holds
  <2> QED  BY <1>2, <1>3, <2>7, <2>8
<1>13. CASE Cancel(r)
  <2> DEFINE p == [at[r] EXCEPT !.emptied = InstancesOf(at[r].app) \ {Place(r)} = {}]
  <2>1. SUFFICES ASSUME Place(r) \in DOMAIN inst
                 PROVE  PointersOK'
    BY <1>8, <1>13 DEF Cancel
  <2>2. /\ pc[r] = "Cancel"
        /\ pc' = [pc EXCEPT ![r] = "updateLatest"] /\ at' = [at EXCEPT ![r] = p]
    BY <1>13, <2>1 DEF Cancel, PointersOK
  <2>3. p \in Pointers' /\ p.apps = at[r].apps /\ p.app = at[r].app
    BY <1>4 DEF Pointers
  <2> HIDE DEF p
  <2>4. Holds("updateLatest", p)
    BY <2>2, <2>3 DEF Holds, PointersOK, HoldingApps, HoldingApp, Steps, Ops
  <2> QED  BY <1>3, <2>3, <2>4
<1> HIDE DEF Goto, Answer, AnswerKnowing
<1>14. CASE NewInstance(r) \/ Renew(r) \/ UpdateLatest(r) \/ CheckLen(r) \/ DelZone(r)
            \/ CheckEmpty(r) \/ DeleteApps(r)
  <2>1. pc[r] \in HoldingApp
    BY <1>14 DEF NewInstance, Renew, UpdateLatest, CheckLen, DelZone, CheckEmpty, DeleteApps,
       HoldingApps, HoldingApp, Steps, RegisterSteps, CancelSteps, Ops
  <2>2. \/ \E v : AnswerKnowing(r, v)
        \/ at' = at /\ \E s : Goto(r, s)
    BY <1>14 DEF NewInstance, Renew, UpdateLatest, CheckLen, DelZone, CheckEmpty, DeleteApps, Answer
  <2> QED  BY <1>8, <1>9, <2>1, <2>2
<1>15. CASE CountRegister(r) \/ CountRenew(r) \/ Set(r) \/ CountCancel(r)
  BY <1>8, <1>15 DEF CountRegister, CountRenew, Set, CountCancel, Answer
<1> QED
  BY <1>7, <1>10, <1>11, <1>12, <1>13, <1>14, <1>15 DEF Step

-----------------------------------------------------------------------------
(* The invariant. *)

\* A registry as NewRegistry makes it satisfies the inductive invariant.
LEMMA InitIInv == Init => IInv
<1> SUFFICES ASSUME Init PROVE IInv
  OBVIOUS
<1> USE DEF Init, GuardInit, None, Unknown
<1>1. StoreOK
  BY DEF StoreOK
<1>2. ControlOK
  BY DEF ControlOK, Steps, RegisterSteps, Ops, Active
<1>3. PointersOK
  BY DEF PointersOK, Pointers, NoPointers, HoldingApps, HoldingApp, Steps
<1>4. IncrPending = {} /\ DecrPending = {} /\ DOMAIN inst = {}
  BY DEF IncrPending, DecrPending, CancelSteps
<1>5. IsFiniteSet(DOMAIN inst) /\ GuardAccount
  BY <1>4, FS_EmptySet DEF GuardAccount
<1> QED  BY <1>1, <1>2, <1>3, <1>5, RegistryAssumption DEF IInv, TypeOK, PointersOK

\* Every step of every handler preserves it.
LEMMA NextIInv == IInv /\ [Next]_vars => IInv'
<1> SUFFICES ASSUME IInv, [Next]_vars PROVE IInv'
  OBVIOUS
<1>0. /\ StoreOK /\ ControlOK /\ PointersOK /\ Counted
      /\ facInMin \in Nat /\ clock \in 0..MaxArrivals
  BY DEF IInv, TypeOK, Counted
<1>1. CASE UNCHANGED vars
  BY <1>1 DEF IInv, TypeOK, vars, store, guardVars, local, history, StoreOK, ControlOK, PointersOK,
     Pointers, Active, GuardAccount, IncrPending, DecrPending
<1>2. ASSUME NEW r \in Handlers, Step(r)
      PROVE  IInv'
  <2>1. StoreOK' /\ PointersOK'
    BY <1>0, <1>2, StoreStep, PointersStep
  <2>2. ControlOK'
    BY <1>0, <1>2, ControlStep, RegistryAssumption
  <2>3. Counted'
    BY <1>0, <1>2, CountedStep DEF ControlOK
  <2>4. clock' \in 0..MaxArrivals
    <3>1. CASE Request(r)
      <4>1. clock < MaxArrivals /\ clock' = clock + 1
        BY <3>1 DEF Request, Arrive
      <4> QED  BY <1>0, <4>1, RegistryAssumption
    <3>2. CASE ~Request(r)
      <4>1. clock' = clock
        BY <1>2, <3>2 DEF Step, NewApps, NewApp, NewInstance, CountRegister, Lookup, Renew,
           CountRenew, Set, Cancel, UpdateLatest, CheckLen, DelZone, CheckEmpty, DeleteApps,
           CountCancel
      <4> QED  BY <1>0, <4>1
    <3> QED  BY <3>1, <3>2
  <2>5. facInMin' \in Nat
    <3>1. facInMin' = facInMin \/ facInMin' = facInMin + 1
      BY <1>2 DEF Step, Request, Arrive, NewApps, NewApp, NewInstance, CountRegister, Lookup,
         Renew, CountRenew, Set, Cancel, UpdateLatest, CheckLen, DelZone, CheckEmpty,
         DeleteApps, CountCancel, IncrExp, DecrExp, IncrFac, guardVars
    <3> QED  BY SMTT(30), <1>0, <3>1
  <2> QED  BY <2>1, <2>2, <2>3, <2>4, <2>5 DEF IInv, TypeOK, Counted, PointersOK
<1> QED  BY <1>1, <1>2 DEF Next

\* So it holds of every reachable state of the store, for any number of
\* handlers, zones, hosts and requests.
THEOREM Invariance == Spec => []IInv
BY InitIInv, NextIInv, PTL DEF Spec

(***************************************************************************)
(* Every variable keeps its type: no handler follows a pointer that is     *)
(* nil, and the expectation never becomes negative.                        *)
(***************************************************************************)
THEOREM TypeCorrect == Spec => []TypeOK
<1>1. IInv => TypeOK
  BY DEF IInv
<1> QED  BY <1>1, Invariance, PTL

(***************************************************************************)
(* Whatever the handlers do and however their critical sections interleave *)
(* the guard expects at least two heartbeats a minute of every instance.   *)
(***************************************************************************)
THEOREM GuardSafe == Spec => []GuardNeverUnderestimates
<1>1. IInv => GuardNeverUnderestimates
  <2> SUFFICES ASSUME IInv PROVE GuardNeverUnderestimates
    OBVIOUS
  <2>1. IsFiniteSet(IncrPending) /\ IsFiniteSet(DecrPending)
    BY FS_Subset, RegistryAssumption DEF IncrPending, DecrPending
  <2>2. /\ Cardinality(IncrPending) \in Nat
        /\ Cardinality(DecrPending) \in Nat
        /\ Cardinality(DOMAIN inst) \in Nat
    BY <2>1, FS_CardinalityType DEF IInv
  <2> QED  BY <2>2 DEF IInv, TypeOK, GuardAccount, GuardNeverUnderestimates
<1> QED  BY <1>1, Invariance, PTL


(***************************************************************************)
(* Every registration and every cancellation moves the index of its Apps   *)
(* strictly forward, whatever timestamps the requests carry.               *)
(***************************************************************************)
THEOREM IndexSafe == Spec => IndexAdvances
<1> DEFINE Advances(r) == pc[r] \in {"newApp", "updateLatest"} /\ pc'[r] # pc[r] =>
                            apps'[at[r].apps].latest > apps[at[r].apps].latest
<1>1. ASSUME IInv, NEW r \in Handlers, NEW q \in Handlers, Step(q)
      PROVE  Advances(r)
  <2>1. SUFFICES ASSUME pc[r] \in {"newApp", "updateLatest"}, pc'[r] # pc[r]
                 PROVE  apps'[at[r].apps].latest > apps[at[r].apps].latest
    OBVIOUS
  <2>2. StoreOK /\ ControlOK /\ PointersOK
    BY <1>1 DEF IInv, TypeOK
  <2>3. q = r
    <3>1. \E s : pc' = [pc EXCEPT ![q] = s]
      BY <1>1 DEF Step, Request, Arrive, NewApps, NewApp, NewInstance, CountRegister, Lookup,
         Renew, CountRenew, Set, Cancel, UpdateLatest, CheckLen, DelZone, CheckEmpty,
         DeleteApps, CountCancel, Goto, Answer, AnswerKnowing
    <3> QED  BY SMTT(30), <2>1, <2>2, <3>1 DEF ControlOK
  <2>4. NewApp(r) \/ UpdateLatest(r)
    BY <1>1, <2>1, <2>3 DEF Step, Request, Arrive, NewApps, NewInstance, CountRegister, Lookup,
       Renew, CountRenew, Set, Cancel, CheckLen, DelZone, CheckEmpty, DeleteApps, CountCancel
  <2> DEFINE p == at[r].apps
  <2>5. p \in 1..Len(apps) /\ apps[p] \in AppsRecord /\ arg[r] \in Requests
    BY <2>1, <2>2, Holding DEF HoldingApps, Steps, RegisterSteps, CancelSteps
  <2>6. apps'[p].latest = Bump(apps[p].latest, arg[r].ts)
    <3>1. apps \in Seq(AppsRecord)
      BY <2>2 DEF StoreOK, AppsRecord
    <3>2. CASE NewApp(r)
      BY <2>5, <3>1, <3>2 DEF NewApp
    <3>3. CASE UpdateLatest(r)
      BY <2>5, <3>1, <3>3 DEF UpdateLatest, AppsRecord
    <3> QED  BY <2>4, <3>2, <3>3
  <2>7. apps[p].latest \in Nat /\ arg[r].ts \in Nat
    BY <2>5 DEF AppsRecord, Requests
  <2> QED  BY <2>6, <2>7 DEF Bump
<1>2. IInv /\ [Next]_vars => [\A r \in Handlers : Advances(r)]_vars
  BY <1>1 DEF Next
<1> QED  BY <1>2, Invariance, PTL DEF Spec, IndexAdvances

-----------------------------------------------------------------------------
(***************************************************************************)
(* The invariant, on top of IInv.                                          *)
(***************************************************************************)

\* What history records: nobody can disturb a handler that is not overlapped.
OverlapOK ==
  \A r \in Active \ overlapped : \A s \in Active \ {r} : ~Disturbs(arg[s], arg[r])

StampsOK ==
  \A r \in Active : arg[r].op \in {"Register", "Set"} => arg[r].ts > 0

\* An App object belongs to one zone for ever, wherever it is still held.
OwnedBy(owner) ==
  /\ \A p \in 1..Len(apps), z \in Zones :
       apps[p].zone[z] # None => owner[apps[p].zone[z]] = z
  /\ \A r \in Handlers : pc[r] \in HoldingApp => owner[at[r].app] = arg[r].zone
ZonesApart == \E owner \in [1..nApp -> Zones] : OwnedBy(owner)

\* A registration that nothing disturbs works on the objects that are found.
Registering(r) ==
  /\ pc[r] # "newApps" => at[r].apps = appm
  /\ pc[r] \in {"newInstance", "incrExp"} => at[r].app = AppOf(arg[r].zone)
  /\ pc[r] = "incrExp" => Place(r) \in DOMAIN inst /\ inst[Place(r)] = arg[r].ts
RegisteringOK ==
  \A r \in Active \ overlapped : arg[r].op = "Register" => Registering(r)

\* A cancellation that nothing disturbs removes what is found.
Cancelling(r) ==
  /\ pc[r] = "Cancel" => at[r].app = AppOf(arg[r].zone) \/ ~Reachable(Key(r))
  /\ pc[r] \in CancelSteps => ~Reachable(Key(r))
CancellingOK == \A r \in Active \ overlapped : Cancelling(r)

\* The answers say that the instance is there, and nobody has removed it.
Claimed(k) ==
  /\ known[k] > 0
  /\ \A r \in Active :
       arg[r].op = "Cancel" /\ Key(r) = k => r \notin overlapped /\ pc[r] \in {"apps", "Cancel"}

\* No handler that cancels anything of the key can take the objects of k away,
\* a registration of k finds them, and so does what is not disturbed.
Spares(r, k) ==
  /\ at[r].apps = appm /\ pc[r] # "delete"
  /\ arg[r].zone = k[1] => at[r].app = AppOf(k[1]) /\ pc[r] # "del"
Joins(r, k) ==
  /\ pc[r] # "newApps" => at[r].apps = appm
  /\ pc[r] \in HoldingApp => at[r].app = AppOf(k[1]) /\ pc[r] # "incrExp"
Anchored(k) ==
  /\ Reachable(k)
  /\ inst[<<AppOf(k[1]), k[2]>>] >= known[k]
  /\ \A r \in Active :
       /\ arg[r].op = "Cancel" /\ pc[r] # "apps" => Spares(r, k)
       /\ arg[r].op = "Register" /\ Key(r) = k => Joins(r, k)
       /\ r \notin overlapped /\ Key(r) = k /\ pc[r] \in {"Renew", "Set", "Cancel"} =>
            at[r].app = AppOf(k[1])
ClaimsOK == \A k \in Zones \X Hosts : Claimed(k) => Anchored(k)

\* What is known to be absent is absent until someone registers it.
Unregistered(k) == \A r \in Active : arg[r].op = "Register" => Key(r) # k
AbsentOK == \A k \in Zones \X Hosts : known[k] = None /\ Unregistered(k) => ~Reachable(k)

\* A handler takes the steps of its own operation.
OperationOK ==
  \A r \in Handlers :
    /\ pc[r] = "apps" => arg[r].op # "Register"
    /\ pc[r] = "incrFac" => arg[r].op = "Renew"
    /\ pc[r] \in CancelSteps => arg[r].op = "Cancel"

Promises ==
  /\ OperationOK /\ OverlapOK /\ StampsOK /\ ZonesApart
  /\ RegisteringOK /\ CancellingOK /\ ClaimsOK /\ AbsentOK

-----------------------------------------------------------------------------
(* What a step does to handlers, history and store. *)

Objects == StoreOK /\ ControlOK /\ PointersOK

\* A request arrives, or the handler goes on, or it answers.
LEMMA StepKinds ==
  ASSUME Objects, NEW r \in Handlers, Step(r)
  PROVE  \/ Request(r)
         \/ r \in Active /\ \E s \in Steps \ {"idle"} : Goto(r, s)
         \/ r \in Active /\ \E v : AnswerKnowing(r, v)
<1>1. CASE Request(r)
  BY <1>1
<1>2. CASE ~Request(r)
  <2>1. r \in Active
    BY <1>2 DEF Active, Step, NewApps, NewApp, NewInstance, CountRegister, Lookup, Renew, CountRenew,
       Set, Cancel, UpdateLatest, CheckLen, DelZone, CheckEmpty, DeleteApps, CountCancel
  <2>2. arg[r].op \in Ops
    BY SMTT(30), <2>1, Holding DEF Objects, Active, Requests
  <2>3. (\E s \in Steps \ {"idle"} : Goto(r, s)) \/ \E v : AnswerKnowing(r, v)
    BY <1>2, <2>2 DEF Step, NewApps, NewApp, NewInstance, CountRegister, Lookup, Renew, CountRenew,
       Set, Cancel, UpdateLatest, CheckLen, DelZone, CheckEmpty, DeleteApps, CountCancel, Answer,
       Steps, RegisterSteps, CancelSteps, Ops
  <2> QED
    BY SMTT(30), <2>1, <2>3
<1> QED
  BY <1>1, <1>2

\* A step of r leaves the other handlers where they are, and none of them
\* counts as undisturbed that did not before.
LEMMA OthersStay ==
  ASSUME Objects, NEW r \in Handlers, Step(r), NEW q \in Handlers \ {r}
  PROVE  /\ pc'[q] = pc[q] /\ arg'[q] = arg[q] /\ at'[q] = at[q]
         /\ Key(q)' = Key(q) /\ Place(q)' = Place(q)
         /\ q \in Active' <=> q \in Active
         /\ q \in overlapped => q \in overlapped'
<1>1. pc'[q] = pc[q] /\ arg'[q] = arg[q] /\ (q \in overlapped => q \in overlapped')
  <2>1. CASE Request(r)
    <3>1. PICK op, zone, host, ts : Arrive(r, op, zone, host, ts)
      BY <2>1 DEF Request
    <3> QED
      BY <3>1 DEF Objects, ControlOK, Arrive
  <2>2. CASE \E s \in Steps \ {"idle"} : Goto(r, s)
    BY <2>2 DEF Objects, ControlOK, Goto
  <2>3. CASE \E v : AnswerKnowing(r, v)
    BY SMTT(30), <2>3 DEF Objects, ControlOK, AnswerKnowing
  <2> QED
    BY <2>1, <2>2, <2>3, StepKinds
<1>2. at'[q] = at[q]
  BY DEF Objects, PointersOK, Step, NewApps, NewApp, NewInstance, CountRegister, Lookup, Renew,
     CountRenew, Set, Cancel, UpdateLatest, CheckLen, DelZone, CheckEmpty, DeleteApps, CountCancel,
     Answer, AnswerKnowing, Request, Arrive
<1> QED
  BY <1>1, <1>2 DEF Key, Place, Active

\* The App object found for a zone is one of those made, or none.
LEMMA FoundType ==
  ASSUME Objects, NEW z \in Zones
  PROVE  /\ AppOf(z) \in 0..nApp
         /\ appm # None => apps[appm] \in AppsRecord /\ appm \in 1..Len(apps)
<1>1. CASE appm = None
  BY <1>1 DEF AppOf, Objects, StoreOK, None
<1>2. CASE appm # None
  <2>1. apps \in Seq(AppsRecord) /\ appm \in 1..Len(apps)
    BY <1>2 DEF Objects, StoreOK, AppsRecord, None
  <2>2. apps[appm] \in AppsRecord
    BY <2>1, SeqElement
  <2> QED
    BY <1>2, <2>1, <2>2 DEF AppOf, AppsRecord
<1> QED
  BY <1>1, <1>2

\* Only newApps and the last step of a cancellation change the map.
LEMMA MapStep ==
  ASSUME NEW r \in Handlers, Step(r)
  PROVE  \/ appm' = appm
         \/ NewApps(r) /\ appm = None
         \/ DeleteApps(r)
BY DEF Step, Request, Arrive, NewApps, NewApp, NewInstance, CountRegister, Lookup, Renew, CountRenew,
   Set, Cancel, UpdateLatest, CheckLen, DelZone, CheckEmpty, DeleteApps, CountCancel, store

\* An App object is found as before, but for a new one where there was none,
\* and for those that Del and delete take away.
LEMMA FoundStep ==
  ASSUME Objects, NEW r \in Handlers, Step(r), NEW z \in Zones
  PROVE  \/ AppOf(z)' = AppOf(z)
         \/ /\ NewApp(r) /\ at[r].apps = appm /\ arg[r].zone = z
            /\ AppOf(z) = None /\ AppOf(z)' = nApp + 1
         \/ DelZone(r) /\ at[r].apps = appm /\ arg[r].zone = z /\ AppOf(z)' = None
         \/ DeleteApps(r) /\ AppOf(z)' = None
<1>0. Len(apps) \in Nat /\ apps \in Seq(AppsRecord)
  BY DEF Objects, StoreOK, AppsRecord
<1>1. CASE UNCHANGED <<appm, apps>>
  BY <1>1 DEF AppOf
<1>2. CASE NewApps(r)
  <2>1. CASE appm = None
    <3>1. /\ apps' = Append(apps, [latest |-> None, zone |-> [y \in Zones |-> None]])
          /\ appm' = Len(apps) + 1
      BY <1>2, <2>1 DEF NewApps
    <3>2. apps'[Len(apps) + 1] = [latest |-> None, zone |-> [y \in Zones |-> None]]
      BY <1>0, <3>1
    <3>3. appm' # None
      BY <1>0, <3>1 DEF None
    <3> QED
      BY <2>1, <3>1, <3>2, <3>3 DEF AppOf
  <2>2. CASE appm # None
    BY <1>1, <1>2, <2>2 DEF NewApps
  <2> QED
    BY <2>1, <2>2
<1>3. CASE NewApp(r)
  <2> DEFINE p == at[r].apps
             old == apps[p].zone[arg[r].zone]
             app == IF old = None THEN nApp + 1 ELSE old
             new == [latest |-> Bump(apps[p].latest, arg[r].ts),
                     zone |-> [apps[p].zone EXCEPT ![arg[r].zone] = app]]
  <2>1. p \in 1..Len(apps) /\ apps[p] \in AppsRecord /\ arg[r] \in Requests
    BY <1>3, Holding DEF Objects, NewApp, HoldingApps, Steps, RegisterSteps
  <2>2. apps' = [apps EXCEPT ![p] = new] /\ appm' = appm
    BY <1>3 DEF NewApp
  <2>3. CASE appm = p /\ z = arg[r].zone
    <3>1. AppOf(z) = old /\ p # None
      BY <2>1, <2>3 DEF AppOf, None
    <3>2. apps'[p] = new
      BY <1>0, <2>1, <2>2
    <3>3. new.zone[z] = app
      BY <2>1, <2>3 DEF AppsRecord
    <3>4. AppOf(z)' = app
      BY <2>2, <2>3, <3>1, <3>2, <3>3 DEF AppOf
    <3> QED
      BY <1>3, <2>3, <3>1, <3>4
  <2>4. CASE appm = p /\ z # arg[r].zone
    <3>1. apps'[p] = new
      BY <1>0, <2>1, <2>2
    <3>2. new.zone[z] = apps[p].zone[z]
      BY <2>1, <2>4 DEF AppsRecord
    <3> QED
      BY <2>2, <2>4, <3>1, <3>2 DEF AppOf
  <2>5. CASE appm # p
    <3>1. appm # None => apps'[appm] = apps[appm]
      BY <1>0, <2>2, <2>5, FoundType
    <3> QED
      BY <2>2, <3>1 DEF AppOf
  <2> QED
    BY <2>3, <2>4, <2>5
<1>4. CASE UpdateLatest(r)
  <2> DEFINE p == at[r].apps
  <2>1. p \in 1..Len(apps) /\ apps[p] \in AppsRecord
    BY <1>4, Holding DEF Objects, UpdateLatest, HoldingApps, Steps, CancelSteps
  <2>2. PICK n : apps' = [apps EXCEPT ![p] = [apps[p] EXCEPT !.latest = n]]
    BY <1>4 DEF UpdateLatest
  <2>3. appm # None => apps'[appm].zone[z] = apps[appm].zone[z]
    BY <1>0, <2>1, <2>2, FoundType DEF AppsRecord
  <2>4. appm' = appm
    BY <1>4 DEF UpdateLatest
  <2> QED
    BY <2>3, <2>4 DEF AppOf
<1>5. CASE DelZone(r)
  <2> DEFINE p == at[r].apps
             new == [apps[p] EXCEPT !.zone = [apps[p].zone EXCEPT ![arg[r].zone] = None]]
  <2>1. p \in 1..Len(apps) /\ apps[p] \in AppsRecord /\ arg[r] \in Requests
    BY <1>5, Holding DEF Objects, DelZone, HoldingApps, Steps, CancelSteps
  <2>2. apps' = [apps EXCEPT ![p] = new] /\ appm' = appm
    BY <1>5 DEF DelZone
  <2>3. apps'[p] = new /\ \A q \in 1..Len(apps) \ {p} : apps'[q] = apps[q]
    BY <1>0, <2>1, <2>2
  <2>4. new.zone[z] = IF z = arg[r].zone THEN None ELSE apps[p].zone[z]
    BY <2>1 DEF AppsRecord
  <2>5. CASE appm = p
    BY <1>5, <2>1, <2>2, <2>3, <2>4, <2>5 DEF AppOf, None
  <2>6. CASE appm # p
    BY <2>2, <2>3, <2>6, FoundType DEF AppOf
  <2> QED
    BY <2>5, <2>6
<1>6. CASE DeleteApps(r)
  BY SMTT(30), <1>6 DEF DeleteApps, AppOf
<1> QED
  BY <1>1, <1>2, <1>3, <1>4, <1>5, <1>6 DEF Step, Request, Arrive, NewInstance, CountRegister, Lookup,
     Renew, CountRenew, Set, Cancel, CheckLen, CheckEmpty, CountCancel, store

\* Only NewInstance, Set and Cancel touch instances, each the one it is about.
LEMMA InstStep ==
  ASSUME Objects, NEW r \in Handlers, Step(r)
  PROVE  \/ inst' = inst
         \/ NewInstance(r) /\ \E v : inst' = Put(inst, Place(r), v)
         \/ Set(r) /\ Place(r) \in DOMAIN inst /\ inst' = Put(inst, Place(r), arg[r].ts)
         \/ /\ Cancel(r) /\ pc'[r] = "updateLatest"
            /\ Place(r) \in DOMAIN inst /\ inst' = Drop(inst, Place(r))
<1>1. CASE NewInstance(r)
  BY <1>1 DEF NewInstance
<1>2. CASE Set(r)
  BY <1>2 DEF Set
<1>3. CASE Cancel(r)
  BY <1>3 DEF Cancel, Goto, Objects, ControlOK
<1> QED
  BY <1>1, <1>2, <1>3 DEF Step, Request, Arrive, NewApps, NewApp, CountRegister, Lookup, Renew,
     CountRenew, UpdateLatest, CheckLen, DelZone, CheckEmpty, DeleteApps, CountCancel, store

\* Two handlers that hold one App object ask for the same zone, and so does a
\* handler that holds the one found for a zone.
LEMMA SameZone ==
  ASSUME Objects, ZonesApart, NEW r \in Handlers, pc[r] \in HoldingApp
  PROVE  /\ \A q \in Handlers : pc[q] \in HoldingApp /\ at[q].app = at[r].app => arg[q].zone = arg[r].zone
         /\ \A z \in Zones : at[r].app = AppOf(z) => arg[r].zone = z
<1>1. PICK owner \in [1..nApp -> Zones] : OwnedBy(owner)
  BY DEF ZonesApart
<1>2. owner[at[r].app] = arg[r].zone
  BY <1>1 DEF OwnedBy
<1>3. ASSUME NEW z \in Zones, at[r].app = AppOf(z) PROVE arg[r].zone = z
  <2>1. at[r].app # None
    BY DEF Objects, PointersOK
  <2>2. appm # None /\ apps[appm].zone[z] = at[r].app
    BY <1>3, <2>1 DEF AppOf
  <2>3. owner[at[r].app] = z
    BY <1>1, <2>1, <2>2, FoundType DEF OwnedBy
  <2> QED
    BY <1>2, <2>3
<1> QED
  BY <1>1, <1>2, <1>3 DEF OwnedBy

\* Who comes to the list, who leaves it, and what stays where it is.
Found(k) == <<AppOf(k[1]), k[2]>>

LEMMA ReachEnters ==
  ASSUME Objects, ZonesApart, NEW r \in Handlers, Step(r),
         NEW k \in Zones \X Hosts, ~Reachable(k), Reachable(k)'
  PROVE  NewInstance(r) /\ Key(r) = k
<1>1. k[1] \in Zones /\ Found(k) \notin DOMAIN inst /\ Found(k)' \in DOMAIN inst'
  BY DEF Reachable, Found
<1>2. DOMAIN inst \subseteq (1..nApp) \X Hosts /\ nApp \in Nat
  BY DEF Objects, StoreOK
<1>3. DOMAIN inst' \subseteq (1..nApp') \X Hosts
  BY StoreStep DEF Objects, StoreOK
<1>4. AppOf(k[1])' # None
  BY <1>1, <1>3 DEF Found, None
<1>5. NewApp(r) => inst' = inst
  BY DEF NewApp
<1>6. AppOf(k[1])' = AppOf(k[1])
  BY <1>1, <1>2, <1>4, <1>5, FoundStep DEF Found
<1>7. NewInstance(r) /\ Found(k) = Place(r)
  <2>1. Found(k) \in DOMAIN inst' /\ Found(k) \notin DOMAIN inst
    BY <1>1, <1>6 DEF Found
  <2>2. CASE NewInstance(r)
    <3>1. PICK v : inst' = Put(inst, Place(r), v)
      BY <2>2 DEF NewInstance
    <3> QED
      BY <2>1, <2>2, <3>1 DEF Put
  <2>3. CASE ~NewInstance(r)
    BY <2>1, <2>3, InstStep DEF Put, Drop
  <2> QED
    BY <2>2, <2>3
<1>8. pc[r] \in HoldingApp /\ at[r].app = AppOf(k[1]) /\ arg[r].host = k[2]
  BY <1>7 DEF Found, Place, NewInstance, HoldingApp, HoldingApps, Steps, RegisterSteps
<1>9. arg[r].zone = k[1]
  BY <1>1, <1>8, SameZone
<1> QED
  BY <1>7, <1>8, <1>9 DEF Key

LEMMA ReachStays ==
  ASSUME Objects, ZonesApart, NEW r \in Handlers, Step(r), NEW k \in Zones \X Hosts, Reachable(k)
  PROVE  \/ /\ Cancel(r) /\ pc'[r] = "updateLatest" /\ Key(r) = k
            /\ at[r].app = AppOf(k[1]) /\ ~Reachable(k)'
         \/ DelZone(r) /\ at[r].apps = appm /\ arg[r].zone = k[1] /\ ~Reachable(k)'
         \/ DeleteApps(r) /\ ~Reachable(k)'
         \/ /\ Reachable(k)' /\ AppOf(k[1])' = AppOf(k[1]) /\ appm' = appm
            /\ \/ inst'[Found(k)] = inst[Found(k)]
               \/ (NewInstance(r) \/ Set(r)) /\ Key(r) = k /\ Place(r) = Found(k)
<1>1. k[1] \in Zones /\ k[2] \in Hosts /\ k = <<k[1], k[2]>>
  OBVIOUS
<1>2. Found(k) \in DOMAIN inst /\ DOMAIN inst' \subseteq (1..nApp') \X Hosts
  BY StoreStep DEF Reachable, Found, Objects, StoreOK
<1>3. AppOf(k[1]) # None /\ appm # None
  <2>1. DOMAIN inst \subseteq (1..nApp) \X Hosts
    BY DEF Objects, StoreOK
  <2> QED
    BY <1>2, <2>1 DEF Found, AppOf, None
<1>4. AppOf(k[1])' = None => ~Reachable(k)'
  BY <1>2 DEF Reachable, None
<1>5. SUFFICES ASSUME AppOf(k[1])' = AppOf(k[1]), ~DeleteApps(r)
               PROVE  \/ /\ Cancel(r) /\ pc'[r] = "updateLatest" /\ Key(r) = k
                         /\ at[r].app = AppOf(k[1]) /\ ~Reachable(k)'
                      \/ /\ Reachable(k)' /\ appm' = appm
                         /\ \/ inst'[Found(k)] = inst[Found(k)]
                            \/ (NewInstance(r) \/ Set(r)) /\ Key(r) = k /\ Place(r) = Found(k)
  <2>1. DeleteApps(r) => AppOf(k[1])' = None
    BY DEF DeleteApps, AppOf
  <2> QED
    BY <1>1, <1>3, <1>4, <2>1, FoundStep
<1>6. appm' = appm
  BY <1>3, <1>5, MapStep
<1>7. Found(k)' = Found(k) /\ Reachable(k)' = (Found(k) \in DOMAIN inst')
  BY <1>5 DEF Found, Reachable
<1>8. CASE Place(r) # Found(k) \/ inst' = inst
  <2>1. Found(k) \in DOMAIN inst' /\ inst'[Found(k)] = inst[Found(k)]
    BY <1>2, <1>8, InstStep DEF Put, Drop
  <2> QED
    BY <1>6, <1>7, <2>1
<1>9. CASE Place(r) = Found(k) /\ inst' # inst
  <2>1. pc[r] \in HoldingApp /\ (NewInstance(r) \/ Set(r) \/ Cancel(r))
    BY <1>9, InstStep DEF NewInstance, Set, Cancel, HoldingApp, HoldingApps, Steps, RegisterSteps, Ops
  <2>2. at[r].app = AppOf(k[1]) /\ arg[r].host = k[2]
    BY <1>9 DEF Place, Found
  <2>3. Key(r) = k
    BY <1>1, <2>1, <2>2, SameZone DEF Key
  <2>4. CASE Cancel(r)
    <3>1. inst' = Drop(inst, Place(r)) /\ pc'[r] = "updateLatest"
      BY <1>9, <2>4, InstStep DEF NewInstance, Set, Cancel
    <3>2. ~Reachable(k)'
      BY <1>7, <1>9, <3>1 DEF Drop
    <3> QED
      BY <2>2, <2>3, <2>4, <3>1, <3>2
  <2>5. CASE NewInstance(r) \/ Set(r)
    <3>1. Found(k) \in DOMAIN inst'
      BY <1>2, <1>9, <2>5, InstStep DEF Put, Cancel, NewInstance, Set
    <3> QED
      BY <1>6, <1>7, <1>9, <2>3, <2>5, <3>1
  <2> QED
    BY <2>1, <2>4, <2>5
<1> QED
  BY <1>8, <1>9

\* What is known of an instance changes when a request for it is answered.
LEMMA KnownStep ==
  ASSUME Objects, NEW r \in Handlers, Step(r), NEW k \in Zones \X Hosts, known'[k] # known[k]
  PROVE  /\ Key(r) = k /\ r \in Active /\ pc'[r] = "idle"
         /\ \/ r \in overlapped /\ known'[k] = Unknown
            \/ /\ r \notin overlapped
               /\ \/ CountRegister(r) /\ known'[k] = arg[r].ts
                  \/ /\ NewInstance(r) /\ Place(r) \in DOMAIN inst
                     /\ known'[k] = Newest(known[k], arg[r].ts)
                  \/ /\ Set(r) /\ Place(r) \in DOMAIN inst
                     /\ known[k] > 0 /\ known'[k] = arg[r].ts
                  \/ CountCancel(r) /\ known'[k] = None
<1>1. r \in Active /\ \E v : AnswerKnowing(r, v)
  BY StepKinds DEF Request, Arrive, Goto
<1>2. Key(r) = k /\ pc'[r] = "idle"
  BY <1>1 DEF AnswerKnowing, Objects, ControlOK
<1>3. ASSUME NEW v, AnswerKnowing(r, v)
      PROVE  known'[k] = IF r \in overlapped THEN Unknown ELSE v
  BY <1>2, <1>3 DEF AnswerKnowing, Objects, ControlOK
<1>4. ~Answer(r) \/ r \in overlapped
  BY <1>2, <1>3 DEF Answer
<1>5. CASE r \in overlapped
  BY <1>1, <1>2, <1>3, <1>5
<1>6. CASE r \notin overlapped
  <2>1. CASE NewInstance(r)
    <3>1. Place(r) \in DOMAIN inst
      BY <1>2, <2>1 DEF NewInstance, Goto, Objects, ControlOK
    <3> QED
      BY <1>1, <1>2, <1>3, <1>6, <2>1, <3>1 DEF NewInstance
  <2>2. CASE CountRegister(r)
    BY <1>1, <1>2, <1>3, <1>6, <2>2 DEF CountRegister
  <2>3. CASE Set(r)
    <3>1. Place(r) \in DOMAIN inst
      BY <1>4, <1>6, <2>3 DEF Set
    <3>2. known'[k] = IF known[k] > 0 THEN arg[r].ts ELSE known[k]
      BY <1>2, <1>3, <1>6, <2>3, <3>1 DEF Set
    <3> QED
      BY <1>1, <1>2, <1>6, <2>3, <3>1, <3>2
  <2>4. CASE CountCancel(r)
    BY SMTT(30), <1>1, <1>2, <1>3, <1>6, <2>4 DEF CountCancel
  <2>5. CASE Request(r) \/ NewApps(r) \/ NewApp(r) \/ UpdateLatest(r) \/ CheckLen(r) \/ DelZone(r)
             \/ CheckEmpty(r) \/ DeleteApps(r)
    BY <2>5 DEF Request, Arrive, NewApps, NewApp, UpdateLatest, CheckLen, DelZone, CheckEmpty,
       DeleteApps, Goto
  <2>6. CASE Lookup(r) \/ Renew(r) \/ CountRenew(r) \/ Cancel(r)
    BY <1>4, <1>6, <2>6 DEF Lookup, Renew, CountRenew, Cancel, Goto
  <2> QED
    BY <2>1, <2>2, <2>3, <2>4, <2>5, <2>6 DEF Step
<1> QED
  BY <1>5, <1>6

\* A handler that was disturbed answers without knowing.
LEMMA DisturbedAnswer ==
  ASSUME Objects, NEW r \in overlapped, Step(r), pc'[r] = "idle"
  PROVE  known'[Key(r)] = Unknown
<1>1. r \in Handlers /\ r \in Active
  BY DEF Objects, ControlOK, Active
<1>2. arg[r] \in Requests
  BY <1>1, Holding DEF Objects, Active
<1>3. Key(r) \in Zones \X Hosts
  BY <1>2 DEF Requests, Key
<1>4. ~Request(r) /\ ~\E s \in Steps \ {"idle"} : Goto(r, s)
  BY <1>1 DEF Active, Request, Arrive, Goto, Objects, ControlOK
<1>5. PICK v : AnswerKnowing(r, v)
  BY <1>1, <1>4, StepKinds
<1> QED
  BY <1>3, <1>5 DEF AnswerKnowing, Objects, ControlOK

-----------------------------------------------------------------------------
(* Each part of the invariant is kept: first what depends on control only. *)

LEMMA OperationStep ==
  ASSUME Objects, OperationOK, NEW r \in Handlers, Step(r)
  PROVE  OperationOK'
<1>1. ASSUME NEW q \in Handlers \ {r}
      PROVE  /\ pc'[q] = "apps" => arg'[q].op # "Register"
             /\ pc'[q] = "incrFac" => arg'[q].op = "Renew"
             /\ pc'[q] \in CancelSteps => arg'[q].op = "Cancel"
  BY <1>1, OthersStay DEF OperationOK
<1>2. /\ pc'[r] = "apps" => arg'[r].op # "Register"
      /\ pc'[r] = "incrFac" => arg'[r].op = "Renew"
      /\ pc'[r] \in CancelSteps => arg'[r].op = "Cancel"
  <2> USE DEF Objects, ControlOK, CancelSteps
  <2>1. CASE Request(r)
    <3>1. PICK op, zone, host, ts : Arrive(r, op, zone, host, ts)
      BY <2>1 DEF Request
    <3> QED
      BY <3>1 DEF Arrive
  <2>2. CASE \E v : AnswerKnowing(r, v)
    BY <2>2 DEF AnswerKnowing
  <2>3. CASE r \in Active /\ \E s \in Steps \ {"idle"} : Goto(r, s)
    <3>1. PICK s \in Steps \ {"idle"} : Goto(r, s)
      BY <2>3
    <3>2. pc'[r] = s /\ arg' = arg /\ arg[r] \in Requests
      BY <2>3, <3>1, Holding DEF Goto, Active
    <3>3. CASE NewApps(r) \/ NewApp(r) \/ NewInstance(r) \/ CountRegister(r) \/ Lookup(r)
      BY <2>2, <3>2, <3>3 DEF NewApps, NewApp, NewInstance, CountRegister, Lookup, Goto, Answer, Ops, Requests
    <3>4. CASE Renew(r) \/ CountRenew(r) \/ Set(r) \/ Cancel(r)
      BY <2>2, <3>2, <3>4 DEF Renew, CountRenew, Set, Cancel, Goto, Answer, Ops
    <3>5. CASE UpdateLatest(r) \/ CheckLen(r) \/ DelZone(r) \/ CheckEmpty(r) \/ DeleteApps(r) \/ CountCancel(r)
      BY <2>2, <3>2, <3>5 DEF UpdateLatest, CheckLen, DelZone, CheckEmpty, DeleteApps, CountCancel, Goto,
         OperationOK
    <3> QED
      BY <2>1, <3>3, <3>4, <3>5 DEF Step
  <2> QED
    BY <2>1, <2>2, <2>3, StepKinds
<1> QED
  BY <1>1, <1>2 DEF OperationOK

LEMMA OverlapStep ==
  ASSUME Objects, OverlapOK, NEW r \in Handlers, Step(r)
  PROVE  OverlapOK'
<1> USE DEF Objects, ControlOK
<1>1. CASE Request(r)
  <2>1. PICK op, zone, host, ts : Arrive(r, op, zone, host, ts)
    BY <1>1 DEF Request
  <2> DEFINE new == [op |-> op, zone |-> zone, host |-> host, ts |-> ts]
  <2>2. /\ arg' = [arg EXCEPT ![r] = new] /\ Active' = Active \cup {r} /\ r \notin Active
        /\ overlapped' = overlapped \cup {q \in Active : Disturbs(new, arg[q])}
                           \cup {q \in {r} : \E s \in Active : Disturbs(arg[s], new)}
    BY <2>1 DEF Arrive, Active
  <2>3. ASSUME NEW q \in Active' \ overlapped', NEW s \in Active' \ {q}
        PROVE  ~Disturbs(arg'[s], arg'[q])
    <3>1. q \in Handlers /\ s \in Handlers
      BY DEF Active
    <3>2. CASE q = r
      BY <2>2, <2>3, <3>1, <3>2
    <3>3. CASE s = r
      BY <2>2, <2>3, <3>1, <3>3
    <3>4. CASE q # r /\ s # r
      BY <2>2, <2>3, <3>1, <3>4 DEF OverlapOK
    <3> QED
      BY <3>2, <3>3, <3>4
  <2> QED
    BY <2>3 DEF OverlapOK, Disturbs
<1>2. CASE r \in Active /\ \E s \in Steps \ {"idle"} : Goto(r, s)
  BY <1>2 DEF Goto, Active, OverlapOK, Disturbs
<1>3. CASE r \in Active /\ \E v : AnswerKnowing(r, v)
  <2>1. Active' = Active \ {r} /\ overlapped' = overlapped \ {r}
    BY <1>3 DEF AnswerKnowing, Active
  <2>2. \A q \in Active' : arg'[q] = arg[q]
    BY <1>3, <2>1 DEF AnswerKnowing, Active
  <2> QED
    BY <2>1, <2>2 DEF OverlapOK, Disturbs
<1> QED
  BY <1>1, <1>2, <1>3, StepKinds

LEMMA StampsStep ==
  ASSUME Objects, StampsOK, clock \in Nat, NEW r \in Handlers, Step(r)
  PROVE  StampsOK'
<1>1. ASSUME NEW q \in Active', q # r
      PROVE  arg'[q].op \in {"Register", "Set"} => arg'[q].ts > 0
  <2>1. q \in Handlers /\ q \in Active
    BY <1>1, OthersStay DEF Active
  <2> QED
    BY <1>1, <2>1, OthersStay DEF StampsOK
<1>2. CASE Request(r)
  <2>1. PICK op, zone, host, ts : /\ Arrive(r, op, zone, host, ts)
                                  /\ op \in {"Register", "Set"} => ts \in 1..(clock + 1)
    BY <1>2 DEF Request
  <2>2. arg'[r] = [op |-> op, zone |-> zone, host |-> host, ts |-> ts]
    BY <2>1 DEF Arrive, Objects, ControlOK
  <2> QED
    BY <1>1, <2>1, <2>2 DEF StampsOK
<1>3. CASE r \in Active /\ (UNCHANGED arg \/ r \notin Active')
  BY <1>1, <1>3 DEF StampsOK
<1> QED
  BY <1>2, <1>3, StepKinds DEF Goto, AnswerKnowing, Active, Objects, ControlOK

-----------------------------------------------------------------------------
(* Then what depends on the objects that handlers hold. *)

\* Only NewApp makes an App object, and gives it to the zone it asks for.
LEMMA OwnerStep ==
  ASSUME Objects, ZonesApart, NEW r \in Handlers, Step(r)
  PROVE  ZonesApart'
<1>1. PICK owner \in [1..nApp -> Zones] : OwnedBy(owner)
  BY DEF ZonesApart
<1>0. nApp \in Nat /\ Len(apps) \in Nat /\ apps \in Seq(AppsRecord)
  BY DEF Objects, StoreOK, AppsRecord
<1>2. ASSUME NEW q \in Handlers \ {r}, NEW owner2 \in [1..nApp' -> Zones],
             \A a \in 1..nApp : owner2[a] = owner[a]
      PROVE  pc'[q] \in HoldingApp => owner2[at'[q].app] = arg'[q].zone
  <2>1. pc[q] \in HoldingApp => at[q].app \in 1..nApp
    BY Holding DEF Objects
  <2> QED
    BY <1>1, <1>2, <2>1, OthersStay DEF OwnedBy
\* A step that leaves the tables as they are, or takes something from them.
<1>3. ASSUME nApp' = nApp,
             \A p \in 1..Len(apps'), z \in Zones :
               apps'[p].zone[z] # None => p \in 1..Len(apps) /\ apps[p].zone[z] = apps'[p].zone[z],
             pc'[r] \in HoldingApp =>
               /\ arg'[r] = arg[r]
               /\ \/ pc[r] \in HoldingApp /\ at'[r].app = at[r].app
                  \/ arg[r].zone \in Zones /\ at'[r].app = AppOf(arg[r].zone) /\ at'[r].app # None
      PROVE  ZonesApart'
  <2>1. pc'[r] \in HoldingApp => owner[at'[r].app] = arg'[r].zone
    <3>1. CASE pc[r] \in HoldingApp /\ at'[r].app = at[r].app
      BY <1>1, <1>3, <3>1 DEF OwnedBy
    <3>2. CASE arg[r].zone \in Zones /\ at'[r].app = AppOf(arg[r].zone) /\ at'[r].app # None
      <4>1. appm \in 1..Len(apps) /\ AppOf(arg[r].zone) = apps[appm].zone[arg[r].zone]
        BY <3>2, FoundType DEF AppOf
      <4> QED
        BY <1>1, <1>3, <3>2, <4>1 DEF OwnedBy
    <3> QED
      BY <1>3, <3>1, <3>2
  <2>2. \A q \in Handlers : pc'[q] \in HoldingApp => owner[at'[q].app] = arg'[q].zone
    <3> SUFFICES ASSUME NEW q \in Handlers \ {r}
                 PROVE  pc'[q] \in HoldingApp => owner[at'[q].app] = arg'[q].zone
      BY <2>1
    <3> QED
      BY <1>2, <1>3
  <2>3. \A p \in 1..Len(apps'), z \in Zones :
          apps'[p].zone[z] # None => owner[apps'[p].zone[z]] = z
    BY <1>1, <1>3 DEF OwnedBy
  <2>4. OwnedBy(owner)'
    BY <2>2, <2>3 DEF OwnedBy
  <2>5. owner \in [1..nApp' -> Zones]
    BY <1>3
  <2> QED
    BY <2>4, <2>5 DEF ZonesApart
<1> USE DEF HoldingApp, HoldingApps
<1>4. CASE Request(r)
  <2>1. UNCHANGED <<nApp, apps>> /\ pc'[r] \in {"apps", "newApps"}
    BY <1>4 DEF Request, Arrive, store, Objects, ControlOK
  <2> QED
    BY <1>3, <2>1
<1>5. CASE NewApps(r)
  <2>1. nApp' = nApp /\ pc'[r] = "newApp"
    BY <1>5 DEF NewApps, Goto, Objects, ControlOK
  <2>2. \A p \in 1..Len(apps'), z \in Zones :
          apps'[p].zone[z] # None => p \in 1..Len(apps) /\ apps[p].zone[z] = apps'[p].zone[z]
    <3>1. CASE apps' = apps
      BY <3>1
    <3>2. CASE apps' = Append(apps, [latest |-> None, zone |-> [z \in Zones |-> None]])
      <4>1. /\ Len(apps') = Len(apps) + 1
            /\ apps'[Len(apps) + 1] = [latest |-> None, zone |-> [z \in Zones |-> None]]
            /\ \A p \in 1..Len(apps) : apps'[p] = apps[p]
        BY <1>0, <3>2
      <4> QED
        BY <1>0, <4>1
    <3> QED
      BY <1>5, <3>1, <3>2 DEF NewApps
  <2> QED
    BY <1>3, <2>1, <2>2
<1>6. CASE NewApp(r)
  <2> DEFINE p == at[r].apps
             zone == arg[r].zone
             old == apps[p].zone[zone]
             app == IF old = None THEN nApp + 1 ELSE old
             new == [latest |-> Bump(apps[p].latest, arg[r].ts),
                     zone |-> [apps[p].zone EXCEPT ![zone] = app]]
  <2>1. p \in 1..Len(apps) /\ apps[p] \in AppsRecord /\ zone \in Zones
    BY <1>6, Holding DEF Objects, NewApp, Steps, RegisterSteps, Requests
  <2>2. /\ apps' = [apps EXCEPT ![p] = new]
        /\ nApp' = IF old = None THEN app ELSE nApp
        /\ at'[r].app = app /\ arg' = arg
    BY <1>6 DEF NewApp, Goto, Objects, PointersOK, Pointers
  <2>3. old \in 0..nApp /\ \A z \in Zones : apps[p].zone[z] \in 0..nApp
    BY <2>1 DEF AppsRecord
  <2>4. PICK owner2 \in [1..nApp' -> Zones] :
          \A a \in 1..nApp' : owner2[a] = IF a = nApp + 1 THEN zone ELSE owner[a]
    <3>1. \A a \in 1..nApp' : a = nApp + 1 \/ a \in 1..nApp
      BY <1>0, <2>2, <2>3
    <3> DEFINE f == [a \in 1..nApp' |-> IF a = nApp + 1 THEN zone ELSE owner[a]]
    <3>2. f \in [1..nApp' -> Zones] /\ \A a \in 1..nApp' : f[a] = IF a = nApp + 1 THEN zone ELSE owner[a]
      BY SMTT(30), <2>1, <3>1
    <3> QED
      BY <3>2
  <2>9. nApp' \in {nApp, nApp + 1} /\ (old = None => nApp' = nApp + 1)
    BY <2>2
  <2>10. \A a \in 1..nApp : a \in 1..nApp' /\ owner2[a] = owner[a]
    BY <1>0, <2>4, <2>9
  <2>5. owner2[app] = zone /\ app # None
    <3>1. CASE old = None
      <4>1. app = nApp + 1
        BY <3>1
      <4>2. nApp + 1 \in 1..nApp'
        BY <1>0, <2>9, <3>1
      <4>3. owner2[nApp + 1] = zone
        BY <2>4, <4>2
      <4> HIDE DEF app
      <4> QED
        BY <1>0, <4>1, <4>3 DEF None
    <3>2. CASE old # None
      <4>1. app = old /\ old \in 1..nApp
        BY <1>0, <2>3, <3>2 DEF None
      <4>2. owner[old] = zone
        BY <1>1, <2>1, <3>2 DEF OwnedBy
      <4> QED
        BY <2>10, <4>1, <4>2, <3>2
    <3> QED
      BY <3>1, <3>2
  <2>6. ASSUME NEW i \in 1..Len(apps'), NEW z \in Zones, apps'[i].zone[z] # None
        PROVE  owner2[apps'[i].zone[z]] = z
    <3>1. i \in 1..Len(apps) /\ apps'[i] = IF i = p THEN new ELSE apps[i]
      <4> HIDE DEF new, p
      <4> QED
        BY <1>0, <2>1, <2>2
    <3>2. CASE i = p /\ z = zone
      <4>1. apps'[i].zone[z] = app
        BY <2>1, <3>1, <3>2 DEF AppsRecord
      <4> QED
        BY <2>5, <3>2, <4>1
    <3>3. CASE ~(i = p /\ z = zone)
      <4>1. apps'[i].zone[z] = apps[i].zone[z]
        BY <2>1, <3>1, <3>3 DEF AppsRecord
      <4>2. apps[i].zone[z] \in 0..nApp
        <5>1. apps[i] \in AppsRecord
          BY <1>0, <3>1, SeqElement
        <5> QED
          BY <5>1 DEF AppsRecord
      <4>3. owner[apps[i].zone[z]] = z
        BY SMTT(30), <1>1, <2>6, <3>1, <4>1 DEF OwnedBy
      <4> QED
        BY <1>0, <2>10, <2>6, <4>1, <4>2, <4>3 DEF None
    <3> QED
      BY <3>2, <3>3
  <2>7. \A q \in Handlers : pc'[q] \in HoldingApp => owner2[at'[q].app] = arg'[q].zone
    <3> HIDE DEF app, HoldingApp
    <3>1. \A q \in Handlers \ {r} : pc'[q] \in HoldingApp => owner2[at'[q].app] = arg'[q].zone
      BY <1>2, <2>10
    <3> QED
      BY <2>2, <2>5, <3>1
  <2>8. OwnedBy(owner2)'
    BY <2>6, <2>7 DEF OwnedBy
  <2> QED
    BY <2>4, <2>8 DEF ZonesApart
<1>7. CASE Lookup(r)
  <2>1. UNCHANGED <<nApp, apps>>
    BY <1>7 DEF Lookup, store
  <2>2. arg[r].zone \in Zones
    BY <1>7, Holding DEF Lookup, Objects, Requests
  <2>3. \/ pc'[r] = "idle"
        \/ arg' = arg /\ at'[r].app = AppOf(arg[r].zone) /\ at'[r].app # None
    BY <1>7 DEF Lookup, Goto, Answer, AnswerKnowing, Objects, PointersOK, Pointers, ControlOK
  <2> QED
    BY <1>3, <2>1, <2>2, <2>3
<1>8. CASE UpdateLatest(r) \/ DelZone(r)
  <2> DEFINE p == at[r].apps
  <2>1. p \in 1..Len(apps) /\ apps[p] \in AppsRecord /\ arg[r].zone \in Zones
    BY <1>8, Holding DEF Objects, UpdateLatest, DelZone, Steps, CancelSteps, Requests
  <2>2. /\ nApp' = nApp /\ arg' = arg /\ at' = at
        /\ pc[r] \in HoldingApp
    BY <1>8 DEF UpdateLatest, DelZone, Goto, Steps, CancelSteps
  <2>3. \A i \in 1..Len(apps'), z \in Zones :
          apps'[i].zone[z] # None => i \in 1..Len(apps) /\ apps[i].zone[z] = apps'[i].zone[z]
    <3>1. CASE UpdateLatest(r)
      <4>1. PICK n : apps' = [apps EXCEPT ![p] = [apps[p] EXCEPT !.latest = n]]
        BY <3>1 DEF UpdateLatest
      <4> QED
        BY <1>0, <2>1, <4>1 DEF AppsRecord
    <3>2. CASE DelZone(r)
      <4> DEFINE new == [apps[p] EXCEPT !.zone = [apps[p].zone EXCEPT ![arg[r].zone] = None]]
      <4>1. apps' = [apps EXCEPT ![p] = new]
        BY <3>2 DEF DelZone
      <4>2. \A z \in Zones : new.zone[z] = IF z = arg[r].zone THEN None ELSE apps[p].zone[z]
        BY <2>1 DEF AppsRecord
      <4>3. \A i \in 1..Len(apps') : i \in 1..Len(apps) /\ apps'[i] = IF i = p THEN new ELSE apps[i]
        BY <1>0, <2>1, <4>1
      <4> QED
        BY <4>2, <4>3
    <3> QED
      BY <1>8, <3>1, <3>2
  <2> QED
    BY <1>3, <2>2, <2>3
<1>9. CASE NewInstance(r) \/ CountRegister(r) \/ Renew(r) \/ CountRenew(r) \/ Set(r) \/ Cancel(r)
           \/ CheckLen(r) \/ CheckEmpty(r) \/ DeleteApps(r) \/ CountCancel(r)
  <2>1. UNCHANGED <<nApp, apps>>
    BY <1>9 DEF NewInstance, CountRegister, Renew, CountRenew, Set, Cancel, CheckLen, CheckEmpty,
       DeleteApps, CountCancel, store
  <2>2. pc[r] \in HoldingApp
    BY <1>9 DEF NewInstance, CountRegister, Renew, CountRenew, Set, Cancel, CheckLen, CheckEmpty,
       DeleteApps, CountCancel, Steps, RegisterSteps, CancelSteps, Ops
  <2>3. pc'[r] = "idle" \/ (arg' = arg /\ at'[r].app = at[r].app)
    <3>1. CASE \E v : AnswerKnowing(r, v)
      BY <3>1 DEF AnswerKnowing, Objects, ControlOK
    <3>2. CASE \A v : ~AnswerKnowing(r, v)
      <4>0. ~Request(r)
        BY <2>2 DEF Steps, Request, Arrive
      <4>3. PICK s \in Steps \ {"idle"} : Goto(r, s)
        BY <3>2, <4>0, StepKinds
      <4>1. arg' = arg
        BY <4>3 DEF Goto
      <4>2. at'[r].app = at[r].app
        BY <1>9, <3>2 DEF NewInstance, CountRegister, Renew, CountRenew, Set, Cancel, CheckLen,
           CheckEmpty, DeleteApps, CountCancel, Goto, Answer, Objects, PointersOK, Pointers
      <4> QED
        BY <4>1, <4>2
    <3> QED
      BY <3>1, <3>2
  <2> QED
    BY <1>3, <2>1, <2>2, <2>3
<1> QED
  BY <1>4, <1>5, <1>6, <1>7, <1>8, <1>9 DEF Step

\* Who is undisturbed after a step was so before, or has just arrived; and
\* the step is none that could disturb it.
LEMMA UndisturbedBefore ==
  ASSUME Objects, OverlapOK, NEW r \in Handlers, Step(r), NEW q \in Active' \ overlapped'
  PROVE  /\ q \in Handlers
         /\ q # r => q \in Active \ overlapped
         /\ q # r /\ r \in Active => ~Disturbs(arg[r], arg[q])
         /\ q = r /\ r \in Active => /\ r \notin overlapped /\ arg'[r] = arg[r]
                                     /\ \E s \in Steps \ {"idle"} : Goto(r, s)
<1>1. q \in Handlers
  BY DEF Active
<1>2. CASE q # r
  <2>1. q \in Active \ overlapped
    BY <1>1, <1>2, OthersStay
  <2> QED
    BY <1>1, <1>2, <2>1 DEF OverlapOK
<1>3. CASE q = r /\ r \in Active
  <2>1. ~Request(r)
    BY <1>3 DEF Active, Request, Arrive
  <2>2. ASSUME NEW v, AnswerKnowing(r, v) PROVE FALSE
    <3>1. pc'[r] = "idle"
      BY <1>1, <1>3, <2>2 DEF AnswerKnowing, Objects, ControlOK
    <3> QED
      BY <1>3, <3>1 DEF Active
  <2>3. \E s \in Steps \ {"idle"} : Goto(r, s)
    BY <2>1, <2>2, StepKinds
  <2> QED
    BY <1>1, <1>3, <2>3 DEF Goto
<1> QED
  BY <1>1, <1>2, <1>3

LEMMA RegisteringStep ==
  ASSUME Objects, OperationOK, OverlapOK, ZonesApart, RegisteringOK,
         NEW r \in Handlers, Step(r), NEW q \in Active' \ overlapped', arg'[q].op = "Register"
  PROVE  Registering(q)'
<1> USE DEF HoldingApp, HoldingApps, Steps, RegisterSteps, Ops, CancelSteps
<1>1. CASE q # r
  <2>1. /\ q \in Active \ overlapped /\ q \in Handlers \ {r}
        /\ pc'[q] = pc[q] /\ arg'[q] = arg[q] /\ at'[q] = at[q] /\ Place(q)' = Place(q)
    BY <1>1, UndisturbedBefore, OthersStay
  <2>2. Registering(q)
    BY <2>1 DEF RegisteringOK
  <2>3. ~Cancel(r) /\ ~DelZone(r) /\ ~DeleteApps(r)
    <3>1. SUFFICES ASSUME pc[r] \in {"Cancel", "del", "delete"} PROVE FALSE
      BY DEF Cancel, DelZone, DeleteApps
    <3>2. arg[r].op = "Cancel" /\ r \in Active
      BY <3>1 DEF OperationOK, Objects, ControlOK, Active
    <3> QED
      BY <1>1, <2>1, <3>2, UndisturbedBefore DEF Disturbs
  <2>4. arg[q] \in Requests /\ arg[q].zone \in Zones
    BY <2>1, Holding DEF Objects, Active, Requests
  <2>5. pc[q] # "newApps" => at'[q].apps = appm'
    <3>1. pc[q] \in HoldingApps \/ pc[q] = "newApps"
      BY <2>1 DEF OperationOK, Objects, ControlOK, Active
    <3>2. pc[q] # "newApps" => appm # None
      BY <2>1, <2>2, <3>1 DEF Registering, Objects, PointersOK
    <3> QED
      BY <2>1, <2>2, <2>3, <3>2, MapStep DEF Registering
  <2>6. pc[q] \in {"newInstance", "incrExp"} => at'[q].app = AppOf(arg[q].zone)'
    <3>1. pc[q] \in {"newInstance", "incrExp"} => at[q].app # None
      BY <2>1 DEF Objects, PointersOK
    <3> QED
      BY <2>1, <2>2, <2>3, <2>4, <3>1, FoundStep DEF Registering
  <2>7. ASSUME pc[q] = "incrExp"
        PROVE  Place(q) \in DOMAIN inst' /\ inst'[Place(q)] = arg[q].ts
    <3>1. Place(q) \in DOMAIN inst /\ inst[Place(q)] = arg[q].ts
      BY <2>2, <2>7 DEF Registering
    <3>2. (NewInstance(r) \/ Set(r)) => Place(r) # Place(q)
      <4>1. SUFFICES ASSUME NewInstance(r) \/ Set(r), Place(r) = Place(q) PROVE FALSE
        OBVIOUS
      <4>2. at[r].app = at[q].app /\ arg[r].host = arg[q].host /\ pc[r] \in HoldingApp /\ pc[q] \in HoldingApp
        BY <2>7, <4>1 DEF Place, NewInstance, Set
      <4>3. arg[r].zone = arg[q].zone
        BY <2>1, <4>2, SameZone
      <4>4. arg[r].op # "Renew" /\ r \in Active
        BY <4>1 DEF NewInstance, Set, Objects, ControlOK, Active
      <4> QED
        BY <1>1, <4>2, <4>3, <4>4, UndisturbedBefore DEF Disturbs
    <3> QED
      BY <2>3, <3>1, <3>2, InstStep DEF Put
  <2> QED
    BY <2>1, <2>5, <2>6, <2>7 DEF Registering
<1>2. CASE q = r /\ r \notin Active
  <2>1. Request(r)
    BY <1>2, StepKinds
  <2>2. PICK op, zone, host, ts : Arrive(r, op, zone, host, ts)
    BY <2>1 DEF Request
  <2>3. pc'[r] = "newApps"
    BY <1>2, <2>2 DEF Arrive, Objects, ControlOK
  <2> QED
    BY <1>2, <2>3 DEF Registering
<1>3. CASE q = r /\ r \in Active
  <2>1. /\ r \notin overlapped /\ arg'[r] = arg[r] /\ pc' \in [Handlers -> Steps] /\ pc'[r] # "idle"
        /\ arg[r].op = "Register" /\ arg[r].zone \in Zones
    BY <1>3, UndisturbedBefore, Holding, ControlStep DEF Goto, Objects, ControlOK, Active, Requests
  <2>2. Registering(r)
    BY <1>3, <2>1 DEF RegisteringOK
  <2>3. NewApps(r) \/ NewApp(r) \/ NewInstance(r)
    <3>1. pc[r] \in RegisterSteps \cup {"Register"}
      BY <1>3, <2>1 DEF OperationOK, Objects, ControlOK, Active
    <3>2. ~CountRegister(r)
      BY <2>1 DEF CountRegister, AnswerKnowing, Objects, ControlOK
    <3> QED
      BY <3>1, <3>2 DEF Step, Request, Arrive, Lookup, Renew, CountRenew, Set, Cancel, UpdateLatest,
         CheckLen, DelZone, CheckEmpty, DeleteApps, CountCancel
  <2>4. CASE NewApps(r)
    <3>1. pc'[r] = "newApp" /\ at'[r].apps = appm'
      BY <2>4 DEF NewApps, Goto, Objects, ControlOK, PointersOK, Pointers
    <3> QED
      BY <1>3, <3>1 DEF Registering
  <2>5. CASE NewApp(r)
    <3> DEFINE zone == arg[r].zone
    <3>1. at[r].apps = appm /\ appm' = appm /\ appm # None /\ pc'[r] = "newInstance"
      BY <2>2, <2>5 DEF Registering, NewApp, Goto, Objects, ControlOK, PointersOK
    <3>2. AppOf(zone) = apps[at[r].apps].zone[zone]
      BY <3>1 DEF AppOf
    <3>3. at'[r].apps = at[r].apps
          /\ at'[r].app = IF AppOf(zone) = None THEN nApp + 1 ELSE AppOf(zone)
      BY <2>5, <3>2 DEF NewApp, Objects, PointersOK, Pointers
    <3>4. AppOf(zone)' = at'[r].app
      <4>1. at[r].apps \in 1..Len(apps) /\ apps[at[r].apps] \in AppsRecord
        BY SMTT(30), <2>5, Holding DEF Objects, NewApp
      <4>2. apps' = [apps EXCEPT ![at[r].apps] =
                       [latest |-> Bump(apps[at[r].apps].latest, arg[r].ts),
                        zone |-> [apps[at[r].apps].zone EXCEPT ![zone] = at'[r].app]]]
        BY <2>5, <3>2, <3>3 DEF NewApp
      <4>3. apps'[at[r].apps].zone[zone] = at'[r].app
        BY <2>1, <4>1, <4>2 DEF Objects, StoreOK, AppsRecord
      <4> QED
        BY <2>1, <3>1, <4>3 DEF AppOf
    <3> QED
      BY <1>3, <2>1, <3>1, <3>3, <3>4 DEF Registering
  <2>6. CASE NewInstance(r)
    <3>1. Place(r) \notin DOMAIN inst /\ at' = at /\ pc'[r] = "incrExp"
      BY <1>3, <2>1, <2>6 DEF NewInstance, Goto, AnswerKnowing, Objects, ControlOK
    <3>2. inst' = Put(inst, Place(r), arg[r].ts) /\ appm' = appm /\ apps' = apps
      BY <2>6, <3>1 DEF NewInstance
    <3>3. Place(r)' = Place(r) /\ AppOf(arg[r].zone)' = AppOf(arg[r].zone)
      BY <2>1, <3>1, <3>2 DEF Place, AppOf
    <3> QED
      BY <1>3, <2>1, <2>2, <2>6, <3>1, <3>2, <3>3 DEF Registering, Put, NewInstance
  <2> QED
    BY <2>3, <2>4, <2>5, <2>6
<1> QED
  BY <1>1, <1>2, <1>3

LEMMA CancellingStep ==
  ASSUME Objects, OperationOK, OverlapOK, ZonesApart, CancellingOK,
         NEW r \in Handlers, Step(r), NEW q \in Active' \ overlapped'
  PROVE  Cancelling(q)'
<1> USE DEF HoldingApp, HoldingApps, Steps, RegisterSteps, Ops, CancelSteps
<1>1. CASE q # r
  <2>1. /\ q \in Active \ overlapped /\ q \in Handlers \ {r}
        /\ pc'[q] = pc[q] /\ arg'[q] = arg[q] /\ at'[q] = at[q] /\ Key(q)' = Key(q)
    BY <1>1, UndisturbedBefore, OthersStay
  <2>2. Cancelling(q)
    BY <2>1 DEF CancellingOK
  <2>3. Key(q) \in Zones \X Hosts /\ Key(q)[1] = arg[q].zone
    BY <2>1, Holding DEF Objects, Active, Requests, Key
  <2>4. ~Reachable(Key(q)) => ~Reachable(Key(q))'
    <3>1. SUFFICES ASSUME NewInstance(r), Key(r) = Key(q) PROVE FALSE
      BY <2>1, <2>3, ReachEnters DEF Reachable
    <3>2. r \in Active /\ arg[r].op # "Renew" /\ arg[r].zone = arg[q].zone /\ arg[r].host = arg[q].host
      BY <3>1 DEF NewInstance, Objects, ControlOK, Active, Key
    <3> QED
      BY <1>1, <3>2, UndisturbedBefore DEF Disturbs
  <2>5. ASSUME pc[q] = "Cancel", at[q].app = AppOf(arg[q].zone), Reachable(Key(q))'
        PROVE  at[q].app = AppOf(arg[q].zone)'
    <3>1. Reachable(Key(q))
      BY <2>3, <2>4, <2>5
    <3> QED
      BY <2>1, <2>3, <2>5, <3>1, ReachStays DEF Reachable
  <2> QED
    BY <2>1, <2>2, <2>4, <2>5 DEF Cancelling
<1>2. CASE q = r /\ r \notin Active
  <2>1. Request(r)
    BY <1>2, StepKinds
  <2>2. PICK op, zone, host, ts : Arrive(r, op, zone, host, ts)
    BY <2>1 DEF Request
  <2>3. pc'[r] \in {"newApps", "apps"}
    BY <1>2, <2>2 DEF Arrive, Objects, ControlOK
  <2> QED
    BY <1>2, <2>3 DEF Cancelling
<1>3. CASE q = r /\ r \in Active
  <2>1. PICK s \in Steps \ {"idle"} : Goto(r, s)
    BY <1>3, UndisturbedBefore
  <2>2. r \notin overlapped /\ arg' = arg /\ pc'[r] = s /\ Key(r)' = Key(r)
    BY <1>3, <2>1, UndisturbedBefore DEF Goto, Objects, ControlOK, Key
  <2>3. Cancelling(r)
    BY <1>3, <2>2 DEF CancellingOK
  <2>4. arg[r] \in Requests /\ Key(r) \in Zones \X Hosts /\ Key(r)[1] = arg[r].zone
    BY <1>3, Holding DEF Objects, Active, Requests, Key
  <2>5. ~Reachable(Key(r)) => ~Reachable(Key(r))' \/ NewInstance(r)
    BY <2>2, <2>4, ReachEnters DEF Reachable
  <2>6. CASE s = "Cancel"
    <3>1. Lookup(r)
      BY <2>2, <2>6 DEF Step, Request, Arrive, NewApps, NewApp, NewInstance, CountRegister, Renew,
         CountRenew, Set, Cancel, UpdateLatest, CheckLen, DelZone, CheckEmpty, DeleteApps, CountCancel,
         Goto, Answer, AnswerKnowing, Objects, ControlOK, Lookup
    <3>2. at'[r].app = AppOf(arg[r].zone) /\ AppOf(arg[r].zone)' = AppOf(arg[r].zone)
      BY <2>2, <2>6, <3>1 DEF Lookup, Goto, Answer, AnswerKnowing, Objects, ControlOK, PointersOK,
         Pointers, store, AppOf
    <3> QED
      BY SMTT(30), <1>3, <2>2, <2>6, <3>2 DEF Cancelling
  <2>7. CASE s \in CancelSteps
    <3>1. CASE Cancel(r)
      <4>1. /\ Place(r) \in DOMAIN inst /\ inst' = Drop(inst, Place(r)) /\ pc[r] = "Cancel"
            /\ UNCHANGED <<appm, apps>>
        BY <2>2, <2>7, <3>1 DEF Cancel, Answer, AnswerKnowing, Objects, ControlOK
      <4>2. ~Reachable(Key(r))'
        <5>1. CASE at[r].app = AppOf(arg[r].zone)
          BY <2>2, <4>1, <5>1 DEF Reachable, Place, Key, Drop, AppOf
        <5>2. CASE ~Reachable(Key(r))
          BY <2>5, <3>1, <5>2 DEF Cancel, NewInstance
        <5> QED
          BY <2>3, <4>1, <5>1, <5>2 DEF Cancelling
      <4> QED
        BY <1>3, <2>2, <2>7, <4>2 DEF Cancelling
    <3>2. CASE pc[r] \in CancelSteps
      BY SMTT(30), <1>3, <2>2, <2>3, <2>5, <2>7, <3>2 DEF Cancelling, NewInstance
    <3>3. Cancel(r) \/ pc[r] \in CancelSteps
      <4>1. pc'[r] \in CancelSteps /\ arg[r].op \in Ops /\ pc \in [Handlers -> Steps]
        BY <2>2, <2>4, <2>7 DEF Objects, ControlOK, Requests
      <4>2. ~(Request(r) \/ NewApps(r) \/ NewApp(r) \/ NewInstance(r) \/ CountRegister(r))
        <5>1. ~Request(r)
          BY <4>1 DEF Request, Arrive, CancelSteps
        <5> QED
          BY <4>1, <5>1 DEF NewApps, NewApp, NewInstance, CountRegister, Goto, Answer, AnswerKnowing,
             CancelSteps
      <4>3. ~(Lookup(r) \/ Renew(r) \/ CountRenew(r) \/ Set(r))
        BY <4>1 DEF Lookup, Renew, CountRenew, Set, Goto, Answer, AnswerKnowing, CancelSteps, Ops
      <4>4. UpdateLatest(r) \/ CheckLen(r) \/ DelZone(r) \/ CheckEmpty(r) \/ DeleteApps(r)
              \/ CountCancel(r) => pc[r] \in CancelSteps
        BY DEF UpdateLatest, CheckLen, DelZone, CheckEmpty, DeleteApps, CountCancel, CancelSteps
      <4> QED
        BY <4>2, <4>3, <4>4 DEF Step
    <3> QED
      BY <3>1, <3>2, <3>3
  <2>8. CASE s \notin CancelSteps \cup {"Cancel"}
    BY <1>3, <2>2, <2>8 DEF Cancelling
  <2> QED
    BY <2>6, <2>7, <2>8
<1> QED
  BY <1>1, <1>2, <1>3

-----------------------------------------------------------------------------
(* What the answers claim: how a claim begins, and what keeps it true. *)

LEMMA FoundObjects ==
  ASSUME Objects, NEW k \in Zones \X Hosts, Reachable(k)
  PROVE  /\ k[1] \in Zones /\ k[2] \in Hosts /\ k = <<k[1], k[2]>> /\ Found(k) \in DOMAIN inst
         /\ appm # None /\ appm \in 1..Len(apps)
         /\ AppOf(k[1]) # None /\ AppOf(k[1]) = apps[appm].zone[k[1]]
<1>1. Found(k) \in DOMAIN inst /\ DOMAIN inst \subseteq (1..nApp) \X Hosts
  BY DEF Reachable, Found, Objects, StoreOK
<1>2. AppOf(k[1]) # None /\ appm # None
  BY <1>1 DEF Found, AppOf, None
<1> QED
  BY <1>1, <1>2, FoundType DEF AppOf

\* A handler that has removed its instance goes on to the index, the empty
\* objects and the count.
LEMMA CancelSide ==
  ASSUME NEW r \in Handlers, Step(r), pc[r] \in CancelSteps
  PROVE  UpdateLatest(r) \/ CheckLen(r) \/ DelZone(r) \/ CheckEmpty(r) \/ DeleteApps(r) \/ CountCancel(r)
<1>1. ~Request(r)
  BY DEF Request, Arrive, CancelSteps
<1>2. ~(NewApps(r) \/ NewApp(r) \/ NewInstance(r) \/ CountRegister(r))
  BY DEF NewApps, NewApp, NewInstance, CountRegister, CancelSteps
<1>3. ~(Lookup(r) \/ Renew(r) \/ CountRenew(r) \/ Set(r) \/ Cancel(r))
  BY DEF Lookup, Renew, CountRenew, Set, Cancel, CancelSteps
<1> QED
  BY <1>1, <1>2, <1>3 DEF Step

\* A cancellation that has removed an instance, or was disturbed, goes on, or
\* its answer ends the claim.
LEMMA CancellationEndsClaim ==
  ASSUME Objects, OperationOK, NEW r \in Handlers, Step(r), NEW k \in Zones \X Hosts, Claimed(k)',
         NEW b \in Active, arg[b].op = "Cancel", Key(b) = k
  PROVE  b \notin overlapped /\ pc[b] \in {"apps", "Cancel"}
<1>0. b \in Handlers /\ known'[k] > 0
  BY DEF Active, Claimed
<1>1. SUFFICES ASSUME b \in overlapped \/ pc[b] \notin {"apps", "Cancel"} PROVE FALSE
  OBVIOUS
<1>2. CASE b # r
  <2>1. b \in Active' /\ arg'[b] = arg[b] /\ Key(b)' = k /\ pc'[b] = pc[b]
    BY <1>0, <1>2, OthersStay
  <2>2. b \in overlapped => b \in overlapped'
    BY <1>0, <1>2, OthersStay
  <2> QED
    BY <1>1, <2>1, <2>2 DEF Claimed
<1>3. CASE b = r
  <2>1. CASE \E v : AnswerKnowing(r, v)
    <3>1. pc'[r] = "idle"
      BY <2>1 DEF AnswerKnowing, Objects, ControlOK
    <3>2. r \notin overlapped
      BY <1>0, <1>3, <3>1, DisturbedAnswer DEF Unknown
    <3>3. pc[r] \in CancelSteps
      BY <1>1, <1>3, <3>2 DEF OperationOK, Objects, ControlOK, Active, Steps, RegisterSteps, Ops
    <3>4. AnswerKnowing(r, None)
      <4>1. CASE CountCancel(r)
        BY <4>1 DEF CountCancel
      <4>2. CASE UpdateLatest(r) \/ CheckLen(r) \/ DelZone(r) \/ CheckEmpty(r) \/ DeleteApps(r)
        <5>1. PICK s \in CancelSteps : Goto(r, s)
          BY <4>2 DEF UpdateLatest, CheckLen, DelZone, CheckEmpty, DeleteApps, CancelSteps
        <5> QED
          BY <3>1, <5>1 DEF Goto, Objects, ControlOK, CancelSteps
      <4> QED
        BY <3>3, <4>1, <4>2, CancelSide
    <3> QED
      BY <1>0, <1>3, <3>2, <3>4 DEF AnswerKnowing, Objects, ControlOK, None
  <2>2. CASE r \in Active /\ \E s \in Steps \ {"idle"} : Goto(r, s)
    <3>1. PICK s \in Steps \ {"idle"} : Goto(r, s)
      BY <2>2
    <3>2. r \in Active' /\ arg'[r] = arg[r] /\ Key(r)' = k /\ pc'[r] = s /\ overlapped' = overlapped
      BY <1>3, <2>2, <3>1 DEF Goto, Active, Objects, ControlOK, Key
    <3>3. r \notin overlapped /\ s \in {"apps", "Cancel"}
      BY <1>3, <3>2 DEF Claimed
    <3>4. pc[r] \in CancelSteps
      BY <1>1, <1>3, <3>3 DEF OperationOK, Objects, ControlOK, Active, Steps, RegisterSteps, Ops
    <3>5. s \in CancelSteps
      <4>1. CASE CountCancel(r)
        BY <3>1, <3>2, <4>1 DEF CountCancel, AnswerKnowing, Objects, ControlOK
      <4>2. CASE UpdateLatest(r) \/ CheckLen(r) \/ DelZone(r) \/ CheckEmpty(r) \/ DeleteApps(r)
        <5>1. PICK t \in CancelSteps : Goto(r, t)
          BY <4>2 DEF UpdateLatest, CheckLen, DelZone, CheckEmpty, DeleteApps, CancelSteps
        <5> QED
          BY <3>2, <5>1 DEF Goto, Objects, ControlOK
      <4> QED
        BY <3>4, <4>1, <4>2, CancelSide
    <3> QED
      BY <3>3, <3>5 DEF CancelSteps
  <2>3. ~Request(r)
    BY <1>3 DEF Active, Request, Arrive
  <2> QED
    BY <2>1, <2>2, <2>3, StepKinds
<1> QED
  BY <1>2, <1>3

\* Only the answer of a registration that nothing disturbed makes a new claim.
LEMMA ClaimBegins ==
  ASSUME Objects, OperationOK, NEW r \in Handlers, Step(r),
         NEW k \in Zones \X Hosts, ~Claimed(k), Claimed(k)'
  PROVE  /\ r \in Active \ overlapped /\ Key(r) = k /\ pc'[r] = "idle" /\ arg[r].op = "Register"
         /\ \/ CountRegister(r)
            \/ NewInstance(r) /\ Place(r) \in DOMAIN inst
         /\ known'[k] = arg[r].ts
<1>1. known[k] \in Nat \cup {Unknown} /\ known'[k] > 0
  BY DEF Claimed, Objects, ControlOK
<1>2. ~(known[k] > 0)
  BY CancellationEndsClaim DEF Claimed
<1>3. known'[k] # known[k]
  BY <1>1, <1>2
<1>4. /\ Key(r) = k /\ r \in Active \ overlapped /\ pc'[r] = "idle"
      /\ \/ CountRegister(r) /\ known'[k] = arg[r].ts
         \/ NewInstance(r) /\ Place(r) \in DOMAIN inst /\ known'[k] = Newest(known[k], arg[r].ts)
  BY <1>1, <1>2, <1>3, KnownStep DEF Unknown, None
<1>5. arg[r].op = "Register" /\ arg[r] \in Requests
  BY <1>4, Holding DEF CountRegister, NewInstance, Objects, ControlOK, RegisterSteps, Active
<1>6. Newest(known[k], arg[r].ts) > 0 => Newest(known[k], arg[r].ts) = arg[r].ts
  BY <1>1, <1>2 DEF Newest
<1> QED
  BY <1>1, <1>4, <1>5, <1>6

LEMMA ClaimBeginsAnchored ==
  ASSUME Objects, OperationOK, OverlapOK, RegisteringOK, NEW r \in Handlers, Step(r),
         NEW k \in Zones \X Hosts, ~Claimed(k), Claimed(k)'
  PROVE  Anchored(k)'
<1>1. /\ r \in Active \ overlapped /\ Key(r) = k /\ pc'[r] = "idle" /\ arg[r].op = "Register"
      /\ CountRegister(r) \/ (NewInstance(r) /\ Place(r) \in DOMAIN inst)
      /\ known'[k] = arg[r].ts
  BY ClaimBegins
<1>2. pc[r] \in {"newInstance", "incrExp"}
  BY <1>1 DEF CountRegister, NewInstance
<1>3. Registering(r)
  BY <1>1 DEF RegisteringOK
<1>4. k[1] = arg[r].zone /\ k[2] = arg[r].host
  BY <1>1 DEF Key
<1>5. Place(r) = Found(k) /\ Found(k) \in DOMAIN inst
  BY <1>1, <1>2, <1>3, <1>4 DEF Registering, Place, Found, CountRegister
<1>6. AppOf(k[1])' = AppOf(k[1]) /\ Found(k)' = Found(k)
  BY <1>1 DEF CountRegister, NewInstance, store, AppOf, Found
<1>7. arg[r].ts \in Nat /\ inst[Found(k)] \in Nat
  <2>1. arg[r] \in Requests /\ inst \in [DOMAIN inst -> Nat]
    BY <1>1, Holding DEF Objects, StoreOK, Active
  <2> QED
    BY <1>5, <2>1 DEF Requests
<1>8. Found(k) \in DOMAIN inst' /\ inst'[Found(k)] >= arg[r].ts
  <2>1. CASE CountRegister(r)
    BY <1>3, <1>5, <1>7, <2>1 DEF CountRegister, store, Registering
  <2>2. CASE NewInstance(r) /\ Place(r) \in DOMAIN inst
    <3>1. inst' = Put(inst, Found(k), Keep(inst[Found(k)], arg[r].ts))
      BY <1>5, <2>2 DEF NewInstance
    <3> QED
      BY <1>5, <1>7, <3>1 DEF Put, Keep
  <2> QED
    BY <1>1, <2>1, <2>2
<1>9. ASSUME NEW q \in Active'
      PROVE  /\ ~(arg'[q].op = "Cancel")
             /\ ~(arg'[q].op = "Register" /\ Key(q)' = k)
             /\ ~(q \notin overlapped' /\ Key(q)' = k /\ pc'[q] \in {"Renew", "Set", "Cancel"})
  <2>1. q \in Handlers \ {r}
    BY <1>1 DEF Active
  <2>2. /\ q \in Active /\ arg'[q] = arg[q] /\ Key(q)' = Key(q) /\ pc'[q] = pc[q]
        /\ q \notin overlapped' => q \notin overlapped
    BY <2>1, OthersStay
  <2>3. ~Disturbs(arg[q], arg[r])
    BY <1>1, <2>1, <2>2 DEF OverlapOK
  <2>4. q \notin overlapped => ~Disturbs(arg[r], arg[q])
    BY <1>1, <2>1, <2>2 DEF OverlapOK
  <2>5. Key(q) = k => arg[q].zone = arg[r].zone /\ arg[q].host = arg[r].host
    BY <1>4 DEF Key
  <2> QED
    BY <1>1, <2>2, <2>3, <2>4, <2>5 DEF Disturbs
<1> QED
  BY <1>1, <1>6, <1>8, <1>9 DEF Anchored, Reachable, Found

\* While an instance is claimed, what is found stays where it is.
LEMMA ClaimKeepsFound ==
  ASSUME Objects, OperationOK, ZonesApart, NEW r \in Handlers, Step(r),
         NEW k \in Zones \X Hosts, Claimed(k), Claimed(k)', Anchored(k)
  PROVE  /\ Reachable(k)' /\ AppOf(k[1])' = AppOf(k[1]) /\ appm' = appm
         /\ \/ inst'[Found(k)] = inst[Found(k)]
            \/ (NewInstance(r) \/ Set(r)) /\ Key(r) = k /\ Place(r) = Found(k)
<1>1. ~(Cancel(r) /\ pc'[r] = "updateLatest" /\ Key(r) = k)
  <2>1. SUFFICES ASSUME Cancel(r), pc'[r] = "updateLatest", Key(r) = k PROVE FALSE
    OBVIOUS
  <2>2. arg[r].op = "Cancel" /\ arg' = arg /\ r \in Active'
    BY <2>1 DEF Cancel, Answer, AnswerKnowing, Goto, Objects, ControlOK, Ops, Active
  <2> QED
    BY <2>1, <2>2 DEF Claimed, Key
<1>2. ~(DelZone(r) /\ at[r].apps = appm /\ arg[r].zone = k[1]) /\ ~DeleteApps(r)
  <2>1. SUFFICES ASSUME pc[r] \in {"del", "delete"} PROVE pc[r] = "del" /\ arg[r].zone # k[1]
    BY DEF DelZone, DeleteApps
  <2>2. arg[r].op = "Cancel" /\ r \in Active /\ pc[r] # "apps"
    BY <2>1 DEF OperationOK, CancelSteps, Active
  <2> QED
    BY <2>1, <2>2 DEF Anchored, Spares
<1> QED
  BY <1>1, <1>2, ReachStays DEF Anchored

\* The instance found is never older than what is known of it.
LEMMA ClaimKeepsNewest ==
  ASSUME Objects, OperationOK, ZonesApart, NEW r \in Handlers, Step(r),
         NEW k \in Zones \X Hosts, Claimed(k), Claimed(k)', Anchored(k)
  PROVE  inst'[Found(k)] >= known'[k]
<1>1. /\ known[k] \in Nat /\ known[k] > 0 /\ known'[k] > 0
      /\ Found(k) \in DOMAIN inst /\ inst[Found(k)] \in Nat /\ inst[Found(k)] >= known[k]
  <2>1. Found(k) \in DOMAIN inst
    BY FoundObjects DEF Anchored
  <2>2. inst[Found(k)] >= known[k]
    BY DEF Anchored, Found
  <2>3. known[k] \in Nat /\ known[k] > 0 /\ known'[k] > 0
    BY DEF Claimed, Objects, ControlOK, Unknown
  <2>4. inst[Found(k)] \in Nat
    BY <2>1 DEF Objects, StoreOK
  <2> QED
    BY <2>1, <2>2, <2>3, <2>4
<1>2. CASE NewInstance(r) /\ Key(r) = k
  <2>1. r \in Active /\ arg[r].op = "Register" /\ arg[r].ts \in Nat
    BY <1>2, Holding DEF NewInstance, Objects, ControlOK, RegisterSteps, Active, Requests
  <2>2. Place(r) = Found(k)
    BY <1>2, <2>1 DEF Anchored, Joins, NewInstance, HoldingApp, HoldingApps, Steps, RegisterSteps,
       Place, Found, Key
  <2>3. inst' = Put(inst, Found(k), Keep(inst[Found(k)], arg[r].ts))
    BY <1>1, <1>2, <2>2 DEF NewInstance
  <2>4. AnswerKnowing(r, Newest(known[k], arg[r].ts))
    BY <1>1, <1>2, <2>2 DEF NewInstance
  <2>5. known'[k] \in {Unknown, Newest(known[k], arg[r].ts)}
    BY <1>2, <2>4 DEF AnswerKnowing, Objects, ControlOK
  <2>6. inst'[Found(k)] = Keep(inst[Found(k)], arg[r].ts)
    BY <1>1, <2>3 DEF Put
  <2> QED
    BY <1>1, <2>1, <2>5, <2>6 DEF Keep, Newest, Unknown
<1>3. CASE Set(r) /\ Key(r) = k /\ Place(r) = Found(k)
  <2>1. r \in Active /\ arg[r].ts \in Nat
    BY <1>3, Holding DEF Set, Objects, Active, Requests
  <2>2. inst' = Put(inst, Found(k), arg[r].ts) /\ AnswerKnowing(r, arg[r].ts)
    BY <1>1, <1>3 DEF Set
  <2>3. known'[k] \in {Unknown, arg[r].ts}
    BY <1>3, <2>2 DEF AnswerKnowing, Objects, ControlOK
  <2> QED
    BY <1>1, <2>1, <2>2, <2>3 DEF Put, Unknown
<1>4. CASE ~(NewInstance(r) /\ Key(r) = k) /\ ~(Set(r) /\ Key(r) = k /\ Place(r) = Found(k))
  <2>1. inst'[Found(k)] = inst[Found(k)]
    BY <1>4, ClaimKeepsFound
  <2>2. known'[k] = known[k]
    <3>1. SUFFICES ASSUME known'[k] # known[k] PROVE FALSE
      OBVIOUS
    <3>2. Key(r) = k /\ r \in Active /\ r \notin overlapped /\ (CountRegister(r) \/ Set(r))
      BY <1>1, <1>4, <3>1, KnownStep DEF Unknown, None
    <3>3. CASE CountRegister(r)
      <4>1. arg[r].op = "Register" /\ pc[r] = "incrExp"
        BY <3>3 DEF CountRegister, Objects, ControlOK, RegisterSteps
      <4> QED
        BY <3>2, <4>1 DEF Anchored, Joins, HoldingApp, HoldingApps, Steps, RegisterSteps
    <3>4. CASE Set(r)
      <4>1. at[r].app = AppOf(k[1])
        BY <3>2, <3>4 DEF Anchored, Set
      <4> QED
        BY <1>4, <3>2, <3>4, <4>1 DEF Place, Found, Key
    <3> QED
      BY <3>2, <3>3, <3>4
  <2> QED
    BY <1>1, <2>1, <2>2
<1> QED
  BY <1>2, <1>3, <1>4

\* A cancellation that finds a claimed instance, or another one beside it,
\* takes nothing away from it.
LEMMA SparesStep ==
  ASSUME Objects, OperationOK, NEW r \in Handlers, Step(r), NEW k \in Zones \X Hosts, Reachable(k),
         AppOf(k[1])' = AppOf(k[1]), appm' = appm,
         r \in Active /\ arg[r].op = "Cancel" /\ pc[r] # "apps" => Spares(r, k),
         r \in Active', arg'[r].op = "Cancel", pc'[r] # "apps"
  PROVE  Spares(r, k)'
<1> USE DEF Objects, ControlOK
<1>1. r \in Active
  <2>1. SUFFICES ASSUME Request(r) PROVE FALSE
    BY StepKinds
  <2>2. PICK op, zone, host, ts : Arrive(r, op, zone, host, ts)
    BY <2>1 DEF Request
  <2> QED
    BY <2>2 DEF Arrive
<1>2. PICK s \in Steps \ {"idle"} : Goto(r, s)
  <2>1. ~Request(r)
    BY <1>1 DEF Active, Request, Arrive
  <2>2. ASSUME NEW v, AnswerKnowing(r, v) PROVE FALSE
    BY <2>2 DEF AnswerKnowing, Active
  <2> QED
    BY <2>1, <2>2, StepKinds
<1>3. arg' = arg /\ pc'[r] = s
  BY <1>2 DEF Goto
<1>4. CASE Lookup(r)
  <2>1. at'[r].apps = appm /\ at'[r].app = AppOf(arg[r].zone) /\ pc'[r] = arg[r].op
    BY <1>3, <1>4 DEF Lookup, Goto, Answer, AnswerKnowing, PointersOK, Pointers
  <2> QED
    BY <1>3, <2>1 DEF Spares
<1>5. CASE Cancel(r) \/ UpdateLatest(r) \/ CheckLen(r) \/ DelZone(r) \/ CheckEmpty(r) \/ DeleteApps(r)
  <2>1. Spares(r, k)
    BY <1>1, <1>3, <1>5 DEF Cancel, UpdateLatest, CheckLen, DelZone, CheckEmpty, DeleteApps
  <2>2. at'[r].apps = at[r].apps /\ at'[r].app = at[r].app
    BY <1>3, <1>5 DEF Cancel, UpdateLatest, CheckLen, DelZone, CheckEmpty, DeleteApps, Answer,
       AnswerKnowing, PointersOK, Pointers
  <2>3. s = "del" => arg[r].zone # k[1]
    <3>1. SUFFICES ASSUME s = "del", arg[r].zone = k[1] PROVE FALSE
      OBVIOUS
    <3>2. CheckLen(r) /\ InstancesOf(at[r].app) = {}
      BY <1>3, <1>5, <3>1 DEF Cancel, UpdateLatest, CheckLen, DelZone, CheckEmpty, DeleteApps, Goto,
         Answer, AnswerKnowing
    <3>3. Found(k) \in InstancesOf(at[r].app)
      BY <2>1, <3>1, FoundObjects DEF Spares, InstancesOf, Found
    <3> QED
      BY <3>2, <3>3
  <2>4. s # "delete"
    <3>1. SUFFICES ASSUME s = "delete" PROVE FALSE
      OBVIOUS
    <3>2. \A z \in Zones : apps[at[r].apps].zone[z] = None
      BY <1>3, <1>5, <3>1 DEF Cancel, UpdateLatest, CheckLen, DelZone, CheckEmpty, DeleteApps, Goto,
         Answer, AnswerKnowing
    <3> QED
      BY <2>1, <3>2, FoundObjects DEF Spares
  <2> QED
    BY <1>3, <2>1, <2>2, <2>3, <2>4 DEF Spares
<1>6. Lookup(r) \/ Cancel(r) \/ UpdateLatest(r) \/ CheckLen(r) \/ DelZone(r) \/ CheckEmpty(r)
        \/ DeleteApps(r)
  <2>1. ~Request(r) /\ pc'[r] # "idle" /\ arg[r].op = "Cancel"
    BY <1>1, <1>3 DEF Active, Request, Arrive
  <2>2. pc[r] \notin RegisterSteps /\ pc[r] \notin {"Renew", "Set", "incrFac", "decrExp"}
    BY <1>3, <2>1 DEF OperationOK, Ops, Step, CountCancel, AnswerKnowing, NewApps, NewApp,
       NewInstance, CountRegister, Renew, CountRenew, Set, Lookup, Cancel, UpdateLatest, CheckLen,
       DelZone, CheckEmpty, DeleteApps
  <2> QED
    BY <2>1, <2>2 DEF Step, CountCancel, NewApps, NewApp, NewInstance, CountRegister, Renew,
       CountRenew, Set, RegisterSteps
<1> QED
  BY <1>4, <1>5, <1>6

\* A registration of an instance that is found joins it.
LEMMA JoinsStep ==
  ASSUME Objects, NEW r \in Handlers, Step(r), NEW k \in Zones \X Hosts, Reachable(k),
         AppOf(k[1])' = AppOf(k[1]), appm' = appm,
         r \in Active /\ arg[r].op = "Register" /\ Key(r) = k => Joins(r, k),
         r \in Active', arg'[r].op = "Register", Key(r)' = k, OperationOK
  PROVE  Joins(r, k)'
<1> USE DEF Objects, ControlOK
<1>1. CASE Request(r)
  <2>1. PICK op, zone, host, ts : Arrive(r, op, zone, host, ts)
    BY <1>1 DEF Request
  <2>2. pc'[r] = "newApps"
    BY <2>1 DEF Arrive
  <2> QED
    BY <2>2 DEF Joins, HoldingApp, HoldingApps
<1>2. CASE ~Request(r)
  <2>1. r \in Active
    BY <1>2, StepKinds
  <2>2. PICK s \in Steps \ {"idle"} : Goto(r, s)
    <3>2. ASSUME NEW v, AnswerKnowing(r, v) PROVE FALSE
      BY <3>2 DEF AnswerKnowing, Active
    <3> QED
      BY <1>2, <3>2, StepKinds
  <2>3. arg' = arg /\ pc'[r] = s /\ Key(r) = k /\ arg[r].op = "Register" /\ k[1] = arg[r].zone
    BY <2>2 DEF Goto, Key
  <2>4. Joins(r, k)
    BY <2>1, <2>3
  <2>5. NewApps(r) \/ NewApp(r) \/ NewInstance(r)
    <3>1. ~CountRegister(r)
      BY <2>3 DEF CountRegister, AnswerKnowing
    <3>2. pc[r] \in RegisterSteps \cup {"Register"}
      BY <2>1, <2>3 DEF OperationOK, Active, Steps, Ops, RegisterSteps
    <3> QED
      BY <1>2, <3>1, <3>2 DEF Step, Lookup, Renew, CountRenew, Set, Cancel, UpdateLatest,
         CheckLen, DelZone, CheckEmpty, DeleteApps, CountCancel, RegisterSteps
  <2>6. CASE NewApps(r)
    <3>1. at'[r].apps = appm' /\ pc'[r] = "newApp"
      BY <2>6 DEF NewApps, Goto, PointersOK, Pointers
    <3> QED
      BY <3>1 DEF Joins, HoldingApp
  <2>7. CASE NewApp(r)
    <3>1. at[r].apps = appm /\ pc'[r] = "newInstance"
      BY <2>4, <2>7 DEF NewApp, Goto, Joins
    <3>2. apps[at[r].apps].zone[arg[r].zone] = AppOf(k[1]) /\ AppOf(k[1]) # None
      BY <2>3, <3>1, FoundObjects
    <3>3. at'[r].apps = at[r].apps /\ at'[r].app = AppOf(k[1])
      BY <2>7, <3>2 DEF NewApp, PointersOK, Pointers
    <3> QED
      BY <3>1, <3>3 DEF Joins
  <2>8. CASE NewInstance(r)
    <3>1. Place(r) \in DOMAIN inst
      BY <2>3, <2>4, <2>8, FoundObjects DEF Joins, NewInstance, HoldingApp, HoldingApps, Steps,
         RegisterSteps, Place, Found, Key
    <3>2. pc'[r] = "idle"
      BY <2>8, <3>1 DEF NewInstance, AnswerKnowing
    <3> QED
      BY <2>3, <3>2
  <2> QED
    BY <2>5, <2>6, <2>7, <2>8
<1> QED
  BY <1>1, <1>2

LEMMA ClaimStays ==
  ASSUME Objects, OperationOK, ZonesApart, NEW r \in Handlers, Step(r),
         NEW k \in Zones \X Hosts, Claimed(k), Claimed(k)', Anchored(k)
  PROVE  Anchored(k)'
<1>1. Reachable(k) /\ Reachable(k)' /\ AppOf(k[1])' = AppOf(k[1]) /\ appm' = appm
  BY ClaimKeepsFound DEF Anchored
<1>2. inst'[<<AppOf(k[1])', k[2]>>] >= known'[k]
  BY <1>1, ClaimKeepsNewest DEF Found
<1>3. ASSUME NEW q \in Active', q # r
      PROVE  /\ arg'[q].op = "Cancel" /\ pc'[q] # "apps" => Spares(q, k)'
             /\ arg'[q].op = "Register" /\ Key(q)' = k => Joins(q, k)'
             /\ q \notin overlapped' /\ Key(q)' = k /\ pc'[q] \in {"Renew", "Set", "Cancel"} =>
                  at'[q].app = AppOf(k[1])'
  <2>1. q \in Handlers \ {r}
    BY <1>3 DEF Active
  <2>2. /\ q \in Active /\ pc'[q] = pc[q] /\ arg'[q] = arg[q] /\ at'[q] = at[q] /\ Key(q)' = Key(q)
        /\ q \notin overlapped' => q \notin overlapped
    BY <2>1, OthersStay
  <2>3. /\ arg[q].op = "Cancel" /\ pc[q] # "apps" => Spares(q, k)
        /\ arg[q].op = "Register" /\ Key(q) = k => Joins(q, k)
        /\ q \notin overlapped /\ Key(q) = k /\ pc[q] \in {"Renew", "Set", "Cancel"} =>
             at[q].app = AppOf(k[1])
    BY <2>2 DEF Anchored
  <2>4. Spares(q, k) => Spares(q, k)'
    BY <1>1, <2>2 DEF Spares
  <2>5. Joins(q, k) => Joins(q, k)'
    BY <1>1, <2>2 DEF Joins
  <2> QED
    BY <1>1, <2>2, <2>3, <2>4, <2>5
<1>4. ASSUME r \in Active'
      PROVE  /\ arg'[r].op = "Cancel" /\ pc'[r] # "apps" => Spares(r, k)'
             /\ arg'[r].op = "Register" /\ Key(r)' = k => Joins(r, k)'
             /\ r \notin overlapped' /\ Key(r)' = k /\ pc'[r] \in {"Renew", "Set", "Cancel"} =>
                  at'[r].app = AppOf(k[1])'
  <2>1. arg'[r].op = "Cancel" /\ pc'[r] # "apps" => Spares(r, k)'
    BY <1>1, <1>4, SparesStep DEF Anchored
  <2>2. arg'[r].op = "Register" /\ Key(r)' = k => Joins(r, k)'
    BY <1>1, <1>4, JoinsStep DEF Anchored
  <2>3. ASSUME Key(r)' = k, pc'[r] \in {"Renew", "Set", "Cancel"}
        PROVE  at'[r].app = AppOf(k[1])'
    <3>1. Lookup(r)
      <4>1. ~Request(r)
        BY <2>3 DEF Request, Arrive, Objects, ControlOK
      <4> QED
        BY <2>3, <4>1 DEF Step, NewApps, NewApp, NewInstance, CountRegister, Renew, CountRenew, Set,
           Cancel, UpdateLatest, CheckLen, DelZone, CheckEmpty, DeleteApps, CountCancel, Goto, Answer,
           AnswerKnowing, Objects, ControlOK
    <3>2. arg' = arg /\ at'[r].app = AppOf(arg[r].zone)
      BY <2>3, <3>1 DEF Lookup, Goto, Answer, AnswerKnowing, Objects, ControlOK, PointersOK, Pointers
    <3> QED
      BY SMTT(30), <1>1, <2>3, <3>2 DEF Key
  <2> QED
    BY <2>1, <2>2, <2>3
<1> QED
  BY <1>1, <1>2, <1>3, <1>4 DEF Anchored

LEMMA ClaimsStep ==
  ASSUME Objects, Promises, NEW r \in Handlers, Step(r)
  PROVE  ClaimsOK'
<1>1. ASSUME NEW k \in Zones \X Hosts, Claimed(k)' PROVE Anchored(k)'
  <2>1. CASE Claimed(k)
    BY <1>1, <2>1, ClaimStays DEF Promises, ClaimsOK
  <2>2. CASE ~Claimed(k)
    BY <1>1, <2>2, ClaimBeginsAnchored DEF Promises
  <2> QED
    BY <2>1, <2>2
<1> QED
  BY <1>1 DEF ClaimsOK

\* What is absent comes back by a registration, which ends with an answer.
LEMMA AbsentStep ==
  ASSUME Objects, Promises, NEW r \in Handlers, Step(r)
  PROVE  AbsentOK'
<1> SUFFICES ASSUME NEW k \in Zones \X Hosts, known'[k] = None, Unregistered(k)', Reachable(k)'
             PROVE  FALSE
  BY DEF AbsentOK
<1>1. CASE ~Reachable(k)
  <2>1. NewInstance(r) /\ Key(r) = k
    BY <1>1, ReachEnters DEF Promises
  <2>2. r \in Active /\ arg[r].op = "Register" /\ arg[r].ts \in Nat
    BY <2>1, Holding DEF NewInstance, Objects, ControlOK, RegisterSteps, Active, Requests
  <2>3. pc'[r] = "idle"
    <3>1. SUFFICES ASSUME pc'[r] # "idle" PROVE FALSE
      OBVIOUS
    <3>2. r \in Active' /\ arg' = arg
      BY <2>1, <3>1 DEF NewInstance, Goto, AnswerKnowing, Objects, ControlOK, Active
    <3> QED
      BY <2>1, <2>2, <3>2 DEF Unregistered, Key
  <2>4. AnswerKnowing(r, Newest(known[k], arg[r].ts))
    BY <2>1, <2>3 DEF NewInstance, Goto, Objects, ControlOK
  <2>5. known'[k] \in {Unknown, Newest(known[k], arg[r].ts)}
    BY <2>1, <2>4 DEF AnswerKnowing, Objects, ControlOK
  <2>6. arg[r].ts > 0 /\ known[k] \in Nat \cup {Unknown}
    BY <2>2 DEF Promises, StampsOK, Objects, ControlOK
  <2> QED
    BY <2>2, <2>5, <2>6 DEF Newest, Unknown, None
<1>2. CASE Reachable(k) /\ known[k] = None
  <2>1. PICK q \in Active : arg[q].op = "Register" /\ Key(q) = k
    BY <1>2 DEF Promises, AbsentOK, Unregistered
  <2>2. q = r
    <3>1. SUFFICES ASSUME q # r PROVE FALSE
      OBVIOUS
    <3>2. q \in Active' /\ arg'[q] = arg[q] /\ Key(q)' = k
      BY <2>1, <3>1, OthersStay DEF Active
    <3> QED
      BY <2>1, <3>2 DEF Unregistered
  <2>3. arg[r].op = "Register" /\ Key(r) = k /\ arg[r] \in Requests /\ r \in Active
    BY <2>1, <2>2, Holding DEF Objects, Active
  <2>4. PICK v : AnswerKnowing(r, v)
    <3>1. ~\E s \in Steps \ {"idle"} : Goto(r, s)
      <4>1. SUFFICES ASSUME NEW s \in Steps \ {"idle"}, Goto(r, s) PROVE FALSE
        OBVIOUS
      <4>2. r \in Active' /\ arg' = arg
        BY <4>1 DEF Goto, Active, Objects, ControlOK
      <4> QED
        BY <2>3, <4>2 DEF Unregistered, Key
    <3>2. ~Request(r)
      BY <2>3 DEF Request, Arrive, Active
    <3> QED
      BY <3>1, <3>2, StepKinds
  <2>5. r \notin overlapped /\ pc'[r] = "idle"
    <3>1. pc'[r] = "idle"
      BY <2>4 DEF AnswerKnowing, Objects, ControlOK
    <3> QED
      BY <2>3, <3>1, DisturbedAnswer DEF Unknown, None
  <2>6. arg[r].ts > 0 /\ arg[r].ts \in Nat
    BY <2>3 DEF Promises, StampsOK, Requests
  <2>7. NewInstance(r) \/ CountRegister(r)
    <3>1. pc[r] \in RegisterSteps \cup {"Register"}
      BY <2>3 DEF Promises, OperationOK, Active, Objects, ControlOK, Steps, Ops, RegisterSteps, CancelSteps
    <3>2. ~NewApps(r) /\ ~NewApp(r) /\ ~Request(r)
      BY <2>3, <2>5 DEF NewApps, NewApp, Goto, Objects, ControlOK, Request, Arrive, Active
    <3> QED
      BY <3>1, <3>2 DEF Step, Lookup, Renew, CountRenew, Set, Cancel, UpdateLatest,
         CheckLen, DelZone, CheckEmpty, DeleteApps, CountCancel, RegisterSteps
  <2>8. CASE NewInstance(r)
    <3>1. AnswerKnowing(r, Newest(known[k], arg[r].ts))
      BY <2>3, <2>5, <2>8 DEF NewInstance, Goto, Objects, ControlOK
    <3>2. known'[k] = Newest(known[k], arg[r].ts)
      BY <2>3, <2>5, <3>1 DEF AnswerKnowing, Objects, ControlOK
    <3> QED
      BY <1>2, <2>6, <3>2 DEF Newest, None
  <2>9. CASE CountRegister(r)
    <3>1. known'[k] = arg[r].ts
      BY <2>3, <2>5, <2>9 DEF CountRegister, AnswerKnowing, Objects, ControlOK
    <3> QED
      BY <2>6, <3>1 DEF None
  <2> QED
    BY <2>7, <2>8, <2>9
<1>3. CASE Reachable(k) /\ known[k] # None
  <2>1. Key(r) = k /\ r \in Active /\ r \notin overlapped /\ (CountRegister(r) \/ NewInstance(r) \/ Set(r) \/ CountCancel(r))
    BY <1>3, KnownStep DEF Unknown, None
  <2>2. CASE CountCancel(r)
    <3>1. ~Reachable(k)
      BY <2>1, <2>2 DEF Promises, CancellingOK, Cancelling, CountCancel, CancelSteps
    <3> QED
      BY <1>3, <3>1
  <2>3. CASE ~CountCancel(r)
    <3>1. arg[r] \in Requests
      BY <2>1, Holding DEF Objects, Active
    <3>2. arg[r].op \in {"Register", "Set"}
      BY <2>1, <2>3 DEF CountRegister, NewInstance, Set, Objects, ControlOK, RegisterSteps, Ops
    <3>3. arg[r].ts > 0 /\ arg[r].ts \in Nat
      BY <2>1, <3>1, <3>2 DEF Promises, StampsOK, Requests
    <3>4. known[k] \in Nat \cup {Unknown}
      BY DEF Objects, ControlOK
    <3>5. known'[k] \in {arg[r].ts, Newest(known[k], arg[r].ts)}
      BY <1>3, <2>1, <2>3, KnownStep DEF Unknown, None
    <3> QED
      BY <3>3, <3>4, <3>5 DEF Newest, None
  <2> QED
    BY <2>2, <2>3
<1> QED
  BY <1>1, <1>2, <1>3

-----------------------------------------------------------------------------
(* The invariant. *)

LEMMA InitPromises == Init => Promises
<1> SUFFICES ASSUME Init PROVE Promises
  OBVIOUS
<1>1. /\ \A r \in Handlers : pc[r] = "idle"
      /\ Active = {} /\ nApp = 0 /\ Len(apps) = 0 /\ appm = None /\ DOMAIN inst = {}
  BY DEF Init, Active
<1>2. \A k \in Zones \X Hosts : ~Reachable(k) /\ ~Claimed(k)
  BY <1>1 DEF Init, Reachable, Claimed, None
<1>3. ZonesApart
  <2>1. 1..nApp = {} /\ 1..Len(apps) = {}
    BY <1>1
  <2> DEFINE owner == [a \in 1..nApp |-> CHOOSE z \in Zones : TRUE]
  <2>2. owner \in [1..nApp -> Zones]
    BY <2>1
  <2>3. OwnedBy(owner)
    BY <1>1, <2>1 DEF OwnedBy, HoldingApp, HoldingApps
  <2> QED
    BY <2>2, <2>3 DEF ZonesApart
<1> QED
  BY <1>1, <1>2, <1>3 DEF Promises, OperationOK, OverlapOK, StampsOK, RegisteringOK, CancellingOK,
     ClaimsOK, AbsentOK, CancelSteps

LEMMA StepPromises ==
  ASSUME Objects, clock \in Nat, Promises, NEW r \in Handlers, Step(r)
  PROVE  Promises'
<1>1. OperationOK' /\ OverlapOK' /\ StampsOK' /\ ZonesApart'
  BY OperationStep, OverlapStep, StampsStep, OwnerStep DEF Promises
<1>2. RegisteringOK'
  BY RegisteringStep DEF Promises, RegisteringOK
<1>3. CancellingOK'
  BY CancellingStep DEF Promises, CancellingOK
<1>4. ClaimsOK' /\ AbsentOK'
  BY ClaimsStep, AbsentStep
<1> QED
  BY <1>1, <1>2, <1>3, <1>4 DEF Promises

LEMMA StutterPromises ==
  ASSUME Promises, UNCHANGED vars
  PROVE  Promises'
<1>1. UNCHANGED <<appm, apps, nApp, inst, pc, arg, at, overlapped, known>>
  BY DEF vars, store, local, history
<1>2. UNCHANGED Active /\ \A r \in Handlers : UNCHANGED <<Key(r), Place(r)>>
  BY <1>1 DEF Active, Key, Place
<1>3. OperationOK' /\ OverlapOK' /\ StampsOK'
  BY <1>1, <1>2 DEF Promises, OperationOK, OverlapOK, StampsOK, Disturbs
<1>4. ZonesApart'
  BY <1>1 DEF Promises, ZonesApart, OwnedBy
<1>5. \A z \in Zones : AppOf(z)' = AppOf(z)
  BY <1>1 DEF AppOf
<1>6. \A k \in Zones \X Hosts : Reachable(k)' = Reachable(k)
  BY <1>1, <1>5 DEF Reachable
<1>7. RegisteringOK' /\ CancellingOK'
  BY <1>1 DEF Promises, RegisteringOK, Registering, CancellingOK, Cancelling, Reachable, AppOf,
     Place, Key, Active
<1>8. ClaimsOK'
  BY <1>1 DEF Promises, ClaimsOK, Claimed, Anchored, Spares, Joins, Reachable, AppOf, Key, Active
<1>9. AbsentOK'
  BY <1>1 DEF Promises, AbsentOK, Unregistered, Reachable, AppOf, Key, Active
<1> QED
  BY <1>3, <1>4, <1>7, <1>8, <1>9 DEF Promises

LEMMA InvariantObjects ==
  ASSUME IInv
  PROVE  Objects /\ clock \in Nat
BY RegistryAssumption DEF IInv, TypeOK, Objects

LEMMA NextPromises == IInv /\ Promises /\ [Next]_vars => Promises'
BY InvariantObjects, StepPromises, StutterPromises DEF Next

\* So it holds of every reachable state of the store.
THEOREM PromisesKept == Spec => [](IInv /\ Promises)
BY InitIInv, NextIInv, InitPromises, NextPromises, PTL DEF Spec

(***************************************************************************)
(* Whatever else the handlers do to its App, its Apps and the map, an      *)
(* instance whose registration nothing disturbed is found, as new as it    *)
(* was answered, until somebody asks to cancel it, and one whose           *)
(* cancellation nothing disturbed is not found.                            *)
(***************************************************************************)
THEOREM SettledReachable == Spec => []SettledIsReachable
<1>1. IInv /\ Promises => SettledIsReachable
  <2> SUFFICES ASSUME IInv, Promises, NEW k \in Zones \X Hosts, Settled(k)
               PROVE  /\ known[k] > 0 => Reachable(k) /\ inst[<<AppOf(k[1]), k[2]>>] >= known[k]
                      /\ known[k] = None => ~Reachable(k)
    BY DEF SettledIsReachable
  <2>1. known[k] > 0 => Claimed(k)
    BY DEF Settled, Claimed
  <2>2. Unregistered(k)
    BY DEF Settled, Unregistered
  <2> QED
    BY <2>1, <2>2 DEF Promises, ClaimsOK, AbsentOK, Anchored
<1> QED
  BY <1>1, PromisesKept, PTL

(***************************************************************************)
(* The App that Renew, Cancel and Set took under alock still holds the     *)
(* instance when App.lock is taken, if the answers said that it is         *)
(* registered and nothing disturbed the handler: it is not told            *)
(* NothingFound.                                                           *)
(***************************************************************************)
THEOREM HandlersHold == Spec => []HandlerHoldsItsInstance
<1>1. IInv /\ Promises => HandlerHoldsItsInstance
  <2> SUFFICES ASSUME IInv, Promises, NEW r \in Handlers \ overlapped,
                      pc[r] \in {"Renew", "Cancel", "Set"}, known[Key(r)] > 0
               PROVE  Place(r) \in DOMAIN inst
    BY DEF HandlerHoldsItsInstance
  <2>1. Objects /\ r \in Active
    BY InvariantObjects DEF Active
  <2>2. arg[r] \in Requests /\ Key(r) \in Zones \X Hosts
    <3>1. arg[r] \in Requests
      BY <2>1, Holding DEF Objects, Active
    <3> QED
      BY <3>1 DEF Requests, Key
  <2>3. Claimed(Key(r))
    <3>1. SUFFICES ASSUME NEW q \in Active, arg[q].op = "Cancel", Key(q) = Key(r)
                   PROVE  q \notin overlapped /\ pc[q] \in {"apps", "Cancel"}
      BY DEF Claimed
    <3>2. CASE q = r
      BY <2>1, <3>1, <3>2 DEF Objects, ControlOK, Ops
    <3>3. CASE q # r
      <4>1. Disturbs(arg[q], arg[r])
        BY <3>1 DEF Disturbs, Key
      <4> QED
        BY <2>1, <3>3, <4>1 DEF Promises, OverlapOK
    <3> QED
      BY <3>2, <3>3
  <2>4. Anchored(Key(r))
    BY <2>2, <2>3 DEF Promises, ClaimsOK
  <2>5. at[r].app = AppOf(Key(r)[1])
    BY <2>1, <2>4 DEF Anchored
  <2> QED
    BY <2>4, <2>5 DEF Anchored, Reachable, Place, Key
<1> QED
  BY <1>1, PromisesKept, PTL

-----------------------------------------------------------------------------
(* The refinement: what Directory sees of a state, and what each of its    *)
(* actions is here.                                                        *)

Listed == {k \in Zones \X Hosts : Reachable(k)}
Asked(r) == [op |-> arg[r].op, zone |-> arg[r].zone, host |-> arg[r].host]
Pending == [r \in Handlers |-> IF pc[r] = "idle" THEN [op |-> "none", zone |-> "none", host |-> "none"]
                               ELSE Asked(r)]
Doubt == {k \in Zones \X Hosts : known[k] = Unknown}

LEMMA PendingAt ==
  ASSUME Objects
  PROVE  /\ \A r \in Active : /\ Pending[r] = Asked(r) /\ Asked(r) # Dir!Idle
                              /\ Asked(r).op = arg[r].op /\ Dir!Key(Asked(r)) = Key(r)
         /\ \A r \in Handlers \ Active : Pending[r] = Dir!Idle
         /\ Dir!Serving = Active
<1>1. \A r \in Active : /\ Pending[r] = Asked(r) /\ Asked(r) # Dir!Idle
                        /\ Asked(r).op = arg[r].op /\ Dir!Key(Asked(r)) = Key(r)
  <2> SUFFICES ASSUME NEW r \in Active
               PROVE  /\ Pending[r] = Asked(r) /\ Asked(r) # Dir!Idle
                      /\ Asked(r).op = arg[r].op /\ Dir!Key(Asked(r)) = Key(r)
    OBVIOUS
  <2>1. r \in Handlers /\ pc[r] # "idle"
    BY DEF Active
  <2>2. arg[r].op \in Ops
    BY <2>1, Holding DEF Objects, Requests
  <2>3. Asked(r).op = arg[r].op /\ Dir!Idle.op = "none"
    BY DEF Asked, Dir!Idle
  <2>4. Asked(r) # Dir!Idle
    BY <2>2, <2>3 DEF Ops
  <2>5. Dir!Key(Asked(r)) = Key(r)
    BY DEF Asked, Dir!Key, Key
  <2>6. Pending[r] = Asked(r)
    BY <2>1 DEF Pending
  <2> QED
    BY <2>3, <2>4, <2>5, <2>6
<1>2. \A r \in Handlers \ Active : Pending[r] = Dir!Idle
  BY DEF Pending, Active, Dir!Idle
<1>3. Dir!Serving = {r \in Handlers : Pending[r] # Dir!Idle}
  BY DEF Dir!Serving, Pending, Asked
<1>4. Active \subseteq Handlers
  BY DEF Active
<1> QED
  BY <1>1, <1>2, <1>3, <1>4

\* What the abstract actions say in the words of this module.
LEMMA AbstractActions ==
  ASSUME NEW r \in Handlers
  PROVE  /\ (/\ Pending[r].op = "Register" /\ Listed' = Listed \cup {Dir!Key(Pending[r])}
             /\ Pending' = Pending /\ overlapped' = overlapped /\ Doubt' = Doubt)
              => Dir!Enter(r)
         /\ (/\ Pending[r].op = "Cancel" /\ Listed' = Listed \ {Dir!Key(Pending[r])}
             /\ Pending' = Pending /\ overlapped' = overlapped /\ Doubt' = Doubt)
              => Dir!Leave(r)
         /\ (Listed' = Listed /\ Pending' = Pending /\ overlapped' = overlapped /\ Doubt' = Doubt)
              => UNCHANGED Dir!vars
BY DEF Dir!Enter, Dir!Leave, Dir!vars, Dir!Key, Listed, Pending, Asked, Doubt

LEMMA AbstractVanish ==
  ASSUME NEW r \in Handlers, Pending[r].op = "Cancel", Listed' \subseteq Listed,
         \A k \in Listed \ Listed' :
           k \in Doubt \/ \E q \in overlapped : k = Dir!Key(Pending[q]),
         Pending' = Pending, overlapped' = overlapped, Doubt' = Doubt
  PROVE  Dir!Vanish(r)
<1> DEFINE lost == Listed \ Listed'
<1>1. Dir!Doubtful = Doubt \cup {Dir!Key(Pending[q]) : q \in overlapped}
  BY DEF Dir!Doubtful, Dir!Key, Doubt, Pending, Asked
<1>2. lost \in SUBSET (Listed \cap Dir!Doubtful) /\ Listed' = Listed \ lost
  BY <1>1
<1>3. \E l \in SUBSET (Listed \cap Dir!Doubtful) : Listed' = Listed \ l
  BY <1>2
<1> QED
  BY <1>3 DEF Dir!Vanish, Listed, Pending, Asked, Doubt

LEMMA AbstractReturn ==
  ASSUME NEW r \in Handlers, Pending[r] # Dir!Idle,
         r \in overlapped => Doubt' = Doubt \cup {Dir!Key(Pending[r])},
         r \notin overlapped => /\ Doubt' \in {Doubt, Doubt \ {Dir!Key(Pending[r])}}
                                /\ Pending[r].op = "Register" => Dir!Key(Pending[r]) \in Listed
                                /\ Pending[r].op = "Cancel" => Dir!Key(Pending[r]) \notin Listed,
         Pending' = [Pending EXCEPT ![r] = Dir!Idle],
         overlapped' = overlapped \ {r}, Listed' = Listed
  PROVE  Dir!Return(r)
BY DEF Dir!Return, Dir!Key, Dir!Idle, Listed, Pending, Asked, Doubt

LEMMA AbstractCall ==
  ASSUME NEW r \in Handlers, NEW req, Pending[r] = Dir!Idle,
         Pending' = [Pending EXCEPT ![r] = req],
         overlapped' = overlapped \cup {q \in Dir!Serving : Dir!Disturbs(req, Pending[q])}
                         \cup {q \in {r} : \E s \in Dir!Serving : Dir!Disturbs(Pending[s], req)},
         Listed' = Listed, Doubt' = Doubt
  PROVE  Dir!Call(r, req)
BY DEF Dir!Call, Dir!Serving, Dir!Disturbs, Dir!Key, Dir!Idle, Listed, Pending, Asked, Doubt

\* A handler that goes on still serves its request; one that answers does not.
LEMMA PendingStep ==
  ASSUME Objects, NEW r \in Handlers
  PROVE  /\ r \in Active /\ (\E s \in Steps \ {"idle"} : Goto(r, s)) =>
              Pending' = Pending /\ overlapped' = overlapped /\ Doubt' = Doubt
         /\ r \in Active /\ (\E v : AnswerKnowing(r, v)) =>
              Pending' = [Pending EXCEPT ![r] = Dir!Idle] /\ overlapped' = overlapped \ {r}
<1> USE DEF Objects, ControlOK
<1>1. ASSUME r \in Active, NEW s \in Steps \ {"idle"}, Goto(r, s)
      PROVE  Pending' = Pending /\ overlapped' = overlapped /\ Doubt' = Doubt
  <2>1. arg' = arg /\ known' = known /\ overlapped' = overlapped
    BY <1>1 DEF Goto
  <2>2. \A q \in Handlers : pc'[q] = "idle" <=> pc[q] = "idle"
    BY <1>1 DEF Goto, Active
  <2> QED
    BY <2>1, <2>2 DEF Pending, Asked, Doubt
<1>2. ASSUME r \in Active, NEW v, AnswerKnowing(r, v)
      PROVE  Pending' = [Pending EXCEPT ![r] = Dir!Idle] /\ overlapped' = overlapped \ {r}
  <2>1. overlapped' = overlapped \ {r}
    BY <1>2 DEF AnswerKnowing
  <2>2. \A q \in Handlers \ {r} : pc'[q] = pc[q] /\ arg'[q] = arg[q]
    BY <1>2 DEF AnswerKnowing
  <2>3. pc'[r] = "idle"
    BY <1>2 DEF AnswerKnowing
  <2> QED
    BY <2>1, <2>2, <2>3 DEF Pending, Asked, Dir!Idle
<1> QED
  BY <1>1, <1>2

\* The list changes by NewInstance, by Cancel, and by Del and delete.
LEMMA ListedStep ==
  ASSUME Objects, ZonesApart, NEW r \in Handlers, Step(r)
  PROVE  \/ Listed' = Listed
         \/ /\ NewInstance(r) /\ Place(r) \notin DOMAIN inst
            /\ Listed' = Listed \cup {Key(r)}
         \/ Cancel(r) /\ pc'[r] = "updateLatest" /\ Listed' = Listed \ {Key(r)}
         \/ (DelZone(r) \/ DeleteApps(r)) /\ Listed' \subseteq Listed
<1> DEFINE Keys == Zones \X Hosts
<1>1. CASE NewInstance(r)
  <2>1. \A k \in Keys : Reachable(k) => Reachable(k)'
    BY <1>1, ReachStays DEF NewInstance, Cancel, DelZone, DeleteApps
  <2>2. \A k \in Keys : Reachable(k)' => Reachable(k) \/ k = Key(r)
    BY ReachEnters
  <2>3. Listed' = Listed \/ Listed' = Listed \cup {Key(r)}
    BY <2>1, <2>2 DEF Listed
  <2>4. CASE Place(r) \in DOMAIN inst
    <3>1. DOMAIN inst' = DOMAIN inst /\ appm' = appm /\ apps' = apps
      BY <1>1, <2>4 DEF NewInstance, Put
    <3>2. \A k \in Keys : Reachable(k)' = Reachable(k)
      BY <3>1 DEF Reachable, AppOf
    <3> QED
      BY <3>2 DEF Listed
  <2> QED
    BY <1>1, <2>3, <2>4
<1>2. CASE ~NewInstance(r)
  <2>1. Listed' \subseteq Listed
    BY <1>2, ReachEnters DEF Listed
  <2>2. CASE DelZone(r) \/ DeleteApps(r)
    BY <2>1, <2>2
  <2>3. CASE ~(DelZone(r) \/ DeleteApps(r))
    <3>1. \A k \in Keys : Reachable(k) =>
            \/ Reachable(k)'
            \/ Cancel(r) /\ pc'[r] = "updateLatest" /\ Key(r) = k
      BY <2>3, ReachStays
    <3>2. Listed' = Listed \/ (Cancel(r) /\ pc'[r] = "updateLatest" /\ Listed' = Listed \ {Key(r)})
      BY <2>1, <3>1 DEF Listed
    <3> QED
      BY <3>2
  <2> QED
    BY <2>2, <2>3
<1> QED
  BY <1>1, <1>2

\* What Del and delete take away beside what is cancelled was in doubt.
LEMMA LostInDoubt ==
  ASSUME Objects, Promises, NEW r \in Handlers, DelZone(r) \/ DeleteApps(r), Step(r),
         NEW k \in Listed \ Listed'
  PROVE  k \in Doubt \/ \E q \in overlapped : k = Key(q)
<1> SUFFICES ASSUME known[k] # Unknown, \A q \in overlapped : k # Key(q) PROVE FALSE
  BY DEF Doubt, Listed
<1>1. k \in Zones \X Hosts /\ Reachable(k) /\ ~Reachable(k)'
  BY DEF Listed
<1>2. r \in Active /\ arg[r].op = "Cancel" /\ pc[r] \in {"del", "delete"}
  BY DEF DelZone, DeleteApps, Promises, OperationOK, CancelSteps, Active
<1>3. CASE known[k] > 0
  <2>1. Claimed(k)
    <3>1. SUFFICES ASSUME NEW q \in Active, arg[q].op = "Cancel", Key(q) = k
                   PROVE  q \notin overlapped /\ pc[q] \in {"apps", "Cancel"}
      BY <1>3 DEF Claimed
    <3>2. q \in Handlers /\ q \notin overlapped
      BY <3>1 DEF Active
    <3>3. pc[q] \notin CancelSteps
      BY <1>1, <3>1, <3>2 DEF Promises, CancellingOK, Cancelling
    <3> QED
      BY <3>1, <3>2, <3>3 DEF Promises, OperationOK, Objects, ControlOK, Active, Steps,
         RegisterSteps, Ops
  <2>2. Spares(r, k)
    BY <1>1, <1>2, <2>1 DEF Promises, ClaimsOK, Anchored
  <2>3. DelZone(r) /\ arg[r].zone # k[1]
    BY <1>2, <2>2 DEF Spares, DelZone, DeleteApps
  <2> QED
    BY <1>1, <2>3, ReachStays DEF Promises, Cancel, DelZone, DeleteApps
<1>4. CASE known[k] = None
  <2>1. PICK q \in Active : arg[q].op = "Register" /\ Key(q) = k
    BY <1>1, <1>4 DEF Promises, AbsentOK, Unregistered
  <2>2. q \notin overlapped /\ q # r
    BY <1>2, <2>1
  <2> QED
    BY <1>2, <2>1, <2>2 DEF Promises, OverlapOK, Disturbs
<1> QED
  BY <1>1, <1>3, <1>4 DEF Objects, ControlOK, None

\* An answered registration that nothing disturbed is listed, an answered
\* cancellation is not.
LEMMA AnswerIsTrue ==
  ASSUME Objects, Promises, NEW r \in Active \ overlapped, Step(r), pc'[r] = "idle"
  PROVE  /\ arg[r].op = "Register" => Key(r) \in Listed
         /\ arg[r].op = "Cancel" => Key(r) \notin Listed
<1> USE DEF Objects, ControlOK
<1>1. r \in Handlers /\ arg[r] \in Requests /\ Key(r) \in Zones \X Hosts
  <2>1. r \in Handlers /\ arg[r] \in Requests
    BY Holding DEF Active
  <2> QED
    BY <2>1 DEF Requests, Key
<1>2. ~Request(r)
  BY DEF Request, Arrive, Active
<1>3. ASSUME arg[r].op = "Register"
      PROVE  Reachable(Key(r))
  <2>1. Registering(r)
    BY <1>3 DEF Promises, RegisteringOK
  <2>2. pc[r] \in RegisterSteps \cup {"Register"}
    BY <1>1, <1>3 DEF Promises, OperationOK, Active, Steps, Ops, RegisterSteps, CancelSteps
  <2>3. (NewInstance(r) /\ Place(r) \in DOMAIN inst) \/ CountRegister(r)
    BY <1>1, <1>2, <2>2 DEF Step, NewApps, NewApp, NewInstance, Goto, Lookup, Renew, CountRenew, Set, Cancel,
       UpdateLatest, CheckLen, DelZone, CheckEmpty, DeleteApps, CountCancel, RegisterSteps
  <2>4. Place(r) \in DOMAIN inst /\ at[r].app = AppOf(arg[r].zone)
    BY <2>1, <2>3 DEF Registering, NewInstance, CountRegister
  <2> QED
    BY <2>4 DEF Reachable, Place, Key
<1>4. ASSUME arg[r].op = "Cancel"
      PROVE  ~Reachable(Key(r))
  <2>1. Cancelling(r)
    BY DEF Promises, CancellingOK
  <2>2. CASE pc[r] \in CancelSteps
    BY <2>1, <2>2 DEF Cancelling
  <2>3. CASE pc[r] = "Cancel"
    <3>1. Place(r) \notin DOMAIN inst
      BY <1>1, <1>2, <2>3 DEF Step, NewApps, NewApp, NewInstance, CountRegister, Goto, Lookup, Renew,
         CountRenew, Set, Cancel, UpdateLatest, CheckLen, DelZone, CheckEmpty, DeleteApps, CountCancel
    <3> QED
      BY <2>1, <2>3, <3>1 DEF Cancelling, Reachable, Place, Key
  <2>4. CASE pc[r] = "apps"
    <3>1. Lookup(r)
      BY <1>1, <1>2, <2>4 DEF Step, NewApps, NewApp, NewInstance, CountRegister, Renew,
         CountRenew, Set, Cancel, UpdateLatest, CheckLen, DelZone, CheckEmpty, DeleteApps, CountCancel
    <3>2. AppOf(arg[r].zone) = None
      BY <1>1, <1>4, <3>1 DEF Lookup, Goto
    <3> QED
      BY <1>1, <3>2, FoundObjects DEF Key
  <2> QED
    BY <1>1, <1>4, <2>2, <2>3, <2>4 DEF Promises, OperationOK, Active, Steps, Ops, RegisterSteps
<1> QED
  BY <1>1, <1>3, <1>4 DEF Listed

LEMMA AnswerReturns ==
  ASSUME Objects, Promises, NEW r \in Active, NEW v, AnswerKnowing(r, v), Step(r)
  PROVE  Dir!Return(r)
<1> USE DEF Objects, ControlOK
<1>1. r \in Handlers /\ arg[r] \in Requests /\ Key(r) \in Zones \X Hosts
  <2>1. r \in Handlers /\ arg[r] \in Requests
    BY Holding DEF Active
  <2> QED
    BY <2>1 DEF Requests, Key
<1>2. /\ Pending[r] = Asked(r) /\ Pending[r] # Dir!Idle
      /\ Pending[r].op = arg[r].op /\ Dir!Key(Pending[r]) = Key(r)
  BY PendingAt
<1>3. Pending' = [Pending EXCEPT ![r] = Dir!Idle] /\ overlapped' = overlapped \ {r}
  BY <1>1, PendingStep
<1>4. pc'[r] = "idle"
  BY <1>1 DEF AnswerKnowing
<1>5. Listed' = Listed
  <2>1. ~DelZone(r) /\ ~DeleteApps(r)
    BY <1>1, <1>4 DEF DelZone, DeleteApps, Goto
  <2>2. ~(NewInstance(r) /\ Place(r) \notin DOMAIN inst)
    BY <1>1, <1>4 DEF NewInstance, Goto
  <2> QED
    BY <1>1, <1>4, <2>1, <2>2, ListedStep DEF Promises
<1>6. known' = [known EXCEPT ![Key(r)] = IF r \in overlapped THEN Unknown ELSE v]
  BY DEF AnswerKnowing
<1>7. r \in overlapped => Doubt' = Doubt \cup {Key(r)}
  BY <1>1, <1>6 DEF Doubt
<1>8. ASSUME r \notin overlapped
      PROVE  Doubt' \in {Doubt, Doubt \ {Key(r)}}
  <2>1. known'[Key(r)] = v
    BY <1>1, <1>6, <1>8
  <2>2. v = known[Key(r)] \/ v # Unknown
    <3>1. SUFFICES ASSUME v # known[Key(r)] PROVE v # Unknown
      OBVIOUS
    <3>2. known[Key(r)] \in Nat \cup {Unknown} /\ arg[r].ts \in Nat
      BY <1>1 DEF Requests
    <3>3. \/ CountRegister(r) /\ v = arg[r].ts
          \/ NewInstance(r) /\ v = Newest(known[Key(r)], arg[r].ts)
          \/ v = arg[r].ts
          \/ v = None
      BY <1>1, <1>8, <2>1, <3>1, KnownStep
    <3> QED
      BY <3>2, <3>3 DEF Newest, Unknown, None
  <2> QED
    BY <1>1, <1>6, <1>8, <2>1, <2>2 DEF Doubt
<1>9. ASSUME r \notin overlapped
      PROVE  /\ arg[r].op = "Register" => Key(r) \in Listed
             /\ arg[r].op = "Cancel" => Key(r) \notin Listed
  BY <1>4, <1>9, AnswerIsTrue
<1> QED
  BY <1>1, <1>2, <1>3, <1>5, <1>7, <1>8, <1>9, AbstractReturn

LEMMA RequestCalls ==
  ASSUME Objects, NEW r \in Handlers, Request(r)
  PROVE  \E req \in Dir!Requests : Dir!Call(r, req)
<1> USE DEF Objects, ControlOK
<1>1. PICK op, zone, host, ts :
        op \in Ops /\ zone \in Zones /\ host \in Hosts /\ Arrive(r, op, zone, host, ts)
  BY DEF Request, Ops
<1> DEFINE new == [op |-> op, zone |-> zone, host |-> host, ts |-> ts]
           req == [op |-> op, zone |-> zone, host |-> host]
<1>2. req \in Dir!Requests
  BY <1>1 DEF Dir!Requests, Ops
<1>3. /\ pc[r] = "idle" /\ pc' = [pc EXCEPT ![r] = IF op = "Register" THEN "newApps" ELSE "apps"]
      /\ arg' = [arg EXCEPT ![r] = new]
      /\ overlapped' = overlapped \cup {q \in Active : Disturbs(new, arg[q])}
                         \cup {q \in {r} : \E s \in Active : Disturbs(arg[s], new)}
      /\ UNCHANGED <<appm, apps, inst, known>>
  BY <1>1 DEF Arrive, store
<1>4. Listed' = Listed /\ Doubt' = Doubt
  BY <1>3 DEF Listed, Doubt, Reachable, AppOf
<1>5. Pending[r] = Dir!Idle
  BY <1>3 DEF Pending, Dir!Idle
<1>6. Pending' = [Pending EXCEPT ![r] = req]
  <2>1. arg'[r] = new /\ pc'[r] # "idle" /\ \A q \in Handlers \ {r} : arg'[q] = arg[q] /\ pc'[q] = pc[q]
    BY <1>3
  <2> HIDE DEF new
  <2>2. \A q \in Handlers \ {r} : Asked(q)' = Asked(q)
    BY <2>1 DEF Asked
  <2>3. Asked(r)' = req
    BY <2>1 DEF Asked, new
  <2> QED
    BY <2>1, <2>2, <2>3 DEF Pending
<1>7. \A q \in Active : /\ Disturbs(new, arg[q]) <=> Dir!Disturbs(req, Pending[q])
                        /\ Disturbs(arg[q], new) <=> Dir!Disturbs(Pending[q], req)
  <2> SUFFICES ASSUME NEW q \in Active
               PROVE  /\ Disturbs(new, arg[q]) <=> Dir!Disturbs(req, Pending[q])
                      /\ Disturbs(arg[q], new) <=> Dir!Disturbs(Pending[q], req)
    OBVIOUS
  <2>1. Pending[q] = [op |-> arg[q].op, zone |-> arg[q].zone, host |-> arg[q].host]
    BY PendingAt DEF Asked
  <2> QED
    BY <2>1 DEF Disturbs, Dir!Disturbs, Dir!Key
<1>8. Dir!Serving = Active
  BY PendingAt
<1>9. overlapped' = overlapped \cup {q \in Dir!Serving : Dir!Disturbs(req, Pending[q])}
                      \cup {q \in {r} : \E s \in Dir!Serving : Dir!Disturbs(Pending[s], req)}
  <2> HIDE DEF new, req
  <2> QED
    BY <1>3, <1>7, <1>8
<1>10. Dir!Call(r, req)
  <2> HIDE DEF new, req
  <2> QED
    BY <1>4, <1>5, <1>6, <1>9, AbstractCall
<1> QED
  BY <1>2, <1>10

LEMMA StepRefines ==
  ASSUME Objects, Promises, NEW r \in Handlers, Step(r)
  PROVE  Dir!Next \/ UNCHANGED Dir!vars
<1>1. CASE Request(r)
  BY <1>1, RequestCalls DEF Dir!Next
<1>2. CASE r \in Active /\ \E v : AnswerKnowing(r, v)
  BY <1>2, AnswerReturns DEF Dir!Next
<1>3. CASE r \in Active /\ \E s \in Steps \ {"idle"} : Goto(r, s)
  <2>1. Pending' = Pending /\ overlapped' = overlapped /\ Doubt' = Doubt
    BY <1>3, PendingStep
  <2>2. Pending[r] = Asked(r) /\ Pending[r].op = arg[r].op /\ Dir!Key(Pending[r]) = Key(r)
    BY <1>3, PendingAt
  <2>3. CASE Listed' = Listed
    BY <2>1, <2>3, AbstractActions
  <2>4. CASE NewInstance(r) /\ Listed' = Listed \cup {Key(r)}
    <3>1. arg[r].op = "Register"
      BY <2>4 DEF NewInstance, Objects, ControlOK, RegisterSteps
    <3> QED
      BY <2>1, <2>2, <2>4, <3>1, AbstractActions DEF Dir!Next
  <2>5. CASE Cancel(r) /\ Listed' = Listed \ {Key(r)}
    <3>1. arg[r].op = "Cancel"
      BY <2>5 DEF Cancel, Objects, ControlOK, Ops
    <3> QED
      BY <2>1, <2>2, <2>5, <3>1, AbstractActions DEF Dir!Next
  <2>6. CASE (DelZone(r) \/ DeleteApps(r)) /\ Listed' \subseteq Listed
    <3>1. arg[r].op = "Cancel"
      BY <2>6 DEF DelZone, DeleteApps, Promises, OperationOK, CancelSteps
    <3>2. \A q \in overlapped : Dir!Key(Pending[q]) = Key(q)
      BY PendingAt DEF Objects, ControlOK
    <3>3. \A k \in Listed \ Listed' : k \in Doubt \/ \E q \in overlapped : k = Dir!Key(Pending[q])
      BY <2>6, <3>2, LostInDoubt
    <3>4. Dir!Vanish(r)
      BY <2>1, <2>2, <2>6, <3>1, <3>3, AbstractVanish
    <3> QED
      BY <3>4 DEF Dir!Next
  <2> QED
    BY <2>3, <2>4, <2>5, <2>6, ListedStep DEF Promises
<1> QED
  BY <1>1, <1>2, <1>3, StepKinds

LEMMA InitRefines == Init => Dir!Init
BY DEF Init, Dir!Init, Dir!Idle, Reachable, Unknown, None

LEMMA StutterRefines ==
  ASSUME UNCHANGED vars
  PROVE  UNCHANGED Dir!vars
BY DEF vars, store, local, history, Dir!vars, Reachable, AppOf

(***************************************************************************)
(* The store implements Directory: between any two critical sections the   *)
(* list a request finds changes by the requests for it alone, and an       *)
(* object that handlers still hold brings no lost instance back.           *)
(***************************************************************************)
THEOREM DirectoryImplemented == Spec => ListsLikeDirectory
<1>1. Init => Dir!Init
  BY InitRefines
<1>2. IInv /\ Promises /\ [Next]_vars => [Dir!Next]_Dir!vars
  BY InvariantObjects, StepRefines, StutterRefines DEF Next
<1> QED
  BY <1>1, <1>2, PromisesKept, PTL DEF Spec, ListsLikeDirectory, Dir!Spec

=============================================================================
