------------------------------ MODULE Registry ------------------------------
(***************************************************************************)
(* The store of one registry node (registry/registery.go, with App and     *)
(* Apps of model/instance.go) under concurrent request handlers.           *)
(*                                                                         *)
(* The module follows one key of Registry.appm, an (appid, env) pair:      *)
(* handlers of different keys share only Registry.alock and the guard.     *)
(* The objects are                                                         *)
(*   appm    the Apps object under the key, or None                        *)
(*   apps    every Apps object ever made: its index (latestTimestamp) and  *)
(*           its App object per zone.  An object that left appm stays      *)
(*           here as long as a handler may still hold a pointer to it      *)
(*   inst    the instances: App object and hostname to LatestTimestamp     *)
(* A step is one critical section (alock, Apps.lock, App.lock, Guard.lock) *)
(* of the code; a handler releases the lock between two of them, and other *)
(* handlers run there.  Registry.apps holds alock for reading around       *)
(* Apps.App, so that the two are one step.  The broadcast that ends        *)
(* Register, cancel and Set changes nothing here (LongPoll models it).     *)
(*                                                                         *)
(* Metadata, addresses, status and the other timestamps of an instance are *)
(* left out: no decision here depends on them.  The minute ticker is left  *)
(* out because its first tick never returns (module Locks).                *)
(***************************************************************************)
EXTENDS Guard, FiniteSets, Sequences

CONSTANTS Handlers,     \* goroutines that serve requests
          Zones, Hosts,
          MaxArrivals   \* bound on the requests that arrive

ASSUME RegistryAssumption ==
  /\ IsFiniteSet(Handlers)
  /\ IsFiniteSet(Hosts)
  /\ MaxArrivals \in Nat

VARIABLES
  appm, apps, nApp, inst,
  clock,        \* time.Now(): the number of requests that have arrived
  pc, arg, at,  \* per handler: next step, request, the pointers it holds
  overlapped,   \* history: handlers another handler may have disturbed
  known,        \* history: what an instance must be, from the answers given
  skipped       \* history: calls of decrExp that changed nothing

store == <<appm, apps, nApp, inst>>
local == <<pc, arg, at>>
history == <<overlapped, known, skipped>>
vars == <<store, guardVars, clock, local, history>>

None == 0                    \* no object, no timestamp
Unknown == -1                \* nothing can be said of the instance

Ops == {"Register", "Renew", "Cancel", "Set"}
NoArg == [op |-> "none", ts |-> None]
NoPointers == [apps |-> None, app |-> None, emptied |-> FALSE]

Key(r) == <<arg[r].zone, arg[r].host>>
Place(r) == <<at[r].app, arg[r].host>>

\* The instances held by an App object (App.Instances, App.Len).
InstancesOf(app) == {k \in DOMAIN inst : k[1] = app}

\* The App object a request finds: Registry.apps with a zone.
AppOf(zone) == IF appm = None THEN None ELSE apps[appm].zone[zone]

\* The place of an instance that requests can find.
Reachable(k) == <<AppOf(k[1]), k[2]>> \in DOMAIN inst

Put(f, k, v) == [x \in DOMAIN f \cup {k} |-> IF x = k THEN v ELSE f[x]]
Drop(f, k) == [x \in DOMAIN f \ {k} |-> f[x]]

Init ==
  /\ appm = None
  /\ apps = << >>
  /\ nApp = 0
  /\ inst = [k \in {} |-> None]
  /\ GuardInit
  /\ clock = 0
  /\ pc = [r \in Handlers |-> "idle"]
  /\ arg = [r \in Handlers |-> NoArg]
  /\ at = [r \in Handlers |-> NoPointers]
  /\ overlapped = {}
  /\ known = [k \in Zones \X Hosts |-> None]
  /\ skipped = 0

-----------------------------------------------------------------------------
(***************************************************************************)
(* History.  Request a disturbs request b when a may change what b is      *)
(* about to establish: both are about the same instance and a changes it,  *)
(* or b registers while a cancels anything of the same key.                *)
(***************************************************************************)
Disturbs(a, b) ==
  \/ a.op # "Renew" /\ a.zone = b.zone /\ a.host = b.host
  \/ a.op = "Cancel" /\ b.op = "Register"

Newest(a, b) == IF a > b THEN a ELSE b

Active == {r \in Handlers : pc[r] # "idle"}

Goto(r, step) ==
  /\ pc' = [pc EXCEPT ![r] = step]
  /\ UNCHANGED <<arg, overlapped, known>>

\* The handler answers; v is what its instance is known to be from now on.
AnswerKnowing(r, v) ==
  /\ pc' = [pc EXCEPT ![r] = "idle"]
  /\ arg' = [arg EXCEPT ![r] = NoArg]
  /\ at' = [at EXCEPT ![r] = NoPointers]
  /\ overlapped' = overlapped \ {r}
  /\ known' = [known EXCEPT ![Key(r)] = IF r \in overlapped THEN Unknown ELSE v]

Answer(r) == AnswerKnowing(r, known[Key(r)])

(***************************************************************************)
(* A request arrives.  The timestamp of a registration is the time of its  *)
(* arrival, or an earlier one: syncUp stores the instances of a remote     *)
(* node, and regSelf registers again with the instance made at startup.    *)
(* A Set carries the set_timestamp of its caller, or the time of arrival.  *)
(* A cancellation carries the zero latest_timestamp that clients send.     *)
(***************************************************************************)
Arrive(r, op, zone, host, ts) ==
  LET new == [op |-> op, zone |-> zone, host |-> host, ts |-> ts]
  IN /\ pc[r] = "idle"
     /\ clock < MaxArrivals
     /\ clock' = clock + 1
     /\ pc' = [pc EXCEPT ![r] = IF op = "Register" THEN "newApps" ELSE "apps"]
     /\ arg' = [arg EXCEPT ![r] = new]
     /\ overlapped' = overlapped \cup {q \in Active : Disturbs(new, arg[q])}
                        \cup {q \in {r} : \E s \in Active : Disturbs(arg[s], new)}
     /\ UNCHANGED <<store, guardVars, at, known, skipped>>

Request(r) ==
  \E zone \in Zones, host \in Hosts :
    \/ \E ts \in 1..(clock + 1) :
         Arrive(r, "Register", zone, host, ts) \/ Arrive(r, "Set", zone, host, ts)
    \/ Arrive(r, "Renew", zone, host, None)
    \/ Arrive(r, "Cancel", zone, host, None)

-----------------------------------------------------------------------------
(* Register: newApps, NewApp, NewInstance, incrExp. *)

\* Registry.newApps as if it made an object without looking for one.
NewAppsAlways(r) ==
  /\ pc[r] = "newApps"
  /\ apps' = Append(apps, [latest |-> None, zone |-> [z \in Zones |-> None]])
  /\ appm' = Len(apps) + 1
  /\ at' = [at EXCEPT ![r].apps = appm']
  /\ Goto(r, "newApp")
  /\ UNCHANGED <<nApp, inst, guardVars, clock, skipped>>
\* Registry.newApps as if it took up again the last object that was deleted.
NewAppsReusing(r) ==
  /\ pc[r] = "newApps"
  /\ \/ /\ appm = None /\ apps = << >>
        /\ apps' = Append(apps, [latest |-> None, zone |-> [z \in Zones |-> None]])
     \/ (appm # None \/ apps # << >>) /\ UNCHANGED apps
  /\ appm' = IF appm = None THEN Len(apps') ELSE appm
  /\ at' = [at EXCEPT ![r].apps = appm']
  /\ Goto(r, "newApp")
  /\ UNCHANGED <<nApp, inst, guardVars, clock, skipped>>
NewApps(r) ==
  /\ pc[r] = "newApps"
  /\ \/ /\ appm = None
        /\ apps' = Append(apps, [latest |-> None, zone |-> [z \in Zones |-> None]])
        /\ appm' = Len(apps) + 1
     \/ appm # None /\ UNCHANGED <<apps, appm>>
  /\ at' = [at EXCEPT ![r].apps = appm']
  /\ Goto(r, "newApp")
  /\ UNCHANGED <<nApp, inst, guardVars, clock, skipped>>

\* The index after a change at lts, in Apps.NewApp and Apps.UpdateLatest.
BumpKeepingEqual(latest, lts) == IF lts < latest THEN latest + 1 ELSE lts
Bump(latest, lts) == IF lts <= latest THEN latest + 1 ELSE lts

NewApp(r) ==
  LET p == at[r].apps
      old == apps[p].zone[arg[r].zone]
      app == IF old = None THEN nApp + 1 ELSE old
  IN /\ pc[r] = "newApp"
     /\ apps' = [apps EXCEPT ![p] = [latest |-> Bump(apps[p].latest, arg[r].ts),
                                     zone |-> [apps[p].zone EXCEPT ![arg[r].zone] = app]]]
     /\ nApp' = IF old = None THEN app ELSE nApp
     /\ at' = [at EXCEPT ![r].app = app]
     /\ Goto(r, "newInstance")
     /\ UNCHANGED <<appm, inst, guardVars, clock, skipped>>

\* The record App.NewInstance keeps when the hostname is already there.
KeepCaller(old, ts) == ts
Keep(old, ts) == IF ts < old THEN old ELSE ts

NewInstance(r) ==
  LET new == Place(r) \notin DOMAIN inst
      lts == IF new THEN arg[r].ts ELSE Keep(inst[Place(r)], arg[r].ts)
  IN /\ pc[r] = "newInstance"
     /\ inst' = Put(inst, Place(r), lts)
     /\ \/ new /\ at' = at /\ Goto(r, "incrExp")
        \/ ~new /\ AnswerKnowing(r, Newest(known[Key(r)], arg[r].ts))
     /\ UNCHANGED <<appm, apps, nApp, guardVars, clock, skipped>>

CountRegister(r) ==
  /\ pc[r] = "incrExp"
  /\ IncrExp
  /\ AnswerKnowing(r, arg[r].ts)
  /\ UNCHANGED <<store, clock, skipped>>

-----------------------------------------------------------------------------
(* Renew, Cancel and Set first look up the App of the zone. *)

Lookup(r) ==
  /\ pc[r] = "apps"
  /\ \/ /\ AppOf(arg[r].zone) # None
        /\ at' = [at EXCEPT ![r].apps = appm, ![r].app = AppOf(arg[r].zone)]
        /\ Goto(r, arg[r].op)
     \/ AppOf(arg[r].zone) = None /\ Answer(r)
  /\ UNCHANGED <<store, guardVars, clock, skipped>>

Renew(r) ==
  /\ pc[r] = "Renew"
  /\ \/ Place(r) \in DOMAIN inst /\ at' = at /\ Goto(r, "incrFac")
     \/ Place(r) \notin DOMAIN inst /\ Answer(r)
  /\ UNCHANGED <<store, guardVars, clock, skipped>>

CountRenew(r) ==
  /\ pc[r] = "incrFac"
  /\ IncrFac
  /\ Answer(r)
  /\ UNCHANGED <<store, clock, skipped>>

\* App.Set with one hostname; Apps.latestTimestamp is not touched.
Set(r) ==
  /\ pc[r] = "Set"
  /\ \/ /\ Place(r) \in DOMAIN inst
        /\ inst' = Put(inst, Place(r), arg[r].ts)
        /\ AnswerKnowing(r, IF known[Key(r)] > 0 THEN arg[r].ts ELSE known[Key(r)])
     \/ Place(r) \notin DOMAIN inst /\ Answer(r) /\ inst' = inst
  /\ UNCHANGED <<appm, apps, nApp, guardVars, clock, skipped>>

\* Cancel as if it went on when App.Cancel finds no instance.
CancelUnchecked(r) ==
  LET rest == InstancesOf(at[r].app) \ {Place(r)}
  IN /\ pc[r] = "Cancel"
     /\ inst' = Drop(inst, Place(r))
     /\ at' = [at EXCEPT ![r].emptied = rest = {}]
     /\ Goto(r, "updateLatest")
     /\ UNCHANGED <<appm, apps, nApp, guardVars, clock, skipped>>
Cancel(r) ==
  LET rest == InstancesOf(at[r].app) \ {Place(r)}
  IN /\ pc[r] = "Cancel"
     /\ \/ /\ Place(r) \in DOMAIN inst
           /\ inst' = Drop(inst, Place(r))
           /\ at' = [at EXCEPT ![r].emptied = rest = {}]
           /\ Goto(r, "updateLatest")
        \/ Place(r) \notin DOMAIN inst /\ Answer(r) /\ inst' = inst
     /\ UNCHANGED <<appm, apps, nApp, guardVars, clock, skipped>>

\* cancel as if it removed the zone whatever App.Cancel left in it.
UpdateLatestAndDel(r) ==
  /\ pc[r] = "updateLatest"
  /\ apps' = [apps EXCEPT ![at[r].apps].latest = Bump(@, arg[r].ts)]
  /\ Goto(r, "del")
  /\ UNCHANGED <<appm, nApp, inst, guardVars, clock, at, skipped>>
UpdateLatest(r) ==
  /\ pc[r] = "updateLatest"
  /\ apps' = [apps EXCEPT ![at[r].apps].latest = Bump(@, arg[r].ts)]
  /\ Goto(r, IF at[r].emptied THEN "len" ELSE "emptyCheck")
  /\ UNCHANGED <<appm, nApp, inst, guardVars, clock, at, skipped>>

CheckLen(r) ==
  /\ pc[r] = "len"
  /\ Goto(r, IF InstancesOf(at[r].app) = {} THEN "del" ELSE "emptyCheck")
  /\ UNCHANGED <<store, guardVars, clock, at, skipped>>

\* Apps.Del(zone) removes whatever App is under the zone.
DelZone(r) ==
  /\ pc[r] = "del"
  /\ apps' = [apps EXCEPT ![at[r].apps].zone[arg[r].zone] = None]
  /\ Goto(r, "emptyCheck")
  /\ UNCHANGED <<appm, nApp, inst, guardVars, clock, at, skipped>>

CheckEmpty(r) ==
  /\ pc[r] = "emptyCheck"
  /\ Goto(r, IF \A z \in Zones : apps[at[r].apps].zone[z] = None
             THEN "delete" ELSE "decrExp")
  /\ UNCHANGED <<store, guardVars, clock, at, skipped>>

\* delete(r.appm, key) removes whatever Apps is under the key.
DeleteApps(r) ==
  /\ pc[r] = "delete"
  /\ appm' = None
  /\ Goto(r, "decrExp")
  /\ UNCHANGED <<apps, nApp, inst, guardVars, clock, at, skipped>>

CountCancel(r) ==
  /\ pc[r] = "decrExp"
  /\ DecrExp
  /\ skipped' = IF expPerMin > 0 THEN skipped ELSE skipped + 1
  /\ AnswerKnowing(r, None)
  /\ UNCHANGED <<store, clock>>

-----------------------------------------------------------------------------
Step(r) ==
  \/ Request(r)
  \/ NewApps(r) \/ NewApp(r) \/ NewInstance(r) \/ CountRegister(r)
  \/ Lookup(r)
  \/ Renew(r) \/ CountRenew(r)
  \/ Set(r)
  \/ Cancel(r) \/ UpdateLatest(r) \/ CheckLen(r) \/ DelZone(r)
  \/ CheckEmpty(r) \/ DeleteApps(r) \/ CountCancel(r)

Next == \E r \in Handlers : Step(r)

Spec == Init /\ [][Next]_vars

-----------------------------------------------------------------------------
RegisterSteps == {"newApps", "newApp", "newInstance", "incrExp"}
CancelSteps == {"updateLatest", "len", "del", "emptyCheck", "delete", "decrExp"}
Steps == {"idle", "apps", "incrFac"} \cup Ops \cup RegisterSteps \cup CancelSteps

Requests == [op : Ops, zone : Zones, host : Hosts, ts : Nat]
Pointers == [apps : 0..Len(apps), app : 0..nApp, emptied : BOOLEAN]

StoreOK ==
  /\ appm \in 0..Len(apps)
  /\ apps \in Seq([latest : Nat, zone : [Zones -> 0..nApp]])
  /\ nApp \in Nat
  /\ DOMAIN inst \subseteq (1..nApp) \X Hosts
  /\ inst \in [DOMAIN inst -> Nat]

ControlOK ==
  /\ pc \in [Handlers -> Steps]
  /\ arg \in [Handlers -> Requests \cup {NoArg}]
  /\ known \in [Zones \X Hosts -> Nat \cup {Unknown}]
  /\ overlapped \subseteq Active
  /\ \A r \in Handlers :
       /\ pc[r] = "idle" <=> arg[r] = NoArg
       /\ pc[r] \in RegisterSteps => arg[r].op = "Register"
       /\ pc[r] \in Ops => pc[r] = arg[r].op

TypeOK ==
  /\ StoreOK
  /\ ControlOK
  /\ at \in [Handlers -> Pointers]
  /\ expPerMin \in Nat /\ facInMin \in Nat
  /\ clock \in 0..MaxArrivals
  /\ skipped \in Nat

\* No request that changes the instance is being served.
Settled(k) == \A r \in Active : arg[r].op = "Renew" \/ Key(r) # k

(***************************************************************************)
(* What the answers said is so.  An instance whose last registration was   *)
(* not disturbed (no request for the same instance, and no cancellation of *)
(* the same key, ran at the same time) is found under appm, at least as    *)
(* new as the newest timestamp answered for it, or the one the last Set    *)
(* gave it, until someone asks to cancel it, whatever the other handlers   *)
(* do to its App, its Apps and the map in between.  One whose last         *)
(* cancellation was not disturbed is not found (registery.go:102-154,      *)
(* instance.go:137-154).                                                   *)
(***************************************************************************)
SettledIsReachable ==
  \A k \in Zones \X Hosts :
    Settled(k) =>
      /\ known[k] > 0 => Reachable(k) /\ inst[<<AppOf(k[1]), k[2]>>] >= known[k]
      /\ known[k] = None => ~Reachable(k)

(***************************************************************************)
(* Renew, Cancel and Set never hold a stale App for an instance that is    *)
(* known to be registered: the pointer taken under alock still leads to it *)
(* when App.lock is taken, so that no NothingFound is answered for it      *)
(* (registery.go:112-141, 183-192).                                        *)
(***************************************************************************)
HandlerHoldsItsInstance ==
  \A r \in Handlers \ overlapped :
    pc[r] \in {"Renew", "Cancel", "Set"} /\ known[Key(r)] > 0 => Place(r) \in DOMAIN inst

IncrPending == {r \in Handlers : pc[r] = "incrExp"}
DecrPending == {r \in Handlers : pc[r] \in CancelSteps}

(***************************************************************************)
(* The guard never expects less than two heartbeats a minute of every      *)
(* instance that is held, and of every one whose cancellation has not been *)
(* counted yet, save the registrations about to be counted: a shortage of  *)
(* heartbeats is never missed because counting and storing are separate    *)
(* critical sections (registery.go:102-130, guard.go:26-40).               *)
(***************************************************************************)
GuardNeverUnderestimates ==
  2 * (Cardinality(DOMAIN inst) + Cardinality(DecrPending))
    <= expPerMin + 2 * Cardinality(IncrPending)

\* The same as an equation, with the calls of decrExp that did nothing.
GuardAccount ==
  expPerMin + 2 * Cardinality(IncrPending)
    = 2 * (Cardinality(DOMAIN inst) + Cardinality(DecrPending) + skipped)

(***************************************************************************)
(* Each registration and each cancellation moves the index of its Apps     *)
(* strictly forward, also when two carry the same timestamp or a later one *)
(* an earlier timestamp: a poller that fetched before the change holds a   *)
(* smaller index and fetches again (instance.go:247-283).                  *)
(***************************************************************************)
IndexAdvances ==
  [][\A r \in Handlers :
       pc[r] \in {"newApp", "updateLatest"} /\ pc'[r] # pc[r] =>
         apps'[at[r].apps].latest > apps[at[r].apps].latest]_vars

(***************************************************************************)
(* The store keeps the promise of Directory, at every step between two     *)
(* critical sections: an instance comes and goes by requests for it alone, *)
(* and no object that handlers still hold brings a lost one back           *)
(* (registery.go:52-153, instance.go:136-190).                             *)
(***************************************************************************)
Dir == INSTANCE Directory WITH
  listed <- {k \in Zones \X Hosts : Reachable(k)},
  pending <- [r \in Handlers |->
                IF pc[r] = "idle" THEN [op |-> "none", zone |-> "none", host |-> "none"]
                ELSE [op |-> arg[r].op, zone |-> arg[r].zone, host |-> arg[r].host]],
  disturbed <- overlapped,
  doubt <- {k \in Zones \X Hosts : known[k] = Unknown}

ListsLikeDirectory == Dir!Spec

-----------------------------------------------------------------------------
(* What the documentation says and the code does not do. *)

Quiet == Active = {}

(***************************************************************************)
(* doc/register.md:58: the path of an instance is                          *)
(* Registry.appm[appid-env].apps[zone].instances[hostname].                *)
(***************************************************************************)
InstancesAreReachable ==
  Quiet => \A k \in DOMAIN inst : appm # None /\ \E z \in Zones : AppOf(z) = k[1]

=============================================================================
