------------------------------- MODULE Locks -------------------------------
(***************************************************************************)
(* The read-write locks of a registry node and the order in which its      *)
(* operations take them.                                                   *)
(*                                                                         *)
(* An operation is a sequence of lock sections: what it does from the call *)
(* that takes a first lock to the one that releases the last, with the     *)
(* calls it makes unfolded.  Between two sections it holds nothing, so     *)
(* that the order of its sections makes no difference to who waits for     *)
(* whom: a thread here runs the sections of its operations in any order,   *)
(* which includes every order of the code.  The locks are                  *)
(*   "alock", "cLock"  Registry.alock and Registry.cLock                   *)
(*   "hosts"           hosts.hclock of the pollers of a key                *)
(*   "sched"           scheduler.mutex                                     *)
(*   "apps", "app"     Apps.lock and App.lock                              *)
(*   "gd"              Guard.lock                                          *)
(* with one object per kind, the case in which every operation meets every *)
(* other.  Sends on a poller's channel end after 500ms and take no lock.   *)
(*                                                                         *)
(* The locks are Go's RWMutex: a writer announces itself, which stops new  *)
(* readers, and then waits for the readers that are inside; its unlock     *)
(* lets in all readers that wait.                                          *)
(***************************************************************************)
EXTENDS Naturals, Sequences, FiniteSets

CONSTANTS Clients,    \* goroutines that serve HTTP requests
          ProcOps     \* what the proc goroutine gets to run

ASSUME LocksAssumption ==
  /\ IsFiniteSet(Clients)
  /\ {"proc", "reload", "nobody"} \cap Clients = {}
  /\ ProcOps \subseteq {"evict", "resetExp"}

VARIABLES todo,      \* per thread: the rest of its lock section
          pending,   \* per lock: the writer that announced itself, or Nobody
          readers,   \* per lock: the threads that hold it for reading
          rwait      \* per lock: the readers that wait for the writer

vars == <<todo, pending, readers, rwait>>

Threads == Clients \cup {"proc", "reload"}
LockNames == {"alock", "cLock", "hosts", "sched", "apps", "app", "gd"}
Nobody == "nobody"

-----------------------------------------------------------------------------
(* Lock sections, as sequences of RLock, Lock and unlock calls. *)

Do(how, l) == [do |-> how, lock |-> l]
Reading(l, body) == <<Do("R", l)>> \o body \o <<Do("U", l)>>
Writing(l, body) == <<Do("W", l)>> \o body \o <<Do("U", l)>>
R(l) == Reading(l, << >>)
W(l) == Writing(l, << >>)

\* Registry.Fetch: alock, Apps.InstanceInfo if the key is there, then
\* scheduler.Get if something is new.
Fetch == {R("alock"), W("apps"), R("sched")}

\* Registry.broadcast; under hclock it fetches for each of the hosts.  The
\* order of the sections inside makes no difference either, for all of them
\* hold the same lock.
Broadcast == {W("cLock"), R("hosts")} \cup {Reading("hosts", f) : f \in Fetch}

\* Registry.apps with a zone; allApps, App("") and Len or Instances.
Lookup == {R("alock"), Reading("alock", R("apps"))}
Scan == {R("alock"), R("apps"), R("app")}

Register == {W("alock"), W("apps"), W("app"), W("gd")} \cup Broadcast
Renew == Lookup \cup {W("app")}
\* cancel as if it returned without releasing alock after the delete.
CancelKeepingAlock ==
  Lookup \cup {W("app"), W("apps"), R("app"), R("apps"), <<Do("W", "alock")>>, W("gd")}
    \cup Broadcast
\* App.Cancel, UpdateLatest, Len, Del, App(""), the delete and decrExp.
Cancel ==
  Lookup \cup {W("app"), W("apps"), R("app"), R("apps"), W("alock"), W("gd")} \cup Broadcast
Set == Lookup \cup {W("app")} \cup Broadcast
Polls == Fetch \cup {W("cLock"), W("hosts")}
\* DelConns as if it went on after the unlock for a key without hosts.
DelConnsGoingOn == {W("cLock") \o <<Do("U", "cLock")>>, W("hosts")}
DelConns == {W("cLock"), W("hosts")}

\* evict: allApps first, then the scan and the cancellations, all under alock.
Evict == {Writing("alock", R("alock") \o s) : s \in {<< >>} \cup Scan \cup Cancel}

ResetExp == Scan \cup {W("gd")}

\* scheduler.Reload as if it released its mutex after the broadcast.
ReloadHolding == {Writing("sched", s) : s \in {Writing("alock", W("apps"))} \cup Broadcast}
Reload == {Writing("sched", Writing("alock", a)) : a \in {<< >>, W("apps")}} \cup Broadcast

SectionsOf(t) ==
  CASE t = "proc" -> (IF "evict" \in ProcOps THEN Evict ELSE {})
                       \cup (IF "resetExp" \in ProcOps THEN ResetExp ELSE {})
    [] t = "reload" -> Reload
    [] OTHER -> Register \cup Renew \cup Cancel \cup Scan \cup Fetch \cup Set
                  \cup Polls \cup DelConns

-----------------------------------------------------------------------------
Init ==
  /\ todo = [t \in Threads |-> << >>]
  /\ pending = [l \in LockNames |-> Nobody]
  /\ readers = [l \in LockNames |-> {}]
  /\ rwait = [l \in LockNames |-> {}]

Idle(t) == todo[t] = << >>
At(t, how, l) == ~Idle(t) /\ Head(todo[t]) = Do(how, l)
Advance(ts) == todo' = [t \in Threads |-> IF t \in ts THEN Tail(todo[t]) ELSE todo[t]]

Begin(t) ==
  /\ Idle(t)
  /\ \E section \in SectionsOf(t) : todo' = [todo EXCEPT ![t] = section]
  /\ UNCHANGED <<pending, readers, rwait>>

RLock(t, l) ==
  /\ At(t, "R", l)
  /\ pending[l] = Nobody
  /\ readers' = [readers EXCEPT ![l] = @ \cup {t}]
  /\ Advance({t})
  /\ UNCHANGED <<pending, rwait>>

RLockWaits(t, l) ==
  /\ At(t, "R", l)
  /\ pending[l] # Nobody
  /\ t \notin rwait[l]
  /\ rwait' = [rwait EXCEPT ![l] = @ \cup {t}]
  /\ UNCHANGED <<todo, pending, readers>>

Announce(t, l) ==
  /\ At(t, "W", l)
  /\ pending[l] = Nobody
  /\ pending' = [pending EXCEPT ![l] = t]
  /\ UNCHANGED <<todo, readers, rwait>>

Lock(t, l) ==
  /\ At(t, "W", l)
  /\ pending[l] = t
  /\ readers[l] = {}
  /\ Advance({t})
  /\ UNCHANGED <<pending, readers, rwait>>

RUnlock(t, l) ==
  /\ At(t, "U", l)
  /\ t \in readers[l]
  /\ readers' = [readers EXCEPT ![l] = @ \ {t}]
  /\ Advance({t})
  /\ UNCHANGED <<pending, rwait>>

Unlock(t, l) ==
  /\ At(t, "U", l)
  /\ pending[l] = t
  /\ pending' = [pending EXCEPT ![l] = Nobody]
  /\ readers' = [readers EXCEPT ![l] = rwait[l]]
  /\ rwait' = [rwait EXCEPT ![l] = {}]
  /\ Advance({t} \cup rwait[l])

Continue(t) ==
  \E l \in LockNames :
    RLock(t, l) \/ RLockWaits(t, l) \/ Announce(t, l) \/ Lock(t, l) \/ RUnlock(t, l) \/ Unlock(t, l)

Next == \E t \in Threads : Begin(t) \/ Continue(t)

\* A mutex is handed to a goroutine that waits too long (Go's starvation
\* mode), so that a thread that can go on again and again does go on.
Fairness == \A t \in Threads : SF_vars(Continue(t))

Spec == Init /\ [][Next]_vars /\ Fairness

-----------------------------------------------------------------------------
(***************************************************************************)
(* The types, and that no goroutine gets to unlock a lock that it does not *)
(* hold, which would end the node ("unlock of unlocked RWMutex"): the      *)
(* early returns of broadcast and DelConns (registery.go:260-264, 363-367) *)
(* release what is taken, and no more.                                     *)
(***************************************************************************)
TypeOK ==
  /\ todo \in [Threads -> Seq([do : {"R", "W", "U"}, lock : LockNames])]
  /\ pending \in [LockNames -> Threads \cup {Nobody}]
  /\ readers \in [LockNames -> SUBSET Threads]
  /\ rwait \in [LockNames -> SUBSET Threads]
  /\ \A l \in LockNames : pending[l] = Nobody => rwait[l] = {}
  /\ \A t \in Threads, l \in LockNames : At(t, "U", l) => t \in readers[l] \/ pending[l] = t

\* The threads that must move before t can.
Blockers(t) ==
  IF Idle(t) THEN {}
  ELSE LET l == Head(todo[t]).lock
       IN CASE At(t, "W", l) /\ pending[l] = t -> readers[l]
            [] At(t, "W", l) /\ pending[l] # t -> {pending[l]} \ {Nobody}
            [] At(t, "R", l) -> {pending[l]} \ {Nobody}
            [] OTHER -> {}

(***************************************************************************)
(* No group of goroutines waits in a circle, not even one goroutine for    *)
(* itself, whatever sections meet on the seven locks, among them a         *)
(* broadcast that fetches while it holds hclock and a reload that holds    *)
(* the scheduler's mutex over alock (registery.go, instance.go, guard.go,  *)
(* scheduler.go).  This is so without evict, which waits for itself.       *)
(***************************************************************************)
NoCircularWait ==
  \A group \in SUBSET Threads :
    group # {} => \E t \in group : Blockers(t) \cap group = {}

(***************************************************************************)
(* Every operation but evict returns: a request is not kept waiting        *)
(* forever by the others, however many of them keep coming, though a       *)
(* writer stops the readers that come after it and a broadcast takes alock *)
(* under hclock (registery.go:257-283, 359-379).                           *)
(***************************************************************************)
EveryOperationReturns == \A t \in Threads : ~Idle(t) ~> Idle(t)

(***************************************************************************)
(* doc/register.md:107: the registry regularly cleans up expired           *)
(* instances.  So an eviction that starts also ends.                       *)
(***************************************************************************)
EvictionEnds == ~Idle("proc") ~> Idle("proc")

=============================================================================
