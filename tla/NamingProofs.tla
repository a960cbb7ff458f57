---------------------------- MODULE NamingProofs ----------------------------
(***************************************************************************)
(* Theorems about Naming, for every set of discovery nodes, seeds, apps    *)
(* and resolvers, and every number of events.                              *)
(***************************************************************************)
EXTENDS Naming, FiniteSetTheorems, TLAPS

-----------------------------------------------------------------------------
(* A poll under way asks for every app.  The property is inductive: only   *)
(* Build adds an app, and it cancels the context of the poll.              *)

LEMMA InitCovers == Init => PollCoversApps
BY DEF Init, PollCoversApps

LEMMA ServerprocCovers == PollCoversApps /\ serverproc => PollCoversApps'
<1> SUFFICES ASSUME PollCoversApps, serverproc PROVE PollCoversApps'
  OBVIOUS
<1>1. CASE Arm
  BY <1>1 DEF PollCoversApps, Arm
<1>2. CASE Stop
  BY <1>2 DEF PollCoversApps, Stop
<1>3. CASE Ask
  BY <1>3 DEF PollCoversApps, Ask
<1>4. CASE Answer
  BY <1>4 DEF PollCoversApps, Answer
<1>5. CASE Fail
  BY <1>5 DEF PollCoversApps, Fail
<1>6. CASE Retry
  BY <1>6 DEF PollCoversApps, Retry
<1>7. CASE LoadNodes
  BY <1>7 DEF PollCoversApps, LoadNodes
<1>8. CASE tryAppendSeedNodes
  BY <1>8 DEF PollCoversApps, tryAppendSeedNodes
<1>9. CASE \E a \in Apps : Store(a)
  BY <1>9 DEF PollCoversApps, Store, store, resolves
<1>10. CASE Notify
  BY <1>10 DEF PollCoversApps, Notify
<1> QED
  BY <1>1, <1>2, <1>3, <1>4, <1>5, <1>6, <1>7, <1>8, <1>9, <1>10 DEF serverproc

LEMMA OthersCover ==
  ASSUME PollCoversApps,
         \/ \E r \in Resolvers : watcher(r) \/ CloseResolver(r) \/ \E a \in Apps : Build(r, a)
         \/ Switch \/ Close
         \/ \E h \in Hosts : Crash(h) \/ \E a \in Apps : Change(h, a)
  PROVE  PollCoversApps'
<1>1. CASE \E r \in Resolvers, a \in Apps : Build(r, a)
  BY <1>1 DEF PollCoversApps, Build, Cancelled
<1>2. CASE Close
  BY <1>2 DEF PollCoversApps, Close, Cancelled, store
<1>3. CASE \E r \in Resolvers : watcher(r) \/ CloseResolver(r)
  <2>1. UNCHANGED <<apps, proc>>
    BY <1>3 DEF watcher, Announce, Receive, Fetch, Quit, OldNodes, StoreNodes, CloseResolver, store
  <2> QED
    BY <2>1 DEF PollCoversApps, proc
<1>4. CASE Switch \/ \E h \in Hosts : Crash(h) \/ \E a \in Apps : Change(h, a)
  BY <1>4 DEF PollCoversApps, Switch, Crash, Change, store, proc
<1> QED
  BY <1>1, <1>2, <1>3, <1>4

\* No app is forgotten by the poll under way, whenever it is built.
THEOREM PollsCoverApps == Spec => []PollCoversApps
<1>1. PollCoversApps /\ [Next]_vars => PollCoversApps'
  <2>1. ASSUME PollCoversApps, UNCHANGED vars PROVE PollCoversApps'
    BY <2>1 DEF PollCoversApps, vars, store, proc
  <2> QED
    BY <2>1, ServerprocCovers, OthersCover DEF Next
<1> QED
  BY <1>1, InitCovers, PTL DEF Spec

-----------------------------------------------------------------------------
(* The invariant behind the other two properties.                          *)
(*                                                                         *)
(* The answer that broadcast works on is one of the node polled last, on   *)
(* apps that were built; an app that was not built holds nothing; and a    *)
(* resolver that was not built has seen nothing, one that was closed is    *)
(* listed no more.                                                         *)

Replies ==
  /\ spc # "broadcast" => reply = << >>
  /\ DOMAIN reply \subseteq apps
  /\ want \subseteq apps
  /\ \A a \in DOMAIN reply : reply[a].host = lastHost

Held ==
  /\ apps \subseteq Apps
  /\ DOMAIN zone = Apps /\ DOMAIN lastTs = Apps
  /\ \A a \in Apps \ apps : zone[a] = None

IInv == Replies /\ Held /\ PollsWhatItHolds

LEMMA InitIInv == Init => IInv
BY NamingAssumption DEF Init, IInv, Replies, Held, PollsWhatItHolds

\* Nothing of it depends on the list, the events, the watchers and the rest.
LEMMA SameIInv ==
  ASSUME IInv, UNCHANGED <<store, lastHost, reply>>,
         spc' # "broadcast" => reply = << >>,
         want' \subseteq apps
  PROVE  IInv'
BY DEF IInv, Replies, Held, PollsWhatItHolds, store

LEMMA AskIInv ==
  ASSUME IInv, Ask
  PROVE  IInv'
<1>1. PICK h \in pickNode :
        /\ lastHost' = h
        /\ lastTs' = IF h = lastHost THEN lastTs ELSE [a \in Apps |-> 0]
  BY DEF Ask
<1>2. reply = << >> /\ reply' = << >>
  BY DEF IInv, Replies, Ask
<1>3. Replies'
  BY <1>2 DEF Replies, Ask
<1>4. Held'
  BY <1>1 DEF IInv, Held, Ask, resolves
<1>5. PollsWhatItHolds'
  BY <1>1 DEF IInv, Held, PollsWhatItHolds, Ask
<1> QED
  BY <1>3, <1>4, <1>5 DEF IInv

LEMMA AnswerIInv ==
  ASSUME IInv, Answer
  PROVE  IInv'
<1>1. /\ DOMAIN Kept \subseteq want
      /\ \A a \in DOMAIN Kept : Kept[a].host = lastHost
  BY DEF Kept, News
<1>2. Replies'
  BY <1>1 DEF IInv, Replies, Answer, store
<1> QED
  BY <1>2 DEF IInv, Held, PollsWhatItHolds, Answer, store

LEMMA StoreIInv ==
  ASSUME IInv, NEW a \in Apps, Store(a)
  PROVE  IInv'
<1>1. /\ reply' = [x \in DOMAIN reply \ {a} |-> reply[x]]
      /\ a \in DOMAIN reply /\ reply[a].host = lastHost /\ a \in apps
      /\ UNCHANGED <<apps, lastHost, want, spc>> /\ spc = "broadcast"
  BY DEF IInv, Replies, Store
<1>2. Replies'
  BY <1>1 DEF IInv, Replies
<1>3. Held'
  BY <1>1 DEF IInv, Held, Store
<1>4. PollsWhatItHolds'
  BY <1>1 DEF IInv, Held, PollsWhatItHolds, Store
<1> QED
  BY <1>2, <1>3, <1>4 DEF IInv

LEMMA ServerprocIInv ==
  ASSUME IInv, serverproc
  PROVE  IInv'
<1>1. CASE Arm \/ Stop \/ Fail \/ Retry \/ LoadNodes \/ tryAppendSeedNodes
  BY <1>1, SameIInv
  DEF IInv, Replies, Arm, Stop, Fail, Retry, LoadNodes, tryAppendSeedNodes
<1>2. CASE Notify
  <2>1. spc' # "broadcast" => reply = << >>
    BY <1>2 DEF Notify
  <2> QED
    BY <1>2, <2>1, SameIInv DEF IInv, Replies, Notify
<1> QED
  BY <1>1, <1>2, AskIInv, AnswerIInv, StoreIInv DEF serverproc

LEMMA BuildIInv ==
  ASSUME IInv, NEW r \in Resolvers, NEW a \in Apps, Build(r, a)
  PROVE  IInv'
BY DEF IInv, Replies, Held, PollsWhatItHolds, Build

LEMMA OthersIInv ==
  ASSUME IInv,
         \/ \E r \in Resolvers : watcher(r) \/ CloseResolver(r)
         \/ Switch \/ Close
         \/ \E h \in Hosts : Crash(h) \/ \E a \in Apps : Change(h, a)
  PROVE  IInv'
<1>1. UNCHANGED <<store, lastHost, reply, spc, want>>
  BY DEF watcher, Announce, Receive, Fetch, Quit, OldNodes, StoreNodes, CloseResolver,
         Switch, Close, Crash, Change, proc
<1> QED
  BY <1>1, SameIInv DEF IInv, Replies

LEMMA NextIInv == IInv /\ [Next]_vars => IInv'
<1>1. ASSUME IInv, UNCHANGED vars PROVE IInv'
  BY <1>1, SameIInv DEF IInv, Replies, vars, proc
<1> QED
  BY <1>1, ServerprocIInv, BuildIInv, OthersIInv DEF Next

LEMMA Invariance == Spec => []IInv
BY InitIInv, NextIInv, PTL DEF Spec

\* A poll tells a node only timestamps of instances that the client holds from
\* that node, however the node is switched and the list replaced.
THEOREM PollsTellWhatIsHeld == Spec => []PollsWhatItHolds
BY Invariance, PTL DEF IInv

-----------------------------------------------------------------------------
(* No watcher misses an event. *)

Watched ==
  /\ \A f \in {event, rpc, seen, id, quit} : DOMAIN f = Resolvers
  /\ joined \subseteq Resolvers
  /\ \A r \in joined : id[r] \in apps /\ ~quit[r] /\ rpc[r] # "none"
  /\ \A r \in Resolvers : rpc[r] = "none" => seen[r] = None /\ ~quit[r]

WInv == IInv /\ Watched /\ NoMissedEvent

LEMMA InitWatched == Init => Watched /\ NoMissedEvent
<1> SUFFICES ASSUME Init PROVE Watched /\ NoMissedEvent
  OBVIOUS
<1>1. SelfResolver \in Resolvers /\ Self \in Apps
  BY NamingAssumption
<1>2. /\ joined = {SelfResolver} /\ apps = {Self} /\ id[SelfResolver] = Self
      /\ rpc[SelfResolver] = "wait" /\ zone[Self] = None
      /\ \A r \in Resolvers : seen[r] = None /\ ~quit[r]
  BY <1>1 DEF Init
<1>3. \A f \in {event, rpc, seen, id, quit} : DOMAIN f = Resolvers
  BY DEF Init
<1> QED
  BY <1>1, <1>2, <1>3 DEF Watched, NoMissedEvent

LEMMA StoreWatched ==
  ASSUME WInv, NEW a \in Apps, Store(a)
  PROVE  (Watched /\ NoMissedEvent)'
<1>1. UNCHANGED <<event, rpc, seen, id, quit, joined, apps>>
  BY DEF Store, resolves, watchers
<1>2. Watched'
  BY <1>1 DEF WInv, Watched
<1>3. ASSUME NEW r \in joined, id[r] # a
      PROVE  zone'[id[r]] = zone[id[r]] /\ telling # id[r]
  <2>1. id[r] \in Apps
    BY DEF WInv, IInv, Held, Watched
  <2> QED
    BY <1>3, <2>1, NamingAssumption DEF WInv, IInv, Held, Store
<1>4. NoMissedEvent'
  BY <1>1, <1>3 DEF WInv, NoMissedEvent, Store
<1> QED
  BY <1>2, <1>4

LEMMA NotifyWatched ==
  ASSUME WInv, Notify
  PROVE  (Watched /\ NoMissedEvent)'
<1>1. /\ UNCHANGED <<rpc, seen, id, quit, joined, apps, zone>>
      /\ event' = [r \in Resolvers |-> event[r] \/ (r \in joined /\ id[r] = telling)]
  BY DEF Notify, store, resolves, watchers
<1>2. Watched'
  <2>1. DOMAIN event' = Resolvers
    BY <1>1
  <2> QED
    BY <1>1, <2>1 DEF WInv, Watched
<1>3. \A r \in joined : event[r] \/ id[r] = telling => event'[r]
  BY <1>1 DEF WInv, Watched
<1>4. NoMissedEvent'
  BY <1>1, <1>3 DEF WInv, NoMissedEvent
<1> QED
  BY <1>2, <1>4

LEMMA ServerprocWatched ==
  ASSUME WInv, serverproc
  PROVE  (Watched /\ NoMissedEvent)'
<1>1. CASE Arm \/ Stop \/ Ask \/ Answer \/ Fail \/ Retry \/ LoadNodes \/ tryAppendSeedNodes
  <2>1. UNCHANGED <<event, rpc, seen, id, quit, joined, apps, zone, telling>>
    BY <1>1 DEF Arm, Stop, Ask, Answer, Fail, Retry, LoadNodes, tryAppendSeedNodes,
                store, resolves, watchers
  <2> QED
    BY <2>1 DEF WInv, Watched, NoMissedEvent
<1> QED
  BY <1>1, StoreWatched, NotifyWatched DEF serverproc

LEMMA BuildWatched ==
  ASSUME WInv, NEW r \in Resolvers, NEW a \in Apps, Build(r, a)
  PROVE  (Watched /\ NoMissedEvent)'
<1>1. /\ UNCHANGED <<event, seen, quit, zone, telling>>
      /\ joined' = joined \cup {r} /\ apps' = apps \cup {a}
      /\ r \notin joined /\ seen[r] = None /\ ~quit[r]
  BY DEF WInv, Watched, Build
<1>2. /\ id'[r] = a /\ rpc'[r] = (IF a \in apps THEN "built" ELSE "wait")
      /\ \A q \in Resolvers \ {r} : id'[q] = id[q] /\ rpc'[q] = rpc[q]
      /\ DOMAIN id' = Resolvers /\ DOMAIN rpc' = Resolvers
  BY DEF WInv, Watched, Build
<1>3. Watched'
  BY <1>1, <1>2 DEF WInv, Watched
<1>4. rpc'[r] = "built" \/ zone[a] = None
  BY <1>2 DEF WInv, IInv, Held
<1>5. NoMissedEvent'
  BY <1>1, <1>2, <1>4 DEF WInv, Watched, NoMissedEvent
<1> QED
  BY <1>3, <1>5

LEMMA WatcherWatched ==
  ASSUME WInv, NEW r \in Resolvers, watcher(r) \/ CloseResolver(r)
  PROVE  (Watched /\ NoMissedEvent)'
<1>1. UNCHANGED <<id, apps, zone, telling>>
  BY DEF watcher, Announce, Receive, Fetch, Quit, OldNodes, StoreNodes, CloseResolver,
         store, resolves, proc
<1>2. CASE Announce(r)
  BY <1>1, <1>2 DEF WInv, Watched, NoMissedEvent, Announce, resolves
<1>3. CASE Receive(r)
  BY <1>1, <1>3 DEF WInv, Watched, NoMissedEvent, Receive, resolves
<1>4. CASE Fetch(r)
  BY <1>1, <1>4 DEF WInv, Watched, NoMissedEvent, Fetch, resolves
<1>5. CASE Quit(r)
  BY <1>1, <1>5 DEF WInv, Watched, NoMissedEvent, Quit, resolves
<1>6. CASE OldNodes \/ StoreNodes
  <2>1. SelfResolver \in Resolvers
    BY NamingAssumption
  <2> QED
    BY <1>1, <1>6, <2>1 DEF WInv, Watched, NoMissedEvent, OldNodes, StoreNodes, resolves
<1>7. CASE CloseResolver(r)
  BY <1>1, <1>7 DEF WInv, Watched, NoMissedEvent, CloseResolver
<1> QED
  BY <1>2, <1>3, <1>4, <1>5, <1>6, <1>7 DEF watcher

LEMMA RestWatched ==
  ASSUME WInv,
         Switch \/ Close \/ \E h \in Hosts : Crash(h) \/ \E a \in Apps : Change(h, a)
  PROVE  (Watched /\ NoMissedEvent)'
<1>1. UNCHANGED <<event, rpc, seen, id, quit, joined, apps, zone, telling>>
  BY DEF Switch, Close, Crash, Change, store, resolves, watchers, proc
<1> QED
  BY <1>1 DEF WInv, Watched, NoMissedEvent

\* A watcher whose instances are not those that the client holds is about to
\* be told, however Build, broadcast, Fetch and Close interleave.
THEOREM WatchersAreTold == Spec => []NoMissedEvent
<1>1. Init => WInv
  BY InitIInv, InitWatched DEF WInv
<1>2. WInv /\ [Next]_vars => WInv'
  <2>1. ASSUME WInv, UNCHANGED vars PROVE (Watched /\ NoMissedEvent)'
    BY <2>1 DEF WInv, Watched, NoMissedEvent, vars, store, resolves, watchers, proc
  <2>2. ASSUME WInv, Next PROVE (Watched /\ NoMissedEvent)'
    BY <2>2, ServerprocWatched, BuildWatched, WatcherWatched, RestWatched DEF Next
  <2> QED
    BY <2>1, <2>2, NextIInv DEF WInv
<1>3. WInv => NoMissedEvent
  BY DEF WInv
<1> QED
  BY <1>1, <1>2, <1>3, PTL DEF Spec

-----------------------------------------------------------------------------
(* The types of the client.                                                *)
(*                                                                         *)
(* Beyond TypeOK the invariant says why a list names no node twice (seeds  *)
(* are only added when they are missing), so that the retries before the   *)
(* seeds come back are bounded by the number of nodes, and that what a     *)
(* watcher of an app gets is what some node may say of that app, so that   *)
(* selfproc finds nodes in it.                                             *)

Distinct(l) == \A i, j \in 1..Len(l) : i # j => l[i] # l[j]

Told(a) == [host : Hosts, ts : Nat, body : Bodies[a]] \cup {None}

LatestTypes ==
  /\ latest \in [Hosts -> [Apps -> [ts : Nat, body : UNION {Bodies[a] : a \in Apps}]]]
  /\ \A h \in Hosts, a \in Apps : latest[h][a].body \in Bodies[a]
  /\ down \subseteq Mortal
  /\ made \in BOOLEAN /\ closed \in BOOLEAN /\ events \in 0..MaxEvents

ListTypes ==
  /\ list \in Seq(Hosts) /\ Distinct(list)
  /\ loaded \in Seq(Hosts) /\ Distinct(loaded)
  /\ idx \in 0..Cycle - 1
  /\ retry \in 0..Cardinality(Hosts) + 1

StoreTypes ==
  /\ apps \subseteq Apps /\ Self \in apps
  /\ zone \in [Apps -> Said] /\ \A a \in Apps : zone[a] \in Told(a)
  /\ lastTs \in [Apps -> Nat]

ResolverTypes ==
  /\ joined \subseteq Resolvers
  /\ id \in [Resolvers -> Apps \cup {NoApp}] /\ \A r \in joined : id[r] \in apps
  /\ event \in [Resolvers -> BOOLEAN] /\ quit \in [Resolvers -> BOOLEAN]
  /\ rpc \in [Resolvers -> {"none", "built", "wait", "fetch", "fetched", "store", "ended"}]
  /\ seen \in [Resolvers -> Said]
  /\ \A r \in Resolvers : rpc[r] # "none" => id[r] \in Apps
  /\ rpc[SelfResolver] # "none" /\ id[SelfResolver] = Self
  /\ seen[SelfResolver] \in Told(Self)

ProcTypes ==
  /\ spc \in {"top", "ask", "polling", "broadcast", "failed", "load", "append", "ended"}
  /\ ctx \in {"none", "live", "cancelled"}
  /\ lastHost \in Hosts \cup {"none"} /\ (spc = "polling" => lastHost \in Hosts)
  /\ want \subseteq apps
  /\ DOMAIN reply \subseteq apps /\ \A a \in DOMAIN reply : reply[a] \in Told(a)
  /\ telling \in apps \cup {NoApp}

Types == LatestTypes /\ ListTypes /\ StoreTypes /\ ResolverTypes /\ ProcTypes

\* A list that names no node twice is as long as the set of its nodes, and
\* no longer than the set of all nodes.
LEMMA DistinctLength ==
  ASSUME NEW l \in Seq(Hosts), Distinct(l)
  PROVE  /\ Cardinality(Range(l)) = Len(l)
         /\ Cardinality(Hosts) \in Nat /\ Len(l) <= Cardinality(Hosts)
<1>1. Len(l) \in Nat /\ DOMAIN l = 1..Len(l) /\ \A i \in 1..Len(l) : l[i] \in Hosts
  OBVIOUS
<1>2. l \in [1..Len(l) -> Range(l)] /\ Range(l) \subseteq Hosts
  BY <1>1 DEF Range
<1>3. l \in Bijection(1..Len(l), Range(l))
  BY <1>1, <1>2 DEF Distinct, Range, Bijection, Injection, Surjection, IsInjective
<1>4. Cardinality(Range(l)) = Len(l)
  BY <1>1, <1>3, FS_CountingElements DEF ExistsBijection
<1>5. IsFiniteSet(Hosts)
  BY NamingAssumption
<1>6. Cardinality(Range(l)) <= Cardinality(Hosts) /\ Cardinality(Hosts) \in Nat
  BY <1>2, <1>5, FS_Subset, FS_CardinalityType
<1> QED
  BY <1>4, <1>6

\* The orders of a set of nodes are lists without repetition (SetToSeqs).
LEMMA OrdersAreLists ==
  ASSUME NEW S \in SUBSET Hosts, NEW s \in SetToSeqs(S)
  PROVE  s \in Seq(Hosts) /\ Distinct(s) /\ \A i \in 1..Len(s) : s[i] \in S
<1>1. Cardinality(S) \in Nat
  BY FS_Subset, FS_CardinalityType, NamingAssumption
<1>2. /\ s \in [1..Cardinality(S) -> S]
      /\ \A i, j \in 1..Cardinality(S) : i # j => s[i] # s[j]
  BY DEF SetToSeqs
<1>3. s \in Seq(S) /\ Len(s) = Cardinality(S)
  BY <1>1, <1>2
<1> QED
  BY <1>2, <1>3 DEF Distinct

\* A list followed by nodes that it lacks names no node twice.
LEMMA AppendedAreLists ==
  ASSUME NEW l \in Seq(Hosts), Distinct(l),
         NEW s \in Seq(Hosts), Distinct(s),
         \A i \in 1..Len(s) : s[i] \notin Range(l)
  PROVE  l \o s \in Seq(Hosts) /\ Distinct(l \o s)
<1>1. l \o s \in Seq(Hosts) /\ Len(l \o s) = Len(l) + Len(s)
  OBVIOUS
<1>2. \A i \in 1..Len(l) + Len(s) :
        (l \o s)[i] = IF i <= Len(l) THEN l[i] ELSE s[i - Len(l)]
  OBVIOUS
<1>3. \A i \in 1..Len(l), j \in 1..Len(s) : l[i] # s[j]
  BY DEF Range
<1> SUFFICES ASSUME NEW i \in 1..Len(l \o s), NEW j \in 1..Len(l \o s), i # j
             PROVE  (l \o s)[i] # (l \o s)[j]
  BY <1>1 DEF Distinct
<1>4. CASE i <= Len(l) /\ j <= Len(l)
  BY <1>1, <1>2, <1>4 DEF Distinct
<1>5. CASE i <= Len(l) /\ j > Len(l)
  BY <1>1, <1>2, <1>3, <1>5
<1>6. CASE i > Len(l) /\ j <= Len(l)
  BY <1>1, <1>2, <1>3, <1>6
<1>7. CASE i > Len(l) /\ j > Len(l)
  BY <1>1, <1>2, <1>7 DEF Distinct
<1> QED
  BY <1>1, <1>4, <1>5, <1>6, <1>7

LEMMA TypesGiveTypeOK == Types => TypeOK
<1> SUFFICES ASSUME Types PROVE TypeOK
  OBVIOUS
<1>1. \A l \in {list, loaded} : l \in Seq(Hosts) /\ Cardinality(Range(l)) = Len(l)
  BY DistinctLength DEF Types, ListTypes
<1> QED
  BY <1>1 DEF TypeOK, Types, LatestTypes, ListTypes, StoreTypes, ResolverTypes, ProcTypes

LEMMA InitTypes == Init => Types
<1> SUFFICES ASSUME Init PROVE Types
  OBVIOUS
<1> USE NamingAssumption DEF Init
<1>1. LatestTypes
  <2>1. \A h \in Hosts, a \in Apps :
          InitLatest[h][a] \in [ts : Nat, body : UNION {Bodies[x] : x \in Apps}]
    OBVIOUS
  <2>2. InitLatest \in [Hosts -> [Apps -> [ts : Nat, body : UNION {Bodies[a] : a \in Apps}]]]
    BY <2>1
  <2>3. \A h \in Hosts, a \in Apps : InitLatest[h][a].body \in Bodies[a]
    OBVIOUS
  <2>4. 0 \in 0..MaxEvents
    OBVIOUS
  <2> HIDE NamingAssumption
  <2> QED
    BY <2>2, <2>3, <2>4 DEF LatestTypes
<1>2. ListTypes
  <2>1. Cardinality(Hosts) \in Nat
    BY FS_CardinalityType
  <2> QED
    BY <2>1 DEF ListTypes, Distinct
<1>3. StoreTypes
  BY DEF StoreTypes, Told, Said
<1>4. ResolverTypes
  BY DEF ResolverTypes, Told, Said
<1>5. ProcTypes
  BY DEF ProcTypes
<1> QED
  BY <1>1, <1>2, <1>3, <1>4, <1>5 DEF Types

\* What happens around the client.
LEMMA LatestTypesKept ==
  ASSUME Types, [Next]_vars
  PROVE  LatestTypes'
<1> USE DEF Types, LatestTypes, Event
<1>0. MaxEvents \in Nat
  BY NamingAssumption
<1>1. CASE \E h \in Hosts, a \in Apps : Change(h, a)
  <2>1. PICK h \in Hosts, a \in Apps : Change(h, a)
    BY <1>1
  <2>2. PICK b \in Bodies[a] :
          latest' = [latest EXCEPT ![h][a] = [ts |-> latest[h][a].ts + 1, body |-> b]]
    BY <2>1 DEF Change
  <2>3. latest[h][a].ts + 1 \in Nat /\ b \in UNION {Bodies[x] : x \in Apps}
    OBVIOUS
  <2>4. /\ latest' \in [Hosts -> [Apps -> [ts : Nat, body : UNION {Bodies[x] : x \in Apps}]]]
        /\ \A k \in Hosts, x \in Apps : latest'[k][x].body \in Bodies[x]
    BY <2>2, <2>3
  <2> QED
    BY <1>0, <2>1, <2>4 DEF Change
<1>2. CASE \E h \in Hosts : Crash(h)
  BY <1>0, <1>2 DEF Crash
<1>3. CASE Switch \/ Close
  <2>1. UNCHANGED server
    BY <1>3 DEF Switch, Close
  <2>2. made' \in BOOLEAN /\ closed' \in BOOLEAN
    BY <1>3 DEF Switch, Close
  <2>3. events < MaxEvents /\ events' = events + 1
    BY <1>3 DEF Switch, Close
  <2>4. events' \in 0..MaxEvents
    BY <1>0, <2>3
  <2> QED
    BY <2>1, <2>2, <2>4 DEF server
<1>4. CASE \E r \in Resolvers : watcher(r) \/ CloseResolver(r) \/ \E a \in Apps : Build(r, a)
  <2>1. UNCHANGED <<server, closed, events>> /\ made' \in BOOLEAN
    BY <1>4 DEF watcher, Announce, Receive, Fetch, Quit, OldNodes, StoreNodes, CloseResolver,
                Build, rest
  <2> QED
    BY <2>1 DEF server
<1>5. CASE Fail
  BY <1>0, <1>5 DEF Fail, server
<1>6. CASE Arm \/ Stop \/ Ask \/ Answer \/ Retry \/ LoadNodes \/ tryAppendSeedNodes
           \/ (\E a \in Apps : Store(a)) \/ Notify
  <2>1. UNCHANGED <<server, rest>>
    BY <1>6 DEF Arm, Stop, Ask, Answer, Retry, LoadNodes, tryAppendSeedNodes, Store, Notify
  <2> QED
    BY <2>1 DEF server, rest
<1>7. CASE UNCHANGED vars
  BY <1>7 DEF vars, server, rest
<1> QED
  BY <1>1, <1>2, <1>3, <1>4, <1>5, <1>6, <1>7 DEF Next, serverproc

\* The node list: replaced by selfproc, extended by serverproc.
LEMMA ListTypesKept ==
  ASSUME Types, [Next]_vars
  PROVE  ListTypes'
<1> USE DEF Types, ListTypes
<1>0. Cardinality(Hosts) \in Nat /\ Cycle \in Nat \ {0}
  BY FS_CardinalityType, NamingAssumption
<1>1. switchNode => idx' \in 0..Cycle - 1
  BY <1>0 DEF switchNode
<1>2. CASE Stop \/ Answer
  <2>1. UNCHANGED <<list, loaded, idx>> /\ retry' = 0
    BY <1>2 DEF Stop, Answer, nodes
  <2> QED
    BY <1>0, <2>1
<1>3. CASE Retry
  <2>1. UNCHANGED <<list, loaded, idx>>
    BY <1>3 DEF Retry, nodes
  <2>2. retry' = retry \/ (retry' = retry + 1 /\ retry < Len(list))
    <3>1. CASE ctx = "cancelled"
      BY <1>3, <3>1 DEF Retry
    <3>2. CASE ctx # "cancelled" /\ ctx = "live" /\ retry < Len(list)
      BY <1>3, <3>2 DEF Retry
    <3>3. CASE ctx # "cancelled" /\ ~(ctx = "live" /\ retry < Len(list))
      BY <1>3, <3>3 DEF Retry
    <3> QED
      BY <3>1, <3>2, <3>3
  <2>3. Len(list) <= Cardinality(Hosts) /\ Len(list) \in Nat
    BY DistinctLength
  <2> QED
    BY <1>0, <2>1, <2>2, <2>3
<1>4. CASE LoadNodes
  BY <1>4 DEF LoadNodes, nodes
<1>5. CASE tryAppendSeedNodes
  <2>1. loaded' = << >> /\ retry' = 1 /\ idx' = idx
    BY <1>5 DEF tryAppendSeedNodes
  <2>2. list' \in Seq(Hosts) /\ Distinct(list')
    <3>1. CASE list' = list
      BY <3>1
    <3>2. CASE list' # list
      <4> DEFINE missing == Seeds \ Range(loaded)
      <4>1. PICK s \in SetToSeqs(missing) : list' = loaded \o s
        BY <1>5, <3>2 DEF tryAppendSeedNodes
      <4>2. missing \subseteq Hosts
        BY NamingAssumption
      <4> HIDE DEF missing
      <4>3. s \in Seq(Hosts) /\ Distinct(s) /\ \A i \in 1..Len(s) : s[i] \in missing
        BY <4>2, OrdersAreLists
      <4>4. \A i \in 1..Len(s) : s[i] \notin Range(loaded)
        BY <4>3 DEF missing
      <4> QED
        BY <4>1, <4>3, <4>4, AppendedAreLists
    <3> QED
      BY <3>1, <3>2
  <2>3. << >> \in Seq(Hosts) /\ Distinct(<< >>)
    BY DEF Distinct
  <2> QED
    BY <1>0, <2>1, <2>2, <2>3
<1>6. CASE Fail \/ Switch
  <2>1. UNCHANGED <<list, loaded, retry>> /\ switchNode
    BY <1>6 DEF Fail, Switch, proc
  <2> QED
    BY <1>1, <2>1
<1>7. CASE StoreNodes
  <2>1. Found \subseteq Hosts
    <3>1. seen[SelfResolver].body \subseteq Hosts \cup {Elsewhere}
      <4>1. seen[SelfResolver].body \in Bodies[Self] \cup {{}}
        BY DEF ResolverTypes, Told, None
      <4>2. Bodies[Self] \subseteq SUBSET (Hosts \cup {Elsewhere})
        BY NamingAssumption
      <4> QED
        BY <4>1, <4>2
    <3> QED
      BY <3>1 DEF Found
  <2>2. PICK s \in SetToSeqs(Found) : list' = s
    BY <1>7 DEF StoreNodes
  <2>3. s \in Seq(Hosts) /\ Distinct(s)
    BY <2>1, OrdersAreLists
  <2> QED
    BY <1>7, <2>2, <2>3 DEF StoreNodes, proc
<1>8. CASE Arm \/ Ask \/ (\E a \in Apps : Store(a)) \/ Notify \/ Close
           \/ \E h \in Hosts : Crash(h) \/ \E a \in Apps : Change(h, a)
  <2>1. UNCHANGED <<list, idx, loaded, retry>>
    BY <1>8 DEF Arm, Ask, Store, Notify, Close, Crash, Change, nodes, proc
  <2> QED
    BY <2>1
<1>9. CASE \E r \in Resolvers : \/ Announce(r) \/ Receive(r) \/ Fetch(r) \/ Quit(r) \/ OldNodes
                                \/ CloseResolver(r) \/ \E a \in Apps : Build(r, a)
  <2>1. UNCHANGED <<list, idx, loaded, retry>>
    BY <1>9 DEF Announce, Receive, Fetch, Quit, OldNodes, CloseResolver, Build, nodes, proc
  <2> QED
    BY <2>1
<1>10. CASE UNCHANGED vars
  BY <1>10 DEF vars, nodes, proc
<1> QED
  BY <1>2, <1>3, <1>4, <1>5, <1>6, <1>7, <1>8, <1>9, <1>10 DEF Next, serverproc, watcher

\* The instances held and the timestamps, from the answers of the nodes.
LEMMA StoreTypesKept ==
  ASSUME Types, [Next]_vars
  PROVE  StoreTypes'
<1> USE DEF Types, StoreTypes
<1>1. CASE Ask
  <2>1. UNCHANGED <<apps, zone>>
    BY <1>1 DEF Ask
  <2>2. lastTs' \in [Apps -> Nat]
    BY <1>1 DEF Ask
  <2> QED
    BY <2>1, <2>2
<1>2. CASE \E a \in Apps : Store(a)
  <2>1. PICK a \in Apps : Store(a)
    BY <1>2
  <2>2. /\ zone' = [zone EXCEPT ![a] = reply[a]] /\ lastTs' = [lastTs EXCEPT ![a] = reply[a].ts]
        /\ apps' = apps /\ reply[a] \in Told(a)
    BY <2>1 DEF Store, ProcTypes
  <2>3. reply[a] \in Said /\ reply[a].ts \in Nat
    BY <2>2 DEF Told, Said, None
  <2> QED
    BY <2>2, <2>3
<1>3. CASE \E r \in Resolvers, a \in Apps : Build(r, a)
  BY <1>3 DEF Build
<1>4. CASE \E r \in Resolvers : watcher(r) \/ CloseResolver(r)
  <2>1. UNCHANGED store
    BY <1>4 DEF watcher, Announce, Receive, Fetch, Quit, OldNodes, StoreNodes, CloseResolver
  <2> QED
    BY <2>1 DEF store
<1>5. CASE \/ Arm \/ Stop \/ Answer \/ Fail \/ Retry \/ LoadNodes \/ tryAppendSeedNodes \/ Notify
           \/ Switch \/ Close \/ \E h \in Hosts : Crash(h) \/ \E a \in Apps : Change(h, a)
  <2>1. UNCHANGED store
    BY <1>5 DEF Arm, Stop, Answer, Fail, Retry, LoadNodes, tryAppendSeedNodes, Notify, Switch,
                Close, Crash, Change
  <2> QED
    BY <2>1 DEF store
<1>6. CASE UNCHANGED vars
  BY <1>6 DEF vars, store
<1> QED
  BY <1>1, <1>2, <1>3, <1>4, <1>5, <1>6 DEF Next, serverproc

\* The watchers, and what they have seen.
LEMMA ResolverTypesKept ==
  ASSUME Types, [Next]_vars
  PROVE  ResolverTypes'
<1> USE DEF Types, ResolverTypes
<1>0. SelfResolver \in Resolvers /\ NoApp \notin Apps
  BY NamingAssumption
<1>1. ASSUME NEW r \in Resolvers, NEW a \in Apps, Build(r, a) PROVE ResolverTypes'
  <2>1. r # SelfResolver
    BY <1>1 DEF Build
  <2>2. /\ id' = [id EXCEPT ![r] = a] /\ joined' = joined \cup {r} /\ apps' = apps \cup {a}
        /\ rpc' = [rpc EXCEPT ![r] = IF a \in apps THEN "built" ELSE "wait"]
        /\ UNCHANGED <<event, quit, seen>>
    BY <1>1 DEF Build
  <2>3. id'[r] = a /\ \A q \in Resolvers \ {r} : id'[q] = id[q] /\ rpc'[q] = rpc[q]
    BY <2>2
  <2>4. \A q \in joined' : id'[q] \in apps'
    BY <2>2, <2>3
  <2>5. \A q \in Resolvers : rpc'[q] # "none" => id'[q] \in Apps
    BY <2>3
  <2>6. /\ id' \in [Resolvers -> Apps \cup {NoApp}]
        /\ rpc' \in [Resolvers -> {"none", "built", "wait", "fetch", "fetched", "store", "ended"}]
    BY <2>2
  <2> QED
    BY <1>0, <2>1, <2>2, <2>3, <2>4, <2>5, <2>6
<1>2. ASSUME NEW r \in Resolvers, Announce(r) \/ Receive(r) PROVE ResolverTypes'
  <2>1. UNCHANGED <<store, resolves, seen, quit>>
    BY <1>2 DEF Announce, Receive
  <2>2. /\ event' \in [Resolvers -> BOOLEAN]
        /\ rpc' \in [Resolvers -> {"none", "built", "wait", "fetch", "fetched", "store", "ended"}]
        /\ \A q \in Resolvers : rpc'[q] = "none" <=> rpc[q] = "none"
    BY <1>2 DEF Announce, Receive
  <2> QED
    BY <1>0, <2>1, <2>2 DEF store, resolves
<1>3. ASSUME NEW r \in Resolvers, Fetch(r) PROVE ResolverTypes'
  <2>1. UNCHANGED <<store, resolves, event, quit>>
    BY <1>3 DEF Fetch
  <2>2. /\ rpc' \in [Resolvers -> {"none", "built", "wait", "fetch", "fetched", "store", "ended"}]
        /\ \A q \in Resolvers : rpc'[q] = "none" <=> rpc[q] = "none"
    BY <1>3 DEF Fetch
  <2>3. id[r] \in Apps /\ seen' = [seen EXCEPT ![r] = zone[id[r]]]
    BY <1>3 DEF Fetch
  <2>4. zone[id[r]] \in Said /\ zone[id[r]] \in Told(id[r])
    BY <2>3 DEF StoreTypes
  <2>5. seen' \in [Resolvers -> Said] /\ seen'[SelfResolver] \in Told(Self)
    BY <1>0, <2>3, <2>4
  <2> QED
    BY <1>0, <2>1, <2>2, <2>5 DEF store, resolves
<1>4. ASSUME NEW r \in Resolvers, Quit(r) PROVE ResolverTypes'
  <2>1. UNCHANGED <<store, resolves, quit>>
    BY <1>4 DEF Quit
  <2>2. /\ rpc' \in [Resolvers -> {"none", "built", "wait", "fetch", "fetched", "store", "ended"}]
        /\ \A q \in Resolvers : rpc'[q] = "none" <=> rpc[q] = "none"
        /\ event' \in [Resolvers -> BOOLEAN]
    BY <1>4 DEF Quit
  <2>3. seen' \in [Resolvers -> Said] /\ seen'[SelfResolver] \in Told(Self)
    BY <1>0, <1>4 DEF Quit, Said, Told
  <2> QED
    BY <1>0, <2>1, <2>2, <2>3 DEF store, resolves
<1>5. CASE OldNodes \/ StoreNodes
  <2>1. UNCHANGED <<store, resolves, event, seen, quit>>
    BY <1>5 DEF OldNodes, StoreNodes
  <2>2. /\ rpc' \in [Resolvers -> {"none", "built", "wait", "fetch", "fetched", "store", "ended"}]
        /\ \A q \in Resolvers : rpc'[q] = "none" <=> rpc[q] = "none"
    BY <1>0, <1>5 DEF OldNodes, StoreNodes
  <2> QED
    BY <1>0, <2>1, <2>2 DEF store, resolves
<1>6. ASSUME NEW r \in Resolvers, CloseResolver(r) PROVE ResolverTypes'
  <2>1. UNCHANGED <<store, id, event, rpc, seen>>
    BY <1>6 DEF CloseResolver
  <2>2. joined' \subseteq joined /\ quit' \in [Resolvers -> BOOLEAN]
    BY <1>6 DEF CloseResolver
  <2> QED
    BY <2>1, <2>2 DEF store
<1>7. CASE Notify
  <2>1. UNCHANGED <<store, resolves, watchers>> /\ event' \in [Resolvers -> BOOLEAN]
    <3>1. event' = [r \in Resolvers |-> event[r] \/ (r \in joined /\ id[r] = telling)]
      BY <1>7 DEF Notify
    <3>2. \A r \in Resolvers : (event[r] \/ (r \in joined /\ id[r] = telling)) \in BOOLEAN
      OBVIOUS
    <3> QED
      BY <1>7, <3>1, <3>2 DEF Notify
  <2> QED
    BY <2>1 DEF store, resolves, watchers
<1>8. CASE \/ Arm \/ Stop \/ Ask \/ Answer \/ Fail \/ Retry \/ LoadNodes \/ tryAppendSeedNodes
           \/ (\E a \in Apps : Store(a))
           \/ Switch \/ Close \/ \E h \in Hosts : Crash(h) \/ \E a \in Apps : Change(h, a)
  <2>1. UNCHANGED <<apps, resolves, event, watchers>>
    BY <1>8 DEF Arm, Stop, Ask, Answer, Fail, Retry, LoadNodes, tryAppendSeedNodes, Store, Switch,
                Close, Crash, Change, store
  <2> QED
    BY <2>1 DEF resolves, watchers
<1>9. CASE UNCHANGED vars
  BY <1>9 DEF vars, store, resolves, watchers
<1> QED
  BY <1>1, <1>2, <1>3, <1>4, <1>5, <1>6, <1>7, <1>8, <1>9 DEF Next, serverproc, watcher

\* Where serverproc is, and the answer it works on.
LEMMA ProcTypesKept ==
  ASSUME Types, [Next]_vars
  PROVE  ProcTypes'
<1> USE DEF Types, ProcTypes
<1>1. CASE Ask
  <2>1. pickNode \subseteq Hosts
    <3>1. CASE list = << >>
      BY <3>1, NamingAssumption DEF pickNode
    <3>2. CASE list # << >>
      <4>1. Len(list) \in Nat \ {0} /\ idx \in Nat
        BY <3>2 DEF ListTypes
      <4>2. (idx % Len(list)) + 1 \in 1..Len(list)
        BY <4>1
      <4>3. list[(idx % Len(list)) + 1] \in Hosts
        BY <4>2 DEF ListTypes
      <4> QED
        BY <3>2, <4>3 DEF pickNode
    <3> QED
      BY <3>1, <3>2
  <2> QED
    BY <1>1, <2>1 DEF Ask
<1>2. CASE Answer
  <2>1. /\ UNCHANGED <<apps, lastHost, ctx, telling>> /\ reply' = Kept /\ want' = {}
        /\ spc' \in {"top", "broadcast"} /\ lastHost \in Hosts
    BY <1>2 DEF Answer, store
  <2>2. DOMAIN Kept \subseteq apps
    BY DEF Kept, News
  <2>3. ASSUME NEW a \in DOMAIN Kept PROVE Kept[a] \in Told(a)
    <3>1. Kept[a] = [host |-> lastHost, ts |-> latest[lastHost][a].ts,
                     body |-> latest[lastHost][a].body]
      BY <2>3 DEF Kept
    <3>2. a \in Apps
      BY <2>2 DEF StoreTypes
    <3>3. latest[lastHost][a].ts \in Nat /\ latest[lastHost][a].body \in Bodies[a]
      BY <2>1, <3>2 DEF LatestTypes
    <3> QED
      BY <2>1, <3>1, <3>3 DEF Told
  <2> QED
    BY <2>1, <2>2, <2>3
<1>3. CASE Retry
  <2>1. UNCHANGED <<apps, lastHost, want, reply, telling>>
    BY <1>3 DEF Retry, store
  <2>2. ctx' \in {ctx, "none"} /\ spc' \in {"top", "load"}
    <3>1. CASE ctx = "cancelled"
      BY <1>3, <3>1 DEF Retry
    <3>2. CASE ctx # "cancelled" /\ ctx = "live" /\ retry < Len(list)
      BY <1>3, <3>2 DEF Retry
    <3>3. CASE ctx # "cancelled" /\ ~(ctx = "live" /\ retry < Len(list))
      BY <1>3, <3>3 DEF Retry
    <3> QED
      BY <3>1, <3>2, <3>3
  <2> QED
    BY <2>1, <2>2
<1>4. ASSUME NEW a \in Apps, Store(a) PROVE ProcTypes'
  <2>1. /\ UNCHANGED <<apps, spc, ctx, lastHost, want>> /\ telling' = a /\ a \in DOMAIN reply
        /\ reply' = [x \in DOMAIN reply \ {a} |-> reply[x]]
    BY <1>4 DEF Store
  <2> QED
    BY <2>1
<1>5. CASE Arm \/ Stop \/ LoadNodes \/ tryAppendSeedNodes \/ Notify
  <2>1. UNCHANGED <<apps, lastHost, want, reply>>
    BY <1>5 DEF Arm, Stop, LoadNodes, tryAppendSeedNodes, Notify, store
  <2>2. /\ spc' \in {"top", "ask", "ended", "append", "broadcast"}
        /\ ctx' \in {ctx, "cancelled", "live"} /\ telling' \in {telling, NoApp}
    BY <1>5 DEF Arm, Stop, LoadNodes, tryAppendSeedNodes, Notify
  <2> QED
    BY <2>1, <2>2
<1>6. CASE Fail
  <2>1. UNCHANGED <<apps, ctx, lastHost, reply, telling>> /\ want' = {} /\ spc' = "failed"
    BY <1>6 DEF Fail, store
  <2> QED
    BY <2>1
<1>7. CASE Close \/ \E r \in Resolvers, a \in Apps : Build(r, a)
  <2>1. /\ UNCHANGED <<spc, lastHost, want, reply, telling>> /\ apps \subseteq apps'
        /\ ctx' \in {ctx, "cancelled"}
    BY <1>7 DEF Close, Build, Cancelled, store
  <2> QED
    BY <2>1
<1>8. CASE \/ Switch \/ \E h \in Hosts : Crash(h) \/ \E a \in Apps : Change(h, a)
           \/ \E r \in Resolvers : watcher(r) \/ CloseResolver(r)
  <2>1. UNCHANGED <<store, proc>>
    BY <1>8 DEF Switch, Crash, Change, watcher, Announce, Receive, Fetch, Quit, OldNodes,
                StoreNodes, CloseResolver
  <2> QED
    BY <2>1 DEF store, proc
<1>9. CASE UNCHANGED vars
  BY <1>9 DEF vars, store, proc
<1> QED
  BY <1>1, <1>2, <1>3, <1>4, <1>5, <1>6, <1>7, <1>8, <1>9 DEF Next, serverproc

\* The client keeps its types whatever the nodes answer and however the list
\* is replaced and extended: no list names a node twice, and a poll fails no
\* more often than there are nodes before the seeds are added (serverproc,
\* client.go:468; tryAppendSeedNodes; newSelf).
THEOREM TypeCorrect == Spec => []TypeOK
<1>1. Types /\ [Next]_vars => Types'
  BY LatestTypesKept, ListTypesKept, StoreTypesKept, ResolverTypesKept, ProcTypesKept DEF Types
<1> QED
  BY <1>1, InitTypes, TypesGiveTypeOK, PTL DEF Spec

=============================================================================
