--------------------------- MODULE LongPollProofs ---------------------------
(***************************************************************************)
(* Theorems about LongPoll, for every set of pollers, of handlers and of   *)
(* hosts, any number of changes and any capacity of the channels.          *)
(***************************************************************************)
EXTENDS LongPoll, FiniteSetTheorems, TLAPS

-----------------------------------------------------------------------------
(***************************************************************************)
(* The invariant.  First the types of the variables, and which positions   *)
(* of a goroutine go with which of its pointers.                           *)
(***************************************************************************)
\* The numbers that objects may bear by now.
Ids == {o \in Objects : o <= clock}
Jobs == [op : {"none", "Register", "Cancel", "Set"}, ts : Ids, obj : Ids, app : Ids, last : BOOLEAN]
Sends == {NoSend} \cup [ch : Nat \ {0}, info : Infos, n : Nat \ {0}]
Conns == {NoConn} \cup [ch : Nat \ {0}, count : Nat \ {0}, gone : Nat]

ChangesOK ==
  /\ clock \in Nat /\ ver \in Nat /\ indexed \in 1..ver
  /\ obj \in Ids /\ latest \in 0..clock
  /\ app \in [Objects -> Ids] /\ size \in [Objects -> Nat]
  /\ \A o \in Objects \ Ids : app[o] = None
  /\ ppc \in [Publishers -> ChangeSteps \cup {"idle", "take", "rlock", "send"}]
  /\ job \in [Publishers -> Jobs]

PositionsOK ==
  /\ conns \in Nat
  /\ held \in [Publishers -> Nat] /\ left \in [Publishers -> SUBSET HostNames]
  /\ out \in [Publishers -> Sends]
  /\ wpc \in [Watchers -> {"idle", "lookup", "subscribe", "waiting", "delConns", "delHost"}]
  /\ seen \in [Watchers -> Infos] /\ found \in [Watchers -> BOOLEAN]
  /\ ptr \in [Watchers -> Nat] /\ chan \in [Watchers -> Nat]
  /\ \A p \in Publishers :
       /\ ppc[p] \in {"rlock", "send"} <=> held[p] # None
       /\ out[p] # NoSend => ppc[p] = "send"
  /\ \A w \in Watchers :
       /\ wpc[w] = "waiting" <=> chan[w] # None
       /\ wpc[w] \in {"subscribe", "delHost"} <=> ptr[w] # None

WiresOK ==
  /\ hosts \in [LiveHosts \ {None} -> [HostNames -> Conns]]
  /\ DOMAIN buf = LiveChans \ {None}
  /\ \A c \in DOMAIN buf : buf[c] \in Seq(Infos) /\ Len(buf[c]) <= ChanCap
  /\ \A p \in Publishers :
       ppc[p] = "send" => \A h \in left[p] : hosts[held[p]][h] # NoConn

Typed == ChangesOK /\ PositionsOK /\ WiresOK

-----------------------------------------------------------------------------
(***************************************************************************)
(* What has been told, or is on its way, is what the store once had.       *)
(***************************************************************************)
\* May still make an Apps object; may still make an App.
Registering(p) == ppc[p] = "newApps"
Making(p) == ppc[p] \in {"newApps", "newApp"}
\* Will change what is fetched; has taken an instance from it.
Writing(p) == ppc[p] = "write" /\ job[p].op = "Register" /\ IsHere(p)
Removed(p) == ppc[p] = "bump" /\ job[p].obj = obj

\* A registration has a timestamp that no object bears which it may still make.
StampsOK ==
  /\ \A p \in Publishers : Registering(p) =>
       /\ job[p].ts # obj /\ app[job[p].ts] = None
       /\ \A q \in Publishers : job[q].obj # job[p].ts
  /\ \A p \in Publishers : Making(p) =>
       /\ job[p].ts # None /\ job[p].app = None
       /\ \A o \in Objects : app[o] # job[p].ts
       /\ \A q \in Publishers : /\ job[q].app # job[p].ts
                                /\ Making(q) /\ q # p => job[q].ts # job[p].ts

\* An App is in one Apps object only, the one its handler has.
PlacesOK ==
  /\ \A o1, o2 \in Objects : app[o1] # None /\ app[o1] = app[o2] => o1 = o2
  /\ \A p \in Publishers, o \in Objects :
       job[p].app # None /\ app[o] = job[p].app => o = job[p].obj

\* The index tells whether the content is that of the last indexed change,
\* unless a cancellation has still to move the index.
TrueInfo(i) ==
  /\ i.ver <= ver
  /\ \A p \in Publishers : Registering(p) => i.obj # job[p].ts
  /\ i.obj = obj /\ obj # None =>
       /\ i.ts <= latest
       /\ i.ts = latest /\ ~i.early =>
            /\ \A p \in Publishers : ~Writing(p)
            /\ i.ver >= indexed \/ \E p \in Publishers : Removed(p)

Told ==
  {seen[w] : w \in Watchers} \cup {out[p].info : p \in Publishers}
    \cup UNION {{buf[c][i] : i \in 1..Len(buf[c])} : c \in DOMAIN buf}

ToldOK == \A i \in Told : TrueInfo(i)

-----------------------------------------------------------------------------
(***************************************************************************)
(* What waits in a channel for a watcher is newer than what it has seen:   *)
(* nothing is sent to a hosts object before it has left conns, and a       *)
(* watcher finds only the one in conns.                                    *)
(***************************************************************************)
\* Nothing has been sent, or is being sent, to channel c.
Unused(c) == buf[c] = << >> /\ \A p \in Publishers : out[p].ch # c
\* Nothing in it is older than ver.
Since(c, v) ==
  /\ \A i \in 1..Len(buf[c]) : buf[c][i].ver >= v
  /\ \A p \in Publishers : out[p].ch = c => out[p].info.ver >= v

\* The channel a watcher will read from.
Box(w) ==
  IF wpc[w] = "waiting" THEN chan[w]
  ELSE IF wpc[w] = "subscribe" THEN hosts[ptr[w]][HostOf[w]].ch ELSE None

ApartOK ==
  /\ \A p \in Publishers : held[p] # None => held[p] # conns
  /\ \A o1, o2 \in DOMAIN hosts : \A g1, g2 \in HostNames :
       o1 # o2 /\ hosts[o1][g1].ch = hosts[o2][g2].ch => hosts[o1][g1].ch = None
UnsentOK == conns # None =>
  \A h \in HostNames : hosts[conns][h].ch # None => Unused(hosts[conns][h].ch)
BoxesOK == \A w \in Watchers : Box(w) # None => Since(Box(w), seen[w].ver)

BroadcastsOK == ApartOK /\ UnsentOK /\ BoxesOK
IInv == Typed /\ StampsOK /\ PlacesOK /\ ToldOK /\ BroadcastsOK

-----------------------------------------------------------------------------
(* A number that nothing bears can always be found. *)

\* The images of a finite set under a function are finitely many.
LEMMA ImageFinite ==
  ASSUME NEW S, IsFiniteSet(S), NEW f
  PROVE  IsFiniteSet({f[x] : x \in S})
<1> DEFINE T == {f[x] : x \in S}
           g == [x \in S |-> f[x]]
<1>1. g \in Surjection(S, T)
  BY DEF Surjection
<1> QED
  BY <1>1, FS_Surjection

LEMMA FiniteParts ==
  /\ IsFiniteSet(Watchers) /\ IsFiniteSet(Publishers) /\ IsFiniteSet(HostNames)
  /\ \A w \in Watchers : HostOf[w] \in HostNames
<1>1. IsFiniteSet(HostNames)
  BY LongPollAssumption, ImageFinite DEF HostNames
<1> QED
  BY <1>1, LongPollAssumption DEF HostNames

LEMMA FreshIsNew ==
  ASSUME NEW live, IsFiniteSet(live)
  PROVE  Fresh(live) \in Nat \ {0} /\ Fresh(live) \notin live
<1> DEFINE n == Cardinality(live)
<1>1. n \in Nat
  BY FS_CardinalityType
<1>2. IsFiniteSet(1..(n + 1)) /\ Cardinality(1..(n + 1)) = n + 1
  BY <1>1, FS_Interval
<1>3. ~(1..(n + 1) \subseteq live)
  <2>1. 1..(n + 1) \in SUBSET live => Cardinality(1..(n + 1)) <= n
    BY FS_Subset
  <2> QED
    BY <1>1, <1>2, <2>1
<1>4. \E i \in 1..(n + 1) : i \notin live
  BY <1>3
<1>5. Fresh(live) \in 1..(n + 1) /\ Fresh(live) \notin live
  BY <1>4 DEF Fresh
<1> QED
  BY <1>1, <1>5

LEMMA LiveFinite == IsFiniteSet(LiveHosts) /\ IsFiniteSet(LiveChans)
<1>1. IsFiniteSet(LiveHosts)
  <2>1. IsFiniteSet({ptr[w] : w \in Watchers}) /\ IsFiniteSet({held[p] : p \in Publishers})
    BY FiniteParts, ImageFinite
  <2>2. IsFiniteSet({conns})
    BY FS_Singleton
  <2> QED
    BY <2>1, <2>2, FS_Union DEF LiveHosts
<1>2. IsFiniteSet(LiveChans)
  <2> DEFINE f == [p \in Publishers |-> out[p].ch]
             Of(o) == {hosts[o][h].ch : h \in HostNames}
             g == [o \in LiveHosts \ {None} |-> Of(o)]
  <2>1. IsFiniteSet({chan[w] : w \in Watchers})
    BY FiniteParts, ImageFinite
  <2>2. IsFiniteSet({out[p].ch : p \in Publishers})
    <3>1. IsFiniteSet({f[p] : p \in Publishers})
      <4> HIDE DEF f
      <4> QED
        BY FiniteParts, ImageFinite
    <3>2. {f[p] : p \in Publishers} = {out[p].ch : p \in Publishers}
      OBVIOUS
    <3> QED
      BY <3>1, <3>2
  <2>3. ASSUME NEW o
        PROVE  IsFiniteSet(Of(o))
    <3> DEFINE k == [h \in HostNames |-> hosts[o][h].ch]
    <3>1. IsFiniteSet({k[h] : h \in HostNames})
      <4> HIDE DEF k
      <4> QED
        BY FiniteParts, ImageFinite
    <3>2. {k[h] : h \in HostNames} = Of(o)
      OBVIOUS
    <3> QED
      BY <3>1, <3>2
  <2>4. IsFiniteSet(UNION {Of(o) : o \in LiveHosts \ {None}})
    <3>1. IsFiniteSet(LiveHosts \ {None})
      BY <1>1, FS_RemoveElement
    <3>2. IsFiniteSet({g[o] : o \in LiveHosts \ {None}})
      <4> HIDE DEF g
      <4> QED
        BY <3>1, ImageFinite
    <3>3. {g[o] : o \in LiveHosts \ {None}} = {Of(o) : o \in LiveHosts \ {None}}
      <4> HIDE DEF Of
      <4> QED
        OBVIOUS
    <3>4. \A T \in {Of(o) : o \in LiveHosts \ {None}} : IsFiniteSet(T)
      <4> HIDE DEF Of
      <4> QED
        BY <2>3
    <3> HIDE DEF Of, g
    <3> QED
      BY <3>2, <3>3, <3>4, FS_UNION
  <2> QED
    BY <2>1, <2>2, <2>4, FS_Union DEF LiveChans
<1> QED
  BY <1>1, <1>2

-----------------------------------------------------------------------------
(* The kinds of steps: changes of the store, broadcasts, and watchers. *)

ChangeStore(p) ==
  \/ \E op \in Changes : Arrive(p, op)
  \/ NewApps(p) \/ NewApp(p) \/ RegisterWrite(p)
  \/ CancelWrite(p) \/ CancelBump(p)
  \/ CheckLen(p) \/ DelZone(p) \/ CheckEmpty(p) \/ DeleteApps(p)
  \/ SetWrite(p) \/ NotFound(p)
Broadcast(p) == Take(p) \/ RLock(p) \/ Pick(p) \/ Send(p) \/ SendTimeout(p) \/ Finish(p)

LEMMA NextKinds ==
  ASSUME Next
  PROVE  \/ \E p \in Publishers : ChangeStore(p) \/ Broadcast(p)
         \/ \E w \in Watchers : Watch(w)
BY DEF Next, Publish, ChangeStore, Broadcast

\* A change leaves the wires alone.
LEMMA ChangeShape ==
  ASSUME Typed, NEW p \in Publishers, ChangeStore(p)
  PROVE  /\ UNCHANGED <<wires, held, left, out, watcher>>
         /\ ppc[p] \in ChangeSteps \cup {"idle"}
         /\ \E s \in ChangeSteps \cup {"idle", "take"} : ppc' = [ppc EXCEPT ![p] = s]
         /\ \A q \in Publishers \ {p} : job'[q] = job[q]
<1> USE DEF NewApps, NewApp, RegisterWrite, CancelWrite, CancelBump, CheckLen, DelZone, CheckEmpty,
            DeleteApps, SetWrite, NotFound, GotoBroadcast
<1>1. UNCHANGED <<wires, held, left, out, watcher>> /\ ppc[p] \in ChangeSteps \cup {"idle"}
  BY DEF ChangeStore, ChangeSteps, Arrive, GotoStep
<1>2. \E s \in ChangeSteps \cup {"idle", "take"} : ppc' = [ppc EXCEPT ![p] = s]
  BY DEF ChangeStore, ChangeSteps, Arrive, GotoStep, Pruning
<1>3. \A q \in Publishers \ {p} : job'[q] = job[q]
  BY DEF ChangeStore, Arrive, Typed, ChangesOK
<1> QED
  BY <1>1, <1>2, <1>3

\* A broadcast changes no store and no watcher.
LEMMA BroadcastShape ==
  ASSUME Typed, NEW p \in Publishers, Broadcast(p)
  PROVE  /\ UNCHANGED <<store, job, watcher>>
         /\ ppc[p] \in {"take", "rlock", "send"}
         /\ \E s \in {"rlock", "send", "idle"} : ppc' = [ppc EXCEPT ![p] = s]
         /\ \A q \in Publishers \ {p} : UNCHANGED <<held[q], left[q], out[q]>>
<1> USE DEF Typed, ChangesOK, PositionsOK
<1>1. UNCHANGED <<store, job, watcher>>
  BY DEF Broadcast, Take, RLock, Pick, Send, SendTimeout, Finish
<1>2. ppc[p] \in {"take", "rlock", "send"}
  BY DEF Broadcast, Take, RLock, Pick, Send, SendTimeout, Finish
<1>3. \E s \in {"rlock", "send", "idle"} : ppc' = [ppc EXCEPT ![p] = s]
  BY DEF Broadcast, Take, RLock, Pick, Send, SendTimeout, Finish
<1>4. \A q \in Publishers \ {p} : UNCHANGED <<held[q], left[q], out[q]>>
  BY DEF Broadcast, Take, RLock, Pick, Send, SendTimeout, Finish, Sent
<1> QED
  BY <1>1, <1>2, <1>3, <1>4

\* A watcher changes no store and no publisher.
LEMMA WatchShape ==
  ASSUME Typed, NEW w \in Watchers, Watch(w)
  PROVE  /\ UNCHANGED <<store, publisher>>
         /\ \A v \in Watchers \ {w} : UNCHANGED <<wpc[v], seen[v], ptr[v], chan[v]>>
<1>1. UNCHANGED <<store, publisher>>
  BY DEF Watch, Fetch, Lookup, Subscribe, Receive, Timeout, FindHosts, DelHost
<1>2. \A v \in Watchers \ {w} : UNCHANGED <<wpc[v], seen[v], ptr[v], chan[v]>>
  BY DEF Watch, Fetch, Lookup, Subscribe, Receive, Timeout, FindHosts, DelHost, Typed, PositionsOK
<1> QED
  BY <1>1, <1>2

-----------------------------------------------------------------------------
(* Types. *)

LEMMA IdsAreNumbers ==
  ASSUME clock \in Nat
  PROVE  /\ Objects \subseteq Nat /\ Ids \subseteq Objects /\ Ids \subseteq 0..clock
         /\ None \in Ids /\ \A o \in Objects : o \in Ids <=> o <= clock
BY LongPollAssumption DEF Objects, Ids, None

LEMMA ChangeTyped ==
  ASSUME Typed, NEW p \in Publishers, ChangeStore(p)
  PROVE  ChangesOK' /\ clock' >= clock /\ ver' >= ver
<1>0. ChangesOK /\ clock \in Nat /\ ver \in Nat /\ latest \in 0..clock /\ indexed \in 1..ver
  BY DEF Typed, ChangesOK
<1>a. /\ Objects \subseteq Nat /\ Ids \subseteq Objects /\ Ids \subseteq 0..clock
      /\ None \in Ids /\ \A o \in Objects : o \in Ids <=> o <= clock
  BY <1>0, IdsAreNumbers
<1>b. /\ job[p] \in Jobs /\ job[p].ts \in Ids /\ job[p].obj \in Ids /\ job[p].app \in Ids
      /\ job[p].op \in {"none", "Register", "Cancel", "Set"} /\ job[p].last \in BOOLEAN
      /\ obj \in Ids /\ app \in [Objects -> Ids] /\ size \in [Objects -> Nat]
      /\ Here \in Ids
  BY <1>0, <1>a DEF ChangesOK, Jobs, Here
<1>c. ppc' \in [Publishers -> ChangeSteps \cup {"idle", "take", "rlock", "send"}]
  BY ChangeShape DEF Typed, ChangesOK
\* What is to be shown of a step.
<1>d. ASSUME clock' \in Nat, clock' >= clock, latest' \in 0..clock',
             ver' \in Nat, ver' >= ver, indexed' \in 1..ver',
             obj' \in Ids', size' \in [Objects -> Nat],
             app' \in [Objects -> Ids] /\ \A o \in Objects \ Ids : app'[o] = None,
             job' \in [Publishers -> Jobs']
      PROVE  ChangesOK' /\ clock' >= clock /\ ver' >= ver
  <2>1. Ids \subseteq Ids' /\ Objects \ Ids' \subseteq Objects \ Ids
    BY <1>0, <1>a, <1>d DEF Ids
  <2>2. app' \in [Objects -> Ids'] /\ \A o \in Objects \ Ids' : app'[o] = None
    BY <1>d, <2>1
  <2> QED
    BY <1>c, <1>d, <2>2 DEF ChangesOK
<1>e. ASSUME clock' \in Nat, clock' >= clock
      PROVE  Ids \subseteq Ids' /\ Jobs \subseteq Jobs' /\ NoJob \in Jobs'
  <2>1. Ids \subseteq Ids' /\ None \in Ids' /\ 0 \in Ids'
    BY <1>0, <1>a, <1>e DEF Ids, None
  <2> QED
    BY <2>1 DEF Jobs, NoJob
<1>f. ASSUME clock' \in Nat, clock' >= clock,
             job' = job \/ (job' = [job EXCEPT ![p] = job'[p]] /\ job'[p] \in Jobs')
      PROVE  job' \in [Publishers -> Jobs']
  BY <1>0, <1>e, <1>f DEF ChangesOK
<1>g. app \in [Objects -> Ids] /\ \A o \in Objects \ Ids : app[o] = None
  BY <1>0 DEF ChangesOK
<1>h. ASSUME NEW x \in Ids, NEW y \in Ids, app' = [app EXCEPT ![x] = y]
      PROVE  app' \in [Objects -> Ids] /\ \A o \in Objects \ Ids : app'[o] = None
  BY <1>g, <1>h
<1>i. DOMAIN job = Publishers
  BY <1>0 DEF ChangesOK
<1>1. CASE \E op \in Changes : Arrive(p, op)
  <2>1. PICK op \in Changes :
          /\ UNCHANGED <<obj, app, size, latest, ver, indexed>> /\ clock < MaxChanges /\ clock' = clock + 1
          /\ job' = [job EXCEPT ![p] = [op |-> op, ts |-> clock + 1,
                                        obj |-> IF op = "Register" THEN None ELSE obj,
                                        app |-> IF op = "Register" THEN None ELSE Here,
                                        last |-> FALSE]]
    BY <1>1 DEF Arrive
  <2>2. Ids \subseteq Ids' /\ clock + 1 \in Ids' /\ op \in {"Register", "Cancel", "Set"}
    BY <1>0, <1>e, <2>1, LongPollAssumption DEF Ids, Objects
  <2>3. [op |-> op, ts |-> clock + 1, obj |-> IF op = "Register" THEN None ELSE obj,
         app |-> IF op = "Register" THEN None ELSE Here, last |-> FALSE] \in Jobs'
    <3>1. \A x \in {None, obj, Here} : x \in Ids'
      BY <1>a, <1>b, <2>2
    <3> QED
      BY <2>2, <3>1 DEF Jobs
  <2>4. job' \in [Publishers -> Jobs']
    BY <1>0, <1>f, <1>i, <2>1, <2>3
  <2> QED
    BY <1>0, <1>b, <1>d, <1>g, <2>1, <2>2, <2>4
<1>2. CASE NewApps(p)
  <2>1. /\ UNCHANGED <<app, size, latest, ver, indexed, clock>> /\ obj' \in {obj, job[p].ts}
        /\ job' = [job EXCEPT ![p].obj = obj']
    BY <1>2 DEF NewApps
  <2>2. Ids' = Ids /\ Jobs' = Jobs /\ obj' \in Ids
    BY <1>b, <2>1 DEF Ids, Jobs
  <2>3. [job[p] EXCEPT !.obj = obj'] \in Jobs'
    BY <1>b, <2>2 DEF Jobs
  <2>4. job' = [job EXCEPT ![p] = [job[p] EXCEPT !.obj = obj']]
    BY <2>1
  <2>5. job' \in [Publishers -> Jobs']
    BY <1>0, <1>f, <1>i, <2>1, <2>3, <2>4
  <2> QED
    BY <1>0, <1>b, <1>d, <1>g, <2>1, <2>2, <2>5
<1>3. CASE NewApp(p)
  <2> DEFINE o == job[p].obj
             a == IF app[o] = None THEN job[p].ts ELSE app[o]
  <2>1. /\ UNCHANGED <<obj, size, ver, indexed>>
        /\ app' = [app EXCEPT ![o] = a]
        /\ job' = [job EXCEPT ![p].app = app'[o]]
        /\ latest' = IF o = obj THEN Bump(latest, job[p].ts) ELSE latest
        /\ clock' = Later(clock, latest')
    BY <1>3 DEF NewApp
  <2>2. a \in Ids /\ app'[o] = a
    BY <1>a, <1>b, <2>1
  <2>3. clock' \in Nat /\ clock' >= clock /\ latest' \in 0..clock'
    <3>1. latest' \in Nat
      BY <1>0, <1>a, <1>b, <2>1 DEF Bump
    <3> QED
      BY <1>0, <2>1, <3>1 DEF Later
  <2>4. Ids \subseteq Ids'
    BY <1>e, <2>3
  <2>5. [job[p] EXCEPT !.app = a] \in Jobs'
    <3> HIDE DEF a
    <3>1. [job[p] EXCEPT !.app = a] = [op |-> job[p].op, ts |-> job[p].ts, obj |-> job[p].obj,
                                       app |-> a, last |-> job[p].last]
      BY <1>b DEF Jobs
    <3> QED
      BY <1>b, <2>2, <2>4, <3>1 DEF Jobs
  <2>6. job' = [job EXCEPT ![p] = [job[p] EXCEPT !.app = a]]
    BY <2>1, <2>2
  <2>7. obj' \in Ids' /\ o \in Ids
    BY <1>b, <2>1, <2>4
  <2> HIDE DEF a, o
  <2>8. job' \in [Publishers -> Jobs']
    BY <1>0, <1>f, <1>i, <2>3, <2>5, <2>6
  <2>9. app' \in [Objects -> Ids] /\ \A x \in Objects \ Ids : app'[x] = None
    BY <1>h, <2>1, <2>2, <2>7
  <2> QED
    BY <1>0, <1>b, <1>d, <2>1, <2>3, <2>7, <2>8, <2>9
<1>4. CASE RegisterWrite(p)
  <2>1. /\ UNCHANGED <<obj, app, latest, clock>> /\ job' = [job EXCEPT ![p] = NoJob]
        /\ size' = [size EXCEPT ![job[p].app] = @ + 1]
        /\ (ver' = ver + 1 /\ indexed' = ver + 1) \/ UNCHANGED <<ver, indexed>>
    BY <1>4 DEF RegisterWrite, GotoBroadcast
  <2>2. size' \in [Objects -> Nat] /\ Ids' = Ids
    BY <1>a, <1>b, <2>1 DEF Ids
  <2>3. ver' \in Nat /\ ver' >= ver /\ indexed' \in 1..ver'
    BY <1>0, <2>1
  <2>4. NoJob \in Jobs'
    BY <1>0, <1>e, <2>1
  <2>5. job' \in [Publishers -> Jobs']
    BY <1>0, <1>f, <1>i, <2>1, <2>4
  <2> QED
    BY <1>0, <1>b, <1>d, <1>g, <2>1, <2>2, <2>3, <2>5
<1>5. CASE CancelWrite(p)
  <2> DEFINE l == size'[job[p].app] = 0
  <2>1. /\ UNCHANGED <<obj, app, latest, clock>> /\ job' = [job EXCEPT ![p].last = l]
        /\ size[job[p].app] > 0
        /\ size' = [size EXCEPT ![job[p].app] = @ - 1]
        /\ (ver' = ver + 1 /\ indexed' = ver + 1) \/ UNCHANGED <<ver, indexed>>
    BY <1>5 DEF CancelWrite
  <2>2. size' \in [Objects -> Nat] /\ Ids' = Ids /\ Jobs' = Jobs
    BY <1>a, <1>b, <2>1 DEF Ids, Jobs
  <2>3. ver' \in Nat /\ ver' >= ver /\ indexed' \in 1..ver'
    BY <1>0, <2>1
  <2>4. l \in BOOLEAN
    OBVIOUS
  <2> HIDE DEF l
  <2>5. [job[p] EXCEPT !.last = l] \in Jobs'
    BY <1>b, <2>2, <2>4 DEF Jobs
  <2>6. job' = [job EXCEPT ![p] = [job[p] EXCEPT !.last = l]]
    BY <2>1
  <2>7. job' \in [Publishers -> Jobs']
    BY <1>0, <1>f, <1>i, <2>1, <2>5, <2>6
  <2> QED
    BY <1>0, <1>b, <1>d, <1>g, <2>1, <2>2, <2>3, <2>7
<1>6. CASE CancelBump(p)
  <2>1. /\ UNCHANGED <<obj, app, size, ver, indexed, job>>
        /\ latest' = IF job[p].obj = obj THEN Bump(latest, 0) ELSE latest
        /\ clock' = Later(clock, latest')
    BY <1>6 DEF CancelBump
  <2>2. clock' \in Nat /\ clock' >= clock /\ latest' \in 0..clock'
    <3>1. latest' \in Nat
      BY <1>0, <2>1 DEF Bump
    <3> QED
      BY <1>0, <2>1, <3>1 DEF Later
  <2>3. obj' \in Ids'
    BY <1>b, <1>e, <2>1, <2>2
  <2>4. job' \in [Publishers -> Jobs']
    BY <1>f, <2>1, <2>2
  <2> QED
    BY <1>0, <1>b, <1>d, <1>g, <2>1, <2>2, <2>3, <2>4
<1>7. CASE \/ CheckLen(p) \/ DelZone(p) \/ CheckEmpty(p) \/ DeleteApps(p)
           \/ SetWrite(p) \/ NotFound(p)
  <2> USE DEF CheckLen, DelZone, CheckEmpty, DeleteApps, SetWrite, NotFound
  <2>1. /\ UNCHANGED <<size, indexed, clock>> /\ obj' \in {obj, None} /\ latest' \in {latest, 0}
        /\ ver' \in {ver, ver + 1}
    BY <1>7, <1>b DEF store, None
  <2>2. app' = app \/ app' = [app EXCEPT ![job[p].obj] = None]
    BY <1>7 DEF store
  <2>3. job' = job \/ job' = [job EXCEPT ![p] = NoJob]
    BY <1>7 DEF GotoBroadcast
  <2> HIDE DEF CheckLen, DelZone, CheckEmpty, DeleteApps, SetWrite, NotFound
  <2>4. Ids' = Ids /\ NoJob \in Jobs'
    BY <1>0, <1>e, <2>1 DEF Ids
  <2>5. ver' \in Nat /\ ver' >= ver /\ indexed' \in 1..ver' /\ latest' \in 0..clock' /\ obj' \in Ids'
    BY <1>0, <1>a, <1>b, <2>1, <2>4
  <2>6. job' \in [Publishers -> Jobs']
    BY <1>0, <1>f, <1>i, <2>1, <2>3, <2>4
  <2>7. app' \in [Objects -> Ids] /\ \A x \in Objects \ Ids : app'[x] = None
    BY <1>a, <1>b, <1>g, <1>h, <2>2
  <2> QED
    BY <1>0, <1>b, <1>d, <2>1, <2>5, <2>6, <2>7
<1> QED
  BY <1>1, <1>2, <1>3, <1>4, <1>5, <1>6, <1>7 DEF ChangeStore

LEMMA StoreTyped ==
  ASSUME Typed, Next
  PROVE  ChangesOK' /\ clock' >= clock /\ ver' >= ver
<1>1. CASE \E p \in Publishers : ChangeStore(p)
  BY <1>1, ChangeTyped DEF Typed
<1>2. ASSUME NEW p \in Publishers, Broadcast(p)
      PROVE  ChangesOK' /\ clock' >= clock /\ ver' >= ver
  <2>1. UNCHANGED store /\ clock \in Nat /\ ver \in Nat
    BY <1>2, BroadcastShape DEF Typed, ChangesOK
  <2>2. ppc' \in [Publishers -> ChangeSteps \cup {"idle", "take", "rlock", "send"}]
    BY <1>2, BroadcastShape DEF Typed, ChangesOK
  <2>3. UNCHANGED job
    BY <1>2, BroadcastShape
  <2> QED
    BY <2>1, <2>2, <2>3 DEF ChangesOK, store, Typed, Jobs, Ids
<1>3. CASE \E w \in Watchers : Watch(w)
  BY <1>3, WatchShape DEF Typed, ChangesOK, store, publisher, Jobs, Ids
<1> QED
  BY <1>1, <1>2, <1>3, NextKinds

LEMMA InfosGrow ==
  ASSUME ChangesOK, ChangesOK', clock' >= clock, ver' >= ver
  PROVE  /\ Infos \subseteq Infos' /\ Sends \subseteq Sends'
         /\ \A s \in Seq(Infos) : s \in Seq(Infos')
         /\ NoInfo \in Infos /\ Info \in Infos
<1>1. Infos \subseteq Infos'
  BY DEF Infos, ChangesOK
<1>2. Sends \subseteq Sends'
  BY <1>1 DEF Sends
<1>3. \A s \in Seq(Infos) : s \in Seq(Infos')
  BY <1>1
<1>4. NoInfo \in Infos /\ Info \in Infos
  <2>1. obj \in 0..clock
    BY IdsAreNumbers DEF ChangesOK
  <2> QED
    BY <2>1 DEF Infos, Info, NoInfo, None, ChangesOK
<1> QED
  BY <1>1, <1>2, <1>3, <1>4

\* What the pointers of goroutines lead to.
LEMMA Pointed ==
  ASSUME Typed
  PROVE  /\ \A p \in Publishers :
              held[p] # None => held[p] \in DOMAIN hosts /\ hosts[held[p]] \in [HostNames -> Conns]
         /\ \A w \in Watchers :
              /\ ptr[w] # None => ptr[w] \in DOMAIN hosts /\ hosts[ptr[w]] \in [HostNames -> Conns]
              /\ chan[w] # None => chan[w] \in DOMAIN buf
         /\ conns # None => conns \in DOMAIN hosts /\ hosts[conns] \in [HostNames -> Conns]
         /\ \A p \in Publishers : out[p] # NoSend =>
              out[p].ch \in DOMAIN buf /\ out[p].info \in Infos /\ out[p].n \in Nat \ {0}
         /\ \A o \in DOMAIN hosts, h \in HostNames :
              hosts[o][h].ch # None => hosts[o][h].ch \in DOMAIN buf
<1> USE DEF Typed, PositionsOK, WiresOK
<1>1. \A p \in Publishers : held[p] # None => held[p] \in DOMAIN hosts
  BY DEF LiveHosts
<1>2. \A w \in Watchers : /\ ptr[w] # None => ptr[w] \in DOMAIN hosts
                          /\ chan[w] # None => chan[w] \in DOMAIN buf
  BY DEF LiveHosts, LiveChans
<1>3. conns # None => conns \in DOMAIN hosts
  BY DEF LiveHosts
<1>4. \A p \in Publishers : out[p] # NoSend =>
        out[p].ch \in DOMAIN buf /\ out[p].info \in Infos /\ out[p].n \in Nat \ {0}
  BY DEF LiveChans, Sends, None
<1>5. \A o \in DOMAIN hosts, h \in HostNames :
        hosts[o][h].ch # None => hosts[o][h].ch \in DOMAIN buf
  BY DEF LiveChans
<1> QED
  BY <1>1, <1>2, <1>3, <1>4, <1>5

\* A hosts object and a channel that are made bear no number of others.
LEMMA NewNumbers ==
  /\ Fresh(LiveHosts) \in Nat \ {None} /\ Fresh(LiveHosts) \notin LiveHosts
  /\ Fresh(LiveChans) \in Nat \ {None} /\ Fresh(LiveChans) \notin LiveChans
BY LiveFinite, FreshIsNew DEF None

\* The channel that Subscribe takes.
LEMMA SubscribeChannel ==
  ASSUME Typed, NEW w \in Watchers, wpc[w] = "subscribe"
  PROVE  LET old == hosts[ptr[w]][HostOf[w]]
         IN /\ ptr[w] \in DOMAIN hosts /\ hosts[ptr[w]] \in [HostNames -> Conns]
            /\ old \in Conns /\ HostOf[w] \in HostNames
            /\ old # NoConn => old.ch \in Nat \ {0} /\ old.count \in Nat \ {0}
            /\ old.gone \in Nat
<1>1. ptr[w] # None
  BY DEF Typed, PositionsOK
<1> QED
  BY <1>1, Pointed, FiniteParts DEF Conns, NoConn

LEMMA PositionsStep ==
  ASSUME Typed, Next
  PROVE  PositionsOK'
<1>0. ChangesOK' /\ Infos \subseteq Infos' /\ Sends \subseteq Sends' /\ NoInfo \in Infos' /\ Info \in Infos'
  BY StoreTyped, InfosGrow DEF Typed
<1> USE DEF PositionsOK
<1>1. ASSUME NEW p \in Publishers, ChangeStore(p)
      PROVE  PositionsOK'
  <2>1. /\ UNCHANGED <<conns, held, left, out, wpc, seen, found, ptr, chan>>
        /\ \A q \in Publishers : ppc'[q] \in {"rlock", "send"} <=> ppc[q] \in {"rlock", "send"}
        /\ \A q \in Publishers : ppc[q] = "send" => ppc'[q] = "send"
    BY <1>1, ChangeShape DEF wires, watcher, Typed, ChangesOK, ChangeSteps
  <2> QED
    BY <1>0, <2>1 DEF Typed
<1>2. ASSUME NEW p \in Publishers, Broadcast(p)
      PROVE  PositionsOK'
  <2>1. UNCHANGED <<wpc, seen, found, ptr, chan>>
    BY <1>2, BroadcastShape DEF watcher
  <2> USE DEF Typed, ChangesOK
  <2>2. /\ \A w \in Watchers :
             /\ wpc'[w] = "waiting" <=> chan'[w] # None
             /\ wpc'[w] \in {"subscribe", "delHost"} <=> ptr'[w] # None
        /\ wpc' \in [Watchers -> {"idle", "lookup", "subscribe", "waiting", "delConns", "delHost"}]
        /\ seen' \in [Watchers -> Infos'] /\ found' \in [Watchers -> BOOLEAN]
        /\ ptr' \in [Watchers -> Nat] /\ chan' \in [Watchers -> Nat]
    BY <1>0, <2>1
  <2>3. CASE Take(p)
    BY <1>0, <2>2, <2>3 DEF Take, None
  <2>4. CASE RLock(p)
    <3>1. /\ UNCHANGED <<conns, held, out>> /\ ppc' = [ppc EXCEPT ![p] = "send"] /\ ppc[p] = "rlock"
          /\ left' = [left EXCEPT ![p] = {h \in HostNames : hosts[held[p]][h] # NoConn}]
      BY <2>4 DEF RLock, wires
    <3> HIDE DEF Typed
    <3>2. left' \in [Publishers -> SUBSET HostNames] /\ out' \in [Publishers -> Sends']
      BY <1>0, <3>1 DEF Typed
    <3> QED
      BY <2>2, <3>1, <3>2 DEF Typed
  <2>5. CASE Pick(p)
    <3>1. PICK h \in left[p] :
            /\ left' = [left EXCEPT ![p] = @ \ {h}]
            /\ out' = IF Here = None THEN out
                      ELSE [out EXCEPT ![p] = [ch |-> hosts[held[p]][h].ch, info |-> Info,
                                               n |-> hosts[held[p]][h].count]]
      BY <2>5 DEF Pick
    <3>2. hosts[held[p]][h] \in Conns \ {NoConn}
      <4>1. h \in HostNames /\ held[p] # None /\ ppc[p] = "send"
        BY <2>5, <3>1 DEF Pick
      <4>2. hosts[held[p]] \in [HostNames -> Conns]
        BY <4>1, Pointed
      <4>3. hosts[held[p]][h] # NoConn
        BY <3>1, <4>1 DEF WiresOK
      <4> QED
        BY <4>1, <4>2, <4>3
    <3>3. [ch |-> hosts[held[p]][h].ch, info |-> Info, n |-> hosts[held[p]][h].count] \in Sends'
      BY <1>0, <3>2 DEF Conns, Sends
    <3> HIDE DEF Typed, ChangesOK
    <3>4. /\ UNCHANGED <<conns, held, ppc>> /\ ppc[p] = "send"
          /\ left' \in [Publishers -> SUBSET HostNames] /\ out' \in [Publishers -> Sends']
          /\ \A q \in Publishers \ {p} : out'[q] = out[q]
      BY <1>0, <2>5, <3>1, <3>3 DEF Pick, wires, Typed
    <3> QED
      BY <2>2, <3>4 DEF Typed
  <2>6. CASE Send(p) \/ SendTimeout(p)
    <3>1. UNCHANGED <<conns, ppc, held, left>> /\ Sent(p) /\ out[p] # NoSend
      BY <2>6 DEF Send, SendTimeout
    <3>2. out' \in [Publishers -> Sends'] /\ ppc[p] = "send" /\ \A q \in Publishers \ {p} : out'[q] = out[q]
      <4>1. out[p] \in [ch : Nat \ {0}, info : Infos, n : Nat \ {0}]
        BY <3>1 DEF Sends
      <4>2. ppc[p] = "send"
        BY <3>1
      <4>3. NoSend \in Sends'
        BY DEF Sends
      <4>4. CASE out[p].n = 1
        BY <1>0, <3>1, <4>2, <4>3, <4>4 DEF Sent
      <4>5. CASE out[p].n # 1
        <5>1. out' = [out EXCEPT ![p].n = @ - 1]
          BY <3>1, <4>5 DEF Sent
        <5>2. out[p].n - 1 \in Nat \ {0} /\ out[p].ch \in Nat \ {0} /\ out[p].info \in Infos'
          BY <1>0, <4>1, <4>5
        <5>3. out'[p] = [ch |-> out[p].ch, info |-> out[p].info, n |-> out[p].n - 1]
          BY <4>1, <5>1
        <5>4. out'[p] \in Sends'
          BY <5>2, <5>3 DEF Sends
        <5> HIDE DEF Typed, ChangesOK
        <5> QED
          BY <1>0, <4>2, <5>1, <5>4 DEF Typed
      <4> QED
        BY <4>4, <4>5
    <3> HIDE DEF Typed, ChangesOK
    <3> QED
      BY <2>2, <3>1, <3>2 DEF Typed
  <2>7. CASE Finish(p)
    BY <1>0, <2>2, <2>7 DEF Finish, None
  <2> QED
    BY <1>2, <2>3, <2>4, <2>5, <2>6, <2>7 DEF Broadcast
<1>3. ASSUME NEW w \in Watchers, Watch(w)
      PROVE  PositionsOK'
  <2>1. UNCHANGED <<ppc, held, left, out>>
    BY <1>3, WatchShape DEF publisher
  <2> USE DEF Typed
  <2>2. /\ held' \in [Publishers -> Nat] /\ left' \in [Publishers -> SUBSET HostNames]
        /\ out' \in [Publishers -> Sends']
        /\ \A p \in Publishers :
             /\ ppc'[p] \in {"rlock", "send"} <=> held'[p] # None
             /\ out'[p] # NoSend => ppc'[p] = "send"
    BY <1>0, <2>1
  <2>3. CASE Fetch(w)
    BY <1>0, <2>2, <2>3 DEF Fetch, wires
  <2>4. CASE Lookup(w)
    <3>1. conns' \in Nat \ {None}
      BY <2>4, NewNumbers DEF Lookup, None
    <3> QED
      BY <1>0, <2>2, <2>4, <3>1 DEF Lookup
  <2>5. CASE Subscribe(w)
    <3> DEFINE old == hosts[ptr[w]][HostOf[w]]
               ch == IF old = NoConn THEN Fresh(LiveChans) ELSE old.ch
    <3>1. ch \in Nat \ {None}
      BY <2>5, SubscribeChannel, NewNumbers DEF Subscribe, None
    <3>2. /\ UNCHANGED <<conns, seen>> /\ found' = [found EXCEPT ![w] = TRUE]
          /\ ptr' = [ptr EXCEPT ![w] = None] /\ wpc[w] = "subscribe"
          /\ \/ wpc' = [wpc EXCEPT ![w] = "waiting"] /\ chan' = [chan EXCEPT ![w] = ch]
             \/ wpc' = [wpc EXCEPT ![w] = "idle"] /\ UNCHANGED chan
      BY <2>5 DEF Subscribe
    <3> HIDE DEF ch
    <3> QED
      BY <1>0, <2>2, <3>1, <3>2 DEF None
  <2>6. CASE Receive(w)
    <3>1. Head(buf[chan[w]]) \in Infos
      BY <2>6, Pointed DEF Receive, WiresOK
    <3> QED
      BY <1>0, <2>2, <2>6, <3>1 DEF Receive, None
  <2>7. CASE Timeout(w)
    BY <1>0, <2>2, <2>7 DEF Timeout, None
  <2>8. CASE FindHosts(w)
    BY <1>0, <2>2, <2>8 DEF FindHosts, None, wires
  <2>9. CASE DelHost(w)
    BY <1>0, <2>2, <2>9 DEF DelHost, None
  <2> QED
    BY <1>3, <2>3, <2>4, <2>5, <2>6, <2>7, <2>8, <2>9 DEF Watch
<1> QED
  BY <1>1, <1>2, <1>3, NextKinds

\* What Wires makes of well-formed contents is well-formed.
LEMMA WiresTyped ==
  ASSUME NEW h, NEW b, Wires(h, b),
         \A o \in DOMAIN h : h[o] \in [HostNames -> Conns],
         \A c \in DOMAIN b : b[c] \in Seq(Infos') /\ Len(b[c]) <= ChanCap,
         \A p \in Publishers : ppc'[p] = "send" =>
           held'[p] # None /\ held'[p] \in DOMAIN h /\ \A g \in left'[p] : h[held'[p]][g] # NoConn
  PROVE  WiresOK'
<1>1. hosts' \in [LiveHosts' \ {None} -> [HostNames -> Conns]]
  <2>1. NoHosts \in [HostNames -> Conns]
    BY DEF NoHosts, Conns
  <2> QED
    BY <2>1 DEF Wires
<1>2. DOMAIN buf' = LiveChans' \ {None}
  BY DEF Wires
<1>3. \A c \in DOMAIN buf' : buf'[c] \in Seq(Infos') /\ Len(buf'[c]) <= ChanCap
  <2>1. << >> \in Seq(Infos') /\ Len(<< >>) <= ChanCap
    BY LongPollAssumption
  <2>2. ASSUME NEW c \in DOMAIN buf'
        PROVE  buf'[c] \in Seq(Infos') /\ Len(buf'[c]) <= ChanCap
    <3>1. buf'[c] = IF c \in DOMAIN b THEN b[c] ELSE << >>
      BY <2>2 DEF Wires
    <3> QED
      BY <2>1, <3>1
  <2> QED
    BY <2>2
<1>4. ASSUME NEW p \in Publishers, ppc'[p] = "send", NEW g \in left'[p]
      PROVE  hosts'[held'[p]][g] # NoConn
  <2>1. held'[p] \in LiveHosts' \ {None} /\ held'[p] \in DOMAIN h
    BY <1>4 DEF LiveHosts
  <2>2. hosts'[held'[p]] = h[held'[p]]
    BY <2>1 DEF Wires
  <2> QED
    BY <1>4, <2>2
<1> QED
  BY <1>1, <1>2, <1>3, <1>4 DEF WiresOK

\* A step that leaves the wires alone keeps what refers to them.
LEMMA WiresKept ==
  ASSUME Typed, Infos \subseteq Infos', UNCHANGED <<hosts, buf>>,
         LiveHosts' \ {None} = LiveHosts \ {None}, LiveChans' \ {None} = LiveChans \ {None},
         \A p \in Publishers : ppc'[p] = "send" => \A g \in left'[p] : hosts[held'[p]][g] # NoConn
  PROVE  WiresOK'
<1>1. hosts' \in [LiveHosts' \ {None} -> [HostNames -> Conns]] /\ DOMAIN buf' = LiveChans' \ {None}
  BY DEF Typed, WiresOK
<1>2. \A c \in DOMAIN buf' : buf'[c] \in Seq(Infos') /\ Len(buf'[c]) <= ChanCap
  BY DEF Typed, WiresOK
<1> QED
  BY <1>1, <1>2 DEF WiresOK

LEMMA RemoveTyped ==
  ASSUME NEW conn \in Conns
  PROVE  Remove(conn) \in Conns
<1>1. CASE conn = NoConn
  BY <1>1 DEF Remove, Conns, NoConn
<1>2. CASE conn \in [ch : Nat \ {0}, count : Nat \ {0}, gone : Nat]
  <2>1. CASE conn.count > 1
    <3>1. Remove(conn) = [ch |-> conn.ch, count |-> conn.count - 1, gone |-> conn.gone]
      BY <1>2, <2>1 DEF Remove
    <3>2. conn.count - 1 \in Nat \ {0} /\ conn.ch \in Nat \ {0} /\ conn.gone \in Nat
      BY <1>2, <2>1
    <3> QED
      BY <3>1, <3>2 DEF Conns
  <2>2. CASE ~(conn.count > 1)
    BY <2>2 DEF Remove, Conns
  <2> QED
    BY <2>1, <2>2
<1> QED
  BY <1>1, <1>2 DEF Conns

LEMMA WiresStep ==
  ASSUME Typed, Next
  PROVE  WiresOK'
<1>0. Infos \subseteq Infos' /\ \A s \in Seq(Infos) : s \in Seq(Infos')
  BY StoreTyped, InfosGrow DEF Typed
<1>a. /\ \A o \in DOMAIN hosts : hosts[o] \in [HostNames -> Conns]
      /\ \A c \in DOMAIN buf : buf[c] \in Seq(Infos') /\ Len(buf[c]) <= ChanCap
      /\ \A p \in Publishers : ppc[p] = "send" =>
           held[p] # None /\ held[p] \in DOMAIN hosts /\ \A g \in left[p] : hosts[held[p]][g] # NoConn
  BY <1>0, Pointed DEF Typed, PositionsOK, WiresOK
<1>1. ASSUME NEW p \in Publishers, ChangeStore(p)
      PROVE  WiresOK'
  <2>1. UNCHANGED <<conns, hosts, buf, held, left, out, ptr, chan>>
    BY <1>1, ChangeShape DEF wires, watcher
  <2>2. LiveHosts' = LiveHosts
    BY <2>1 DEF LiveHosts
  <2>3. LiveChans' = LiveChans
    BY <2>1, <2>2 DEF LiveChans
  <2>4. \A q \in Publishers : ppc'[q] = "send" => ppc[q] = "send"
    BY <1>1, ChangeShape DEF Typed, ChangesOK, ChangeSteps
  <2> QED
    BY <1>0, <1>a, <2>1, <2>2, <2>3, <2>4, WiresKept
<1>2. ASSUME NEW p \in Publishers, Broadcast(p)
      PROVE  WiresOK'
  <2>0. UNCHANGED watcher
    BY <1>2, BroadcastShape
  <2>1. CASE Take(p) /\ conns # None
    <3>1. /\ held' = [held EXCEPT ![p] = conns] /\ conns' = None /\ held[p] = None
          /\ UNCHANGED <<hosts, buf, left, out, ptr, chan>>
      BY <2>1 DEF Take, watcher, Typed, PositionsOK
    <3>2. LiveHosts' \ {None} = LiveHosts \ {None}
      <4>1. \A o : o # None =>
              ((\E q \in Publishers : held'[q] = o) <=> (o = conns \/ \E q \in Publishers : held[q] = o))
        BY <2>1, <3>1 DEF Typed, PositionsOK
      <4> QED
        BY <3>1, <4>1 DEF LiveHosts
    <3>3. LiveChans' = LiveChans
      BY <3>1, <3>2 DEF LiveChans
    <3>4. \A q \in Publishers : ppc'[q] = "send" => ppc[q] = "send" /\ held'[q] = held[q]
      BY <2>1, <3>1 DEF Take, Typed, ChangesOK, PositionsOK
    <3> QED
      BY <1>0, <1>a, <3>1, <3>2, <3>3, <3>4, WiresKept
  <2>2. CASE Take(p) /\ conns = None
    <3>1. UNCHANGED <<conns, held, hosts, buf, left, out, ptr, chan>>
      BY <2>2 DEF Take, watcher
    <3>2. LiveHosts' = LiveHosts
      BY <3>1 DEF LiveHosts
    <3>3. LiveChans' = LiveChans
      BY <3>1, <3>2 DEF LiveChans
    <3>4. \A q \in Publishers : ppc'[q] = "send" => ppc[q] = "send"
      BY <2>2 DEF Take, Typed, ChangesOK
    <3> QED
      BY <1>0, <1>a, <3>1, <3>2, <3>3, <3>4, WiresKept
  <2>3. CASE RLock(p)
    <3>1. /\ UNCHANGED <<conns, held, hosts, buf, out, ptr, chan>>
          /\ left' = [left EXCEPT ![p] = {h \in HostNames : hosts[held[p]][h] # NoConn}]
      BY <2>3 DEF RLock, watcher, wires
    <3>2. LiveHosts' = LiveHosts
      BY <3>1 DEF LiveHosts
    <3>3. LiveChans' = LiveChans
      BY <3>1, <3>2 DEF LiveChans
    <3>4. \A q \in Publishers : ppc'[q] = "send" =>
            (q # p => ppc[q] = "send" /\ left'[q] = left[q])
      BY <2>3 DEF RLock, Typed, ChangesOK, PositionsOK
    <3>5. \A g \in left'[p] : hosts[held[p]][g] # NoConn
      BY <3>1 DEF Typed, PositionsOK
    <3> QED
      BY <1>0, <1>a, <3>1, <3>2, <3>3, <3>4, <3>5, WiresKept
  <2>4. CASE Pick(p)
    <3>1. PICK h \in left[p] :
            /\ left' = [left EXCEPT ![p] = @ \ {h}]
            /\ out' = IF Here = None THEN out
                      ELSE [out EXCEPT ![p] = [ch |-> hosts[held[p]][h].ch, info |-> Info,
                                               n |-> hosts[held[p]][h].count]]
      BY <2>4 DEF Pick
    <3>2. UNCHANGED <<conns, hosts, buf, held, ppc, ptr, chan>> /\ ppc[p] = "send" /\ out[p] = NoSend
      BY <2>4 DEF Pick, wires, watcher
    <3>3. LiveHosts' = LiveHosts
      BY <3>2 DEF LiveHosts
    <3>4. LiveChans' \ {None} = LiveChans \ {None}
      <4>1. held[p] \in LiveHosts \ {None} /\ h \in HostNames
        BY <1>a, <3>1, <3>2 DEF Typed, PositionsOK, WiresOK
      <4> DEFINE c == hosts[held[p]][h].ch
      <4>2. c \in UNION {{hosts[o][g].ch : g \in HostNames} : o \in LiveHosts \ {None}}
        BY <4>1
      <4>3. out' = out \/ out' = [out EXCEPT ![p] = [ch |-> c, info |-> Info, n |-> hosts[held[p]][h].count]]
        BY <3>1
      <4>4. \A x \in {out'[q].ch : q \in Publishers} : x = c \/ x \in {out[q].ch : q \in Publishers}
        BY <4>3 DEF Typed, PositionsOK
      <4>5. \A x \in {out[q].ch : q \in Publishers} : x = None \/ x \in {out'[q].ch : q \in Publishers}
        BY <3>2, <4>3 DEF Typed, PositionsOK, NoSend
      <4> HIDE DEF c
      <4> QED
        BY <3>2, <3>3, <4>2, <4>4, <4>5 DEF LiveChans
    <3>5. \A q \in Publishers : left'[q] \subseteq left[q]
      BY <3>1 DEF Typed, PositionsOK
    <3> QED
      BY <1>0, <1>a, <3>2, <3>3, <3>4, <3>5, WiresKept
  <2>5. CASE Send(p)
    <3> DEFINE c == out[p].ch
               b == [buf EXCEPT ![c] = Append(@, out[p].info)]
    <3>1. /\ UNCHANGED <<ppc, held, left>> /\ Wires(hosts, b)
          /\ out[p] # NoSend /\ Len(buf[c]) < ChanCap
      BY <2>5 DEF Send
    <3>2. c \in DOMAIN buf /\ out[p].info \in Infos'
      BY <1>0, <3>1, Pointed
    <3>3. buf[c] \in Seq(Infos') /\ ChanCap \in Nat
      BY <1>a, <3>2, LongPollAssumption
    <3>4. Append(buf[c], out[p].info) \in Seq(Infos') /\ Len(Append(buf[c], out[p].info)) <= ChanCap
      BY <3>1, <3>2, <3>3
    <3>5. \A x \in DOMAIN b : b[x] \in Seq(Infos') /\ Len(b[x]) <= ChanCap
      BY <1>a, <3>4
    <3> HIDE DEF b
    <3> QED
      BY <1>a, <3>1, <3>5, WiresTyped
  <2>6. CASE SendTimeout(p)
    BY <1>a, <2>6, WiresTyped DEF SendTimeout
  <2>7. CASE Finish(p)
    <3>1. /\ UNCHANGED left /\ Wires(hosts, buf)
          /\ \A q \in Publishers : ppc'[q] = "send" => ppc[q] = "send" /\ held'[q] = held[q]
      BY <2>7 DEF Finish, Typed, ChangesOK, PositionsOK
    <3> QED
      BY <1>a, <3>1, WiresTyped
  <2> QED
    BY <1>2, <2>1, <2>2, <2>3, <2>4, <2>5, <2>6, <2>7 DEF Broadcast
<1>3. ASSUME NEW w \in Watchers, Watch(w)
      PROVE  WiresOK'
  <2>0. UNCHANGED <<ppc, held, left, out>>
    BY <1>3, WatchShape DEF publisher
  <2>1. CASE Fetch(w)
    <3>1. UNCHANGED <<conns, hosts, buf, ptr, chan>>
      BY <2>1 DEF Fetch, wires
    <3>2. LiveHosts' = LiveHosts
      BY <2>0, <3>1 DEF LiveHosts
    <3>3. LiveChans' = LiveChans
      BY <2>0, <3>1, <3>2 DEF LiveChans
    <3> QED
      BY <1>0, <1>a, <2>0, <3>1, <3>2, <3>3, WiresKept
  <2>2. CASE Lookup(w) \/ Timeout(w)
    BY <1>a, <2>0, <2>2, WiresTyped DEF Lookup, Timeout
  <2>3. CASE Subscribe(w)
    <3> DEFINE o == ptr[w]
               old == hosts[o][HostOf[w]]
               ch == IF old = NoConn THEN Fresh(LiveChans) ELSE old.ch
               gone == IF Waits(w) THEN old.gone ELSE old.gone + 1
               h == [hosts EXCEPT ![o][HostOf[w]] = [ch |-> ch, count |-> old.count + 1, gone |-> gone]]
    <3>1. Wires(h, buf) /\ ~ReadLocked(o) /\ wpc[w] = "subscribe"
      BY <2>3 DEF Subscribe
    <3>2. o \in DOMAIN hosts /\ hosts[o] \in [HostNames -> Conns] /\ HostOf[w] \in HostNames
      BY <3>1, SubscribeChannel
    <3>a. gone \in Nat
      BY <3>1, SubscribeChannel
    <3>3. ch \in Nat \ {None} /\ old.count + 1 \in Nat \ {0}
      <4>1. CASE old = NoConn
        <5>1. ch = Fresh(LiveChans)
          BY <4>1
        <5>2. old.count = 0
          BY <4>1 DEF NoConn
        <5> QED
          BY <5>1, <5>2, NewNumbers
      <4>2. CASE old # NoConn
        BY <3>1, <4>2, SubscribeChannel DEF None
      <4> QED
        BY <4>1, <4>2
    <3>4. [ch |-> ch, count |-> old.count + 1, gone |-> gone] \in Conns
      <4> HIDE DEF old, ch, gone
      <4> QED
        BY <3>a, <3>3 DEF Conns, None
    <3> HIDE DEF old, ch, gone
    <3>5. DOMAIN h = DOMAIN hosts /\ \A x \in DOMAIN h : x # o => h[x] = hosts[x]
      OBVIOUS
    <3>6. h[o] \in [HostNames -> Conns]
      BY <3>2, <3>4
    <3>7. \A x \in DOMAIN h : h[x] \in [HostNames -> Conns]
      BY <1>a, <3>5, <3>6
    <3>8. \A p \in Publishers : ppc[p] = "send" => held[p] # o
      BY <3>1 DEF ReadLocked
    <3> HIDE DEF h
    <3> QED
      BY <1>a, <2>0, <3>1, <3>5, <3>7, <3>8, WiresTyped
  <2>4. CASE Receive(w)
    <3> DEFINE c == chan[w]
               b == [buf EXCEPT ![c] = Tail(@)]
    <3>1. Wires(hosts, b) /\ buf[c] # << >> /\ wpc[w] = "waiting"
      BY <2>4 DEF Receive
    <3>2. c \in DOMAIN buf
      BY <3>1, Pointed DEF Typed, PositionsOK
    <3>3. buf[c] \in Seq(Infos') /\ Len(buf[c]) <= ChanCap /\ ChanCap \in Nat
      BY <1>a, <3>2, LongPollAssumption
    <3>4. Tail(buf[c]) \in Seq(Infos') /\ Len(Tail(buf[c])) <= ChanCap
      BY <3>1, <3>3
    <3>5. \A x \in DOMAIN b : b[x] \in Seq(Infos') /\ Len(b[x]) <= ChanCap
      BY <1>a, <3>4
    <3> HIDE DEF b
    <3> QED
      BY <1>a, <2>0, <3>1, <3>5, WiresTyped
  <2>5. CASE FindHosts(w)
    <3>1. UNCHANGED <<conns, hosts, buf, chan>> /\ ptr' = [ptr EXCEPT ![w] = conns] /\ ptr[w] = None
      BY <2>5 DEF FindHosts, wires, Typed, PositionsOK
    <3>2. LiveHosts' \ {None} = LiveHosts \ {None}
      <4>1. \A x : (\E v \in Watchers : ptr'[v] = x) => x = conns \/ \E v \in Watchers : ptr[v] = x
        BY <3>1 DEF Typed, PositionsOK
      <4>2. \A x : (\E v \in Watchers : ptr[v] = x) => x = None \/ \E v \in Watchers : ptr'[v] = x
        BY <3>1 DEF Typed, PositionsOK
      <4> QED
        BY <2>0, <3>1, <4>1, <4>2 DEF LiveHosts
    <3>3. LiveChans' = LiveChans
      BY <2>0, <3>1, <3>2 DEF LiveChans
    <3> QED
      BY <1>0, <1>a, <2>0, <3>1, <3>2, <3>3, WiresKept
  <2>6. CASE DelHost(w)
    <3> DEFINE o == ptr[w]
               old == hosts[o][HostOf[w]]
               h == [hosts EXCEPT ![o][HostOf[w]] = Remove(old)]
    <3>1. Wires(h, buf) /\ ~ReadLocked(o) /\ wpc[w] = "delHost"
      BY <2>6 DEF DelHost
    <3>2. o \in DOMAIN hosts /\ hosts[o] \in [HostNames -> Conns] /\ HostOf[w] \in HostNames
      BY <3>1, Pointed, FiniteParts DEF Typed, PositionsOK
    <3>4. old \in Conns
      BY <3>2
    <3> HIDE DEF old
    <3>3. Remove(old) \in Conns
      BY <3>4, RemoveTyped
    <3>5. DOMAIN h = DOMAIN hosts /\ \A x \in DOMAIN h : x # o => h[x] = hosts[x]
      OBVIOUS
    <3>6. h[o] \in [HostNames -> Conns]
      BY <3>2, <3>3
    <3>7. \A x \in DOMAIN h : h[x] \in [HostNames -> Conns]
      BY <1>a, <3>5, <3>6
    <3>8. \A p \in Publishers : ppc[p] = "send" => held[p] # o
      BY <3>1 DEF ReadLocked
    <3> HIDE DEF h
    <3> QED
      BY <1>a, <2>0, <3>1, <3>5, <3>7, <3>8, WiresTyped
  <2> QED
    BY <1>3, <2>1, <2>2, <2>3, <2>4, <2>5, <2>6 DEF Watch
<1> QED
  BY <1>1, <1>2, <1>3, NextKinds

LEMMA TypedStep ==
  ASSUME Typed, [Next]_vars
  PROVE  Typed'
<1>1. CASE Next
  BY <1>1, StoreTyped, PositionsStep, WiresStep DEF Typed
<1>2. CASE UNCHANGED vars
  <2>1. UNCHANGED <<store, wires, publisher, watcher>>
    BY <1>2 DEF vars
  <2> USE <2>1 DEF store, wires, publisher, watcher
  <2>2. ChangesOK'
    BY DEF Typed, ChangesOK, Jobs, Ids
  <2>3. Infos' = Infos /\ Sends' = Sends
    BY DEF Infos, Sends
  <2>4. PositionsOK'
    BY <2>3 DEF Typed, PositionsOK
  <2>5. LiveHosts' = LiveHosts
    BY DEF LiveHosts
  <2>6. LiveChans' = LiveChans
    BY <2>5 DEF LiveChans
  <2>7. WiresOK'
    BY <2>3, <2>5, <2>6 DEF Typed, WiresOK
  <2> QED
    BY <2>2, <2>4, <2>7 DEF Typed
<1> QED
  BY <1>1, <1>2

LEMMA InitTyped ==
  ASSUME Init
  PROVE  Typed
<1> USE DEF Init
<1>1. ChangesOK
  BY LongPollAssumption DEF ChangesOK, Jobs, Ids, Objects, NoJob, None
<1>2. NoInfo \in Infos
  BY <1>1 DEF Infos, NoInfo, None, ChangesOK
<1>3. PositionsOK
  BY <1>2 DEF PositionsOK, Sends, None
<1>4. WiresOK
  <2>1. LiveHosts \ {None} = {}
    BY DEF LiveHosts
  <2>2. LiveChans \ {None} = {}
    BY <2>1 DEF LiveChans, NoSend
  <2> QED
    BY <2>1, <2>2 DEF WiresOK
<1> QED
  BY <1>1, <1>3, <1>4 DEF Typed

-----------------------------------------------------------------------------
(* Timestamps of Apps objects. *)

LEMMA StampsStep ==
  ASSUME Typed, StampsOK, PlacesOK, Next
  PROVE  StampsOK' /\ PlacesOK'
<1>1. ASSUME NEW p \in Publishers, ChangeStore(p)
      PROVE  StampsOK' /\ PlacesOK'
  <2>1. /\ \A q \in Publishers \ {p} : job'[q] = job[q] /\ ppc'[q] = ppc[q]
        /\ ChangesOK /\ ChangesOK'
    BY <1>1, ChangeShape, ChangeTyped DEF Typed, ChangesOK
  <2>2. /\ \A q \in Publishers : job[q].ts \in Ids /\ job[q].obj \in Ids /\ job[q].app \in Ids
        /\ obj \in Ids /\ clock \in Nat /\ app \in [Objects -> Ids]
        /\ \A o \in Objects \ Ids : app[o] = None
        /\ Ids \subseteq Objects /\ Ids \subseteq 0..clock /\ None \in Objects
    <3>1. /\ \A q \in Publishers : job[q].ts \in Ids /\ job[q].obj \in Ids /\ job[q].app \in Ids
          /\ obj \in Ids /\ clock \in Nat /\ app \in [Objects -> Ids]
          /\ \A o \in Objects \ Ids : app[o] = None
      BY <2>1 DEF ChangesOK, Jobs
    <3> QED
      BY <3>1, IdsAreNumbers
  <2>a. \A q \in Publishers \ {p} : /\ Registering(q)' <=> Registering(q)
                                    /\ Making(q)' <=> Making(q)
    BY <2>1 DEF Registering, Making
  <2>3. CASE \E op \in Changes : Arrive(p, op)
    <3>1. /\ UNCHANGED <<obj, app>> /\ clock < MaxChanges
          /\ job'[p].ts = clock + 1
          /\ job'[p].obj \in {None, obj} /\ job'[p].app \in {None, Here}
          /\ job'[p].app # None => job'[p].obj = obj
          /\ Making(p)' => job'[p].app = None
      BY <2>1, <2>3 DEF Arrive, ChangesOK, GotoStep, Making
    <3>2. clock + 1 \in Objects \ Ids /\ clock + 1 # None
      BY <2>2, <3>1, LongPollAssumption DEF Ids, Objects, None
    <3>3. Here = None \/ (obj # None /\ Here = app[obj])
      BY DEF Here
    <3>4. StampsOK'
      <4>1. ASSUME NEW q \in Publishers, Registering(q)'
            PROVE  /\ job'[q].ts # obj' /\ app'[job'[q].ts] = None
                   /\ \A r \in Publishers : job'[r].obj # job'[q].ts
        <5>1. CASE q = p
          BY <2>1, <2>2, <3>1, <3>2, <5>1
        <5>2. CASE q # p
          <6>1. /\ job'[q] = job[q] /\ job[q].ts # obj /\ app[job[q].ts] = None /\ job[q].ts # None
                /\ \A r \in Publishers : job[r].obj # job[q].ts
            BY <2>1, <2>a, <4>1, <5>2 DEF StampsOK, Registering, Making
          <6> QED
            BY <2>1, <3>1, <6>1
        <5> QED
          BY <5>1, <5>2
      <4>2. ASSUME NEW q \in Publishers, Making(q)'
            PROVE  /\ job'[q].ts # None /\ job'[q].app = None
                   /\ \A o \in Objects : app'[o] # job'[q].ts
                   /\ \A r \in Publishers : job'[r].app # job'[q].ts
        <5>1. CASE q = p
          <6>1. \A r \in Publishers \ {p} : job'[r].app \in Ids
            BY <2>1, <2>2
          <6> QED
            BY <2>2, <3>1, <3>2, <4>2, <5>1, <6>1
        <5>2. CASE q # p
          <6>1. /\ job'[q] = job[q] /\ job[q].ts # None /\ job[q].app = None
                /\ \A o \in Objects : app[o] # job[q].ts
                /\ \A r \in Publishers : job[r].app # job[q].ts
            BY <2>1, <2>a, <4>2, <5>2 DEF StampsOK
          <6> QED
            BY <2>1, <2>2, <3>1, <3>3, <6>1
        <5> QED
          BY <5>1, <5>2
      <4>3. ASSUME NEW q \in Publishers, Making(q)', NEW r \in Publishers, Making(r)', r # q
            PROVE  job'[r].ts # job'[q].ts
        BY <2>1, <2>2, <2>a, <3>1, <3>2, <4>3 DEF StampsOK
      <4> QED
        BY <4>1, <4>2, <4>3 DEF StampsOK
    <3>5. PlacesOK'
      BY <2>1, <2>2, <3>1, <3>3 DEF PlacesOK
    <3> QED
      BY <3>4, <3>5
  <2>4. CASE NewApps(p)
    <3>1. /\ Registering(p) /\ Making(p) /\ ~Registering(p)'
          /\ UNCHANGED app /\ obj' \in {obj, job[p].ts}
          /\ job'[p].obj = obj' /\ job'[p].ts = job[p].ts /\ job'[p].app = job[p].app
      BY <2>1, <2>4 DEF NewApps, GotoStep, Registering, Making, ChangesOK, Jobs
    <3>2. job'[p].app = None
      BY <3>1 DEF StampsOK
    <3>3. StampsOK'
      BY <2>1, <2>a, <3>1 DEF StampsOK, Registering, Making
    <3>4. PlacesOK'
      BY <2>1, <3>1, <3>2 DEF PlacesOK
    <3> QED
      BY <3>3, <3>4
  <2>5. CASE NewApp(p)
    <3> DEFINE o0 == job[p].obj
               t == job[p].ts
    <3>1. /\ Making(p) /\ ~Making(p)' /\ ~Registering(p)' /\ UNCHANGED obj
          /\ job'[p].obj = o0 /\ job'[p].app = app'[o0]
          /\ app'[o0] = (IF app[o0] = None THEN t ELSE app[o0])
          /\ \A o \in Objects \ {o0} : app'[o] = app[o]
      BY <2>1, <2>2, <2>5 DEF NewApp, GotoStep, Registering, Making, ChangesOK, Jobs
    <3>2. /\ t # None /\ \A o \in Objects : app[o] # t
          /\ \A q \in Publishers : job[q].app # t
      BY <3>1 DEF StampsOK
    <3>3. \A q \in Publishers \ {p} : Making(q) =>
            /\ job[q].ts # t /\ job[q].ts # app[o0]
            /\ Registering(q) => job[q].ts # o0
      BY <2>2, <3>1 DEF StampsOK
    <3> HIDE DEF o0, t
    <3>4. o0 \in Objects
      BY <2>2 DEF o0
    <3>5. StampsOK'
      <4>1. ASSUME NEW q \in Publishers, Registering(q)'
            PROVE  /\ job'[q].ts # obj' /\ app'[job'[q].ts] = None
                   /\ \A r \in Publishers : job'[r].obj # job'[q].ts
        <5>1. q # p /\ Registering(q) /\ Making(q) /\ job'[q] = job[q]
          BY <2>1, <2>a, <3>1, <4>1 DEF Registering, Making
        <5>2. /\ job[q].ts # obj /\ app[job[q].ts] = None /\ job[q].ts \in Objects \ {o0}
              /\ \A r \in Publishers : job[r].obj # job[q].ts
          BY <2>2, <3>3, <5>1 DEF StampsOK
        <5>3. \A r \in Publishers : job'[r].obj = job[r].obj
          BY <2>1, <3>1 DEF o0
        <5> QED
          BY <3>1, <5>1, <5>2, <5>3
      <4>2. ASSUME NEW q \in Publishers, Making(q)'
            PROVE  /\ job'[q].ts # None /\ job'[q].app = None
                   /\ \A o \in Objects : app'[o] # job'[q].ts
                   /\ \A r \in Publishers :
                        /\ job'[r].app # job'[q].ts
                        /\ Making(r)' /\ r # q => job'[r].ts # job'[q].ts
        <5>1. q # p /\ Making(q) /\ job'[q] = job[q]
          BY <2>1, <2>a, <3>1, <4>2
        <5>2. /\ job[q].ts # None /\ job[q].app = None
              /\ \A o \in Objects : app[o] # job[q].ts
              /\ \A r \in Publishers :
                   /\ job[r].app # job[q].ts
                   /\ Making(r) /\ r # q => job[r].ts # job[q].ts
          BY <5>1 DEF StampsOK
        <5>3. \A o \in Objects : app'[o] # job[q].ts
          BY <3>1, <3>3, <5>1, <5>2
        <5>4. \A r \in Publishers : job'[r].app # job[q].ts
          BY <2>1, <3>1, <3>4, <5>2, <5>3
        <5>5. \A r \in Publishers : Making(r)' /\ r # q => job'[r].ts # job[q].ts
          BY <2>1, <2>a, <3>1, <5>2
        <5> QED
          BY <5>1, <5>2, <5>3, <5>4, <5>5
      <4> QED
        BY <4>1, <4>2 DEF StampsOK
    <3>6. PlacesOK'
      <4>1. \A o1, o2 \in Objects : app'[o1] # None /\ app'[o1] = app'[o2] => o1 = o2
        BY <3>1, <3>2, <3>4 DEF PlacesOK
      <4>2. ASSUME NEW q \in Publishers, NEW o \in Objects, job'[q].app # None, app'[o] = job'[q].app
            PROVE  o = job'[q].obj
        <5>1. CASE q = p
          BY <3>1, <3>4, <4>1, <4>2, <5>1
        <5>2. CASE q # p
          BY <2>1, <3>1, <3>2, <4>2, <5>2 DEF PlacesOK
        <5> QED
          BY <5>1, <5>2
      <4> QED
        BY <4>1, <4>2 DEF PlacesOK
    <3> QED
      BY <3>5, <3>6
  <2>6. CASE \/ RegisterWrite(p) \/ CancelWrite(p) \/ CancelBump(p) \/ CheckLen(p) \/ DelZone(p)
             \/ CheckEmpty(p) \/ DeleteApps(p) \/ SetWrite(p) \/ NotFound(p)
    <3> USE DEF RegisterWrite, CancelWrite, CancelBump, CheckLen, DelZone, CheckEmpty, DeleteApps,
                SetWrite, NotFound
    <3>1. obj' \in {obj, None} /\ \A o \in Objects : app'[o] \in {app[o], None}
      BY <2>2, <2>6 DEF store
    <3>2. /\ job'[p].obj \in {job[p].obj, None}
          /\ job'[p].app \in {job[p].app, None}
          /\ job'[p].app # None => job'[p].obj = job[p].obj
      BY <2>1, <2>6 DEF GotoBroadcast, NoJob, ChangesOK, Jobs
    <3>3. ~Making(p)' /\ ~Registering(p)'
      BY <2>1, <2>6 DEF GotoBroadcast, GotoStep, Pruning, Making, Registering, ChangesOK
    <3> HIDE DEF RegisterWrite, CancelWrite, CancelBump, CheckLen, DelZone, CheckEmpty, DeleteApps,
                 SetWrite, NotFound
    <3>4. StampsOK'
      <4>1. ASSUME NEW q \in Publishers, Registering(q)'
            PROVE  /\ job'[q].ts # obj' /\ app'[job'[q].ts] = None
                   /\ \A r \in Publishers : job'[r].obj # job'[q].ts
        <5>1. q # p /\ Registering(q) /\ Making(q) /\ job'[q] = job[q]
          BY <2>1, <2>a, <3>3, <4>1 DEF Registering, Making
        <5>2. /\ job[q].ts # obj /\ app[job[q].ts] = None /\ job[q].ts \in Objects
              /\ job[q].ts # None
              /\ \A r \in Publishers : job[r].obj # job[q].ts
          BY <2>2, <5>1 DEF StampsOK
        <5> QED
          BY <2>1, <3>1, <3>2, <5>1, <5>2
      <4>2. ASSUME NEW q \in Publishers, Making(q)'
            PROVE  /\ job'[q].ts # None /\ job'[q].app = None
                   /\ \A o \in Objects : app'[o] # job'[q].ts
                   /\ \A r \in Publishers :
                        /\ job'[r].app # job'[q].ts
                        /\ Making(r)' /\ r # q => job'[r].ts # job'[q].ts
        <5>1. q # p /\ Making(q) /\ job'[q] = job[q]
          BY <2>1, <2>a, <3>3, <4>2
        <5>2. /\ job[q].ts # None /\ job[q].app = None
              /\ \A o \in Objects : app[o] # job[q].ts
              /\ \A r \in Publishers :
                   /\ job[r].app # job[q].ts
                   /\ Making(r) /\ r # q => job[r].ts # job[q].ts
          BY <5>1 DEF StampsOK
        <5>3. \A o \in Objects : app'[o] # job[q].ts
          BY <3>1, <5>2
        <5>4. \A r \in Publishers : job'[r].app # job[q].ts
          BY <2>1, <3>2, <5>2
        <5>5. \A r \in Publishers : Making(r)' /\ r # q => job'[r].ts # job[q].ts
          BY <2>1, <2>a, <3>3, <5>2
        <5> QED
          BY <5>1, <5>2, <5>3, <5>4, <5>5
      <4> QED
        BY <4>1, <4>2 DEF StampsOK
    <3>5. PlacesOK'
      <4>1. \A o1, o2 \in Objects : app'[o1] # None /\ app'[o1] = app'[o2] => o1 = o2
        BY <3>1 DEF PlacesOK
      <4>2. ASSUME NEW q \in Publishers, NEW o \in Objects, job'[q].app # None, app'[o] = job'[q].app
            PROVE  o = job'[q].obj
        BY <2>1, <3>1, <3>2, <4>2 DEF PlacesOK
      <4> QED
        BY <4>1, <4>2 DEF PlacesOK
    <3> QED
      BY <3>4, <3>5
  <2> QED
    BY <1>1, <2>3, <2>4, <2>5, <2>6 DEF ChangeStore
<1>2. ASSUME NEW p \in Publishers, Broadcast(p)
      PROVE  StampsOK' /\ PlacesOK'
  <2>1. UNCHANGED <<obj, app, job>>
    BY <1>2, BroadcastShape DEF store
  <2>2. \A q \in Publishers : (Registering(q)' <=> Registering(q)) /\ (Making(q)' <=> Making(q))
    BY <1>2, BroadcastShape DEF Typed, ChangesOK, Registering, Making
  <2> QED
    BY <2>1, <2>2 DEF StampsOK, PlacesOK
<1>3. ASSUME NEW w \in Watchers, Watch(w)
      PROVE  StampsOK' /\ PlacesOK'
  <2>1. UNCHANGED <<obj, app, ppc, job>>
    BY <1>3, WatchShape DEF store, publisher
  <2> QED
    BY <2>1 DEF StampsOK, PlacesOK, Registering, Making
<1> QED
  BY <1>1, <1>2, <1>3, NextKinds

-----------------------------------------------------------------------------
(* What has been told. *)

LEMMA ToldAreInfos ==
  ASSUME Typed
  PROVE  \A i \in Told : i \in Infos
<1>1. NoInfo \in Infos
  BY DEF Typed, ChangesOK, Infos, NoInfo, None
<1>2. \A p \in Publishers : out[p].info \in Infos
  BY <1>1 DEF Typed, PositionsOK, Sends, NoSend
<1>3. \A c \in DOMAIN buf : \A i \in 1..Len(buf[c]) : buf[c][i] \in Infos
  BY DEF Typed, WiresOK
<1>4. \A w \in Watchers : seen[w] \in Infos
  BY DEF Typed, PositionsOK
<1> QED
  BY <1>2, <1>3, <1>4 DEF Told

\* A change keeps true what was true.
LEMMA TrueInfoKept ==
  ASSUME Typed, StampsOK, PlacesOK, PlacesOK', NEW p \in Publishers, ChangeStore(p),
         NEW i \in Infos, TrueInfo(i)
  PROVE  TrueInfo(i)'
<1>1. /\ ChangesOK /\ ChangesOK' /\ ver' >= ver
      /\ \A q \in Publishers \ {p} : job'[q] = job[q] /\ ppc'[q] = ppc[q]
  BY ChangeShape, ChangeTyped DEF Typed, ChangesOK
<1>2. /\ i.ver \in Nat /\ i.ver <= ver /\ i.obj \in 0..clock /\ i.ts \in 0..clock
      /\ ver \in Nat /\ ver' \in Nat /\ latest \in Nat /\ latest' \in Nat /\ clock \in Nat
      /\ indexed \in Nat /\ indexed' \in Nat /\ obj \in 0..clock /\ i.ver <= ver'
  <2>1. obj \in 0..clock
    BY <1>1, IdsAreNumbers DEF ChangesOK
  <2> QED
    BY <1>1, <2>1 DEF Infos, ChangesOK
<1>a. obj \in Objects /\ job[p].obj \in Objects
  BY <1>1 DEF ChangesOK, Ids, Jobs
<1>3. CASE \E op \in Changes : Arrive(p, op)
  <2>1. /\ UNCHANGED <<obj, app, latest, ver, indexed>> /\ job'[p].ts = clock + 1
        /\ ~Removed(p)
        /\ job'[p].op = "Register" => ppc'[p] = "newApps"
    BY <1>1, <1>3 DEF Arrive, ChangesOK, GotoStep, Removed
  <2>3. ~Writing(p)'
    BY <2>1 DEF Writing
  <2>2. \A q \in Publishers \ {p} : /\ Registering(q)' <=> Registering(q)
                                    /\ Writing(q)' <=> Writing(q)
                                    /\ Removed(q)' <=> Removed(q)
    BY <1>1, <2>1 DEF Registering, Writing, Removed, IsHere, Here
  <2> QED
    BY <1>1, <1>2, <2>1, <2>2, <2>3 DEF TrueInfo
<1>4. CASE NewApps(p)
  <2>1. /\ Registering(p) /\ ~Registering(p)' /\ obj' = (IF obj = None THEN job[p].ts ELSE obj)
        /\ UNCHANGED <<app, latest, ver, indexed>> /\ ~Writing(p)' /\ ~Removed(p)
    BY <1>1, <1>4 DEF NewApps, ChangesOK, GotoStep, Registering, Writing, Removed
  <2>2. \A q \in Publishers \ {p} :
          /\ Registering(q)' <=> Registering(q)
          /\ obj' = obj => (Writing(q)' <=> Writing(q)) /\ (Removed(q)' <=> Removed(q))
    BY <1>1, <2>1 DEF Registering, Writing, Removed, IsHere, Here
  <2>3. CASE obj = None
    <3>1. i.obj # obj'
      BY <2>1, <2>3 DEF TrueInfo
    <3> QED
      BY <1>1, <1>2, <2>1, <2>2, <3>1 DEF TrueInfo
  <2>4. CASE obj # None
    BY <1>1, <1>2, <2>1, <2>2, <2>4 DEF TrueInfo
  <2> QED
    BY <2>3, <2>4
<1>5. CASE NewApp(p)
  <2>1. /\ ~Registering(p)' /\ ~Removed(p) /\ UNCHANGED <<obj, ver, indexed>>
        /\ job'[p].obj = job[p].obj /\ job'[p].app = app'[job[p].obj]
        /\ \A o \in Objects \ {job[p].obj} : app'[o] = app[o]
    BY <1>1, <1>5 DEF NewApp, ChangesOK, GotoStep, Registering, Removed, Jobs
  <2>2. \A q \in Publishers \ {p} : /\ Registering(q)' <=> Registering(q)
                                    /\ Removed(q)' <=> Removed(q)
    BY <1>1, <2>1 DEF Registering, Removed
  <2>3. CASE job[p].obj = obj
    <3>1. latest' > latest
      BY <1>1, <1>2, <1>5, <2>3 DEF NewApp, Bump, ChangesOK, Jobs, Ids
    <3> QED
      BY <1>1, <1>2, <2>1, <2>2, <3>1 DEF TrueInfo
  <2>4. CASE job[p].obj # obj
    <3>1. latest' = latest /\ app'[obj] = app[obj]
      BY <1>5, <1>a, <2>1, <2>4 DEF NewApp
    <3>2. Here' = Here
      BY <2>1, <3>1 DEF Here
    <3>3. \A q \in Publishers \ {p} : Writing(q)' <=> Writing(q)
      BY <1>1, <3>2 DEF Writing, IsHere
    <3>4. ~Writing(p)'
      <4>1. ASSUME IsHere(p)'
            PROVE  FALSE
        <5>1. app'[obj] # None /\ app'[obj] = app'[job[p].obj]
          BY <2>1, <4>1 DEF IsHere, Here
        <5> QED
          BY <1>a, <2>4, <5>1 DEF PlacesOK
      <4> QED
        BY <4>1 DEF Writing
    <3> QED
      BY <1>1, <1>2, <2>1, <2>2, <3>1, <3>3, <3>4 DEF TrueInfo
  <2> QED
    BY <2>3, <2>4
<1>6. CASE RegisterWrite(p)
  <2>1. /\ UNCHANGED <<obj, app, latest>> /\ ~Writing(p)' /\ ~Registering(p)' /\ ~Removed(p)
        /\ ~Writing(p) => UNCHANGED indexed
    BY <1>1, <1>6 DEF RegisterWrite, ChangesOK, GotoStep, GotoBroadcast, Writing, Registering, Removed
  <2>2. \A q \in Publishers \ {p} : /\ Registering(q)' <=> Registering(q)
                                    /\ Writing(q)' <=> Writing(q)
                                    /\ Removed(q)' <=> Removed(q)
    BY <1>1, <2>1 DEF Registering, Writing, Removed, IsHere, Here
  <2> QED
    BY <1>1, <1>2, <2>1, <2>2 DEF TrueInfo
<1>7. CASE CancelWrite(p)
  <2>1. /\ UNCHANGED <<obj, app, latest>> /\ ~Writing(p)' /\ ~Registering(p)' /\ ~Removed(p)
        /\ ppc'[p] = "bump" /\ job'[p].obj = job[p].obj
        /\ ~IsHere(p) => UNCHANGED indexed
    BY <1>1, <1>7 DEF CancelWrite, ChangesOK, GotoStep, Writing, Registering, Removed, Jobs
  <2>3. IsHere(p) => Removed(p)'
    <3>1. IsHere(p) => app[obj] = job[p].app /\ job[p].app # None
      BY DEF IsHere, Here
    <3> QED
      BY <1>a, <2>1, <3>1 DEF PlacesOK, Removed
  <2>2. \A q \in Publishers \ {p} : /\ Registering(q)' <=> Registering(q)
                                    /\ Writing(q)' <=> Writing(q)
                                    /\ Removed(q)' <=> Removed(q)
    BY <1>1, <2>1 DEF Registering, Writing, Removed, IsHere, Here
  <2> QED
    BY <1>1, <1>2, <2>1, <2>2, <2>3 DEF TrueInfo
<1>8. CASE CancelBump(p)
  <2>1. /\ UNCHANGED <<obj, app, indexed>> /\ ~Writing(p)' /\ ~Registering(p)'
        /\ Removed(p) => latest' > latest
        /\ ~Removed(p) => latest' = latest
    BY <1>1, <1>2, <1>8 DEF CancelBump, ChangesOK, GotoStep, Pruning, Writing, Registering, Removed, Bump
  <2>2. \A q \in Publishers \ {p} : /\ Registering(q)' <=> Registering(q)
                                    /\ Writing(q)' <=> Writing(q)
                                    /\ Removed(q)' <=> Removed(q)
    BY <1>1, <2>1 DEF Registering, Writing, Removed, IsHere, Here
  <2> QED
    BY <1>1, <1>2, <2>1, <2>2 DEF TrueInfo
<1>9. CASE CheckLen(p) \/ DelZone(p) \/ CheckEmpty(p) \/ NotFound(p)
  <2>1. /\ UNCHANGED <<obj, latest, indexed>> /\ ~Writing(p)' /\ ~Registering(p)' /\ ~Removed(p)
        /\ app'[obj] \in {app[obj], None}
    BY <1>1, <1>9, <1>a DEF CheckLen, DelZone, CheckEmpty, NotFound, store, ChangesOK, GotoStep, GotoBroadcast,
       Writing, Registering, Removed
  <2>2. \A q \in Publishers \ {p} : /\ Registering(q)' <=> Registering(q)
                                    /\ Writing(q)' => Writing(q)
                                    /\ Removed(q)' <=> Removed(q)
    BY <1>1, <2>1 DEF Registering, Writing, Removed, IsHere, Here
  <2> QED
    BY <1>1, <1>2, <2>1, <2>2 DEF TrueInfo
<1>10. CASE DeleteApps(p)
  <2>1. obj' = None /\ ~Registering(p)'
    BY <1>1, <1>10 DEF DeleteApps, ChangesOK, GotoStep, GotoBroadcast, Registering
  <2>2. \A q \in Publishers \ {p} : Registering(q)' <=> Registering(q)
    BY <1>1 DEF Registering
  <2> QED
    BY <1>1, <1>2, <2>1, <2>2 DEF TrueInfo
<1>11. CASE SetWrite(p)
  <2>1. /\ UNCHANGED <<obj, app, latest, indexed>> /\ ~Writing(p)' /\ ~Registering(p)' /\ ~Removed(p)
    BY <1>1, <1>11 DEF SetWrite, ChangesOK, GotoStep, GotoBroadcast, Writing, Registering, Removed
  <2>2. \A q \in Publishers \ {p} : /\ Registering(q)' <=> Registering(q)
                                    /\ Writing(q)' <=> Writing(q)
                                    /\ Removed(q)' <=> Removed(q)
    BY <1>1, <2>1 DEF Registering, Writing, Removed, IsHere, Here
  <2> QED
    BY <1>1, <1>2, <2>1, <2>2 DEF TrueInfo
<1> QED
  BY <1>3, <1>4, <1>5, <1>6, <1>7, <1>8, <1>9, <1>10, <1>11 DEF ChangeStore

\* Whatever is told was told before, or is what the store has.
LEMMA ToldGrows ==
  ASSUME Typed, Typed', Next, NEW i \in Told'
  PROVE  i \in Told \/ i = NoInfo \/ (i = Info /\ UNCHANGED store)
<1> DEFINE InBufs(x) == \E c \in DOMAIN buf : \E k \in 1..Len(buf[c]) : x = buf[c][k]
           OK(x) == x \in Told \/ x = NoInfo \/ (x = Info /\ UNCHANGED store)
<1>a. /\ \A w \in Watchers : seen[w] \in Told
      /\ \A p \in Publishers : out[p].info \in Told
      /\ \A x : InBufs(x) => x \in Told
  BY DEF Told
<1>b. ASSUME \A w \in Watchers : OK(seen'[w]),
             \A p \in Publishers : OK(out'[p].info),
             \A c \in DOMAIN buf' : \A k \in 1..Len(buf'[c]) : OK(buf'[c][k])
      PROVE  OK(i)
  <2> HIDE DEF OK
  <2> QED
    BY <1>b DEF Told
<1>c. ASSUME NEW b, Wires(hosts, b),
             \A c \in DOMAIN b : \A k \in 1..Len(b[c]) : OK(b[c][k])
      PROVE  \A c \in DOMAIN buf' : \A k \in 1..Len(buf'[c]) : OK(buf'[c][k])
  <2> HIDE DEF OK
  <2>1. ASSUME NEW c \in DOMAIN buf', NEW k \in 1..Len(buf'[c])
        PROVE  OK(buf'[c][k])
    <3>1. buf'[c] = IF c \in DOMAIN b THEN b[c] ELSE << >>
      BY <1>c DEF Wires
    <3> QED
      BY <1>c, <2>1, <3>1
  <2> QED
    BY <2>1
<1>d. \A c \in DOMAIN buf : \A k \in 1..Len(buf[c]) : OK(buf[c][k])
  BY <1>a
<1>1. ASSUME NEW p \in Publishers, ChangeStore(p)
      PROVE  OK(i)
  <2>1. UNCHANGED <<seen, out, buf>>
    BY <1>1, ChangeShape DEF wires, watcher
  <2> QED
    BY <1>a, <1>b, <1>d, <2>1
<1>2. ASSUME NEW p \in Publishers, Broadcast(p)
      PROVE  OK(i)
  <2>1. UNCHANGED <<store, seen>>
    BY <1>2, BroadcastShape DEF watcher
  <2>2. CASE Take(p) \/ RLock(p)
    <3>1. UNCHANGED <<out, buf>>
      BY <2>2 DEF Take, RLock, wires
    <3> QED
      BY <1>a, <1>b, <1>d, <2>1, <3>1
  <2>3. CASE Pick(p)
    <3>1. UNCHANGED buf /\ \A q \in Publishers : out'[q] = out[q] \/ out'[q].info = Info
      BY <2>3 DEF Pick, wires, Typed, PositionsOK
    <3> QED
      BY <1>a, <1>b, <1>d, <2>1, <3>1
  <2>4. CASE Send(p) \/ SendTimeout(p) \/ Finish(p)
    <3>1. \A q \in Publishers : OK(out'[q].info)
      <4>1. CASE Sent(p) /\ out[p] # NoSend
        <5>1. out[p] \in [ch : Nat \ {0}, info : Infos, n : Nat \ {0}]
          BY <4>1 DEF Typed, PositionsOK, Sends
        <5>2. \A q \in Publishers : out'[q].info \in {out[q].info, NoSend.info}
          BY <4>1, <5>1 DEF Sent, Typed, PositionsOK
        <5> QED
          BY <1>a, <5>2 DEF NoSend
      <4>2. CASE UNCHANGED out
        BY <1>a, <4>2
      <4> QED
        BY <2>4, <4>1, <4>2 DEF Send, SendTimeout, Finish
    <3>2. CASE Wires(hosts, buf)
      BY <1>a, <1>b, <1>c, <1>d, <2>1, <3>1, <3>2
    <3>3. CASE Send(p)
      <4> DEFINE b == [buf EXCEPT ![out[p].ch] = Append(@, out[p].info)]
      <4>1. Wires(hosts, b) /\ out[p].ch \in DOMAIN buf /\ buf[out[p].ch] \in Seq(Infos)
        BY <3>3, Pointed DEF Send, Typed, WiresOK
      <4>2. \A c \in DOMAIN b : \A k \in 1..Len(b[c]) : OK(b[c][k])
        <5> HIDE DEF OK
        <5>1. OK(out[p].info)
          BY <1>a DEF OK
        <5>2. ASSUME NEW k \in 1..Len(b[out[p].ch])
              PROVE  OK(b[out[p].ch][k])
          <6>1. /\ b[out[p].ch] = Append(buf[out[p].ch], out[p].info)
                /\ Len(b[out[p].ch]) = Len(buf[out[p].ch]) + 1
            BY <4>1
          <6>2. CASE k = Len(b[out[p].ch])
            BY <4>1, <5>1, <6>1, <6>2
          <6>3. CASE k \in 1..Len(buf[out[p].ch])
            BY <1>d, <4>1, <6>1, <6>3
          <6> QED
            BY <4>1, <6>1, <6>2, <6>3
        <5>3. \A c \in DOMAIN b : c # out[p].ch => b[c] = buf[c] /\ c \in DOMAIN buf
          OBVIOUS
        <5> QED
          BY <1>d, <5>2, <5>3
      <4> HIDE DEF b, OK
      <4>3. \A c \in DOMAIN buf' : \A k \in 1..Len(buf'[c]) : OK(buf'[c][k])
        BY <1>c, <4>1, <4>2
      <4>4. \A w \in Watchers : OK(seen'[w])
        BY <1>a, <2>1 DEF OK
      <4> QED
        BY <1>b, <3>1, <4>3, <4>4
    <3> QED
      BY <2>4, <3>2, <3>3 DEF SendTimeout, Finish
  <2> QED
    BY <1>2, <2>2, <2>3, <2>4 DEF Broadcast
<1>3. ASSUME NEW w \in Watchers, Watch(w)
      PROVE  OK(i)
  <2>1. UNCHANGED <<store, out>>
    BY <1>3, WatchShape DEF publisher
  <2>2. CASE Fetch(w)
    <3>1. UNCHANGED buf /\ \A v \in Watchers : seen'[v] \in {seen[v], Info}
      BY <2>2 DEF Fetch, wires, Typed, PositionsOK
    <3> QED
      BY <1>a, <1>b, <1>d, <2>1, <3>1
  <2>3. CASE Subscribe(w) \/ DelHost(w)
    <3>1. UNCHANGED seen
      BY <2>3 DEF Subscribe, DelHost
    <3>2. buf' = [c \in LiveChans' \ {None} |-> IF c \in DOMAIN buf THEN buf[c] ELSE << >>]
      BY <2>3 DEF Subscribe, DelHost, Wires
    <3>3. \A c \in DOMAIN buf' : \A k \in 1..Len(buf'[c]) : OK(buf'[c][k])
      <4> HIDE DEF OK
      <4>1. ASSUME NEW c \in DOMAIN buf', NEW k \in 1..Len(buf'[c])
            PROVE  OK(buf'[c][k])
        <5>1. buf'[c] = IF c \in DOMAIN buf THEN buf[c] ELSE << >>
          BY <3>2
        <5> QED
          BY <1>d, <4>1, <5>1
      <4> QED
        BY <4>1
    <3>4. \A v \in Watchers : OK(seen'[v])
      BY <1>a, <3>1
    <3>5. \A p \in Publishers : OK(out'[p].info)
      BY <1>a, <2>1
    <3> HIDE DEF OK
    <3> QED
      BY <1>b, <3>3, <3>4, <3>5
  <2>4. CASE Lookup(w) \/ Timeout(w)
    <3>1. UNCHANGED seen /\ Wires(hosts, buf)
      BY <2>4 DEF Lookup, Timeout
    <3> QED
      BY <1>a, <1>b, <1>c, <1>d, <2>1, <3>1
  <2>5. CASE Receive(w)
    <3> DEFINE b == [buf EXCEPT ![chan[w]] = Tail(@)]
    <3>1. /\ Wires(hosts, b) /\ chan[w] \in DOMAIN buf /\ buf[chan[w]] \in Seq(Infos)
          /\ buf[chan[w]] # << >>
          /\ seen' = [seen EXCEPT ![w] = Head(buf[chan[w]])]
      BY <2>5, Pointed DEF Receive, Typed, WiresOK, PositionsOK
    <3>2. \A c \in DOMAIN b : \A k \in 1..Len(b[c]) : OK(b[c][k])
      <4> HIDE DEF OK
      <4>1. ASSUME NEW k \in 1..Len(b[chan[w]])
            PROVE  OK(b[chan[w]][k])
        <5>1. b[chan[w]] = Tail(buf[chan[w]])
          BY <3>1
        <5>2. k + 1 \in 1..Len(buf[chan[w]]) /\ b[chan[w]][k] = buf[chan[w]][k + 1]
          BY <3>1, <4>1, <5>1
        <5> QED
          BY <1>d, <3>1, <5>2
      <4>2. \A c \in DOMAIN b : c # chan[w] => b[c] = buf[c] /\ c \in DOMAIN buf
        OBVIOUS
      <4> QED
        BY <1>d, <4>1, <4>2
    <3>3. OK(Head(buf[chan[w]]))
      <4>1. Head(buf[chan[w]]) = buf[chan[w]][1] /\ 1 \in 1..Len(buf[chan[w]])
        BY <3>1
      <4> HIDE DEF OK
      <4> QED
        BY <1>d, <3>1, <4>1
    <3>4. \A v \in Watchers : OK(seen'[v])
      <4>1. \A v \in Watchers : seen'[v] \in {seen[v], Head(buf[chan[w]])}
        BY <3>1 DEF Typed, PositionsOK
      <4> QED
        BY <1>a, <3>3, <4>1
    <3>5. \A p \in Publishers : OK(out'[p].info)
      BY <1>a, <2>1
    <3> HIDE DEF b, OK
    <3>6. \A c \in DOMAIN buf' : \A k \in 1..Len(buf'[c]) : OK(buf'[c][k])
      BY <1>c, <3>1, <3>2
    <3> QED
      BY <1>b, <3>4, <3>5, <3>6
  <2>6. CASE FindHosts(w)
    <3>1. UNCHANGED <<buf, seen>>
      BY <2>6 DEF FindHosts, wires
    <3> QED
      BY <1>a, <1>b, <1>d, <2>1, <3>1
  <2> QED
    BY <1>3, <2>2, <2>3, <2>4, <2>5, <2>6 DEF Watch
<1> QED
  BY <1>1, <1>2, <1>3, NextKinds

LEMMA ToldStep ==
  ASSUME Typed, Typed', StampsOK, PlacesOK, PlacesOK', ToldOK, Next
  PROVE  ToldOK'
<1>1. ASSUME NEW p \in Publishers, ChangeStore(p)
      PROVE  ToldOK'
  <2>1. UNCHANGED <<seen, out, buf>>
    BY <1>1, ChangeShape DEF wires, watcher
  <2>2. Told' = Told
    BY <2>1 DEF Told
  <2> QED
    BY <1>1, <2>2, ToldAreInfos, TrueInfoKept DEF ToldOK
<1>2. ASSUME UNCHANGED store,
             \A q \in Publishers : /\ Registering(q)' => Registering(q) /\ job'[q] = job[q]
                                   /\ Writing(q)' => Writing(q)
                                   /\ Removed(q) => Removed(q)'
      PROVE  ToldOK'
  <2>1. ASSUME NEW i, TrueInfo(i)
        PROVE  TrueInfo(i)'
    BY <1>2, <2>1 DEF TrueInfo, store
  <2>2. TrueInfo(NoInfo)
    BY DEF TrueInfo, NoInfo, StampsOK, Registering, Making, Typed, ChangesOK, None
  <2>3. TrueInfo(Info)
    <3>1. Info.ver = ver /\ Info.obj = obj /\ Info.ts = latest
      BY DEF Info
    <3>2. ASSUME ~Info.early, NEW p \in Publishers
          PROVE  ~Writing(p)
      BY <3>2 DEF Info, Writing
    <3>3. ver \in Nat /\ indexed <= ver /\ latest \in Nat
      BY DEF Typed, ChangesOK
    <3> HIDE DEF Info
    <3> QED
      BY <3>1, <3>2, <3>3 DEF TrueInfo, StampsOK
  <2> QED
    BY <2>1, <2>2, <2>3, ToldGrows DEF ToldOK
<1>3. ASSUME NEW p \in Publishers, Broadcast(p)
      PROVE  ToldOK'
  <2>1. /\ UNCHANGED <<store, job>> /\ ~Registering(p)' /\ ~Writing(p)' /\ ~Removed(p)
        /\ \A q \in Publishers \ {p} : ppc'[q] = ppc[q]
    BY <1>3, BroadcastShape DEF Typed, ChangesOK, Registering, Writing, Removed
  <2> QED
    BY <1>2, <2>1 DEF Registering, Writing, Removed, IsHere, Here, store
<1>4. ASSUME NEW w \in Watchers, Watch(w)
      PROVE  ToldOK'
  <2>1. UNCHANGED <<store, ppc, job>>
    BY <1>4, WatchShape DEF publisher
  <2> QED
    BY <1>2, <2>1 DEF Registering, Writing, Removed, IsHere, Here, store
<1> QED
  BY <1>1, <1>3, <1>4, NextKinds

LEMMA InitTold ==
  ASSUME Init
  PROVE  StampsOK /\ PlacesOK /\ ToldOK
<1>1. StampsOK
  BY DEF Init, StampsOK, Registering, Making
<1>a. PlacesOK
  BY DEF Init, PlacesOK, NoJob
<1>2. Told \subseteq {NoInfo}
  BY DEF Init, Told, NoSend
<1>3. TrueInfo(NoInfo)
  BY DEF Init, TrueInfo, NoInfo, Registering, None
<1> QED
  BY <1>1, <1>a, <1>2, <1>3 DEF ToldOK

LEMMA UnchangedTold ==
  ASSUME StampsOK, PlacesOK, ToldOK, UNCHANGED vars
  PROVE  StampsOK' /\ PlacesOK' /\ ToldOK'
<1> USE DEF vars, store, wires, publisher, watcher
<1>1. StampsOK' /\ PlacesOK'
  BY DEF StampsOK, PlacesOK, Registering, Making
<1>2. Told' = Told
  BY DEF Told
<1>3. \A i : TrueInfo(i)' <=> TrueInfo(i)
  BY DEF TrueInfo, Registering, Writing, Removed, IsHere, Here
<1> QED
  BY <1>1, <1>2, <1>3 DEF ToldOK

-----------------------------------------------------------------------------
(* Channels of broadcasts. *)

\* A step that sends nothing new, and leaves no connection to a channel that
\* it was not connected to before.
LEMMA BroadcastsKept ==
  ASSUME Typed, Typed', BroadcastsOK,
         conns' # None => conns' = conns \/ conns' \notin LiveHosts,
         \A p \in Publishers : held'[p] \in {held[p], None},
         \A o \in DOMAIN hosts' : \A h \in HostNames : hosts'[o][h].ch # None =>
           o \in DOMAIN hosts /\ hosts'[o][h].ch = hosts[o][h].ch,
         \A p \in Publishers : out'[p].ch # None =>
           out'[p].ch = out[p].ch /\ out'[p].info = out[p].info,
         \A c \in DOMAIN buf' : Unused(c) /\ c \in DOMAIN buf => buf'[c] = << >>,
         \A c \in DOMAIN buf' : c \in DOMAIN buf =>
           \A v \in Nat : Since(c, v) => \A i \in 1..Len(buf'[c]) : buf'[c][i].ver >= v,
         \A w \in Watchers : Box(w)' # None =>
           Box(w)' \in DOMAIN buf /\ Box(w)' \in DOMAIN buf' /\ Since(Box(w)', seen'[w].ver)
  PROVE  BroadcastsOK'
<1>1. ApartOK'
  <2>1. \A p \in Publishers : held'[p] # None => held'[p] # conns'
    <3>1. \A p \in Publishers : held[p] \in LiveHosts
      BY DEF LiveHosts
    <3> QED
      BY <3>1 DEF BroadcastsOK, ApartOK
  <2>2. ASSUME NEW o1 \in DOMAIN hosts', NEW o2 \in DOMAIN hosts', NEW g1 \in HostNames, NEW g2 \in HostNames,
               o1 # o2, hosts'[o1][g1].ch = hosts'[o2][g2].ch
        PROVE  hosts'[o1][g1].ch = None
    BY <2>2 DEF BroadcastsOK, ApartOK
  <2> QED
    BY <2>1, <2>2 DEF ApartOK
<1>2. UnsentOK'
  <2> SUFFICES ASSUME conns' # None, NEW h \in HostNames, hosts'[conns'][h].ch # None
               PROVE  /\ buf'[hosts'[conns'][h].ch] = << >>
                      /\ \A p \in Publishers : out'[p].ch # hosts'[conns'][h].ch
    BY DEF UnsentOK, Unused
  <2> DEFINE c == hosts'[conns'][h].ch
  <2>1. conns' \in DOMAIN hosts' /\ c \in DOMAIN buf'
    BY DEF Typed, WiresOK, LiveHosts, LiveChans
  <2>2. conns' \in DOMAIN hosts /\ c = hosts[conns'][h].ch
    BY <2>1
  <2>3. conns' = conns
    BY <2>2 DEF Typed, WiresOK
  <2>4. Unused(c) /\ c \in DOMAIN buf
    BY <2>2, <2>3, Pointed DEF BroadcastsOK, UnsentOK
  <2>5. buf'[c] = << >>
    BY <2>1, <2>4
  <2>6. \A p \in Publishers : out'[p].ch # c
    BY <2>4 DEF Unused
  <2> QED
    BY <2>5, <2>6
<1>3. BoxesOK'
  <2> SUFFICES ASSUME NEW w \in Watchers, Box(w)' # None
               PROVE  Since(Box(w), seen[w].ver)'
    BY DEF BoxesOK
  <2> DEFINE c == Box(w)'
             v == seen'[w].ver
  <2>1. c \in DOMAIN buf /\ c \in DOMAIN buf' /\ Since(c, v)
    OBVIOUS
  <2>2. v \in Nat
    BY DEF Typed, PositionsOK, ChangesOK, Infos
  <2>3. \A i \in 1..Len(buf'[c]) : buf'[c][i].ver >= v
    BY <2>1, <2>2
  <2>4. \A p \in Publishers : out'[p].ch = c => out'[p].info.ver >= v
    BY <2>1 DEF Since
  <2> QED
    BY <2>3, <2>4 DEF Since
<1> QED
  BY <1>1, <1>2, <1>3 DEF BroadcastsOK

LEMMA BroadcastsUnchanged ==
  ASSUME BroadcastsOK, UNCHANGED <<conns, hosts, buf, held, out, watcher>>
  PROVE  BroadcastsOK'
<1> USE DEF watcher
<1>1. ApartOK' /\ UnsentOK'
  BY DEF BroadcastsOK, ApartOK, UnsentOK, Unused
<1>2. \A w \in Watchers : Box(w)' = Box(w)
  BY DEF Box
<1>3. BoxesOK'
  BY <1>2 DEF BroadcastsOK, BoxesOK, Since
<1> QED
  BY <1>1, <1>3 DEF BroadcastsOK

\* The channel a watcher will read from is there.
LEMMA BoxLive == Typed => \A v \in Watchers : Box(v) # None => Box(v) \in DOMAIN buf
<1> SUFFICES ASSUME Typed, NEW w \in Watchers, Box(w) # None
             PROVE  Box(w) \in DOMAIN buf
  OBVIOUS
<1>1. CASE wpc[w] = "waiting"
  BY <1>1, Pointed DEF Box
<1>2. CASE wpc[w] = "subscribe"
  <2>1. ptr[w] \in DOMAIN hosts /\ HostOf[w] \in HostNames
    BY <1>2, SubscribeChannel
  <2> QED
    BY <1>2, <2>1, Pointed DEF Box
<1> QED
  BY <1>1, <1>2 DEF Box

LEMMA BoxLiveNext == Typed' => (\A v \in Watchers : Box(v) # None => Box(v) \in DOMAIN buf)'
BY BoxLive, PTL

\* A broadcast takes the hosts object out of conns and serves it.
LEMMA BroadcastSteps ==
  ASSUME Typed, Typed', BroadcastsOK, NEW p \in Publishers, Broadcast(p)
  PROVE  BroadcastsOK'
<1>0. UNCHANGED <<ver, wpc, seen, found, ptr, chan>>
  BY BroadcastShape DEF store, watcher
<1>a. \A w \in Watchers : (Box(w) # None => Box(w) \in DOMAIN buf) /\ (Box(w)' # None => Box(w)' \in DOMAIN buf')
  BY BoxLive, BoxLiveNext
<1>1. CASE Take(p)
  <2>1. /\ UNCHANGED <<hosts, buf, out>> /\ conns' = None
        /\ \A q \in Publishers : held'[q] # None => held'[q] \in {held[q], conns}
    BY <1>1 DEF Take, Typed, PositionsOK
  <2>2. ApartOK'
    BY <2>1 DEF BroadcastsOK, ApartOK
  <2>3. UnsentOK'
    BY <2>1 DEF UnsentOK
  <2>4. \A w \in Watchers : Box(w)' = Box(w)
    BY <1>0, <2>1 DEF Box
  <2>5. BoxesOK'
    BY <1>0, <2>1, <2>4 DEF BroadcastsOK, BoxesOK, Since
  <2> QED
    BY <2>2, <2>3, <2>5 DEF BroadcastsOK
<1>2. CASE RLock(p)
  BY <1>2, BroadcastsUnchanged DEF RLock, wires
<1>3. CASE Pick(p)
  <2>1. PICK h \in left[p] :
          out' = IF Here = None THEN out
                 ELSE [out EXCEPT ![p] = [ch |-> hosts[held[p]][h].ch, info |-> Info,
                                          n |-> hosts[held[p]][h].count]]
    BY <1>3 DEF Pick
  <2>2. UNCHANGED <<conns, hosts, buf, held>> /\ ppc[p] = "send"
    BY <1>3 DEF Pick, wires
  <2> DEFINE c == hosts[held[p]][h].ch
  <2>3. /\ held[p] # None /\ held[p] \in DOMAIN hosts /\ h \in HostNames /\ held[p] # conns
        /\ c # None
    <3>1. held[p] # None /\ h \in HostNames /\ hosts[held[p]][h] # NoConn
      BY <2>1, <2>2 DEF Typed, PositionsOK, WiresOK
    <3>2. held[p] \in DOMAIN hosts /\ hosts[held[p]][h] \in Conns
      BY <3>1, Pointed
    <3>3. c # None
      BY <3>1, <3>2 DEF Conns, None
    <3> QED
      BY <3>1, <3>2, <3>3 DEF BroadcastsOK, ApartOK
  <2>4. \A q \in Publishers : \/ out'[q] = out[q]
                              \/ out'[q].ch = c /\ out'[q].info = Info
    BY <2>1 DEF Typed, PositionsOK
  <2>5. ApartOK'
    BY <2>2 DEF BroadcastsOK, ApartOK
  <2>6. UnsentOK'
    <3>1. ASSUME conns # None, NEW g \in HostNames, hosts[conns][g].ch # None
          PROVE  hosts[conns][g].ch # c
      BY <2>3, <3>1, Pointed DEF BroadcastsOK, ApartOK
    <3> HIDE DEF c
    <3> QED
      BY <2>2, <2>4, <3>1 DEF BroadcastsOK, UnsentOK, Unused
  <2>7. \A w \in Watchers : Box(w)' = Box(w)
    BY <1>0, <2>2 DEF Box
  <2>8. Info.ver = ver /\ \A w \in Watchers : ver >= seen[w].ver
    BY DEF Info, Typed, PositionsOK, Infos, ChangesOK
  <2>9. BoxesOK'
    <3> HIDE DEF c
    <3> QED
      BY <1>0, <2>2, <2>4, <2>7, <2>8 DEF BroadcastsOK, BoxesOK, Since
  <2> QED
    BY <2>5, <2>6, <2>9 DEF BroadcastsOK
<1>4. CASE Send(p) \/ SendTimeout(p) \/ Finish(p)
  <2>1. /\ conns' = conns
        /\ \A q \in Publishers : held'[q] \in {held[q], None}
        /\ \A o \in DOMAIN hosts' : hosts'[o] = IF o \in DOMAIN hosts THEN hosts[o] ELSE NoHosts
    BY <1>4 DEF Send, SendTimeout, Finish, Wires, Typed, PositionsOK
  <2>2. \A o \in DOMAIN hosts' : \A h \in HostNames : hosts'[o][h].ch # None =>
          o \in DOMAIN hosts /\ hosts'[o][h].ch = hosts[o][h].ch
    BY <2>1 DEF NoHosts, NoConn
  <2>3. \A q \in Publishers : out'[q].ch # None => out'[q].ch = out[q].ch /\ out'[q].info = out[q].info
    <3>1. CASE Sent(p) /\ out[p] # NoSend
      <4>1. out[p] \in [ch : Nat \ {0}, info : Infos, n : Nat \ {0}]
        BY <3>1 DEF Typed, PositionsOK, Sends
      <4> QED
        BY <3>1, <4>1 DEF Sent, NoSend, Typed, PositionsOK
    <3>2. CASE UNCHANGED out
      BY <3>2
    <3> QED
      BY <1>4, <3>1, <3>2 DEF Send, SendTimeout, Finish
  <2>4. \A w \in Watchers : Box(w)' # None => Box(w)' = Box(w)
    <3>1. ASSUME NEW w \in Watchers, wpc[w] = "subscribe"
          PROVE  ptr[w] \in DOMAIN hosts' /\ ptr[w] \in DOMAIN hosts
      BY <1>0, <3>1, SubscribeChannel DEF LiveHosts, Typed, WiresOK, PositionsOK
    <3> QED
      BY <1>0, <2>1, <3>1 DEF Box
  <2>5. \A w \in Watchers : Box(w)' # None =>
          Box(w)' \in DOMAIN buf /\ Box(w)' \in DOMAIN buf' /\ Since(Box(w)', seen'[w].ver)
    BY <1>0, <1>a, <2>4 DEF BroadcastsOK, BoxesOK
  <2>6. CASE Wires(hosts, buf)
    <3>1. \A c \in DOMAIN buf' : c \in DOMAIN buf => buf'[c] = buf[c]
      BY <2>6 DEF Wires
    <3> QED
      BY <2>1, <2>2, <2>3, <2>5, <3>1, BroadcastsKept DEF Unused, Since
  <2>7. CASE Send(p)
    <3> DEFINE b == [buf EXCEPT ![out[p].ch] = Append(@, out[p].info)]
    <3>1. /\ out[p] # NoSend /\ Wires(hosts, b) /\ out[p].ch \in DOMAIN buf
          /\ buf[out[p].ch] \in Seq(Infos) /\ out[p].info \in Infos
      BY <2>7, Pointed DEF Send, Typed, WiresOK
    <3>2. \A c \in DOMAIN buf' : c \in DOMAIN buf =>
            buf'[c] = IF c = out[p].ch THEN Append(buf[c], out[p].info) ELSE buf[c]
      BY <3>1 DEF Wires
    <3>3. \A c \in DOMAIN buf' : Unused(c) /\ c \in DOMAIN buf => buf'[c] = << >>
      BY <3>2 DEF Unused
    <3>4. ASSUME NEW c \in DOMAIN buf', c \in DOMAIN buf, NEW v \in Nat, Since(c, v), NEW i \in 1..Len(buf'[c])
          PROVE  buf'[c][i].ver >= v
      <4>1. CASE c # out[p].ch
        BY <3>2, <3>4, <4>1 DEF Since
      <4>2. CASE c = out[p].ch
        <5>1. buf'[c] = Append(buf[c], out[p].info) /\ buf[c] \in Seq(Infos)
          BY <3>1, <3>2, <3>4, <4>2
        <5>2. out[p].info.ver >= v
          BY <3>4, <4>2 DEF Since
        <5>3. Len(buf'[c]) = Len(buf[c]) + 1 /\ Len(buf[c]) \in Nat
          BY <3>1, <5>1
        <5>4. CASE i = Len(buf[c]) + 1
          BY <3>1, <5>1, <5>2, <5>4
        <5>5. CASE i \in 1..Len(buf[c])
          <6>1. buf'[c][i] = buf[c][i]
            BY <3>1, <5>1, <5>5
          <6> QED
            BY <3>4, <5>5, <6>1 DEF Since
        <5> QED
          BY <3>4, <5>3, <5>4, <5>5
      <4> QED
        BY <4>1, <4>2
    <3> QED
      BY <2>1, <2>2, <2>3, <2>5, <3>3, <3>4, BroadcastsKept
  <2> QED
    BY <1>4, <2>6, <2>7 DEF SendTimeout, Finish
<1> QED
  BY <1>1, <1>2, <1>3, <1>4 DEF Broadcast

\* A watcher finds the hosts object in conns, to which nothing has been sent.
LEMMA WatchSteps ==
  ASSUME Typed, Typed', BroadcastsOK, NEW w \in Watchers, Watch(w)
  PROVE  BroadcastsOK'
<1>0. UNCHANGED <<ver, held, out, ppc>>
  BY WatchShape DEF store, publisher
<1>a. \A v \in Watchers : (Box(v) # None => Box(v) \in DOMAIN buf) /\ (Box(v)' # None => Box(v)' \in DOMAIN buf')
  BY BoxLive, BoxLiveNext
<1>b. /\ \A v \in Watchers \ {w} : UNCHANGED <<wpc[v], seen[v], ptr[v], chan[v]>>
      /\ \A v \in Watchers : wpc[v] = "subscribe" => ptr[v] \in DOMAIN hosts /\ ptr[v] # None /\ HostOf[v] \in HostNames
      /\ \A v \in Watchers : wpc'[v] = "subscribe" => ptr'[v] \in DOMAIN hosts'
  <2>1. \A v \in Watchers : wpc'[v] = "subscribe" => ptr'[v] \in DOMAIN hosts'
    BY DEF Typed, PositionsOK, WiresOK, LiveHosts
  <2> QED
    BY <2>1, WatchShape, SubscribeChannel DEF Typed, PositionsOK
\* What a step of Wires leaves in the hosts objects.
<1>c. ASSUME NEW h, NEW b, Wires(h, b), DOMAIN h = DOMAIN hosts,
             \A o \in DOMAIN hosts : \A g \in HostNames : h[o][g].ch \in {hosts[o][g].ch, None}
      PROVE  /\ \A o \in DOMAIN hosts' : \A g \in HostNames : hosts'[o][g].ch # None =>
                  o \in DOMAIN hosts /\ hosts'[o][g].ch = hosts[o][g].ch
             /\ \A v \in Watchers \ {w} : Box(v)' # None => Box(v)' = Box(v)
  <2>1. \A o \in DOMAIN hosts' : \A g \in HostNames : hosts'[o][g].ch # None =>
                  o \in DOMAIN hosts /\ hosts'[o][g].ch = hosts[o][g].ch
    <3>1. \A o \in DOMAIN hosts' : hosts'[o] = IF o \in DOMAIN hosts THEN h[o] ELSE NoHosts
      BY <1>c DEF Wires
    <3> QED
      BY <1>c, <3>1 DEF NoHosts, NoConn
  <2>2. \A v \in Watchers \ {w} : Box(v)' # None => Box(v)' = Box(v)
    BY <1>b, <2>1 DEF Box
  <2> QED
    BY <2>1, <2>2
\* The premises of BroadcastsKept that most steps share.
<1>d. ASSUME NEW h, NEW b, Wires(h, b), DOMAIN h = DOMAIN hosts,
             \A o \in DOMAIN hosts : \A g \in HostNames : h[o][g].ch \in {hosts[o][g].ch, None},
             conns' # None => conns' = conns \/ conns' \notin LiveHosts,
             \A c \in DOMAIN b : c \in DOMAIN buf => b[c] = buf[c], DOMAIN b = DOMAIN buf,
             seen' = seen,
             Box(w)' # None => Box(w)' \in DOMAIN buf /\ Since(Box(w)', seen[w].ver)
      PROVE  BroadcastsOK'
  <2>1. \A c \in DOMAIN buf' : c \in DOMAIN buf => buf'[c] = buf[c]
    BY <1>d DEF Wires
  <2>2. \A v \in Watchers : Box(v)' # None =>
          Box(v)' \in DOMAIN buf /\ Box(v)' \in DOMAIN buf' /\ Since(Box(v)', seen'[v].ver)
    BY <1>a, <1>c, <1>d DEF BroadcastsOK, BoxesOK
  <2>3. /\ \A o \in DOMAIN hosts' : \A g \in HostNames : hosts'[o][g].ch # None =>
             o \in DOMAIN hosts /\ hosts'[o][g].ch = hosts[o][g].ch
        /\ \A p \in Publishers : held'[p] \in {held[p], None}
        /\ \A p \in Publishers : out'[p].ch # None => out'[p].ch = out[p].ch /\ out'[p].info = out[p].info
    BY <1>0, <1>c, <1>d
  <2>4. /\ \A c \in DOMAIN buf' : Unused(c) /\ c \in DOMAIN buf => buf'[c] = << >>
        /\ \A c \in DOMAIN buf' : c \in DOMAIN buf =>
             \A v \in Nat : Since(c, v) => \A i \in 1..Len(buf'[c]) : buf'[c][i].ver >= v
    BY <2>1 DEF Unused, Since
  <2> QED
    BY <1>d, <2>2, <2>3, <2>4, BroadcastsKept
<1>1. CASE Fetch(w)
  <2>1. UNCHANGED <<conns, hosts, buf, ptr, chan>>
    BY <1>1 DEF Fetch, wires
  <2>2. Box(w)' = None /\ \A v \in Watchers \ {w} : Box(v)' = Box(v)
    BY <1>1, <1>b, <2>1 DEF Fetch, Box, Typed, PositionsOK
  <2>3. ApartOK' /\ UnsentOK'
    BY <1>0, <2>1 DEF BroadcastsOK, ApartOK, UnsentOK, Unused
  <2>4. BoxesOK'
    BY <1>0, <1>b, <2>1, <2>2 DEF BroadcastsOK, BoxesOK, Since
  <2> QED
    BY <2>3, <2>4 DEF BroadcastsOK
<1>2. CASE Lookup(w)
  <2>1. /\ conns' = (IF conns = None THEN Fresh(LiveHosts) ELSE conns) /\ Wires(hosts, buf) /\ seen' = seen
        /\ wpc'[w] = "subscribe" /\ ptr'[w] = conns'
    BY <1>2 DEF Lookup, Typed, PositionsOK
  <2>2. conns' # None => conns' = conns \/ conns' \notin LiveHosts
    BY <2>1, NewNumbers
  <2>3. ASSUME Box(w)' # None
        PROVE  Box(w)' \in DOMAIN buf /\ Since(Box(w)', seen[w].ver)
    <3>1. Box(w)' = hosts'[conns'][HostOf[w]].ch /\ HostOf[w] \in HostNames
      BY <2>1, FiniteParts DEF Box
    <3>2. conns' \in DOMAIN hosts'
      BY <1>b, <2>1
    <3>3. hosts'[conns'] = IF conns' \in DOMAIN hosts THEN hosts[conns'] ELSE NoHosts
      BY <2>1, <3>2 DEF Wires
    <3>4. conns' \in DOMAIN hosts
      BY <2>3, <3>1, <3>3 DEF NoHosts, NoConn
    <3>5. conns # None /\ conns' = conns
      BY <2>1, <3>4, NewNumbers DEF Typed, WiresOK
    <3>6. Box(w)' = hosts[conns][HostOf[w]].ch
      BY <3>1, <3>3, <3>4, <3>5
    <3>7. Unused(Box(w)') /\ Box(w)' \in DOMAIN buf
      BY <2>3, <3>1, <3>5, <3>6, Pointed DEF BroadcastsOK, UnsentOK
    <3> QED
      BY <3>7 DEF Unused, Since
  <2> QED
    BY <1>d, <2>1, <2>2, <2>3
<1>3. CASE Subscribe(w)
  <2> DEFINE o == ptr[w]
             g == HostOf[w]
             old == hosts[o][g]
             ch == IF old = NoConn THEN Fresh(LiveChans) ELSE old.ch
             gone == IF Waits(w) THEN old.gone ELSE old.gone + 1
             h == [hosts EXCEPT ![o][g] = [ch |-> ch, count |-> old.count + 1, gone |-> gone]]
  <2>1. /\ Wires(h, buf) /\ UNCHANGED <<conns, seen>> /\ wpc[w] = "subscribe"
        /\ wpc'[w] # "subscribe" /\ (wpc'[w] = "waiting" => chan'[w] = ch)
    BY <1>3 DEF Subscribe, Typed, PositionsOK
  <2>2. o \in DOMAIN hosts /\ hosts[o] \in [HostNames -> Conns] /\ g \in HostNames
    BY <2>1, SubscribeChannel
  <2>3. old.ch \in {ch, None} /\ (old.ch = None => ch = Fresh(LiveChans)) /\ ch # None
    <3>1. old \in Conns
      BY <2>2
    <3>2. CASE old = NoConn
      BY <3>2, NewNumbers DEF NoConn
    <3>3. CASE old # NoConn
      BY <3>1, <3>3 DEF Conns, None
    <3> QED
      BY <3>2, <3>3
  <2>4. /\ \A x \in DOMAIN hosts' : hosts'[x] = IF x \in DOMAIN hosts THEN h[x] ELSE NoHosts
        /\ \A c \in DOMAIN buf' : buf'[c] = IF c \in DOMAIN buf THEN buf[c] ELSE << >>
    BY <2>1 DEF Wires
  <2> HIDE DEF old, ch
  <2>5. /\ h[o][g].ch = ch /\ \A k \in HostNames \ {g} : h[o][k] = hosts[o][k]
        /\ \A x \in DOMAIN hosts \ {o} : h[x] = hosts[x]
    BY <2>2
  <2> HIDE DEF h
  \* Apart from the one that is subscribed, connections are as they were.
  <2>6. \A x \in DOMAIN hosts', k \in HostNames : hosts'[x][k].ch # None =>
          /\ x \in DOMAIN hosts
          /\ \/ x = o /\ k = g /\ hosts'[x][k].ch = ch
             \/ hosts'[x][k].ch = hosts[x][k].ch
    BY <2>2, <2>4, <2>5 DEF NoHosts, NoConn
  <2>7. \A x \in DOMAIN hosts, k \in HostNames : hosts[x][k].ch = ch => x = o
    <3>1. \A x \in DOMAIN hosts, k \in HostNames : hosts[x][k].ch \in LiveChans
      BY DEF LiveChans, Typed, WiresOK
    <3>2. CASE ch = Fresh(LiveChans)
      BY <3>1, <3>2, NewNumbers
    <3>3. CASE old.ch = ch
      BY <2>2, <2>3, <3>3 DEF BroadcastsOK, ApartOK, old
    <3> QED
      BY <2>3, <3>2, <3>3
  \* Nobody sends to a new channel, and it has no contents yet.
  <2>8. old.ch = None => ch \notin DOMAIN buf /\ \A p \in Publishers : out[p].ch # ch
    BY <2>3, NewNumbers DEF LiveChans, Typed, WiresOK
  <2>9. ApartOK'
    <3>1. ASSUME NEW o1 \in DOMAIN hosts', NEW o2 \in DOMAIN hosts', NEW g1 \in HostNames, NEW g2 \in HostNames,
                 o1 # o2, hosts'[o1][g1].ch = hosts'[o2][g2].ch, hosts'[o1][g1].ch # None
          PROVE  FALSE
      BY <2>6, <2>7, <3>1 DEF BroadcastsOK, ApartOK
    <3>2. \A p \in Publishers : held'[p] # None => held'[p] # conns'
      BY <1>0, <2>1 DEF BroadcastsOK, ApartOK
    <3> QED
      BY <3>1, <3>2 DEF ApartOK
  <2>10. UnsentOK'
    <3> SUFFICES ASSUME conns' # None, NEW k \in HostNames, hosts'[conns'][k].ch # None
                 PROVE  /\ buf'[hosts'[conns'][k].ch] = << >>
                        /\ \A p \in Publishers : out'[p].ch # hosts'[conns'][k].ch
      BY DEF UnsentOK, Unused
    <3> DEFINE c == hosts'[conns'][k].ch
    <3>1. conns' = conns /\ conns \in DOMAIN hosts' /\ c \in DOMAIN buf'
      BY <2>1 DEF Typed, WiresOK, LiveHosts, LiveChans
    <3>2. c = hosts[conns][k].ch \/ (c = ch /\ conns = o /\ k = g)
      BY <2>6, <3>1
    <3>3. CASE c = hosts[conns][k].ch
      <4>1. Unused(c) /\ c \in DOMAIN buf
        BY <3>1, <3>3, Pointed DEF BroadcastsOK, UnsentOK
      <4> HIDE DEF c
      <4>2. buf'[c] = buf[c]
        BY <2>4, <3>1, <4>1
      <4> QED
        BY <1>0, <4>1, <4>2 DEF Unused, c
    <3>4. CASE c = ch /\ conns = o /\ k = g /\ c # hosts[conns][k].ch
      <4>1. old.ch = None
        BY <2>3, <3>4 DEF old
      <4> QED
        BY <1>0, <2>4, <2>8, <3>1, <3>4, <4>1
    <3> QED
      BY <3>2, <3>3, <3>4
  <2>11. BoxesOK'
    <3> SUFFICES ASSUME NEW v \in Watchers, Box(v)' # None
                 PROVE  Since(Box(v), seen[v].ver)'
      BY DEF BoxesOK
    <3>1. Box(v)' \in DOMAIN buf' /\ seen'[v] = seen[v]
      BY <1>a, <2>1
    <3>2. Box(v)' = Box(v) \/ (old.ch = None /\ Box(v)' = ch)
      <4>1. CASE v = w
        <5>1. Box(v)' = ch
          BY <2>1, <4>1 DEF Box
        <5>2. Box(v) = old.ch
          BY <2>1, <4>1 DEF Box, old
        <5> QED
          BY <2>3, <5>1, <5>2
      <4>2. CASE v # w /\ wpc[v] = "waiting"
        BY <1>b, <4>2 DEF Box
      <4>3. CASE v # w /\ wpc[v] = "subscribe"
        <5>1. /\ Box(v)' = hosts'[ptr[v]][HostOf[v]].ch /\ Box(v) = hosts[ptr[v]][HostOf[v]].ch
              /\ ptr[v] \in DOMAIN hosts' /\ HostOf[v] \in HostNames
          BY <1>b, <4>3, FiniteParts DEF Box
        <5>2. \/ Box(v)' = Box(v)
              \/ ptr[v] = o /\ HostOf[v] = g /\ Box(v)' = ch
          BY <2>6, <5>1
        <5>3. ptr[v] = o /\ HostOf[v] = g => Box(v) = old.ch
          BY <5>1 DEF old
        <5> QED
          BY <2>3, <5>2, <5>3
      <4>4. CASE v # w /\ wpc[v] \notin {"waiting", "subscribe"}
        BY <1>b, <4>4 DEF Box
      <4> QED
        BY <4>1, <4>2, <4>3, <4>4
    <3> DEFINE c == Box(v)'
    <3>3. Since(c, seen[v].ver) \/ (c \notin DOMAIN buf /\ \A p \in Publishers : out[p].ch # c)
      BY <2>8, <3>2 DEF BroadcastsOK, BoxesOK
    <3>4. Box(v)' = Box(v) => c \in DOMAIN buf
      BY <1>a
    <3>5. buf'[c] = IF c \in DOMAIN buf THEN buf[c] ELSE << >>
      BY <2>4, <3>1
    <3>6. \A i \in 1..Len(buf'[c]) : buf'[c][i].ver >= seen'[v].ver
      BY <3>1, <3>3, <3>5 DEF Since
    <3>7. \A p \in Publishers : out'[p].ch = c => out'[p].info.ver >= seen'[v].ver
      BY <1>0, <3>1, <3>3 DEF Since
    <3> QED
      BY <3>6, <3>7 DEF Since
  <2> QED
    BY <2>9, <2>10, <2>11 DEF BroadcastsOK
<1>4. CASE Receive(w)
  <2> DEFINE c == chan[w]
             b == [buf EXCEPT ![c] = Tail(@)]
  <2>1. /\ Wires(hosts, b) /\ UNCHANGED <<conns, ptr>> /\ wpc[w] = "waiting"
        /\ wpc'[w] \in {"idle", "delConns"} /\ buf[c] # << >> /\ c \in DOMAIN buf /\ buf[c] \in Seq(Infos)
    BY <1>4, Pointed DEF Receive, Typed, PositionsOK, WiresOK
  <2>2. \A x \in DOMAIN buf' : x \in DOMAIN buf => buf'[x] = IF x = c THEN Tail(buf[x]) ELSE buf[x]
    BY <2>1 DEF Wires
  <2>3. ASSUME NEW x \in DOMAIN buf', x \in DOMAIN buf, NEW v \in Nat, Since(x, v), NEW i \in 1..Len(buf'[x])
        PROVE  buf'[x][i].ver >= v
    <3>1. CASE x # c
      BY <2>2, <2>3, <3>1 DEF Since
    <3>2. CASE x = c
      <4>1. buf'[x] = Tail(buf[c])
        BY <2>2, <2>3, <3>2
      <4>2. i + 1 \in 1..Len(buf[c]) /\ buf'[x][i] = buf[c][i + 1]
        BY <2>1, <2>3, <4>1
      <4> QED
        BY <2>3, <3>2, <4>2 DEF Since
    <3> QED
      BY <3>1, <3>2
  <2>4. \A x \in DOMAIN buf' : Unused(x) /\ x \in DOMAIN buf => buf'[x] = << >>
    BY <2>1, <2>2 DEF Unused
  <2>5. Box(w)' = None
    BY <2>1 DEF Box
  <2>6. /\ \A o \in DOMAIN hosts' : \A h \in HostNames : hosts'[o][h].ch # None =>
             o \in DOMAIN hosts /\ hosts'[o][h].ch = hosts[o][h].ch
        /\ \A v \in Watchers \ {w} : Box(v)' # None => Box(v)' = Box(v)
    <3> HIDE DEF b
    <3> QED
      BY <1>c, <2>1
  <2>7. \A v \in Watchers : Box(v)' # None =>
          Box(v)' \in DOMAIN buf /\ Box(v)' \in DOMAIN buf' /\ Since(Box(v)', seen'[v].ver)
    BY <1>a, <1>b, <2>5, <2>6 DEF BroadcastsOK, BoxesOK
  <2>8. /\ \A p \in Publishers : held'[p] \in {held[p], None}
        /\ \A p \in Publishers : out'[p].ch # None => out'[p].ch = out[p].ch /\ out'[p].info = out[p].info
    BY <1>0
  <2> HIDE DEF b, c
  <2> QED
    BY <2>1, <2>3, <2>4, <2>6, <2>7, <2>8, BroadcastsKept
<1>5. CASE Timeout(w)
  <2>1. Wires(hosts, buf) /\ UNCHANGED <<conns, seen>> /\ wpc'[w] = "delConns"
    BY <1>5 DEF Timeout, Typed, PositionsOK
  <2>2. Box(w)' = None
    BY <2>1 DEF Box
  <2> QED
    BY <1>d, <2>1, <2>2
<1>6. CASE FindHosts(w)
  <2>1. UNCHANGED <<conns, hosts, buf, seen>> /\ wpc'[w] \in {"idle", "delHost"}
    BY <1>6 DEF FindHosts, wires, Typed, PositionsOK
  <2>2. Box(w)' = None /\ \A v \in Watchers \ {w} : Box(v)' = Box(v)
    BY <1>b, <2>1 DEF Box
  <2>3. ApartOK' /\ UnsentOK'
    BY <1>0, <2>1 DEF BroadcastsOK, ApartOK, UnsentOK, Unused
  <2>4. BoxesOK'
    BY <1>0, <2>1, <2>2 DEF BroadcastsOK, BoxesOK, Since
  <2> QED
    BY <2>3, <2>4 DEF BroadcastsOK
<1>7. CASE DelHost(w)
  <2> DEFINE o == ptr[w]
             g == HostOf[w]
             h == [hosts EXCEPT ![o][g] = Remove(@)]
  <2>1. Wires(h, buf) /\ UNCHANGED <<conns, seen>> /\ wpc'[w] = "idle"
    BY <1>7 DEF DelHost, Typed, PositionsOK
  <2>2. Box(w)' = None
    BY <2>1 DEF Box
  <2>3. \A x \in DOMAIN hosts : \A k \in HostNames : h[x][k].ch \in {hosts[x][k].ch, None}
    <3>1. ASSUME NEW conn \in Conns
          PROVE  Remove(conn).ch \in {conn.ch, None}
      BY DEF Remove, NoConn, Conns
    <3>2. ASSUME NEW x \in DOMAIN hosts, NEW k \in HostNames
          PROVE  h[x][k] \in {hosts[x][k], Remove(hosts[x][k])} /\ hosts[x][k] \in Conns
      BY DEF Typed, WiresOK
    <3> HIDE DEF h
    <3> QED
      BY <3>1, <3>2
  <2>4. DOMAIN h = DOMAIN hosts
    OBVIOUS
  <2> HIDE DEF h
  <2> QED
    BY <1>d, <2>1, <2>2, <2>3, <2>4
<1> QED
  BY <1>1, <1>2, <1>3, <1>4, <1>5, <1>6, <1>7 DEF Watch

LEMMA BroadcastsStep ==
  ASSUME Typed, Typed', BroadcastsOK, [Next]_vars
  PROVE  BroadcastsOK'
<1>1. ASSUME NEW p \in Publishers, ChangeStore(p)
      PROVE  BroadcastsOK'
  BY <1>1, ChangeShape, BroadcastsUnchanged DEF wires
<1>2. CASE UNCHANGED vars
  BY <1>2, BroadcastsUnchanged DEF vars, wires, publisher
<1> QED
  BY <1>1, <1>2, NextKinds, BroadcastSteps, WatchSteps

LEMMA InitBroadcasts ==
  ASSUME Init
  PROVE  BroadcastsOK
BY DEF Init, BroadcastsOK, ApartOK, UnsentOK, BoxesOK, Box

-----------------------------------------------------------------------------
(* The theorems. *)

\* The invariant holds.
LEMMA Invariant == Spec => []IInv
<1>1. Init => IInv
  BY InitTyped, InitTold, InitBroadcasts DEF IInv
<1>2. IInv /\ [Next]_vars => IInv'
  BY TypedStep, StampsStep, ToldStep, UnchangedTold, BroadcastsStep DEF IInv
<1> QED
  BY <1>1, <1>2, PTL DEF Spec

(***************************************************************************)
(* The variables have their types: in particular the hosts objects and the *)
(* channels are exactly those that something refers to, no channel is ever *)
(* filled beyond its capacity, and a watcher waits just when it has a      *)
(* channel.                                                                *)
(***************************************************************************)
THEOREM Types == Spec => []TypeOK
<1>1. IInv => TypeOK
  <2> SUFFICES ASSUME Typed PROVE TypeOK
    BY DEF IInv
  <2>1. \A c \in Conns : c \in [ch : Nat, count : Nat, gone : Nat]
    BY DEF Conns, NoConn, None
  <2>2. hosts \in [LiveHosts \ {None} -> [HostNames -> [ch : Nat, count : Nat, gone : Nat]]]
    BY <2>1 DEF Typed, WiresOK
  <2>3. obj \in 0..clock /\ app \in [Objects -> Objects]
    BY IdsAreNumbers DEF Typed, ChangesOK
  <2> QED
    BY <2>2, <2>3 DEF Typed, ChangesOK, PositionsOK, WiresOK, TypeOK
<1> QED
  BY <1>1, Invariant, PTL

(***************************************************************************)
(* When no change is on its way, a poller that is told NotModified has at  *)
(* least the content of the last registration or cancellation.             *)
(***************************************************************************)
THEOREM NotModified == Spec => []NotModifiedIsCurrent
<1>1. IInv => NotModifiedIsCurrent
  <2> SUFFICES ASSUME Typed, ToldOK, NEW w \in Watchers,
                      Quiet, obj # None, seen[w].obj = obj, ~News(seen[w].ts), ~seen[w].early
               PROVE  seen[w].ver >= indexed
    BY DEF NotModifiedIsCurrent, IInv
  <2>1. TrueInfo(seen[w]) /\ seen[w] \in Infos
    BY DEF ToldOK, Told, Typed, PositionsOK
  <2>2. seen[w].ts = latest
    BY <2>1 DEF TrueInfo, News, Infos, Typed, ChangesOK
  <2>3. \A p \in Publishers : ~Removed(p)
    BY DEF Quiet, Removed, ChangeSteps
  <2> QED
    BY <2>1, <2>2, <2>3 DEF TrueInfo
<1> QED
  BY <1>1, Invariant, PTL

(***************************************************************************)
(* A poller never goes back to older content.                              *)
(***************************************************************************)
THEOREM NeverBack == Spec => PollMonotone
<1>1. IInv /\ Next => \A w \in Watchers : seen'[w].ver >= seen[w].ver
  <2> SUFFICES ASSUME Typed, BroadcastsOK, Next, NEW w \in Watchers
               PROVE  seen'[w].ver >= seen[w].ver
    BY DEF IInv
  <2>0. ver \in Nat /\ seen[w].ver \in 0..ver /\ \A v \in Watchers : seen[v] \in Infos
    BY DEF Typed, ChangesOK, PositionsOK, Infos
  <2>1. CASE seen' = seen
    BY <2>0, <2>1
  <2>2. ASSUME NEW p \in Publishers, ChangeStore(p) \/ Broadcast(p)
        PROVE  seen' = seen
    BY <2>2, ChangeShape, BroadcastShape DEF watcher
  <2>3. ASSUME NEW v \in Watchers, Fetch(v)
        PROVE  seen'[w].ver >= seen[w].ver
    <3>1. seen'[w] = seen[w] \/ seen'[w] = Info
      BY <2>3 DEF Fetch, Typed, PositionsOK
    <3> QED
      BY <2>0, <3>1 DEF Info
  <2>4. ASSUME NEW v \in Watchers, Receive(v)
        PROVE  seen'[w].ver >= seen[w].ver
    <3>1. /\ seen'[w] = seen[w] \/ (v = w /\ seen'[w] = Head(buf[chan[v]]))
          /\ wpc[v] = "waiting" /\ buf[chan[v]] # << >> /\ chan[v] # None /\ chan[v] \in DOMAIN buf
      BY <2>4, Pointed DEF Receive, Typed, PositionsOK
    <3>2. Since(chan[v], seen[v].ver)
      BY <3>1 DEF BroadcastsOK, BoxesOK, Box
    <3>3. buf[chan[v]] \in Seq(Infos)
      BY <3>1 DEF Typed, WiresOK
    <3>4. Head(buf[chan[v]]) = buf[chan[v]][1] /\ 1 \in 1..Len(buf[chan[v]])
      BY <3>1, <3>3
    <3> QED
      BY <2>0, <3>1, <3>2, <3>4 DEF Since
  <2>5. ASSUME NEW v \in Watchers,
               Lookup(v) \/ Subscribe(v) \/ Timeout(v) \/ FindHosts(v) \/ DelHost(v)
        PROVE  seen' = seen
    BY <2>5 DEF Lookup, Subscribe, Timeout, FindHosts, DelHost
  <2> QED
    BY <2>1, <2>2, <2>3, <2>4, <2>5, NextKinds DEF Watch
<1>2. IInv /\ [Next]_vars => [\A w \in Watchers : seen'[w].ver >= seen[w].ver]_vars
  BY <1>1
<1> QED
  BY <1>2, Invariant, PTL DEF Spec, PollMonotone

-----------------------------------------------------------------------------
(* Connections count requests. *)

\* The requests that a connection of the hosts object in conns may count, and
\* that will take their count back.
Counted(h) ==
  {w \in Watchers : /\ HostOf[w] = h
                    /\ \/ wpc[w] = "waiting" /\ chan[w] = hosts[conns][h].ch
                       \/ wpc[w] = "delConns"
                       \/ wpc[w] = "delHost" /\ ptr[w] = conns}

Counts(h) == hosts[conns][h].count <= Cardinality(Counted(h)) + hosts[conns][h].gone
CountOK == conns # None => \A h \in HostNames : Counts(h)

LEMMA SubsetCounts ==
  ASSUME NEW S, NEW T, IsFiniteSet(S), IsFiniteSet(T)
  PROVE  /\ Cardinality(S) \in Nat /\ Cardinality(T) \in Nat
         /\ S \subseteq T => Cardinality(S) <= Cardinality(T)
         /\ \A x : S \ {x} \subseteq T => Cardinality(S) <= Cardinality(T) + 1
         /\ \A x : S \subseteq T /\ x \in T \ S => Cardinality(S) + 1 <= Cardinality(T)
<1>1. Cardinality(S) \in Nat /\ Cardinality(T) \in Nat
  BY FS_CardinalityType
<1>2. S \subseteq T => Cardinality(S) <= Cardinality(T)
  BY FS_Subset
<1>3. ASSUME NEW x, S \ {x} \subseteq T
      PROVE  Cardinality(S) <= Cardinality(T) + 1
  <2>1. IsFiniteSet(T \cup {x}) /\ Cardinality(T \cup {x}) <= Cardinality(T) + 1
    <3> DEFINE U == T \cup {x}
    <3>1. IsFiniteSet(U) /\ Cardinality(U) = IF x \in T THEN Cardinality(T) ELSE Cardinality(T) + 1
      BY FS_AddElement
    <3> HIDE DEF U
    <3>2. IsFiniteSet(U) /\ Cardinality(U) <= Cardinality(T) + 1
      BY <1>1, <3>1
    <3> QED
      BY <3>2 DEF U
  <2>2. S \subseteq T \cup {x}
    BY <1>3
  <2>3. Cardinality(S) <= Cardinality(T \cup {x}) /\ Cardinality(T \cup {x}) \in Nat
    BY <2>1, <2>2, FS_Subset, FS_CardinalityType
  <2> QED
    BY <1>1, <2>1, <2>3
<1>4. ASSUME NEW x, S \subseteq T, x \in T \ S
      PROVE  Cardinality(S) + 1 <= Cardinality(T)
  <2>1. IsFiniteSet(S \cup {x}) /\ Cardinality(S \cup {x}) = Cardinality(S) + 1
    BY <1>4, FS_AddElement
  <2>2. S \cup {x} \subseteq T
    BY <1>4
  <2> QED
    BY <2>1, <2>2, FS_Subset
<1> QED
  BY <1>1, <1>2, <1>3, <1>4

LEMMA CountedFinite ==
  /\ \A h : IsFiniteSet(Counted(h)) /\ Cardinality(Counted(h)) \in Nat
  /\ \A h : IsFiniteSet(Counted(h)') /\ Cardinality(Counted(h)') \in Nat
<1>1. \A h : IsFiniteSet(Counted(h)) /\ IsFiniteSet(Counted(h)')
  BY FiniteParts, FS_Subset DEF Counted
<1> QED
  BY <1>1, FS_CardinalityType

\* The connections of the hosts object in conns have numbers.
LEMMA ConnNumbers ==
  ASSUME Typed, conns # None, NEW h \in HostNames
  PROVE  /\ hosts[conns][h] \in Conns
         /\ hosts[conns][h].count \in Nat /\ hosts[conns][h].gone \in Nat
<1>1. hosts[conns][h] \in Conns
  BY Pointed
<1> QED
  BY <1>1 DEF Conns, NoConn

\* A connection that is left as it is, with no request fewer.
LEMMA CountsKept ==
  ASSUME Typed, conns # None, conns' = conns, NEW h \in HostNames, Counts(h),
         Counted(h) \subseteq Counted(h)',
         hosts'[conns][h].count = hosts[conns][h].count,
         hosts'[conns][h].gone = hosts[conns][h].gone
  PROVE  Counts(h)'
<1>1. Cardinality(Counted(h)) <= Cardinality(Counted(h)')
  BY CountedFinite, SubsetCounts
<1>2. hosts[conns][h].count \in Nat /\ hosts[conns][h].gone \in Nat
  BY ConnNumbers
<1>3. /\ hosts[conns][h].count <= Cardinality(Counted(h)) + hosts[conns][h].gone
      /\ hosts'[conns'][h].count = hosts[conns][h].count
      /\ hosts'[conns'][h].gone = hosts[conns][h].gone
  BY DEF Counts
<1>4. Cardinality(Counted(h)) \in Nat /\ Cardinality(Counted(h)') \in Nat
  BY CountedFinite
<1> HIDE DEF Counted
<1>5. hosts'[conns'][h].count <= Cardinality(Counted(h)') + hosts'[conns'][h].gone
  BY <1>1, <1>2, <1>3, <1>4
<1> QED
  BY <1>5 DEF Counts

\* A step that adds no count.
LEMMA CountKept ==
  ASSUME Typed, CountOK,
         conns' # None =>
           /\ conns' = conns /\ hosts'[conns] = hosts[conns]
           /\ \A h \in HostNames : Counted(h) \subseteq Counted(h)'
  PROVE  CountOK'
<1> SUFFICES ASSUME conns' # None, NEW h \in HostNames
             PROVE  Counts(h)'
  BY DEF CountOK
<1>1. Counts(h)
  BY DEF CountOK
<1> QED
  BY <1>1, CountsKept

\* What Wires leaves in the hosts object of the key.
LEMMA WiredConns ==
  ASSUME NEW h, NEW b, Wires(h, b), conns' # None, conns' \in DOMAIN h
  PROVE  hosts'[conns'] = h[conns']
BY DEF Wires, LiveHosts

LEMMA CountPublisher ==
  ASSUME Typed, CountOK, NEW p \in Publishers, ChangeStore(p) \/ Broadcast(p)
  PROVE  CountOK'
<1>1. UNCHANGED watcher
  BY ChangeShape, BroadcastShape
<1>2. conns' # None => conns' = conns /\ hosts'[conns] = hosts[conns]
  <2>1. CASE ChangeStore(p) \/ RLock(p) \/ Pick(p)
    BY <2>1, ChangeShape DEF RLock, Pick, wires
  <2>2. CASE Take(p)
    BY <2>2 DEF Take
  <2>3. ASSUME NEW b, Wires(hosts, b), UNCHANGED conns
        PROVE  conns' # None => conns' = conns /\ hosts'[conns] = hosts[conns]
    BY <2>3, WiredConns, Pointed
  <2>4. CASE Send(p) \/ SendTimeout(p) \/ Finish(p)
    BY <2>3, <2>4 DEF Send, SendTimeout, Finish
  <2> QED
    BY <2>1, <2>2, <2>4 DEF Broadcast
<1>3. conns' # None => \A h \in HostNames : Counted(h) \subseteq Counted(h)'
  BY <1>1, <1>2 DEF Counted, watcher
<1> QED
  BY <1>2, <1>3, CountKept

LEMMA CountWatcher ==
  ASSUME Typed, Typed', BroadcastsOK, CountOK, NEW w \in Watchers, Watch(w)
  PROVE  CountOK'
<1> DEFINE H == HostOf[w]
<1>0. HostOf[w] \in HostNames
  BY FiniteParts
<1>a. \A v \in Watchers \ {w} : UNCHANGED <<wpc[v], ptr[v], chan[v]>>
  BY WatchShape
\* A hosts object that is not changed, and a watcher that is counted as before.
<1>d. ASSUME conns' # None => conns' = conns /\ hosts'[conns] = hosts[conns],
             conns' # None => (w \in Counted(H) => w \in Counted(H)')
      PROVE  CountOK'
  <2>1. conns' # None => \A h \in HostNames : Counted(h) \subseteq Counted(h)'
    BY <1>a, <1>d DEF Counted
  <2> QED
    BY <1>d, <2>1, CountKept
<1>e. ASSUME NEW b, Wires(hosts, b), UNCHANGED conns
      PROVE  conns' # None => conns' = conns /\ hosts'[conns] = hosts[conns]
  BY <1>e, WiredConns, Pointed
<1>1. CASE Fetch(w)
  <2>1. UNCHANGED <<conns, hosts>> /\ wpc[w] = "idle"
    BY <1>1 DEF Fetch, wires
  <2> QED
    BY <1>d, <2>1 DEF Counted
<1>2. CASE Lookup(w)
  <2>1. /\ conns' = (IF conns = None THEN Fresh(LiveHosts) ELSE conns) /\ Wires(hosts, buf)
        /\ wpc[w] = "lookup" /\ wpc'[w] = "subscribe"
    BY <1>2 DEF Lookup, Typed, PositionsOK
  <2>2. CASE conns # None
    BY <1>d, <1>e, <2>1, <2>2 DEF Counted
  <2>3. CASE conns = None
    <3>1. conns' \in LiveHosts' \ {None} /\ conns' \notin DOMAIN hosts
      BY <2>1, <2>3, NewNumbers DEF LiveHosts, Typed, WiresOK
    <3>2. hosts'[conns'] = NoHosts
      BY <2>1, <3>1 DEF Wires
    <3>3. ASSUME NEW h \in HostNames
          PROVE  Counts(h)'
      <4>1. hosts'[conns'][h].count = 0 /\ hosts'[conns'][h].gone = 0
        BY <3>2 DEF NoHosts, NoConn
      <4>2. Cardinality(Counted(h)') \in Nat
        BY CountedFinite
      <4> HIDE DEF Counted
      <4> QED
        BY <4>1, <4>2 DEF Counts
    <3> QED
      BY <3>3 DEF CountOK
  <2> QED
    BY <2>2, <2>3
<1>4. CASE Receive(w)
  <2>1. /\ UNCHANGED conns /\ wpc[w] = "waiting" /\ wpc'[w] \in {"idle", "delConns"} /\ buf[chan[w]] # << >>
        /\ Wires(hosts, [buf EXCEPT ![chan[w]] = Tail(@)])
    BY <1>4 DEF Receive, Typed, PositionsOK
  <2>2. conns' # None => conns' = conns /\ hosts'[conns] = hosts[conns]
    BY <1>e, <2>1
  <2>3. conns # None => w \notin Counted(H)
    <3>1. chan[w] # None
      BY <2>1 DEF Typed, PositionsOK
    <3> QED
      BY <1>0, <2>1, <3>1 DEF Counted, BroadcastsOK, UnsentOK, Unused
  <2> QED
    BY <1>d, <2>1, <2>2, <2>3
<1>5. CASE Timeout(w)
  <2>1. UNCHANGED conns /\ wpc'[w] = "delConns" /\ Wires(hosts, buf)
    BY <1>5 DEF Timeout, Typed, PositionsOK
  <2>2. w \in Counted(H)'
    BY <2>1 DEF Counted
  <2> QED
    BY <1>d, <1>e, <2>1, <2>2
<1>6. CASE FindHosts(w)
  <2>1. /\ UNCHANGED <<conns, hosts>> /\ ptr'[w] = conns
        /\ wpc'[w] = IF conns = None THEN "idle" ELSE "delHost"
    BY <1>6 DEF FindHosts, wires, Typed, PositionsOK
  <2>2. conns' # None => w \in Counted(H)'
    BY <2>1 DEF Counted
  <2> QED
    BY <1>d, <2>1, <2>2
<1>3. CASE Subscribe(w)
  <2> DEFINE o == ptr[w]
             old == hosts[o][H]
             ch == IF old = NoConn THEN Fresh(LiveChans) ELSE old.ch
             gone == IF Waits(w) THEN old.gone ELSE old.gone + 1
             hs == [hosts EXCEPT ![o][H] = [ch |-> ch, count |-> old.count + 1, gone |-> gone]]
  <2>1. /\ Wires(hs, buf) /\ UNCHANGED conns /\ wpc[w] = "subscribe"
        /\ Waits(w) => wpc'[w] = "waiting" /\ chan'[w] = ch
        /\ ~Waits(w) => wpc'[w] = "idle"
    BY <1>3 DEF Subscribe, Typed, PositionsOK
  <2>2. o \in DOMAIN hosts /\ hosts[o] \in [HostNames -> Conns]
    BY <2>1, SubscribeChannel
  <2>3. CASE conns = None
    <3>1. conns' = None
      BY <2>1, <2>3
    <3> QED
      BY <3>1 DEF CountOK
  <2>4. CASE conns # None /\ o # conns
    <3>1. hosts'[conns] = hosts[conns]
      <4>1. conns \in DOMAIN hosts /\ DOMAIN hs = DOMAIN hosts /\ hs[conns] = hosts[conns]
        BY <2>4, Pointed
      <4> HIDE DEF hs
      <4> QED
        BY <2>1, <2>4, <4>1, WiredConns
    <3>2. w \notin Counted(H)
      BY <2>1 DEF Counted
    <3> QED
      BY <1>d, <2>1, <3>1, <3>2
  <2>5. CASE conns # None /\ o = conns
    <3>1. /\ hosts'[conns] = hs[conns] /\ conns' = conns
          /\ hs[conns][H] = [ch |-> ch, count |-> old.count + 1, gone |-> gone]
          /\ \A k \in HostNames \ {H} : hs[conns][k] = hosts[conns][k]
      <4>1. /\ conns \in DOMAIN hosts /\ DOMAIN hs = DOMAIN hosts
            /\ hs[conns][H] = [ch |-> ch, count |-> old.count + 1, gone |-> gone]
            /\ \A k \in HostNames \ {H} : hs[conns][k] = hosts[conns][k]
        BY <1>0, <2>2, <2>5
      <4> HIDE DEF hs
      <4> QED
        BY <2>1, <2>5, <4>1, WiredConns
    <3>2. /\ old = hosts[conns][H] /\ (old.ch # None => ch = old.ch)
          /\ Waits(w) => gone = old.gone
          /\ ~Waits(w) => gone = old.gone + 1
      BY <2>5 DEF NoConn
    <3> HIDE DEF hs, old, ch, gone
    <3>3. \A h \in HostNames : Counted(h) \subseteq Counted(h)'
      <4> SUFFICES ASSUME NEW h \in HostNames, NEW v \in Counted(h)
                   PROVE  v \in Counted(h)'
        OBVIOUS
      <4>1. v # w /\ v \in Watchers
        BY <2>1 DEF Counted
      <4>2. CASE wpc[v] = "waiting"
        <5>1. chan[v] = hosts[conns][h].ch /\ chan[v] # None
          BY <4>2 DEF Counted, Typed, PositionsOK
        <5>2. hosts'[conns][h].ch = hosts[conns][h].ch
          BY <3>1, <3>2, <5>1
        <5> QED
          BY <1>a, <3>1, <4>1, <4>2, <5>1, <5>2 DEF Counted
      <4>3. CASE wpc[v] # "waiting"
        BY <1>a, <3>1, <4>1, <4>3 DEF Counted
      <4> QED
        BY <4>2, <4>3
    <3>4. ASSUME NEW h \in HostNames
          PROVE  Counts(h)'
      <4>1. /\ hosts[conns][h].count <= Cardinality(Counted(h)) + hosts[conns][h].gone
            /\ Cardinality(Counted(h)) <= Cardinality(Counted(h)')
            /\ Counts(h)
        BY <2>5, <3>3, CountedFinite, SubsetCounts DEF CountOK, Counts
      <4>2. hosts[conns][h].count \in Nat /\ hosts[conns][h].gone \in Nat
        BY <2>5, ConnNumbers
      <4>3. CASE h # H
        BY <2>5, <3>1, <3>3, <4>1, <4>3, CountsKept
      <4>4. CASE h = H
        <5>1. /\ hosts'[conns'][h].count = hosts[conns][h].count + 1
              /\ hosts'[conns'][h].gone = gone
          BY <3>1, <3>2, <4>4
        <5>2. CASE Waits(w)
          <6>1. w \in Counted(h)' /\ w \notin Counted(h)
            BY <2>1, <3>1, <4>4, <5>2 DEF Counted
          <6>2. Cardinality(Counted(h)) + 1 <= Cardinality(Counted(h)')
            BY <3>3, <6>1, CountedFinite, SubsetCounts
          <6>3. gone = hosts[conns][h].gone
            BY <3>2, <4>4, <5>2
          <6> HIDE DEF Counted
          <6> QED
            BY <4>1, <4>2, <5>1, <6>2, <6>3, CountedFinite DEF Counts
        <5>3. CASE ~Waits(w)
          <6>1. gone = hosts[conns][h].gone + 1
            BY <3>2, <4>4, <5>3
          <6> HIDE DEF Counted
          <6> QED
            BY <4>1, <4>2, <5>1, <6>1, CountedFinite DEF Counts
        <5> QED
          BY <5>2, <5>3
      <4> QED
        BY <4>3, <4>4
    <3> QED
      BY <3>1, <3>4 DEF CountOK
  <2> QED
    BY <2>3, <2>4, <2>5
<1>7. CASE DelHost(w)
  <2> DEFINE o == ptr[w]
             old == hosts[o][H]
             hs == [hosts EXCEPT ![o][H] = Remove(@)]
  <2>1. /\ Wires(hs, buf) /\ UNCHANGED conns /\ wpc[w] = "delHost" /\ wpc'[w] = "idle"
    BY <1>7 DEF DelHost, Typed, PositionsOK
  <2>2. o \in DOMAIN hosts /\ hosts[o] \in [HostNames -> Conns]
    BY <2>1, Pointed DEF Typed, PositionsOK
  <2>3. CASE conns = None
    <3>1. conns' = None
      BY <2>1, <2>3
    <3> QED
      BY <3>1 DEF CountOK
  <2>4. CASE conns # None /\ o # conns
    <3>1. hosts'[conns] = hosts[conns]
      <4>1. conns \in DOMAIN hosts /\ DOMAIN hs = DOMAIN hosts /\ hs[conns] = hosts[conns]
        BY <2>4, Pointed
      <4> HIDE DEF hs
      <4> QED
        BY <2>1, <2>4, <4>1, WiredConns
    <3>2. w \notin Counted(H)
      BY <2>1, <2>4 DEF Counted
    <3> QED
      BY <1>d, <2>1, <3>1, <3>2
  <2>5. CASE conns # None /\ o = conns
    <3>1. /\ hosts'[conns] = hs[conns] /\ conns' = conns
          /\ hs[conns][H] = Remove(hosts[conns][H])
          /\ \A k \in HostNames \ {H} : hs[conns][k] = hosts[conns][k]
      <4>1. /\ conns \in DOMAIN hosts /\ DOMAIN hs = DOMAIN hosts
            /\ hs[conns][H] = Remove(hosts[conns][H])
            /\ \A k \in HostNames \ {H} : hs[conns][k] = hosts[conns][k]
        BY <1>0, <2>2, <2>5
      <4> HIDE DEF hs
      <4> QED
        BY <2>1, <2>5, <4>1, WiredConns
    <3> HIDE DEF hs, old
    <3>3. ASSUME NEW h \in HostNames
          PROVE  Counts(h)'
      <4>1. Counts(h) /\ hosts[conns][h].count <= Cardinality(Counted(h)) + hosts[conns][h].gone
        BY <2>5 DEF CountOK, Counts
      <4>2. /\ hosts[conns][h].count \in Nat /\ hosts[conns][h].gone \in Nat
            /\ hosts[conns][h] \in Conns
        BY <2>5, ConnNumbers
      <4>3. CASE h # H
        <5>1. Counted(h) \subseteq Counted(h)'
          BY <1>a, <3>1, <4>3 DEF Counted
        <5> QED
          BY <2>5, <3>1, <4>1, <4>3, <5>1, CountsKept
      <4>4. CASE h = H /\ hosts[conns][h].count > 1
        <5>1. /\ hosts'[conns'][h].count = hosts[conns][h].count - 1
              /\ hosts'[conns'][h].ch = hosts[conns][h].ch
              /\ hosts'[conns'][h].gone = hosts[conns][h].gone
          <6>1. hosts'[conns'][h] = [hosts[conns][h] EXCEPT !.count = hosts[conns][h].count - 1]
            BY <3>1, <4>4 DEF Remove
          <6> QED
            BY <4>2, <6>1 DEF Conns, NoConn
        <5>2. Counted(h) \ {w} \subseteq Counted(h)'
          BY <1>a, <3>1, <5>1 DEF Counted
        <5>3. Cardinality(Counted(h)) <= Cardinality(Counted(h)') + 1
          BY <5>2, CountedFinite, SubsetCounts
        <5> HIDE DEF Counted
        <5> QED
          BY <4>1, <4>2, <5>1, <5>3, CountedFinite DEF Counts
      <4>5. CASE h = H /\ ~(hosts[conns][h].count > 1)
        <5>1. hosts'[conns'][h].count = 0 /\ hosts'[conns'][h].gone = 0
          BY <3>1, <4>5 DEF Remove, NoConn
        <5> HIDE DEF Counted
        <5> QED
          BY <5>1, CountedFinite DEF Counts
      <4> QED
        BY <4>3, <4>4, <4>5
    <3> QED
      BY <3>1, <3>3 DEF CountOK
  <2> QED
    BY <2>3, <2>4, <2>5
<1> QED
  BY <1>1, <1>2, <1>3, <1>4, <1>5, <1>6, <1>7 DEF Watch

(***************************************************************************)
(* A connection counts no more than the requests that wait on it or are    *)
(* about to take their count back, and those that ended without being made *)
(* to wait: whatever the order in which requests subscribe, are answered,  *)
(* time out and find another hosts object, of any number of clients of     *)
(* /poll and /polls and nodesproc goroutines on any hosts.                 *)
(***************************************************************************)
THEOREM CountsAreRequests == Spec => []CountIsRequests
<1>1. Init => CountOK
  BY DEF Init, CountOK
<1>2. IInv /\ IInv' /\ CountOK /\ [Next]_vars => CountOK'
  <2> SUFFICES ASSUME IInv, IInv', CountOK, [Next]_vars
               PROVE  CountOK'
    OBVIOUS
  <2>1. Typed /\ Typed' /\ BroadcastsOK
    BY DEF IInv
  <2>2. CASE UNCHANGED vars
    <3>1. UNCHANGED <<conns, hosts, wpc, chan, ptr>>
      BY <2>2 DEF vars, wires, watcher
    <3>2. \A h : Counted(h)' = Counted(h)
      BY <3>1 DEF Counted
    <3> QED
      BY <2>1, <3>1, <3>2, CountKept
  <2>3. CASE Next
    BY <2>1, <2>3, NextKinds, CountPublisher, CountWatcher
  <2> QED
    BY <2>2, <2>3
<1>3. IInv /\ CountOK => CountIsRequests
  <2> SUFFICES ASSUME Typed, CountOK, conns # None, NEW h \in HostNames
               PROVE  hosts[conns][h].count <=
                        Cardinality({w \in Watchers : HostOf[w] = h /\ wpc[w] \in {"waiting", "delConns", "delHost"}})
                        + hosts[conns][h].gone
    BY DEF CountIsRequests, IInv
  <2> DEFINE S == {w \in Watchers : HostOf[w] = h /\ wpc[w] \in {"waiting", "delConns", "delHost"}}
  <2>1. Counted(h) \subseteq S
    BY DEF Counted
  <2>2. IsFiniteSet(S)
    BY FiniteParts, FS_Subset
  <2>3. Cardinality(Counted(h)) <= Cardinality(S) /\ Cardinality(S) \in Nat
    BY <2>1, <2>2, CountedFinite, SubsetCounts
  <2>4. hosts[conns][h].count \in Nat /\ hosts[conns][h].gone \in Nat
    BY ConnNumbers
  <2>5. hosts[conns][h].count <= Cardinality(Counted(h)) + hosts[conns][h].gone
    BY DEF CountOK, Counts
  <2> HIDE DEF S, Counted
  <2>6. hosts[conns][h].count <= Cardinality(S) + hosts[conns][h].gone
    BY <2>3, <2>4, <2>5, CountedFinite
  <2> QED
    BY <2>6 DEF S
<1> QED
  BY <1>1, <1>2, <1>3, Invariant, PTL DEF Spec

=============================================================================
