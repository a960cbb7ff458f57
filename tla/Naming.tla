------------------------------- MODULE Naming -------------------------------
(***************************************************************************)
(* The client side of discovery: the Discovery object of naming/client.go  *)
(* with its goroutines serverproc and selfproc, and the watcher goroutines *)
(* of naming/grpc/resolver.go that follow it.                              *)
(*                                                                         *)
(* serverproc polls one discovery node for every app that was built, and   *)
(* stores and announces what changed.  selfproc follows the app of the     *)
(* discovery nodes themselves and replaces the node list.  Both write the  *)
(* node list without a lock, and Build interrupts a poll under way through *)
(* the context of serverproc.                                              *)
(*                                                                         *)
(* The discovery nodes are those the client was written for (the address   *)
(* in naming/client_test.go is one): they answer a poll with all that is   *)
(* news for it, under "latest_timestamp", and let it wait when nothing is. *)
(* Each node has timestamps of its own.  What a node says of an app is a   *)
(* set, empty when no zone has an instance; for the app of the discovery   *)
(* nodes it is the http addresses in the client's zone, and Elsewhere when *)
(* another zone has instances.                                             *)
(***************************************************************************)
EXTENDS Integers, FiniteSets, Sequences, SequencesExt

CONSTANTS Hosts,         \* discovery nodes
          Seeds,         \* those of Config.Nodes
          Mortal,        \* those that may stop answering for good
          Apps,          \* appids
          Self,          \* that of the discovery nodes, "infra.discovery"
          Resolvers,     \* objects that Build returns
          SelfResolver,  \* the one that New builds
          Bodies,        \* what a node may say of each app
          InitLatest,    \* what each node says of each app at the start
          Elsewhere,     \* instances in another zone
          Cycle,         \* a multiple of the lengths of a list: nodeIdx is only
                         \* used modulo such a length
          MaxEvents      \* bound on what happens around the client: a change at a
                         \* node, a node that goes down, a poll that fails at a
                         \* node that is up, a tick of serverproc or a request
                         \* of Register or Set that fails, and Close

None == [host |-> "none", ts |-> 0, body |-> {}]
NoApp == "none"

ASSUME NamingAssumption ==
  /\ IsFiniteSet(Hosts) /\ Elsewhere \notin Hosts
  /\ Seeds # {} /\ Seeds \subseteq Hosts /\ Mortal \subseteq Hosts
  /\ Self \in Apps /\ NoApp \notin Apps /\ SelfResolver \in Resolvers
  /\ Bodies[Self] \subseteq SUBSET (Hosts \cup {Elsewhere})
  /\ InitLatest \in [Hosts -> [Apps -> [ts : Nat \ {0}, body : UNION {Bodies[a] : a \in Apps}]]]
  /\ \A h \in Hosts, a \in Apps : InitLatest[h][a].body \in Bodies[a]
  /\ Cycle \in Nat \ {0} /\ \A n \in 1..Cardinality(Hosts) : Cycle % n = 0
  /\ MaxEvents \in Nat

VARIABLES
  latest, down,                              \* the discovery nodes
  list, idx,                                 \* Discovery.node and nodeIdx
  apps, zone, lastTs,                        \* Discovery.apps and its appInfos
  id, joined, event,                         \* Resolve objects: appid, whether the
                                             \* appInfo lists it, channel
  spc, ctx, lastHost, want, retry, reply, telling, loaded,  \* serverproc
  rpc, seen, quit,                           \* who watches a resolver
  made, closed, events                       \* New returned; Close was called

server == <<latest, down>>
nodes == <<list, idx>>
store == <<apps, zone, lastTs>>
resolves == <<id, joined>>
proc == <<spc, ctx, lastHost, want, retry, reply, telling, loaded>>
watchers == <<rpc, seen, quit>>
rest == <<made, closed, events>>
vars == <<server, nodes, store, resolves, event, proc, watchers, rest>>

\* New has called Build for its own resolver, which started serverproc.
Init ==
  /\ latest = InitLatest /\ down = {}
  /\ list = << >> /\ idx = 0
  /\ apps = {Self} /\ joined = {SelfResolver}
  /\ id = [r \in Resolvers |-> IF r = SelfResolver THEN Self ELSE NoApp]
  /\ zone = [a \in Apps |-> None]
  /\ lastTs = [a \in Apps |-> 0]
  /\ event = [r \in Resolvers |-> FALSE]
  /\ spc = "top" /\ ctx = "none" /\ lastHost = "none"
  /\ want = {} /\ retry = 0 /\ reply = << >> /\ telling = NoApp /\ loaded = << >>
  /\ rpc = [r \in Resolvers |-> IF r = SelfResolver THEN "wait" ELSE "none"]
  /\ seen = [r \in Resolvers |-> None]
  /\ quit = [r \in Resolvers |-> FALSE]
  /\ made = FALSE /\ closed = FALSE /\ events = 0

Event == events < MaxEvents /\ events' = events + 1

-----------------------------------------------------------------------------
(* serverproc. *)

Cancelled(c) == IF c = "live" THEN "cancelled" ELSE c

switchNode == idx' = (idx + 1) % Cycle

pickNode == IF list = << >> THEN Seeds ELSE {list[(idx % Len(list)) + 1]}

\* A context for the coming polls, cancelled at once after Close.
Arm ==
  /\ spc = "top"
  /\ ctx' = IF ctx # "none" THEN ctx ELSE IF closed THEN "cancelled" ELSE "live"
  /\ spc' = "ask"
  /\ UNCHANGED <<server, nodes, store, resolves, event, lastHost, want, retry, reply, telling,
                 loaded, watchers, rest>>

Stop ==
  /\ spc = "ask" /\ closed
  /\ spc' = "ended"
  /\ retry' = 0
  /\ UNCHANGED <<server, nodes, store, resolves, event, ctx, lastHost, want, reply, telling,
                 loaded, watchers, rest>>

\* Mutant: timestamps of one node are sent to the next.
AskUnchanged ==
  /\ spc = "ask" /\ ~closed
  /\ \E h \in pickNode : lastHost' = h
  /\ want' = apps
  /\ spc' = "polling"
  /\ UNCHANGED <<server, nodes, store, resolves, event, ctx, retry, reply, telling,
                 loaded, watchers, rest>>

\* The request of a poll: a node picked for the last time forgets what the
\* one before said.
Ask ==
  /\ spc = "ask" /\ ~closed
  /\ \E h \in pickNode :
       /\ lastHost' = h
       /\ lastTs' = IF h = lastHost THEN lastTs ELSE [a \in Apps |-> 0]
  /\ want' = apps
  /\ spc' = "polling"
  /\ UNCHANGED <<server, nodes, apps, zone, resolves, event, ctx, retry, reply, telling,
                 loaded, watchers, rest>>

\* What the polled node has to say, and what broadcast keeps of it.
News == {a \in want : latest[lastHost][a].ts > lastTs[a]}

Kept ==
  [a \in {x \in News : latest[lastHost][x].body # {}} |->
     [host |-> lastHost, ts |-> latest[lastHost][a].ts, body |-> latest[lastHost][a].body]]

\* The node answers: news, or after a while that nothing was modified.
Answer ==
  /\ spc = "polling" /\ ctx = "live" /\ lastHost \notin down
  /\ reply' = Kept
  /\ retry' = 0
  /\ want' = {}
  /\ spc' = IF Kept = << >> THEN "top" ELSE "broadcast"
  /\ UNCHANGED <<server, nodes, store, resolves, event, ctx, lastHost, telling, loaded, watchers,
                 rest>>

\* The poll was interrupted, the node does not answer, or it answers late,
\* with an error or without timestamps.
Fail ==
  /\ spc = "polling"
  /\ IF ctx = "cancelled" \/ lastHost \in down THEN UNCHANGED events ELSE Event
  /\ switchNode
  /\ want' = {}
  /\ spc' = "failed"
  /\ UNCHANGED <<server, list, store, resolves, event, ctx, lastHost, retry, reply, telling,
                 loaded, watchers, made, closed>>

\* Mutant: the seeds never come back.
RetryForever ==
  /\ spc = "failed"
  /\ IF ctx = "cancelled"
     THEN ctx' = "none" /\ UNCHANGED retry
     ELSE retry' = (IF retry < Len(list) THEN retry + 1 ELSE 1) /\ UNCHANGED ctx
  /\ spc' = "top"
  /\ UNCHANGED <<server, nodes, store, resolves, event, lastHost, want, reply, telling,
                 loaded, watchers, rest>>

\* After a failure: a new context, the next node, or the seeds when every
\* node of the list had its turn.
Retry ==
  /\ spc = "failed"
  /\ CASE ctx = "cancelled" -> ctx' = "none" /\ spc' = "top" /\ UNCHANGED retry
       [] ctx = "live" /\ retry < Len(list) ->
            retry' = retry + 1 /\ spc' = "top" /\ UNCHANGED ctx
       [] OTHER -> spc' = "load" /\ UNCHANGED <<ctx, retry>>
  /\ UNCHANGED <<server, nodes, store, resolves, event, lastHost, want, reply, telling, loaded,
                 watchers, rest>>

LoadNodes ==
  /\ spc = "load"
  /\ loaded' = list
  /\ spc' = "append"
  /\ UNCHANGED <<server, nodes, store, resolves, event, ctx, lastHost, want, retry, reply,
                 telling, watchers, rest>>

\* Mutant: the seeds are appended again and again.
AppendSeedNodes ==
  /\ spc = "append"
  /\ IF loaded = << >> THEN UNCHANGED list
     ELSE \E s \in SetToSeqs(Seeds) : list' = loaded \o s
  /\ loaded' = << >>
  /\ retry' = 1
  /\ spc' = "top"
  /\ UNCHANGED <<server, idx, store, resolves, event, ctx, lastHost, want, reply, telling,
                 watchers, rest>>

\* The list loaded and the seeds it lacks, unless a list was never stored.
tryAppendSeedNodes ==
  /\ spc = "append"
  /\ LET missing == Seeds \ Range(loaded)
     IN IF loaded = << >> \/ missing = {} THEN UNCHANGED list
        ELSE \E s \in SetToSeqs(missing) : list' = loaded \o s
  /\ loaded' = << >>
  /\ retry' = 1
  /\ spc' = "top"
  /\ UNCHANGED <<server, idx, store, resolves, event, ctx, lastHost, want, reply, telling,
                 watchers, rest>>

\* broadcast stores what the node said of an app ...
Store(a) ==
  /\ spc = "broadcast" /\ telling = NoApp /\ a \in DOMAIN reply
  /\ lastTs' = [lastTs EXCEPT ![a] = reply[a].ts]
  /\ zone' = [zone EXCEPT ![a] = reply[a]]
  /\ reply' = [x \in DOMAIN reply \ {a} |-> reply[x]]
  /\ telling' = a
  /\ UNCHANGED <<server, nodes, apps, resolves, event, spc, ctx, lastHost, want, retry,
                 loaded, watchers, rest>>

\* ... then tells its resolvers, whose channels hold one event.
Notify ==
  /\ telling # NoApp
  /\ event' = [r \in Resolvers |-> event[r] \/ (r \in joined /\ id[r] = telling)]
  /\ telling' = NoApp
  /\ spc' = IF DOMAIN reply = {} THEN "top" ELSE "broadcast"
  /\ UNCHANGED <<server, nodes, store, resolves, ctx, lastHost, want, retry, reply, loaded,
                 watchers, rest>>

serverproc ==
  \/ Arm \/ Stop \/ Ask \/ Answer \/ Fail \/ Retry \/ LoadNodes \/ tryAppendSeedNodes
  \/ (\E a \in Apps : Store(a)) \/ Notify

-----------------------------------------------------------------------------
(* Resolvers and those that watch them. *)

\* Mutant: a poll under way goes on when an app is added.
BuildUnheard(r, a) ==
  /\ made /\ rpc[r] = "none"
  /\ id' = [id EXCEPT ![r] = a]
  /\ joined' = joined \cup {r}
  /\ apps' = apps \cup {a}
  /\ rpc' = [rpc EXCEPT ![r] = IF a \in apps THEN "built" ELSE "wait"]
  /\ UNCHANGED <<server, nodes, zone, lastTs, event, proc, seen, quit, rest>>

\* Mutant: a resolver of an app that is known waits for the next change.
BuildUntold(r, a) ==
  /\ made /\ rpc[r] = "none"
  /\ id' = [id EXCEPT ![r] = a]
  /\ joined' = joined \cup {r}
  /\ apps' = apps \cup {a}
  /\ ctx' = IF a \in apps THEN ctx ELSE Cancelled(ctx)
  /\ rpc' = [rpc EXCEPT ![r] = "wait"]
  /\ UNCHANGED <<server, nodes, zone, lastTs, event, spc, lastHost, want, retry, reply,
                 telling, loaded, seen, quit, rest>>

\* The critical section of Build.
Build(r, a) ==
  /\ made /\ rpc[r] = "none"
  /\ id' = [id EXCEPT ![r] = a]
  /\ joined' = joined \cup {r}
  /\ apps' = apps \cup {a}
  /\ ctx' = IF a \in apps THEN ctx ELSE Cancelled(ctx)
  /\ rpc' = [rpc EXCEPT ![r] = IF a \in apps THEN "built" ELSE "wait"]
  /\ UNCHANGED <<server, nodes, zone, lastTs, event, spc, lastHost, want, retry, reply,
                 telling, loaded, seen, quit, rest>>

\* An event of its own for a resolver of an app that is watched already.
Announce(r) ==
  /\ rpc[r] = "built"
  /\ event' = [event EXCEPT ![r] = TRUE]
  /\ rpc' = [rpc EXCEPT ![r] = "wait"]
  /\ UNCHANGED <<server, nodes, store, resolves, proc, seen, quit, rest>>

Receive(r) ==
  /\ rpc[r] = "wait" /\ event[r]
  /\ event' = [event EXCEPT ![r] = FALSE]
  /\ rpc' = [rpc EXCEPT ![r] = "fetch"]
  /\ UNCHANGED <<server, nodes, store, resolves, proc, seen, quit, rest>>

\* A watcher has nothing to do when no poll was answered yet.
Fetch(r) ==
  /\ rpc[r] = "fetch"
  /\ seen' = [seen EXCEPT ![r] = zone[id[r]]]
  /\ rpc' = [rpc EXCEPT ![r] = IF r = SelfResolver THEN "fetched" ELSE "wait"]
  /\ UNCHANGED <<server, nodes, store, resolves, event, proc, quit, rest>>

Found == seen[SelfResolver].body \ {Elsewhere}

\* newSelf: nothing to do unless an address is not in the list.
OldNodes ==
  /\ rpc[SelfResolver] = "fetched"
  /\ IF Found \subseteq Range(list)
     THEN rpc' = [rpc EXCEPT ![SelfResolver] = "wait"] /\ made' = TRUE
     ELSE rpc' = [rpc EXCEPT ![SelfResolver] = "store"] /\ UNCHANGED made
  /\ UNCHANGED <<server, nodes, store, resolves, event, proc, seen, quit, closed, events>>

StoreNodes ==
  /\ rpc[SelfResolver] = "store"
  /\ \E s \in SetToSeqs(Found) : list' = s
  /\ rpc' = [rpc EXCEPT ![SelfResolver] = "wait"]
  /\ made' = TRUE
  /\ UNCHANGED <<server, idx, store, resolves, event, proc, seen, quit, closed, events>>

\* Close of a grpc resolver, and the end of its watcher.
CloseResolver(r) ==
  /\ r # SelfResolver /\ rpc[r] \in {"wait", "fetch"} /\ ~quit[r]
  /\ quit' = [quit EXCEPT ![r] = TRUE]
  /\ joined' = joined \ {r}
  /\ UNCHANGED <<server, nodes, store, id, event, proc, rpc, seen, rest>>

Quit(r) ==
  /\ rpc[r] = "wait" /\ quit[r]
  /\ rpc' = [rpc EXCEPT ![r] = "ended"]
  /\ seen' = [seen EXCEPT ![r] = None]
  /\ event' = [event EXCEPT ![r] = FALSE]
  /\ UNCHANGED <<server, nodes, store, resolves, proc, quit, rest>>

watcher(r) ==
  \/ Announce(r) \/ Receive(r) \/ Fetch(r) \/ Quit(r)
  \/ (r = SelfResolver /\ (OldNodes \/ StoreNodes))

-----------------------------------------------------------------------------
(* Everything else that happens. *)

\* A tick of serverproc, or a request of Register or Set that fails.
Switch ==
  /\ made /\ Event
  /\ switchNode
  /\ UNCHANGED <<server, list, store, resolves, event, proc, watchers, made, closed>>

Close ==
  /\ made /\ ~closed /\ Event
  /\ closed' = TRUE
  /\ ctx' = Cancelled(ctx)
  /\ UNCHANGED <<server, nodes, store, resolves, event, spc, lastHost, want, retry, reply,
                 telling, loaded, watchers, made>>

Change(h, a) ==
  /\ h \notin down /\ Event
  /\ \E b \in Bodies[a] \ {latest[h][a].body} :
       latest' = [latest EXCEPT ![h][a] = [ts |-> @.ts + 1, body |-> b]]
  /\ UNCHANGED <<down, nodes, store, resolves, event, proc, watchers, made, closed>>

Crash(h) ==
  /\ h \in Mortal \ down /\ Event
  /\ down' = down \cup {h}
  /\ UNCHANGED <<latest, nodes, store, resolves, event, proc, watchers, made, closed>>

Next ==
  \/ serverproc
  \/ \E r \in Resolvers : watcher(r) \/ CloseResolver(r) \/ \E a \in Apps : Build(r, a)
  \/ Switch \/ Close
  \/ \E h \in Hosts : Crash(h) \/ \E a \in Apps : Change(h, a)

\* The goroutines run, a call of Build returns, and a node that is up answers
\* a poll or the client gives it up after its timeout.
Fairness ==
  /\ WF_vars(serverproc)
  /\ \A r \in Resolvers : WF_vars(watcher(r))

Spec == Init /\ [][Next]_vars
FairSpec == Spec /\ Fairness

-----------------------------------------------------------------------------
(* Properties. *)

Said == [host : Hosts, ts : Nat, body : UNION {Bodies[a] : a \in Apps}] \cup {None}

\* Every variable keeps its type; a list names each node once at most.
TypeOK ==
  /\ latest \in [Hosts -> [Apps -> [ts : Nat, body : UNION {Bodies[a] : a \in Apps}]]]
  /\ down \subseteq Mortal
  /\ \A l \in {list, loaded} : l \in Seq(Hosts) /\ Cardinality(Range(l)) = Len(l)
  /\ idx \in 0..Cycle - 1
  /\ apps \subseteq Apps /\ Self \in apps /\ joined \subseteq Resolvers
  /\ id \in [Resolvers -> Apps \cup {NoApp}] /\ \A r \in joined : id[r] \in apps
  /\ zone \in [Apps -> Said] /\ seen \in [Resolvers -> Said]
  /\ lastTs \in [Apps -> Nat]
  /\ event \in [Resolvers -> BOOLEAN] /\ quit \in [Resolvers -> BOOLEAN]
  /\ spc \in {"top", "ask", "polling", "broadcast", "failed", "load", "append", "ended"}
  /\ ctx \in {"none", "live", "cancelled"}
  /\ lastHost \in Hosts \cup {"none"} /\ want \subseteq apps
  /\ retry \in 0..Cardinality(Hosts) + 1
  /\ DOMAIN reply \subseteq apps /\ telling \in apps \cup {NoApp}
  /\ rpc \in [Resolvers -> {"none", "built", "wait", "fetch", "fetched", "store", "ended"}]
  /\ made \in BOOLEAN /\ closed \in BOOLEAN
  /\ events \in 0..MaxEvents

\* A poll says of an app the timestamp of the instances the client holds, and
\* says it to the node they are from: the nodes' timestamps do not compare,
\* and a node that is told more than it has sent answers "not modified"
\* (polls, lines 552-564; broadcast, lines 625-626).
PollsWhatItHolds ==
  \A a \in Apps :
    lastTs[a] # 0 => zone[a].host = lastHost /\ zone[a].ts = lastTs[a]

\* A poll under way that nothing interrupted asks for every app that was
\* built, whenever Build ran: an app it forgot would be unknown until the poll
\* ends (Build, lines 194-207; serverproc, lines 474-479; polls, lines 556-565).
PollCoversApps == spc = "polling" /\ ctx = "live" => want = apps

\* What a watcher saw last is what the client holds, or the watcher is about
\* to be told: an event waits in its channel, or Build or broadcast is about
\* to send one, or it reads already (Build, lines 206-213; broadcast, lines
\* 626-634; watcher of the grpc resolver).
NoMissedEvent ==
  \A r \in joined :
    \/ seen[r] = zone[id[r]]
    \/ event[r] \/ rpc[r] \in {"built", "fetch"}
    \/ telling = id[r]

\* Some node always answers again, whatever list the discovery nodes gave and
\* whichever of its nodes went down, as long as a seed is up (switchNode and
\* tryAppendSeedNodes in serverproc, lines 488-502).
EventuallyAnswered == <>closed \/ []<><<Answer>>_vars

\* When the discovery nodes change no more, every watcher ends up with what a
\* node that is up says of its app; a client keeps the instances it has when
\* the node has none (broadcast, lines 618-620).
EventuallyCurrent ==
  <>[](closed \/ \A r \in joined : \E h \in Hosts \ down :
         LET s == latest[h][id[r]]
         IN s.body = {} \/ seen[r] = [host |-> h, ts |-> s.ts, body |-> s.body])
=============================================================================
