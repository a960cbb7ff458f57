------------------------------- MODULE Cluster -------------------------------
(***************************************************************************)
(* The nodes of a discovery cluster: how a node starts (copies what its    *)
(* peers hold, registers itself, serves), how requests are replicated      *)
(* inside a zone and from zone to zone, how the list of peers follows the  *)
(* registered nodes, and how a node stops or crashes (discovery/,          *)
(* registry/node.go, registry/nodes.go, cmd/discovery/main.go).            *)
(*                                                                         *)
(* An item is an instance in the registry: a discovery node itself         *)
(* (appid infra.discovery) or an instance of a service.  A node keeps the  *)
(* items it holds; module Registry is the detail of one node's store.      *)
(* Of a call between nodes the module keeps what its receiver reads of it  *)
(* and what decides where it goes on:                                      *)
(*   peer  it comes from a node                                            *)
(*   copy  replication, sent true to the nodes of the caller's zone        *)
(* Nodes send forms.  ArgRenew and ArgCancel have form tags; ArgRegister   *)
(* and ArgSet have json tags only, so nothing of a form comes to them: a   *)
(* replicated Register has no status and is dropped, a replicated Set has  *)
(* no instance, no replication and no from_zone.                           *)
(* The answers of calls, timestamps, and the status of a peer (shown by    *)
(* /nodes, read by nothing) are left out: no decision here depends on      *)
(* them.  Node.call returns transport errors only, so that the repair in   *)
(* Node.Renew never runs.  The configuration of every node names all the   *)
(* nodes of its zone and of the other zones.                               *)
(***************************************************************************)
EXTENDS Integers, FiniteSets

CONSTANTS Nodes, Services,
          ZoneOf,        \* the zone of each node and each service instance
          EnableProtect, \* the configuration flag
          Settled,       \* nodes that already run, know each other and hold
                         \* all services: as after restarting them in turn
          MaxRequests,   \* bound on the requests that originate
          MaxStarts,     \* bound on the starts of nodes
          MaxLost,       \* bound on the calls lost between running nodes
          MaxSets        \* bound on the calls of Sets in flight at a time

Items == Nodes \cup Services

ASSUME ClusterAssumption ==
  /\ IsFiniteSet(Nodes) /\ Nodes \cap Services = {}
  /\ ZoneOf \in [Items -> {ZoneOf[i] : i \in Items}]
  /\ EnableProtect \in BOOLEAN
  /\ Settled \subseteq Nodes
  /\ {MaxRequests, MaxStarts, MaxLost, MaxSets} \subseteq Nat

VARIABLES
  mode,       \* see Modes; a node serves when it is running or stopping
  todo,       \* the peers that syncUp has still to ask
  protected,  \* nodes that refuse to answer a fetch
  held,       \* the items in each node's registry
  view,       \* the nodes in each node's list of peers
  news,       \* nodes whose nodesproc has not seen their newest index
  emptied,    \* <<n, z>>, n still has the App of zone z, without nodes
  calls,      \* the calls between nodes that are in flight; two equal Sets are one
  requests, starts, lost, \* counters, for the bounds
  handled,    \* history: who handled the requests still in flight, but for Set
  answered,   \* history: <<n, m>>, n copied from m and both still run
  erased      \* history: <<s, n>>, a cancellation of s has to reach n

counters == <<requests, starts, lost>>
history == <<handled, answered, erased>>
vars == <<mode, todo, protected, held, view, news, emptied, calls, counters, history>>

Modes == {"down", "syncing", "registered", "running", "stopping"}
Ops == {"Register", "Renew", "Cancel", "Set"}

Serving(n) == mode[n] \in {"running", "stopping"}
Mates(n, nodes) == {m \in nodes : ZoneOf[m] = ZoneOf[n]}

Init ==
  /\ mode = [n \in Nodes |-> IF n \in Settled THEN "running" ELSE "down"]
  /\ todo = [n \in Nodes |-> {}]
  /\ protected = {}
  /\ held = [n \in Nodes |-> IF n \in Settled THEN Settled \cup Services ELSE {}]
  /\ view = [n \in Nodes |-> IF n \in Settled THEN Settled ELSE {}]
  /\ news = Settled
  /\ emptied = {}
  /\ calls = {}
  /\ requests = 0 /\ starts = 0 /\ lost = 0
  /\ handled = {}
  /\ answered = {p \in Settled \X Settled : p[1] # p[2]}
  /\ erased = {}

-----------------------------------------------------------------------------
(* Where a handler sends a request on. *)

\* One node of every zone that has some.
OneOfEachZone(nodes) ==
  {R \in SUBSET nodes : \A m \in nodes : \E r \in R : Mates(m, R) = {r}}

\* Nodes.Replicate and Nodes.ReplicateSet as if they ignored otherZone.
TargetsEverywhere(n, otherZone) ==
  {(Mates(n, view[n]) \ {n}) \cup R : R \in OneOfEachZone(view[n] \ Mates(n, view[n]))}
\* The sets of nodes that Nodes.Replicate and Nodes.ReplicateSet may call.
Targets(n, otherZone) ==
  LET mates == Mates(n, view[n])
  IN IF mates = {} THEN {{}}
     ELSE IF otherZone THEN {mates \ {n}}
     ELSE {(mates \ {n}) \cup R : R \in OneOfEachZone(view[n] \ mates)}

\* The register handler drops a request without status, and Node.call sends none.
Dropped(req) == req.op = "Register" /\ req.peer

\* The handler finds the instance, or does not look for it.
Accepted(n, req) ==
  IF req.op \in {"Renew", "Cancel"} THEN req.item \in held[n] ELSE ~Dropped(req)

\* What a call that binds nothing says of a zone, and a client's request too.
OtherZone(n, req) == req.op \in {"Renew", "Cancel"} /\ ZoneOf[req.item] # ZoneOf[n]

\* The sets of nodes the handler may call.  A Set that finds no instance is
\* passed on all the same.
Recipients(n, req) ==
  IF req.copy \/ ~Accepted(n, req) THEN {{}} ELSE Targets(n, OtherZone(n, req))

\* Node.call as if it sent replication=true to other zones.
CallAsCopy(n, req, m) ==
  [id |-> req.id, op |-> req.op, item |-> req.item, from |-> n, to |-> m,
   peer |-> TRUE, copy |-> req.op \in {"Renew", "Cancel"}]
\* Node.call and Node.setCall, as their receiver binds them.
Call(n, req, m) ==
  [id |-> req.id, op |-> req.op, item |-> req.item, from |-> n, to |-> m,
   peer |-> TRUE, copy |-> req.op \in {"Renew", "Cancel"} /\ ZoneOf[m] = ZoneOf[n]]

\* What the node holds afterwards.
Holding(n, req) ==
  CASE req.op = "Register" /\ ~Dropped(req) -> held[n] \cup {req.item}
    [] req.op = "Cancel" -> held[n] \ {req.item}
    [] OTHER -> held[n]

\* The index of the registered nodes moves.
MovesIndex(n, req) ==
  /\ req.item \in Nodes
  /\ Accepted(n, req)
  /\ req.op \in {"Register", "Cancel"}

\* Node n handles req and calls other nodes; served are the calls it answers.
Handle(n, req, served) ==
  /\ held' = [held EXCEPT ![n] = Holding(n, req)]
  /\ news' = IF MovesIndex(n, req) THEN news \cup {n} ELSE news
  /\ emptied' = IF MovesIndex(n, req)
                THEN {e \in emptied \cup {<<n, ZoneOf[req.item]>>} :
                        \A m \in held'[e[1]] \cap Nodes : ZoneOf[m] # e[2]}
                ELSE emptied
  /\ \E to \in Recipients(n, req) :
       calls' = (calls \ served) \cup {Call(n, req, m) : m \in to}
  /\ req.op = "Set" => Cardinality({c \in calls' : c.op = "Set"}) <= MaxSets
  /\ handled' = {h \in IF req.op = "Set" THEN handled ELSE handled \cup {<<n, req.id>>} :
                   \E c \in calls' : c.id = h[2]}

-----------------------------------------------------------------------------
(* Requests that originate at a node. *)

Original(op, item) ==
  [id |-> requests + 1, op |-> op, item |-> item, peer |-> FALSE, copy |-> FALSE]

Originate(n, op, item) ==
  /\ requests < MaxRequests
  /\ requests' = requests + 1
  /\ Handle(n, Original(op, item), {})

\* The nodes that a cancellation of i at n is to reach: those of the zone
\* that n lists, and those that any node n may call in another zone lists.
Reach(n, i) ==
  LET mates == Mates(n, view[n])
      PassedOn(m) ==
        /\ Mates(m, view[n]) # {}
        /\ \A r \in Mates(m, view[n]) : i \in held[r] /\ m \in view[r] \cup {r}
  IN IF i \notin held[n] THEN {}
     ELSE {n} \cup mates \cup
            {m \in Nodes \ Mates(n, Nodes) :
               mates # {} /\ ZoneOf[i] = ZoneOf[n] /\ PassedOn(m)}

\* A cancellation of i is on its way to node m, or to some node.
CancelOnItsWay(i, m) == \E c \in calls : c.op = "Cancel" /\ c.item = i /\ c.to = m
CancelInFlight(i) == \E m \in Nodes : CancelOnItsWay(i, m)

\* The node of p has got a cancellation, or a call brings it one.
Reached(p) ==
  \/ Serving(p[2]) /\ p[1] \notin held[p[2]]
  \/ CancelOnItsWay(p[1], p[2])

\* What two cancellations of i that meet promise is what need not be passed on:
\* at a node that handles one of them as a copy the other one ends.
Erased(n, op, i) ==
  CASE op = "Register" -> {p \in erased : p[1] # i}
    [] op = "Cancel" /\ ~CancelInFlight(i) -> erased \cup {<<i, m>> : m \in Reach(n, i)}
    [] op = "Cancel" /\ CancelInFlight(i) -> {p \in erased : p[1] = i => Reached(p)}
    [] OTHER -> erased

\* A client's request about an instance of a service.
Request(n) ==
  \E op \in Ops, i \in Services :
    /\ Serving(n)
    /\ Originate(n, op, i)
    /\ erased' = Erased(n, op, i)
    /\ UNCHANGED <<mode, todo, protected, view, starts, lost, answered>>

\* The ticker of regSelf: renew, or register again if the answer is NothingFound.
Heartbeat(n) ==
  /\ mode[n] = "running"
  /\ Originate(n, IF n \in held[n] THEN "Renew" ELSE "Register", n)
  /\ UNCHANGED <<mode, todo, protected, view, starts, lost, answered, erased>>

\* A call arrives.
Deliver(c) ==
  /\ Serving(c.to)
  /\ Handle(c.to, c, {c})
  /\ UNCHANGED <<mode, todo, protected, view, counters, answered, erased>>

\* A call fails: the caller ended, nobody listens, or it is lost on the way.
Fail(c) ==
  /\ \/ ~Serving(c.to) /\ lost' = lost
     \/ ~Serving(c.from) /\ lost' = lost
     \/ Serving(c.to) /\ Serving(c.from) /\ lost < MaxLost /\ lost' = lost + 1
  /\ calls' = calls \ {c}
  /\ erased' = IF c.op = "Cancel" THEN {p \in erased : p[1] # c.item} ELSE erased
  /\ handled' = {h \in handled : \E d \in calls' : d.id = h[2]}
  /\ UNCHANGED <<mode, todo, protected, held, view, news, emptied, requests, starts, answered>>

-----------------------------------------------------------------------------
(* The life of a node. *)

\* syncUp as if it asked the node itself, too.
StartAskingItself(n) ==
  /\ mode[n] = "down"
  /\ starts < MaxStarts
  /\ starts' = starts + 1
  /\ mode' = [mode EXCEPT ![n] = "syncing"]
  /\ view' = [view EXCEPT ![n] = Nodes]
  /\ \E R \in OneOfEachZone(Nodes \ Mates(n, Nodes)) :
       todo' = [todo EXCEPT ![n] = Mates(n, Nodes) \cup R]
  /\ protected' = IF EnableProtect THEN protected \cup {n} ELSE protected
  /\ erased' = {}
  /\ UNCHANGED <<held, news, emptied, calls, requests, lost, handled, answered>>
\* New: the peers of the configuration; syncUp asks the nodes of AllNodes.
Start(n) ==
  /\ mode[n] = "down"
  /\ starts < MaxStarts
  /\ starts' = starts + 1
  /\ mode' = [mode EXCEPT ![n] = "syncing"]
  /\ view' = [view EXCEPT ![n] = Nodes]
  /\ \E R \in OneOfEachZone(Nodes \ Mates(n, Nodes)) :
       todo' = [todo EXCEPT ![n] = (Mates(n, Nodes) \ {n}) \cup R]
  /\ protected' = IF EnableProtect THEN protected \cup {n} ELSE protected
  /\ erased' = {}
  /\ UNCHANGED <<held, news, emptied, calls, requests, lost, handled, answered>>

\* syncUp as if FetchAll left out the registered nodes.
CopyServices(n) ==
  \E m \in todo[n] :
    /\ Serving(m)
    /\ m \notin protected
    /\ held' = [held EXCEPT ![n] = @ \cup (held[m] \cap Services)]
    /\ todo' = [todo EXCEPT ![n] = @ \ {m}]
    /\ protected' = protected \ {n}
    /\ answered' = answered \cup {<<n, m>>}
    /\ UNCHANGED <<mode, view, news, emptied, calls, counters, handled, erased>>
\* syncUp copies what a peer holds; initProtect lets the fetch pass.
Copy(n) ==
  \E m \in todo[n] :
    /\ Serving(m)
    /\ m \notin protected
    /\ held' = [held EXCEPT ![n] = @ \cup held[m]]
    /\ todo' = [todo EXCEPT ![n] = @ \ {m}]
    /\ protected' = protected \ {n}
    /\ answered' = answered \cup {<<n, m>>}
    /\ UNCHANGED <<mode, view, news, emptied, calls, counters, handled, erased>>

\* The fetch fails, and syncUp goes on with the next peer.
Miss(n) ==
  \E m \in todo[n] :
    /\ \/ ~Serving(m) /\ lost' = lost
       \/ Serving(m) /\ m \in protected /\ lost' = lost
       \/ Serving(m) /\ m \notin protected /\ lost < MaxLost /\ lost' = lost + 1
    /\ todo' = [todo EXCEPT ![n] = @ \ {m}]
    /\ UNCHANGED <<mode, protected, held, view, news, emptied, calls, requests, starts, history>>

\* regSelf registers the node, here and with the peers.
RegSelf(n) ==
  /\ mode[n] = "syncing" /\ todo[n] = {}
  /\ mode' = [mode EXCEPT ![n] = "registered"]
  /\ Originate(n, "Register", n)
  /\ UNCHANGED <<todo, protected, view, starts, lost, answered, erased>>

\* The calls of regSelf have ended: nodesproc starts and New returns.  What an
\* earlier life of the node has sent may still be on its way.
Started(n) == mode[n] = "registered" /\ \A c \in calls : c.op = "Register" => c.from # n

\* http.Init serves.
Serve(n) ==
  /\ Started(n)
  /\ mode' = [mode EXCEPT ![n] = "running"]
  /\ UNCHANGED <<todo, protected, held, view, news, emptied, calls, counters, history>>

ExitProtect(n) ==
  /\ mode[n] # "down" /\ n \in protected
  /\ protected' = protected \ {n}
  /\ UNCHANGED <<mode, todo, held, view, news, emptied, calls, counters, history>>

\* The handler of a cancellation deletes the App it has emptied; its broadcast
\* may come to a nodesproc that waits, or before it does.
DelZone(n) ==
  \E e \in emptied :
    /\ e[1] = n
    /\ emptied' = emptied \ {e}
    /\ news' \in {news, news \cup {n}}
    /\ UNCHANGED <<mode, todo, protected, held, view, calls, counters, history>>

\* nodesproc polls without a zone, and Apps.InstanceInfo writes the
\* instances of every zone to the same place: those of one zone are left.
Fetched(n) ==
  LET nodes == held[n] \cap Nodes
  IN {Mates(m, nodes) : m \in nodes} \cup {{} : e \in {d \in emptied : d[1] = n}}

\* nodesproc: the index is new, or a broadcast comes.
Refresh(n) ==
  /\ Serving(n) \/ Started(n)
  /\ n \in news
  /\ news' = news \ {n}
  /\ \E nodes \in Fetched(n) : view' = [view EXCEPT ![n] = nodes]
  /\ erased' = {p \in erased :
                  \/ p[2] = n \/ p[2] \notin Mates(n, Nodes) \/ p[2] \in view'[n]
                  \/ ~CancelOnItsWay(p[1], n)}
  /\ UNCHANGED <<mode, todo, protected, held, emptied, calls, counters, handled, answered>>

\* main gets a signal: the goroutine of regSelf cancels the node.
Stop(n) ==
  /\ mode[n] = "running"
  /\ mode' = [mode EXCEPT ![n] = "stopping"]
  /\ Originate(n, "Cancel", n)
  /\ erased' = {}
  /\ UNCHANGED <<todo, protected, view, starts, lost, answered>>

\* The process ends, after Stop or by a crash: what it held is in memory only,
\* and its calls to nodes that do not listen end with it.
Exit(n) ==
  /\ mode[n] # "down"
  /\ mode' = [mode EXCEPT ![n] = "down"]
  /\ todo' = [todo EXCEPT ![n] = {}]
  /\ held' = [held EXCEPT ![n] = {}]
  /\ view' = [view EXCEPT ![n] = {}]
  /\ news' = news \ {n}
  /\ emptied' = {e \in emptied : e[1] # n}
  /\ protected' = protected \ {n}
  /\ calls' = {c \in calls : c.to # n /\ (c.from = n => Serving(c.to))}
  /\ handled' = {h \in handled : \E c \in calls' : c.id = h[2]}
  /\ answered' = {p \in answered : n \notin {p[1], p[2]}}
  /\ erased' = {}
  /\ UNCHANGED counters

Next ==
  \/ \E n \in Nodes :
       \/ Request(n) \/ Heartbeat(n)
       \/ Start(n) \/ Copy(n) \/ Miss(n)
       \/ RegSelf(n) \/ Serve(n) \/ ExitProtect(n)
       \/ DelZone(n) \/ Refresh(n) \/ Stop(n) \/ Exit(n)
  \/ \E c \in calls : Deliver(c) \/ Fail(c)

Spec == Init /\ [][Next]_vars

-----------------------------------------------------------------------------
CallType ==
  [id : 1..MaxRequests, op : Ops, item : Items, from : Nodes, to : Nodes,
   peer : {TRUE}, copy : BOOLEAN]

TypeOK ==
  /\ mode \in [Nodes -> Modes]
  /\ todo \in [Nodes -> SUBSET Nodes]
  /\ \A n \in Nodes : todo[n] # {} => mode[n] = "syncing" /\ n \notin todo[n]
  /\ protected \subseteq Nodes
  /\ held \in [Nodes -> SUBSET Items]
  /\ view \in [Nodes -> SUBSET Nodes]
  /\ calls \subseteq CallType
  /\ \A c \in calls : c.from # c.to
  /\ requests \in 0..MaxRequests
  /\ starts \in 0..MaxStarts
  /\ lost \in 0..MaxLost
  /\ news \subseteq {n \in Nodes : mode[n] \notin {"down", "syncing"}}
  /\ emptied \subseteq {e \in Nodes \X {ZoneOf[i] : i \in Nodes} :
                        mode[e[1]] \notin {"down", "syncing"}}
  /\ handled \subseteq Nodes \X (1..MaxRequests)
  /\ answered \subseteq Nodes \X Nodes
  /\ erased \subseteq Services \X Nodes

(***************************************************************************)
(* A registration, a renewal or a cancellation comes to a node at most     *)
(* once: no call is on its way to a node that has handled the request, and *)
(* no two calls carry it to one node, whatever nodes stand for their zones *)
(* and however the lists of peers change meanwhile.  So a heartbeat is     *)
(* counted once by every guard, and none of the three goes round between   *)
(* the zones (nodes.go:47-66, node.go:62-66, register.go:14-51;            *)
(* doc/discovery.md:107-116).  It does not hold for Set: its labels do not *)
(* arrive, and every node passes it on again (register.go:92-99).          *)
(***************************************************************************)
NoEcho ==
  /\ \A c \in calls : c.op # "Set" => <<c.to, c.id>> \notin handled
  /\ \A c, d \in calls : c.op # "Set" /\ c.id = d.id /\ c.to = d.to => c = d

(***************************************************************************)
(* A cancellation reaches the nodes that its lists of peers promise: those *)
(* of the zone that the node lists, and, if the instance is of this zone,  *)
(* those of another zone that every node it may call there lists and that  *)
(* hold the instance.  When its calls have been handled, the instance is   *)
(* gone from all of them, if no call failed, no node started or ended      *)
(* meanwhile and the lists of those who pass it on did not shrink.  When   *)
(* another cancellation of it is on its way before, nothing more is        *)
(* promised, and when one comes after, only what is already reached or     *)
(* called: either could stop the other at a node that must pass it on      *)
(* (register.go:40-51, nodes.go:47-66).                                    *)
(***************************************************************************)
CancelSpreads ==
  \A p \in erased : CancelInFlight(p[1]) \/ p[1] \notin held[p[2]]

(***************************************************************************)
(* A node that copied from a node of its zone, when it started, holds that *)
(* node until it stops, and lists it whenever its list of peers is one of  *)
(* their zone: what is cancelled or renewed at the node that copied is     *)
(* sent to the other one, however lists were rebuilt, nodes of other zones *)
(* started or ended and calls were lost since then.  Nothing is said of    *)
(* the other direction: the node that was copied from need not know who    *)
(* copied, since the registration that regSelf sends is dropped            *)
(* (syncUp.go:25-84, 106-155; doc/discovery.md:87-90).                     *)
(***************************************************************************)
CopiedIsListed ==
  \A p \in answered :
    mode[p[2]] = "running" /\ ZoneOf[p[1]] = ZoneOf[p[2]] =>
      /\ p[2] \in held[p[1]]
      /\ Mates(p[1], view[p[1]]) # {} => p[2] \in view[p[1]]

-----------------------------------------------------------------------------
(***************************************************************************)
(* doc/discovery.md:92-96: a node keeps the nodes of the other zones, next *)
(* to those of its own, and each change is passed on to one node of every  *)
(* zone.                                                                   *)
(***************************************************************************)
OtherZonesAreListed ==
  \A n \in Nodes :
    mode[n] = "running" /\ n \notin news => held[n] \cap Nodes \subseteq view[n]

=============================================================================
