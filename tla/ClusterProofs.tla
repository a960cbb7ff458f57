---------------------------- MODULE ClusterProofs ----------------------------
(***************************************************************************)
(* Theorems about Cluster, for every set of nodes and services, every      *)
(* division into zones and all bounds.                                     *)
(***************************************************************************)
EXTENDS Cluster, TLAPS

-----------------------------------------------------------------------------
(* The invariant behind NoEcho.                                            *)
(*                                                                         *)
(* Only renewals, cancellations and Sets are passed on.  The call of one   *)
(* of the first two is a copy just when it stays in its zone, and they     *)
(* leave a zone only if the item is of that zone: whoever gets one that is *)
(* no copy passes it on inside the zone only.  And such a call is the only *)
(* sign of its request in the zone it goes to.                             *)

Replayed == {"Renew", "Cancel"}

Known ==
  /\ \A c \in calls : c.id <= requests
  /\ \A h \in handled : h[2] <= requests

OneOp == \A c, d \in calls : c.id = d.id => c.op = d.op

Labelled ==
  \A c \in calls :
    /\ c.copy <=> c.op \in Replayed /\ ZoneOf[c.to] = ZoneOf[c.from]
    /\ ~c.copy /\ c.op \in Replayed => ZoneOf[c.item] # ZoneOf[c.to]

FirstInZone ==
  \A c \in calls :
    ~c.copy /\ c.op \in Replayed =>
      /\ \A d \in calls : d.id = c.id /\ ZoneOf[d.to] = ZoneOf[c.to] => d = c
      /\ \A h \in handled : h[2] = c.id => ZoneOf[h[1]] # ZoneOf[c.to]

Labels == Known /\ OneOp /\ Labelled /\ FirstInZone /\ NoEcho

-----------------------------------------------------------------------------
(* Where a request goes on. *)

\* The zones of nodes.
NodeZones == {ZoneOf[i] : i \in Nodes}

LEMMA BoundsAreNat == MaxRequests \in Nat /\ MaxStarts \in Nat /\ MaxLost \in Nat
BY ClusterAssumption DEF ClusterAssumption

\* A handler calls nodes of its list, and never itself.
LEMMA RecipientsAreOthers ==
  ASSUME NEW n \in Nodes, NEW req, view[n] \subseteq Nodes,
         NEW to \in Recipients(n, req)
  PROVE  to \subseteq Nodes \ {n}
BY DEF Recipients, Targets, OneOfEachZone, Mates

\* A copy goes nowhere, what comes from another zone stays in this one, and
\* everything else goes to at most one node of every other zone.
LEMMA RecipientsOfCopy ==
  ASSUME NEW n, NEW req, req.copy, NEW to \in Recipients(n, req)
  PROVE  to = {}
BY DEF Recipients

LEMMA RecipientsInside ==
  ASSUME NEW n, NEW req, OtherZone(n, req), NEW to \in Recipients(n, req), NEW m \in to
  PROVE  ZoneOf[m] = ZoneOf[n]
BY DEF Recipients, Targets, Mates

LEMMA OneRecipientOutside ==
  ASSUME NEW n, NEW req, NEW to \in Recipients(n, req),
         NEW m \in to, NEW k \in to,
         ZoneOf[m] # ZoneOf[n], ZoneOf[k] = ZoneOf[m]
  PROVE  k = m
<1>1. PICK R \in OneOfEachZone(view[n] \ Mates(n, view[n])) :
        to = (Mates(n, view[n]) \ {n}) \cup R
  BY DEF Recipients, Targets, Mates
<1>2. m \in R /\ k \in R
  BY <1>1 DEF Mates
<1>3. m \in view[n] \ Mates(n, view[n])
  BY <1>2 DEF OneOfEachZone
<1>4. PICK r \in R : Mates(m, R) = {r}
  BY <1>3 DEF OneOfEachZone
<1> QED
  BY <1>2, <1>4 DEF Mates

-----------------------------------------------------------------------------
(* Types. *)

LEMMA InitTypeOK == Init => TypeOK
<1> SUFFICES ASSUME Init PROVE TypeOK
  OBVIOUS
<1>1. Settled \subseteq Nodes
  BY ClusterAssumption DEF ClusterAssumption
<1>2. news \subseteq {n \in Nodes : mode[n] \notin {"down", "syncing"}}
  BY <1>1 DEF Init
<1>3. /\ mode \in [Nodes -> Modes] /\ todo \in [Nodes -> SUBSET Nodes]
      /\ held \in [Nodes -> SUBSET Items] /\ view \in [Nodes -> SUBSET Nodes]
  BY <1>1 DEF Init, Modes, Items
<1>4. /\ requests \in 0..MaxRequests /\ starts \in 0..MaxStarts /\ lost \in 0..MaxLost
      /\ calls = {} /\ handled = {} /\ erased = {} /\ protected = {} /\ emptied = {}
  BY BoundsAreNat DEF Init
<1>5. answered \subseteq Nodes \X Nodes
  BY <1>1 DEF Init
<1>6. \A n \in Nodes : todo[n] = {}
  BY DEF Init
<1> QED
  BY <1>2, <1>3, <1>4, <1>5, <1>6 DEF TypeOK

\* What Handle does to the types of what it changes.
LEMMA HandleTypes ==
  ASSUME TypeOK, NEW n \in Nodes, NEW req, NEW served,
         req.id \in 1..MaxRequests, req.op \in Ops, req.item \in Items,
         Handle(n, req, served)
  PROVE  /\ held' \in [Nodes -> SUBSET Items]
         /\ calls' \subseteq CallType
         /\ \A c \in calls' : c.from # c.to
         /\ news' \subseteq news \cup {n}
         /\ emptied' \subseteq emptied \cup ({n} \X NodeZones)
         /\ handled' \subseteq Nodes \X (1..MaxRequests)
<1>1. PICK to \in Recipients(n, req) :
        calls' = (calls \ served) \cup {Call(n, req, m) : m \in to}
  BY DEF Handle
<1>2. to \subseteq Nodes \ {n}
  BY RecipientsAreOthers DEF TypeOK
<1>3. \A m \in to : Call(n, req, m) \in CallType /\ Call(n, req, m).from # Call(n, req, m).to
  BY <1>2 DEF Call, CallType
<1>4. calls' \subseteq CallType /\ \A c \in calls' : c.from # c.to
  BY <1>1, <1>3 DEF TypeOK
<1>5. Holding(n, req) \in SUBSET Items
  BY DEF Holding, TypeOK
<1>6. held' \in [Nodes -> SUBSET Items]
  BY <1>5 DEF Handle, TypeOK
<1>7. news' \subseteq news \cup {n}
  BY DEF Handle
<1>9. emptied' \subseteq emptied \cup ({n} \X NodeZones)
  <2>1. CASE MovesIndex(n, req)
    <3>1. <<n, ZoneOf[req.item]>> \in {n} \X NodeZones
      BY <2>1 DEF MovesIndex, NodeZones
    <3>2. emptied' \subseteq emptied \cup {<<n, ZoneOf[req.item]>>}
      BY <2>1 DEF Handle
    <3> QED
      BY <3>1, <3>2
  <2>2. CASE ~MovesIndex(n, req)
    BY <2>2 DEF Handle
  <2> QED
    BY <2>1, <2>2
<1>8. handled' \subseteq Nodes \X (1..MaxRequests)
  <2>1. handled \cup {<<n, req.id>>} \subseteq Nodes \X (1..MaxRequests)
    BY DEF TypeOK
  <2>2. handled' \subseteq handled \cup {<<n, req.id>>}
    BY DEF Handle
  <2> QED
    BY <2>1, <2>2
<1> QED
  BY <1>4, <1>6, <1>7, <1>8, <1>9

\* What Handle and the steps of a node's life leave of the emptied Apps.
LEMMA EmptiedType ==
  ASSUME TypeOK, NEW n \in Nodes, emptied' \subseteq emptied \cup ({n} \X NodeZones),
         \A k \in Nodes : mode[k] \notin {"down", "syncing"} => mode'[k] \notin {"down", "syncing"},
         emptied' \subseteq emptied \/ mode'[n] \notin {"down", "syncing"}
  PROVE  emptied' \subseteq {e \in Nodes \X NodeZones : mode'[e[1]] \notin {"down", "syncing"}}
<1> SUFFICES ASSUME NEW e \in emptied'
             PROVE  e \in Nodes \X NodeZones /\ mode'[e[1]] \notin {"down", "syncing"}
  OBVIOUS
<1>1. CASE e \in emptied
  BY <1>1 DEF TypeOK, NodeZones
<1>2. CASE e \in {n} \X NodeZones /\ e \notin emptied
  BY <1>2
<1> QED
  BY <1>1, <1>2

\* A request that originates at a node that is up and neither starts nor asks.
LEMMA OriginateTypes ==
  ASSUME TypeOK, NEW n \in Nodes, NEW op \in Ops, NEW item \in Items,
         Originate(n, op, item)
  PROVE  /\ held' \in [Nodes -> SUBSET Items]
         /\ calls' \subseteq CallType
         /\ \A c \in calls' : c.from # c.to
         /\ news' \subseteq news \cup {n}
         /\ emptied' \subseteq emptied \cup ({n} \X NodeZones)
         /\ handled' \subseteq Nodes \X (1..MaxRequests)
         /\ requests' \in 0..MaxRequests
<1> DEFINE req == Original(op, item)
<1>1. Handle(n, req, {})
  BY DEF Originate
<1>2. requests' \in 0..MaxRequests /\ requests + 1 \in 1..MaxRequests
  BY BoundsAreNat DEF Originate, TypeOK
<1>3. req.id \in 1..MaxRequests /\ req.op \in Ops /\ req.item \in Items
  BY <1>2 DEF Original
<1> QED
  BY <1>1, <1>2, <1>3, HandleTypes

\* What a cancellation has to reach are nodes.
LEMMA ErasedType ==
  ASSUME TypeOK, NEW n \in Nodes, NEW op, NEW i \in Services
  PROVE  Erased(n, op, i) \subseteq Services \X Nodes
<1>1. view[n] \subseteq Nodes
  BY DEF TypeOK
<1>2. Reach(n, i) \subseteq Nodes
  BY <1>1 DEF Reach, Mates
<1> QED
  BY <1>2 DEF Erased, TypeOK

LEMMA RequestTypeOK ==
  ASSUME TypeOK, NEW n \in Nodes, Request(n)
  PROVE  TypeOK'
<1>1. PICK op \in Ops, i \in Services :
        /\ Serving(n) /\ Originate(n, op, i) /\ erased' = Erased(n, op, i)
        /\ UNCHANGED <<mode, todo, protected, view, starts, lost, answered>>
  BY DEF Request
<1>2. i \in Items
  BY DEF Items
<1>3. erased' \subseteq Services \X Nodes
  BY <1>1, ErasedType
<1> QED
  <2>1. emptied' \subseteq emptied \cup ({n} \X NodeZones) /\ mode' = mode /\ Serving(n)
    BY <1>1, <1>2, OriginateTypes
  <2>2. emptied' \subseteq {e \in Nodes \X NodeZones : mode'[e[1]] \notin {"down", "syncing"}}
    BY <2>1, EmptiedType DEF Serving
  <2> QED
    BY <1>1, <1>2, <1>3, <2>2, OriginateTypes DEF TypeOK, Serving, NodeZones

LEMMA HeartbeatTypeOK ==
  ASSUME TypeOK, NEW n \in Nodes, Heartbeat(n)
  PROVE  TypeOK'
<1>1. PICK op \in Ops : Originate(n, op, n)
  BY DEF Heartbeat, Ops
<1> QED
  <2>1. emptied' \subseteq emptied \cup ({n} \X NodeZones) /\ mode' = mode /\ mode[n] = "running"
    BY <1>1, OriginateTypes DEF Heartbeat, Items
  <2>2. emptied' \subseteq {e \in Nodes \X NodeZones : mode'[e[1]] \notin {"down", "syncing"}}
    BY <2>1, EmptiedType
  <2> QED
    BY <1>1, <2>2, OriginateTypes DEF TypeOK, Heartbeat, Items, NodeZones

LEMMA RegSelfTypeOK ==
  ASSUME TypeOK, NEW n \in Nodes, RegSelf(n)
  PROVE  TypeOK'
<1>1. Originate(n, "Register", n) /\ "Register" \in Ops /\ n \in Items
  BY DEF RegSelf, Ops, Items
<1>2. mode' = [mode EXCEPT ![n] = "registered"] /\ todo[n] = {}
      /\ UNCHANGED <<todo, protected, view, starts, lost, answered, erased>>
  BY DEF RegSelf
<1>3. mode' \in [Nodes -> Modes]
  BY <1>2 DEF TypeOK, Modes
<1>4. news' \subseteq {m \in Nodes : mode'[m] \notin {"down", "syncing"}}
  BY <1>1, <1>2, OriginateTypes DEF TypeOK
<1>5. \A m \in Nodes : todo'[m] # {} => mode'[m] = "syncing" /\ m \notin todo'[m]
  BY <1>2 DEF TypeOK
<1>6. emptied' \subseteq {e \in Nodes \X NodeZones : mode'[e[1]] \notin {"down", "syncing"}}
  <2>1. emptied' \subseteq emptied \cup ({n} \X NodeZones)
    BY <1>1, OriginateTypes
  <2>2. \A k \in Nodes : mode'[k] = mode[k] \/ k = n
    BY <1>2 DEF TypeOK
  <2>3. mode'[n] \notin {"down", "syncing"}
    BY <1>2 DEF TypeOK
  <2> QED
    BY <2>1, <2>2, <2>3, EmptiedType
<1> QED
  BY <1>1, <1>2, <1>3, <1>4, <1>5, <1>6, OriginateTypes DEF TypeOK, NodeZones

LEMMA StopTypeOK ==
  ASSUME TypeOK, NEW n \in Nodes, Stop(n)
  PROVE  TypeOK'
<1>1. Originate(n, "Cancel", n) /\ "Cancel" \in Ops /\ n \in Items
  BY DEF Stop, Ops, Items
<1>2. mode' = [mode EXCEPT ![n] = "stopping"] /\ mode[n] = "running" /\ erased' = {}
      /\ UNCHANGED <<todo, protected, view, starts, lost, answered>>
  BY DEF Stop
<1>3. mode' \in [Nodes -> Modes]
  BY <1>2 DEF TypeOK, Modes
<1>4. news' \subseteq {m \in Nodes : mode'[m] \notin {"down", "syncing"}}
  BY <1>1, <1>2, OriginateTypes DEF TypeOK
<1>5. \A m \in Nodes : todo'[m] # {} => mode'[m] = "syncing" /\ m \notin todo'[m]
  BY <1>2 DEF TypeOK
<1>6. emptied' \subseteq {e \in Nodes \X NodeZones : mode'[e[1]] \notin {"down", "syncing"}}
  <2>1. emptied' \subseteq emptied \cup ({n} \X NodeZones)
    BY <1>1, OriginateTypes
  <2>2. \A k \in Nodes : mode'[k] = mode[k] \/ k = n
    BY <1>2 DEF TypeOK
  <2>3. mode'[n] \notin {"down", "syncing"}
    BY <1>2 DEF TypeOK
  <2> QED
    BY <2>1, <2>2, <2>3, EmptiedType
<1> QED
  BY <1>1, <1>2, <1>3, <1>4, <1>5, <1>6, OriginateTypes DEF TypeOK, NodeZones

LEMMA DeliverTypeOK ==
  ASSUME TypeOK, NEW c \in calls, Deliver(c)
  PROVE  TypeOK'
<1>1. c.to \in Nodes /\ c.id \in 1..MaxRequests /\ c.op \in Ops /\ c.item \in Items
  BY DEF TypeOK, CallType
<1>2. Handle(c.to, c, {c}) /\ mode[c.to] \in {"running", "stopping"}
      /\ UNCHANGED <<mode, todo, protected, view, counters, answered, erased>>
  BY DEF Deliver, Serving
<1>3. emptied' \subseteq {e \in Nodes \X NodeZones : mode'[e[1]] \notin {"down", "syncing"}}
  <2>1. emptied' \subseteq emptied \cup ({c.to} \X NodeZones)
    BY <1>1, <1>2, HandleTypes
  <2> QED
    BY <1>1, <1>2, <2>1, EmptiedType
<1> QED
  BY <1>1, <1>2, <1>3, HandleTypes DEF TypeOK, counters, NodeZones

LEMMA FailTypeOK ==
  ASSUME TypeOK, NEW c \in calls, Fail(c)
  PROVE  TypeOK'
<1>1. lost' \in 0..MaxLost
  BY BoundsAreNat DEF Fail, TypeOK
<1>2. calls' \subseteq calls /\ handled' \subseteq handled /\ erased' \subseteq erased
  BY DEF Fail
<1> QED
  BY <1>1, <1>2 DEF TypeOK, Fail

LEMMA StartTypeOK ==
  ASSUME TypeOK, NEW n \in Nodes, Start(n)
  PROVE  TypeOK'
<1>1. /\ mode[n] = "down" /\ mode' = [mode EXCEPT ![n] = "syncing"]
      /\ starts < MaxStarts /\ starts' = starts + 1
      /\ view' = [view EXCEPT ![n] = Nodes]
      /\ protected' \subseteq protected \cup {n}
      /\ erased' = {}
      /\ UNCHANGED <<held, news, emptied, calls, requests, lost, handled, answered>>
  BY DEF Start
<1>2. PICK R \in OneOfEachZone(Nodes \ Mates(n, Nodes)) :
        todo' = [todo EXCEPT ![n] = (Mates(n, Nodes) \ {n}) \cup R]
  BY DEF Start
<1>3. (Mates(n, Nodes) \ {n}) \cup R \subseteq Nodes \ {n}
  BY DEF OneOfEachZone, Mates
<1>4. starts' \in 0..MaxStarts
  BY <1>1, BoundsAreNat DEF TypeOK
<1>5. mode' \in [Nodes -> Modes] /\ todo' \in [Nodes -> SUBSET Nodes]
  BY <1>1, <1>2, <1>3 DEF TypeOK, Modes
<1>6. \A m \in Nodes : todo'[m] # {} => mode'[m] = "syncing" /\ m \notin todo'[m]
  BY <1>1, <1>2, <1>3 DEF TypeOK
<1>7. news' \subseteq {m \in Nodes : mode'[m] \notin {"down", "syncing"}}
  BY <1>1 DEF TypeOK
<1>8. emptied' \subseteq {e \in Nodes \X NodeZones : mode'[e[1]] \notin {"down", "syncing"}}
  BY <1>1 DEF TypeOK, NodeZones
<1> QED
  BY <1>1, <1>4, <1>5, <1>6, <1>7, <1>8 DEF TypeOK, NodeZones

LEMMA CopyTypeOK ==
  ASSUME TypeOK, NEW n \in Nodes, Copy(n)
  PROVE  TypeOK'
<1>1. PICK m \in todo[n] :
        /\ held' = [held EXCEPT ![n] = @ \cup held[m]]
        /\ todo' = [todo EXCEPT ![n] = @ \ {m}]
        /\ protected' = protected \ {n}
        /\ answered' = answered \cup {<<n, m>>}
        /\ UNCHANGED <<mode, view, news, emptied, calls, counters, handled, erased>>
  BY DEF Copy
<1>2. m \in Nodes
  BY DEF TypeOK
<1>3. held' \in [Nodes -> SUBSET Items] /\ todo' \in [Nodes -> SUBSET Nodes]
  BY <1>1, <1>2 DEF TypeOK
<1>4. \A k \in Nodes : todo'[k] # {} => mode'[k] = "syncing" /\ k \notin todo'[k]
  BY <1>1 DEF TypeOK
<1> QED
  BY <1>1, <1>2, <1>3, <1>4 DEF TypeOK, counters

LEMMA MissTypeOK ==
  ASSUME TypeOK, NEW n \in Nodes, Miss(n)
  PROVE  TypeOK'
<1>1. PICK m \in todo[n] : todo' = [todo EXCEPT ![n] = @ \ {m}]
  BY DEF Miss
<1>2. lost' \in 0..MaxLost
  BY BoundsAreNat DEF Miss, TypeOK
<1>3. UNCHANGED <<mode, protected, held, view, news, emptied, calls, requests, starts, history>>
  BY DEF Miss
<1>4. \A k \in Nodes : todo'[k] # {} => mode'[k] = "syncing" /\ k \notin todo'[k]
  BY <1>1, <1>3 DEF TypeOK
<1> QED
  BY <1>1, <1>2, <1>3, <1>4 DEF TypeOK, history

LEMMA ServeTypeOK ==
  ASSUME TypeOK, NEW n \in Nodes, Serve(n)
  PROVE  TypeOK'
<1>1. /\ mode[n] = "registered" /\ mode' = [mode EXCEPT ![n] = "running"]
      /\ UNCHANGED <<todo, protected, held, view, news, emptied, calls, counters, history>>
  BY DEF Serve, Started
<1>2. mode' \in [Nodes -> Modes]
  BY <1>1 DEF TypeOK, Modes
<1>3. news \subseteq {m \in Nodes : mode'[m] \notin {"down", "syncing"}}
  BY <1>1 DEF TypeOK
<1>4. \A m \in Nodes : todo[m] # {} => mode'[m] = "syncing" /\ m \notin todo[m]
  BY <1>1 DEF TypeOK
<1>5. emptied' = emptied /\ \A k \in Nodes : mode'[k] = mode[k] \/ mode'[k] = "running"
  BY <1>1 DEF Serve, TypeOK
<1>6. emptied' \subseteq {e \in Nodes \X NodeZones : mode'[e[1]] \notin {"down", "syncing"}}
  BY <1>5, EmptiedType
<1> QED
  BY <1>1, <1>2, <1>3, <1>4, <1>6 DEF TypeOK, counters, history, NodeZones

\* The App that a cancellation has emptied is deleted.
LEMMA DelZoneTypeOK ==
  ASSUME TypeOK, NEW n \in Nodes, DelZone(n)
  PROVE  TypeOK'
<1>1. PICK e \in emptied : e[1] = n /\ emptied' = emptied \ {e}
  BY DEF DelZone
<1>2. mode[n] \notin {"down", "syncing"} /\ news' \subseteq news \cup {n}
  BY <1>1 DEF DelZone, TypeOK
<1> QED
  BY <1>1, <1>2 DEF DelZone, TypeOK, counters, history

LEMMA RefreshTypeOK ==
  ASSUME TypeOK, NEW n \in Nodes, Refresh(n)
  PROVE  TypeOK'
<1>1. PICK nodes \in Fetched(n) : view' = [view EXCEPT ![n] = nodes]
  BY DEF Refresh
<1>2. nodes \subseteq Nodes
  BY DEF Fetched, Mates
<1>3. view' \in [Nodes -> SUBSET Nodes]
  BY <1>1, <1>2 DEF TypeOK
<1>4. news' \subseteq news /\ erased' \subseteq erased
  BY DEF Refresh
<1> QED
  BY <1>3, <1>4 DEF TypeOK, Refresh, counters

LEMMA ExitTypeOK ==
  ASSUME TypeOK, NEW n \in Nodes, Exit(n)
  PROVE  TypeOK'
<1>1. /\ mode' = [mode EXCEPT ![n] = "down"]
      /\ todo' = [todo EXCEPT ![n] = {}]
      /\ held' = [held EXCEPT ![n] = {}]
      /\ view' = [view EXCEPT ![n] = {}]
      /\ news' = news \ {n} /\ protected' = protected \ {n}
      /\ calls' \subseteq calls /\ handled' \subseteq handled
      /\ answered' \subseteq answered /\ erased' = {}
      /\ emptied' = {e \in emptied : e[1] # n}
      /\ UNCHANGED counters
  BY DEF Exit
<1>2. /\ mode' \in [Nodes -> Modes] /\ todo' \in [Nodes -> SUBSET Nodes]
      /\ held' \in [Nodes -> SUBSET Items] /\ view' \in [Nodes -> SUBSET Nodes]
  BY <1>1 DEF TypeOK, Modes
<1>3. news' \subseteq {m \in Nodes : mode'[m] \notin {"down", "syncing"}}
  BY <1>1 DEF TypeOK
<1>4. \A m \in Nodes : todo'[m] # {} => mode'[m] = "syncing" /\ m \notin todo'[m]
  BY <1>1 DEF TypeOK
<1>5. emptied' \subseteq {e \in Nodes \X NodeZones : mode'[e[1]] \notin {"down", "syncing"}}
  BY <1>1 DEF TypeOK, NodeZones
<1> QED
  BY <1>1, <1>2, <1>3, <1>4, <1>5 DEF TypeOK, counters, NodeZones

LEMMA NextTypeOK == TypeOK /\ [Next]_vars => TypeOK'
<1> SUFFICES ASSUME TypeOK, [Next]_vars PROVE TypeOK'
  OBVIOUS
<1>1. CASE \E n \in Nodes : Request(n) \/ Heartbeat(n) \/ RegSelf(n) \/ Stop(n)
  BY <1>1, RequestTypeOK, HeartbeatTypeOK, RegSelfTypeOK, StopTypeOK
<1>2. CASE \E n \in Nodes : Start(n) \/ Copy(n) \/ Miss(n) \/ Serve(n)
  BY <1>2, StartTypeOK, CopyTypeOK, MissTypeOK, ServeTypeOK
<1>3. CASE \E n \in Nodes : ExitProtect(n)
  BY <1>3 DEF TypeOK, ExitProtect, counters, history
<1>4. CASE \E n \in Nodes : DelZone(n) \/ Refresh(n) \/ Exit(n)
  BY <1>4, DelZoneTypeOK, RefreshTypeOK, ExitTypeOK
<1>5. CASE \E c \in calls : Deliver(c) \/ Fail(c)
  BY <1>5, DeliverTypeOK, FailTypeOK
<1>6. CASE UNCHANGED vars
  BY <1>6 DEF TypeOK, vars, counters, history
<1> QED
  BY <1>1, <1>2, <1>3, <1>4, <1>5, <1>6 DEF Next

\* Whatever nodes start, stop, crash and call each other, what they hold,
\* list and have still to ask are nodes and items, no node asks or calls
\* itself, and only a node that is starting has peers to ask.
THEOREM TypeCorrect == Spec => []TypeOK
BY InitTypeOK, NextTypeOK, PTL DEF Spec

-----------------------------------------------------------------------------
(* No echo. *)

LEMMA InitLabels == Init => Labels
BY DEF Init, Labels, Known, OneOp, Labelled, FirstInZone, NoEcho

\* Calls that disappear, and requests that are forgotten with them, leave the
\* rest as it was.
LEMMA FewerLabels ==
  ASSUME TypeOK, Labels, calls' \subseteq calls, handled' \subseteq handled,
         requests' = requests
  PROVE  Labels'
BY DEF Labels, Known, OneOp, Labelled, FirstInZone, NoEcho

\* A new request is known to nobody: its calls are the first.
LEMMA OriginateLabels ==
  ASSUME TypeOK, Labels, NEW n \in Nodes, NEW op \in Ops, NEW item \in Items,
         Originate(n, op, item)
  PROVE  Labels'
<1> DEFINE req == Original(op, item)
<1>1. PICK to \in Recipients(n, req) : calls' = calls \cup {Call(n, req, m) : m \in to}
  BY DEF Originate, Handle
<1>2. to \subseteq Nodes \ {n}
  BY RecipientsAreOthers DEF TypeOK
<1>3. handled' \subseteq handled \cup {<<n, requests + 1>>}
  BY DEF Originate, Handle, Original
<1>4. requests \in Nat /\ requests' = requests + 1
  BY BoundsAreNat DEF TypeOK, Originate
<1>5. \A c \in calls : c.id # requests + 1
  <2>1. \A c \in calls : c.id \in 1..MaxRequests /\ c.id <= requests
    BY DEF TypeOK, CallType, Labels, Known
  <2> QED
    BY <2>1, <1>4, BoundsAreNat
<1>6. \A h \in handled : h[2] # requests + 1 /\ h[2] \in Nat
  BY <1>4, BoundsAreNat DEF TypeOK, Labels, Known
<1>7. \A m \in to : LET c == Call(n, req, m)
                     IN /\ c.id = requests + 1 /\ c.op = op /\ c.item = item
                        /\ c.from = n /\ c.to = m
                        /\ c.copy = (op \in Replayed /\ ZoneOf[m] = ZoneOf[n])
  BY DEF Call, Original, Replayed
<1>o. OneOp'
  BY <1>1, <1>5, <1>7 DEF Labels, OneOp
<1>8. Known'
  <2>1. ASSUME NEW c \in calls' PROVE c.id <= requests + 1
    <3>1. CASE c \in calls
      <4>1. c.id \in 1..MaxRequests /\ c.id <= requests
        BY <3>1 DEF TypeOK, CallType, Labels, Known
      <4> QED
        BY <4>1, <1>4, BoundsAreNat
    <3>2. CASE c \notin calls
      <4>1. c.id = requests + 1
        BY <1>1, <1>7, <3>2
      <4> QED
        BY <4>1, <1>4
    <3> QED
      BY <3>1, <3>2
  <2>2. ASSUME NEW h \in handled' PROVE h[2] <= requests + 1
    <3>1. CASE h \in handled
      <4>1. h[2] <= requests /\ h[2] \in Nat
        BY <3>1, <1>6 DEF Labels, Known
      <4> QED
        BY <4>1, <1>4
    <3>2. CASE h = <<n, requests + 1>>
      BY <3>2, <1>4
    <3> QED
      BY <1>3, <3>1, <3>2
  <2> QED
    BY <1>4, <2>1, <2>2 DEF Known
<1>9. Labelled'
  <2>1. ASSUME NEW m \in to, ZoneOf[m] # ZoneOf[n], op \in Replayed
        PROVE  ZoneOf[item] # ZoneOf[m]
    <3>1. ~OtherZone(n, req)
      BY <2>1, RecipientsInside
    <3> QED
      BY <2>1, <3>1 DEF OtherZone, Original, Replayed
  <2>2. ASSUME NEW c \in calls'
        PROVE  /\ c.copy <=> c.op \in Replayed /\ ZoneOf[c.to] = ZoneOf[c.from]
               /\ ~c.copy /\ c.op \in Replayed => ZoneOf[c.item] # ZoneOf[c.to]
    <3>1. CASE c \in calls
      BY <3>1 DEF Labels, Labelled
    <3>2. CASE c \notin calls
      <4>1. PICK m \in to : c = Call(n, req, m)
        BY <1>1, <3>2
      <4>2. c.op = op /\ c.item = item /\ c.from = n /\ c.to = m
        BY <4>1, <1>7
      <4>3. c.copy = (op \in Replayed /\ ZoneOf[m] = ZoneOf[n])
        BY <4>1, <1>7
      <4>4. c.copy <=> c.op \in Replayed /\ ZoneOf[c.to] = ZoneOf[c.from]
        BY <4>2, <4>3
      <4>5. ASSUME ~c.copy, c.op \in Replayed PROVE ZoneOf[c.item] # ZoneOf[c.to]
        BY <2>1, <4>2, <4>3, <4>5
      <4> QED
        BY <4>4, <4>5
    <3> QED
      BY <3>1, <3>2
  <2> QED
    BY <2>2 DEF Labelled
<1>10. FirstInZone'
  <2>1. ASSUME NEW m \in to, NEW k \in to, ZoneOf[m] # ZoneOf[n], ZoneOf[k] = ZoneOf[m]
        PROVE  k = m
    BY <2>1, OneRecipientOutside
  <2> SUFFICES ASSUME NEW c \in calls', ~c.copy, c.op \in Replayed
               PROVE  /\ \A d \in calls' : d.id = c.id /\ ZoneOf[d.to] = ZoneOf[c.to] => d = c
                      /\ \A h \in handled' : h[2] = c.id => ZoneOf[h[1]] # ZoneOf[c.to]
    BY DEF FirstInZone
  <2>2. CASE c \in calls
    BY <1>1, <1>3, <1>5, <1>7, <2>2 DEF Labels, FirstInZone
  <2>3. CASE c \notin calls
    <3>1. PICK m \in to : c = Call(n, req, m)
      BY <1>1, <2>3
    <3>2. ZoneOf[m] # ZoneOf[n]
      BY <3>1, <1>7
    <3>3. \A d \in calls' : d.id = c.id /\ ZoneOf[d.to] = ZoneOf[c.to] => d = c
      BY <1>1, <1>5, <1>7, <2>1, <3>1, <3>2
    <3>4. \A h \in handled' : h[2] = c.id => ZoneOf[h[1]] # ZoneOf[c.to]
      BY <1>3, <1>6, <1>7, <3>1, <3>2
    <3> QED
      BY <3>3, <3>4
  <2> QED
    BY <2>2, <2>3
<1>11. NoEcho'
  <2>1. \A c \in calls' : c.op # "Set" => <<c.to, c.id>> \notin handled'
    <3>1. \A c \in calls : c.op # "Set" => <<c.to, c.id>> \notin handled \cup {<<n, requests + 1>>}
      BY <1>5 DEF Labels, NoEcho
    <3>2. ASSUME NEW m \in to PROVE <<m, requests + 1>> \notin handled \cup {<<n, requests + 1>>}
      <4>1. <<m, requests + 1>> \notin handled
        <5> DEFINE h == <<m, requests + 1>>
        <5>1. h[2] = requests + 1
          OBVIOUS
        <5> QED
          BY <5>1, <1>6
      <4>2. m # n
        BY <1>2
      <4> QED
        BY <4>1, <4>2
    <3>3. ASSUME NEW c \in calls', c.op # "Set"
          PROVE  <<c.to, c.id>> \notin handled \cup {<<n, requests + 1>>}
      <4>1. CASE c \in calls
        BY <3>1, <3>3, <4>1
      <4>2. CASE c \in {Call(n, req, m) : m \in to}
        <5>1. PICK m \in to : c = Call(n, req, m)
          BY <4>2
        <5>2. c.to = m /\ c.id = requests + 1
          BY <5>1, <1>7
        <5> QED
          BY <5>2, <3>2
      <4> QED
        BY <1>1, <4>1, <4>2
    <3> QED
      BY <1>3, <3>3
  <2>2. \A c, d \in calls' : c.op # "Set" /\ c.id = d.id /\ c.to = d.to => c = d
    BY <1>1, <1>5, <1>7 DEF Labels, NoEcho
  <2> QED
    BY <2>1, <2>2 DEF NoEcho
<1> QED
  BY <1>o, <1>8, <1>9, <1>10, <1>11 DEF Labels

\* A call is passed on inside the zone of its receiver only, but for a Set.
LEMMA DeliverPasses ==
  ASSUME TypeOK, Labels, NEW c \in calls, Deliver(c)
  PROVE  \E to \in SUBSET (Nodes \ {c.to}) :
           /\ to \in Recipients(c.to, c)
           /\ calls' = (calls \ {c}) \cup {Call(c.to, c, m) : m \in to}
           /\ \A m \in to :
                c.op # "Set" => ~c.copy /\ c.op \in Replayed /\ ZoneOf[m] = ZoneOf[c.to]
<1> DEFINE n == c.to
<1>1. PICK to \in Recipients(n, c) : calls' = (calls \ {c}) \cup {Call(n, c, m) : m \in to}
  BY DEF Deliver, Handle
<1>2. c \in CallType /\ n \in Nodes
  BY DEF TypeOK, CallType
<1>3. to \subseteq Nodes \ {n}
  BY <1>2, RecipientsAreOthers DEF TypeOK
<1>4. c.copy => to = {}
  BY <1>1, RecipientsOfCopy
<1>5. c.op = "Register" => to = {}
  BY <1>1, <1>2 DEF Recipients, Accepted, Dropped, CallType
<1>6. ~c.copy /\ c.op \in Replayed => \A m \in to : ZoneOf[m] = ZoneOf[n]
  <2> SUFFICES ASSUME ~c.copy, c.op \in Replayed PROVE OtherZone(n, c)
    BY <1>1, RecipientsInside
  <2> QED
    BY DEF OtherZone, Labels, Labelled, Replayed
<1>7. c.op \in Replayed \cup {"Register", "Set"}
  BY <1>2 DEF CallType, Ops, Replayed
<1> QED
  BY <1>1, <1>3, <1>4, <1>5, <1>6, <1>7

\* A Set goes on with its number to anybody, and disturbs no other request.
LEMMA DeliverSetLabels ==
  ASSUME TypeOK, Labels, NEW c \in calls, Deliver(c), c.op = "Set"
  PROVE  Labels'
<1>1. PICK to : calls' = (calls \ {c}) \cup {Call(c.to, c, m) : m \in to}
  BY DEF Deliver, Handle
<1>2. \A m \in to : LET d == Call(c.to, c, m)
                     IN d.id = c.id /\ d.op = "Set" /\ d.copy = FALSE
  BY DEF Call
<1>3. handled' \subseteq handled /\ requests' = requests
  BY DEF Deliver, Handle, counters
<1>4. \A d \in calls' : d \in calls \/ (d.id = c.id /\ d.op = "Set" /\ d.copy = FALSE)
  BY <1>1, <1>2
<1>5. \A d \in calls : d.op # "Set" => d.id # c.id
  BY DEF Labels, OneOp
<1>6. Known' /\ OneOp'
  BY <1>3, <1>4 DEF Labels, Known, OneOp
<1>7. Labelled'
  BY <1>4 DEF Labels, Labelled, Replayed
<1>8. FirstInZone'
  BY <1>3, <1>4, <1>5 DEF Labels, FirstInZone, Replayed
<1>9. NoEcho'
  BY <1>3, <1>4, <1>5 DEF Labels, NoEcho
<1> QED
  BY <1>6, <1>7, <1>8, <1>9 DEF Labels

\* A call that is a copy is passed on to nobody; one that is not, to the zone
\* of its receiver, which has seen nothing of the request.
LEMMA DeliverLabels ==
  ASSUME TypeOK, Labels, NEW c \in calls, Deliver(c), c.op # "Set"
  PROVE  Labels'
<1> DEFINE n == c.to
<1>1. PICK to \in SUBSET (Nodes \ {n}) :
        /\ calls' = (calls \ {c}) \cup {Call(n, c, m) : m \in to}
        /\ \A m \in to : ~c.copy /\ c.op \in Replayed /\ ZoneOf[m] = ZoneOf[n]
  BY DeliverPasses
<1>4. handled' \subseteq handled \cup {<<n, c.id>>} /\ requests' = requests
  BY DEF Deliver, Handle, counters
<1>7. \A m \in to : LET d == Call(n, c, m)
                     IN /\ d.id = c.id /\ d.op = c.op /\ d.to = m /\ d.from = n /\ d.copy
                        /\ d.op \in Replayed /\ ZoneOf[m] = ZoneOf[n]
  BY <1>1 DEF Call, Replayed
<1>8. \A m \in to : /\ ~c.copy /\ c.op \in Replayed
                     /\ \A d \in calls \ {c} : d.id = c.id => ZoneOf[d.to] # ZoneOf[m]
  BY <1>1 DEF Labels, FirstInZone
<1>9. ASSUME NEW m \in to, NEW h \in handled, h[2] = c.id PROVE ZoneOf[h[1]] # ZoneOf[m]
  BY <1>1, <1>9 DEF Labels, FirstInZone
<1>10. Known' /\ OneOp'
  BY <1>1, <1>4, <1>7 DEF Labels, Known, OneOp
<1>11. Labelled'
  BY <1>1, <1>7 DEF Labels, Labelled
<1>12. FirstInZone'
  <2> SUFFICES ASSUME NEW d \in calls', ~d.copy, d.op \in Replayed
               PROVE  /\ \A e \in calls' : e.id = d.id /\ ZoneOf[e.to] = ZoneOf[d.to] => e = d
                      /\ \A h \in handled' : h[2] = d.id => ZoneOf[h[1]] # ZoneOf[d.to]
    BY DEF FirstInZone
  <2>1. d \in calls \ {c}
    BY <1>1, <1>7
  <2>2. \A e \in calls : e.id = d.id /\ ZoneOf[e.to] = ZoneOf[d.to] => e = d
    BY <2>1 DEF Labels, FirstInZone
  <2>3. \A e \in calls' : e.id = d.id /\ ZoneOf[e.to] = ZoneOf[d.to] => e = d
    BY <1>1, <1>7, <1>8, <2>1, <2>2
  <2>4. \A h \in handled' : h[2] = d.id => ZoneOf[h[1]] # ZoneOf[d.to]
    BY <1>4, <2>1, <2>2 DEF Labels, FirstInZone
  <2> QED
    BY <2>3, <2>4
<1>13. NoEcho'
  <2>1. \A d \in calls' : d.op # "Set" => <<d.to, d.id>> \notin handled'
    <3>1. \A d \in calls \ {c} : d.op # "Set" => <<d.to, d.id>> \notin handled \cup {<<n, c.id>>}
      BY DEF Labels, NoEcho
    <3>2. ASSUME NEW m \in to PROVE <<m, c.id>> \notin handled \cup {<<n, c.id>>}
      <4>1. <<m, c.id>> \notin handled
        <5>1. ASSUME NEW h \in handled, h = <<m, c.id>> PROVE FALSE
          <6>1. h[1] = m /\ h[2] = c.id
            BY <5>1
          <6> QED
            BY <1>9, <6>1
        <5> QED
          BY <5>1
      <4>2. m # n
        BY <1>1
      <4> QED
        BY <4>1, <4>2
    <3>3. ASSUME NEW d \in calls', d.op # "Set"
          PROVE  <<d.to, d.id>> \notin handled \cup {<<n, c.id>>}
      <4>1. CASE d \in calls \ {c}
        BY <3>1, <3>3, <4>1
      <4>2. CASE d \in {Call(n, c, m) : m \in to}
        <5>1. PICK m \in to : d = Call(n, c, m)
          BY <4>2
        <5>2. d.to = m /\ d.id = c.id
          BY <5>1, <1>7
        <5> QED
          BY <5>2, <3>2
      <4> QED
        BY <1>1, <4>1, <4>2
    <3> QED
      BY <1>4, <3>3
  <2>2. \A d, e \in calls' : d.op # "Set" /\ d.id = e.id /\ d.to = e.to => d = e
    BY <1>1, <1>7, <1>8 DEF Labels, NoEcho
  <2> QED
    BY <2>1, <2>2 DEF NoEcho
<1> QED
  BY <1>10, <1>11, <1>12, <1>13 DEF Labels

LEMMA NextLabels == TypeOK /\ Labels /\ [Next]_vars => Labels'
<1> SUFFICES ASSUME TypeOK, Labels, [Next]_vars PROVE Labels'
  OBVIOUS
<1>1. CASE \E n \in Nodes : Request(n) \/ Heartbeat(n) \/ RegSelf(n) \/ Stop(n)
  <2>1. \E n \in Nodes, op \in Ops, item \in Items : Originate(n, op, item)
    BY <1>1 DEF Request, Heartbeat, RegSelf, Stop, Ops, Items
  <2> QED
    BY <2>1, OriginateLabels
<1>2. CASE \E c \in calls : Deliver(c)
  BY <1>2, DeliverSetLabels, DeliverLabels
<1>3. CASE \/ \E n \in Nodes : Start(n) \/ Copy(n) \/ Miss(n) \/ Serve(n)
           \/ \E n \in Nodes : ExitProtect(n) \/ DelZone(n) \/ Refresh(n) \/ Exit(n)
           \/ \E c \in calls : Fail(c)
           \/ UNCHANGED vars
  <2>1. calls' \subseteq calls /\ handled' \subseteq handled /\ requests' = requests
    BY <1>3 DEF Start, Copy, Miss, Serve, ExitProtect, DelZone, Refresh, Exit, Fail, vars, counters, history
  <2> QED
    BY <2>1, FewerLabels
<1> QED
  BY <1>1, <1>2, <1>3 DEF Next

\* However requests are replicated inside zones and between them, and however
\* many Sets go round meanwhile, no registration, renewal or cancellation comes
\* to a node twice.
THEOREM NoEchoes == Spec => []NoEcho
<1>1. Spec => [](TypeOK /\ Labels)
  BY InitTypeOK, NextTypeOK, InitLabels, NextLabels, PTL DEF Spec
<1>2. Labels => NoEcho
  BY DEF Labels
<1> QED
  BY <1>1, <1>2, PTL

-----------------------------------------------------------------------------
(* Who copied from a node holds it.                                        *)
(*                                                                         *)
(* In its own zone a cancellation of a node is carried by calls of that    *)
(* node only.  As long as the node has not ended, it is stopping; once it  *)
(* has, the call had reached a node that was serving, which does not copy  *)
(* any more: it has not copied from a later life of the node.              *)

SelfHeld == \A n \in Nodes : mode[n] \in {"registered", "running"} => n \in held[n]

AnswersServe == \A p \in answered : Serving(p[2])

NodeCancels ==
  \A c \in calls :
    c.op = "Cancel" /\ c.item \in Nodes /\ ZoneOf[c.to] = ZoneOf[c.item] =>
      /\ c.from = c.item
      /\ mode[c.item] = "stopping" \/ (Serving(c.to) /\ <<c.to, c.item>> \notin answered)

CopiedIsHeld ==
  \A p \in answered :
    mode[p[2]] = "running" /\ ZoneOf[p[1]] = ZoneOf[p[2]] => p[2] \in held[p[1]]

Connected == SelfHeld /\ AnswersServe /\ NodeCancels /\ CopiedIsHeld

\* A call between nodes leaves what its receiver holds, but for a cancellation.
LEMMA DeliverHolds ==
  ASSUME TypeOK, NEW c \in calls, Deliver(c)
  PROVE  /\ \A n \in Nodes : n # c.to => held'[n] = held[n]
         /\ held'[c.to] = IF c.op = "Cancel" THEN held[c.to] \ {c.item} ELSE held[c.to]
<1>1. c \in CallType
  BY DEF TypeOK
<1>2. c.to \in Nodes /\ c.peer = TRUE
  BY <1>1 DEF CallType
<1>3. Holding(c.to, c) = IF c.op = "Cancel" THEN held[c.to] \ {c.item} ELSE held[c.to]
  BY <1>2 DEF Holding, Dropped
<1> QED
  BY <1>2, <1>3 DEF Deliver, Handle, TypeOK

\* What a request that originates at n does to what the nodes hold.
LEMMA OriginateHolds ==
  ASSUME TypeOK, NEW n \in Nodes, NEW op, NEW item, Originate(n, op, item)
  PROVE  /\ \A k \in Nodes : k # n => held'[k] = held[k]
         /\ held'[n] = CASE op = "Register" -> held[n] \cup {item}
                         [] op = "Cancel" -> held[n] \ {item}
                         [] OTHER -> held[n]
<1>1. Holding(n, Original(op, item)) =
        CASE op = "Register" -> held[n] \cup {item}
          [] op = "Cancel" -> held[n] \ {item}
          [] OTHER -> held[n]
  BY DEF Holding, Original, Dropped
<1> QED
  BY <1>1 DEF Originate, Handle, TypeOK

LEMMA OriginateCalls ==
  ASSUME NEW n, NEW op, NEW item, Originate(n, op, item)
  PROVE  \E to \in Recipients(n, Original(op, item)) :
           /\ calls' = calls \cup {Call(n, Original(op, item), m) : m \in to}
           /\ \A m \in to : LET c == Call(n, Original(op, item), m)
                            IN /\ c.op = op /\ c.item = item /\ c.from = n /\ c.to = m
                               /\ c.copy = (op \in Replayed /\ ZoneOf[m] = ZoneOf[n])
<1>1. PICK to \in Recipients(n, Original(op, item)) :
        calls' = calls \cup {Call(n, Original(op, item), m) : m \in to}
  BY DEF Originate, Handle
<1>2. \A m \in to : LET c == Call(n, Original(op, item), m)
                    IN /\ c.op = op /\ c.item = item /\ c.from = n /\ c.to = m
                       /\ c.copy = (op \in Replayed /\ ZoneOf[m] = ZoneOf[n])
  BY DEF Call, Original, Replayed
<1> QED
  BY <1>1, <1>2

LEMMA InitConnected == Init => Connected
<1> SUFFICES ASSUME Init PROVE Connected
  OBVIOUS
<1>1. Settled \subseteq Nodes
  BY ClusterAssumption
<1>2. \A n \in Nodes : mode[n] \in {"registered", "running"} => n \in Settled
  BY DEF Init
<1>3. \A n \in Settled : mode[n] = "running" /\ Settled \subseteq held[n]
  BY <1>1 DEF Init
<1>4. \A p \in answered : p[1] \in Settled /\ p[2] \in Settled
  BY DEF Init
<1> QED
  BY <1>2, <1>3, <1>4 DEF Init, Connected, SelfHeld, AnswersServe, Serving, NodeCancels, CopiedIsHeld

\* Steps that neither move a node nor take a node from what another one holds.
LEMMA StillConnected ==
  ASSUME TypeOK, Connected, mode' = mode, answered' = answered,
         \A n, m \in Nodes : m \in held[n] => m \in held'[n],
         \A c \in calls' : c \in calls \/ c.op # "Cancel" \/ c.item \notin Nodes
                             \/ ZoneOf[c.to] # ZoneOf[c.item]
  PROVE  Connected'
<1>1. SelfHeld'
  BY DEF Connected, SelfHeld
<1>2. AnswersServe' /\ NodeCancels'
  BY DEF Connected, AnswersServe, NodeCancels, Serving
<1>3. CopiedIsHeld'
  <2>1. \A p \in answered : p[1] \in Nodes /\ p[2] \in Nodes
    BY DEF TypeOK
  <2> QED
    BY <2>1 DEF Connected, CopiedIsHeld
<1> QED
  BY <1>1, <1>2, <1>3 DEF Connected

LEMMA RequestConnected ==
  ASSUME TypeOK, Connected, NEW n \in Nodes, Request(n)
  PROVE  Connected'
<1>1. PICK op \in Ops, i \in Services : Originate(n, op, i)
  BY DEF Request
<1>2. mode' = mode /\ answered' = answered
  BY DEF Request
<1>3. i \notin Nodes
  BY ClusterAssumption
<1>4. \A k, m \in Nodes : m \in held[k] => m \in held'[k]
  <2>1. \A k \in Nodes : k # n => held'[k] = held[k]
    BY <1>1, OriginateHolds
  <2>2. held'[n] = held[n] \cup {i} \/ held'[n] = held[n] \ {i} \/ held'[n] = held[n]
    BY <1>1, OriginateHolds
  <2> QED
    BY <1>3, <2>1, <2>2
<1>5. \A c \in calls' : c \in calls \/ c.item = i
  BY <1>1, OriginateCalls
<1> QED
  BY <1>2, <1>3, <1>4, <1>5, StillConnected

LEMMA HeartbeatConnected ==
  ASSUME TypeOK, Connected, NEW n \in Nodes, Heartbeat(n)
  PROVE  Connected'
<1>1. PICK op \in {"Renew", "Register"} : Originate(n, op, n)
  BY DEF Heartbeat
<1>2. mode' = mode /\ answered' = answered
  BY DEF Heartbeat
<1>3. \A k, m \in Nodes : m \in held[k] => m \in held'[k]
  BY <1>1, OriginateHolds
<1>4. \A c \in calls' : c \in calls \/ c.op = op
  BY <1>1, OriginateCalls
<1> QED
  BY <1>1, <1>2, <1>3, <1>4, StillConnected

LEMMA RegSelfConnected ==
  ASSUME TypeOK, Connected, NEW n \in Nodes, RegSelf(n)
  PROVE  Connected'
<1>1. /\ Originate(n, "Register", n) /\ mode[n] = "syncing"
      /\ mode' = [mode EXCEPT ![n] = "registered"] /\ answered' = answered
  BY DEF RegSelf
<1>2. /\ \A k \in Nodes : k # n => held'[k] = held[k]
      /\ held'[n] = held[n] \cup {n}
  BY <1>1, OriginateHolds
<1>3. \A c \in calls' : c \in calls \/ c.op = "Register"
  BY <1>1, OriginateCalls
<1>4. \A k \in Nodes : mode'[k] = IF k = n THEN "registered" ELSE mode[k]
  BY <1>1 DEF TypeOK
<1>5. \A k \in Nodes : Serving(k)' <=> Serving(k)
  BY <1>1, <1>4 DEF Serving
<1>6. \A p \in answered : p[1] \in Nodes /\ p[2] \in Nodes
  BY DEF TypeOK
<1>7. SelfHeld'
  BY <1>2, <1>4 DEF Connected, SelfHeld
<1>8. AnswersServe'
  BY <1>1, <1>5, <1>6 DEF Connected, AnswersServe
<1>9. NodeCancels'
  <2>1. \A c \in calls : c.to \in Nodes
    BY DEF TypeOK, CallType
  <2> QED
    BY <1>1, <1>3, <1>4, <1>5, <2>1 DEF Connected, NodeCancels
<1>10. CopiedIsHeld'
  BY <1>1, <1>2, <1>4, <1>6 DEF Connected, CopiedIsHeld
<1> QED
  BY <1>7, <1>8, <1>9, <1>10 DEF Connected

LEMMA StopConnected ==
  ASSUME TypeOK, Connected, NEW n \in Nodes, Stop(n)
  PROVE  Connected'
<1>1. /\ Originate(n, "Cancel", n) /\ mode[n] = "running"
      /\ mode' = [mode EXCEPT ![n] = "stopping"] /\ answered' = answered
  BY DEF Stop
<1>2. /\ \A k \in Nodes : k # n => held'[k] = held[k]
      /\ held'[n] = held[n] \ {n}
  BY <1>1, OriginateHolds
<1>3. \A c \in calls' : c \in calls \/ (c.item = n /\ c.from = n)
  BY <1>1, OriginateCalls
<1>4. \A k \in Nodes : mode'[k] = IF k = n THEN "stopping" ELSE mode[k]
  BY <1>1 DEF TypeOK
<1>5. \A k \in Nodes : Serving(k)' <=> Serving(k)
  BY <1>1, <1>4 DEF Serving
<1>6. \A p \in answered : p[1] \in Nodes /\ p[2] \in Nodes
  BY DEF TypeOK
<1>7. SelfHeld'
  BY <1>2, <1>4 DEF Connected, SelfHeld
<1>8. AnswersServe'
  BY <1>1, <1>5, <1>6 DEF Connected, AnswersServe
<1>9. NodeCancels'
  <2>1. \A c \in calls : c.to \in Nodes
    BY DEF TypeOK, CallType
  <2> QED
    BY <1>1, <1>3, <1>4, <1>5, <2>1 DEF Connected, NodeCancels
<1>10. CopiedIsHeld'
  BY <1>1, <1>2, <1>4, <1>6 DEF Connected, CopiedIsHeld
<1> QED
  BY <1>7, <1>8, <1>9, <1>10 DEF Connected

LEMMA DeliverConnected ==
  ASSUME TypeOK, Labels, Connected, NEW c \in calls, Deliver(c)
  PROVE  Connected'
<1>1. mode' = mode /\ answered' = answered
  BY DEF Deliver
<1>2. c.from \in Nodes /\ c.to \in Nodes /\ c.from # c.to
  BY DEF TypeOK, CallType
<1>3. /\ \A n \in Nodes : n # c.to => held'[n] = held[n]
      /\ held'[c.to] = IF c.op = "Cancel" THEN held[c.to] \ {c.item} ELSE held[c.to]
  BY DeliverHolds
<1>4. \A d \in calls' : d \in calls \/ d.op # "Cancel" \/ ZoneOf[d.to] # ZoneOf[d.item]
  <2>1. PICK to \in SUBSET (Nodes \ {c.to}) :
          /\ calls' = (calls \ {c}) \cup {Call(c.to, c, m) : m \in to}
          /\ \A m \in to : c.op # "Set" => ~c.copy /\ ZoneOf[m] = ZoneOf[c.to]
    BY DeliverPasses
  <2>2. \A m \in to : /\ Call(c.to, c, m).op = c.op /\ Call(c.to, c, m).item = c.item
                      /\ Call(c.to, c, m).to = m
    BY DEF Call
  <2>3. ~c.copy /\ c.op = "Cancel" => ZoneOf[c.item] # ZoneOf[c.to]
    BY DEF Labels, Labelled, Replayed
  <2> QED
    BY <2>1, <2>2, <2>3
<1>5. \A p \in answered : p[1] \in Nodes /\ p[2] \in Nodes
  BY DEF TypeOK
<1>6. CASE c.op = "Cancel" /\ c.item \in Nodes /\ ZoneOf[c.to] = ZoneOf[c.item]
  <2>1. c.from = c.item
    BY <1>6 DEF Connected, NodeCancels
  <2>2. SelfHeld'
    BY <1>1, <1>2, <1>3, <1>6, <2>1 DEF Connected, SelfHeld
  <2>3. AnswersServe' /\ NodeCancels'
    BY <1>1, <1>4 DEF Connected, AnswersServe, NodeCancels, Serving
  <2>4. CopiedIsHeld'
    <3> SUFFICES ASSUME NEW p \in answered, mode[p[2]] = "running", ZoneOf[p[1]] = ZoneOf[p[2]]
                 PROVE  p[2] \in held'[p[1]]
      BY <1>1 DEF CopiedIsHeld
    <3>1. p[2] \in held[p[1]]
      BY DEF Connected, CopiedIsHeld
    <3>2. ~(p[1] = c.to /\ p[2] = c.item)
      <4>1. p = <<p[1], p[2]>>
        BY DEF TypeOK
      <4> QED
        BY <1>6, <4>1 DEF Connected, NodeCancels
    <3> QED
      BY <1>3, <1>5, <3>1, <3>2
  <2> QED
    BY <2>2, <2>3, <2>4 DEF Connected
<1>7. CASE c.op = "Cancel" /\ c.item \in Nodes /\ ZoneOf[c.to] # ZoneOf[c.item]
  <2>1. SelfHeld'
    BY <1>1, <1>3, <1>7 DEF Connected, SelfHeld
  <2>2. AnswersServe' /\ NodeCancels'
    BY <1>1, <1>4 DEF Connected, AnswersServe, NodeCancels, Serving
  <2>3. CopiedIsHeld'
    BY <1>1, <1>3, <1>5, <1>7 DEF Connected, CopiedIsHeld
  <2> QED
    BY <2>1, <2>2, <2>3 DEF Connected
<1>8. CASE c.op # "Cancel" \/ c.item \notin Nodes
  <2>1. \A n, m \in Nodes : m \in held[n] => m \in held'[n]
    BY <1>3, <1>8
  <2> QED
    BY <1>1, <1>4, <2>1, StillConnected
<1> QED
  BY <1>6, <1>7, <1>8

LEMMA StartConnected ==
  ASSUME TypeOK, Connected, NEW n \in Nodes, Start(n)
  PROVE  Connected'
<1>1. /\ mode[n] = "down" /\ mode' = [mode EXCEPT ![n] = "syncing"]
      /\ held' = held /\ calls' = calls /\ answered' = answered
  BY DEF Start
<1>2. \A k \in Nodes : mode'[k] = IF k = n THEN "syncing" ELSE mode[k]
  BY <1>1 DEF TypeOK
<1>3. \A k \in Nodes : Serving(k)' <=> Serving(k)
  BY <1>1, <1>2 DEF Serving
<1>4. \A p \in answered : p[1] \in Nodes /\ p[2] \in Nodes
  BY DEF TypeOK
<1>5. \A c \in calls : c.to \in Nodes
  BY DEF TypeOK, CallType
<1>6. SelfHeld' /\ AnswersServe'
  BY <1>1, <1>2, <1>3, <1>4 DEF Connected, SelfHeld, AnswersServe
<1>7. NodeCancels'
  BY <1>1, <1>2, <1>3, <1>5 DEF Connected, NodeCancels
<1>8. CopiedIsHeld'
  BY <1>1, <1>2, <1>4 DEF Connected, CopiedIsHeld
<1> QED
  BY <1>6, <1>7, <1>8 DEF Connected

LEMMA CopyConnected ==
  ASSUME TypeOK, Connected, NEW n \in Nodes, Copy(n)
  PROVE  Connected'
<1>1. PICK m \in todo[n] :
        /\ Serving(m)
        /\ held' = [held EXCEPT ![n] = held[n] \cup held[m]]
        /\ answered' = answered \cup {<<n, m>>}
        /\ mode' = mode /\ calls' = calls
  BY DEF Copy
<1>2. m \in Nodes /\ mode[n] = "syncing"
  BY DEF TypeOK
<1>3. /\ \A k \in Nodes : held[k] \subseteq held'[k]
      /\ held[m] \subseteq held'[n]
  BY <1>1, <1>2 DEF TypeOK
<1>4. SelfHeld'
  BY <1>1, <1>3 DEF Connected, SelfHeld
<1>5. AnswersServe'
  BY <1>1 DEF Connected, AnswersServe, Serving
<1>6. NodeCancels'
  <2>1. ~Serving(n)
    BY <1>2 DEF Serving
  <2> SUFFICES ASSUME NEW c \in calls, c.op = "Cancel", c.item \in Nodes,
                      ZoneOf[c.to] = ZoneOf[c.item]
               PROVE  /\ c.from = c.item
                      /\ mode[c.item] = "stopping"
                           \/ (Serving(c.to) /\ <<c.to, c.item>> \notin answered \cup {<<n, m>>})
    BY <1>1 DEF NodeCancels, Serving
  <2>2. /\ c.from = c.item
        /\ mode[c.item] = "stopping" \/ (Serving(c.to) /\ <<c.to, c.item>> \notin answered)
    BY DEF Connected, NodeCancels
  <2> QED
    BY <2>1, <2>2
<1>7. CopiedIsHeld'
  <2>1. \A p \in answered : p[1] \in Nodes
    BY DEF TypeOK
  <2>2. mode[m] = "running" => m \in held'[n]
    BY <1>2, <1>3 DEF Connected, SelfHeld
  <2> QED
    BY <1>1, <1>3, <2>1, <2>2 DEF Connected, CopiedIsHeld
<1> QED
  BY <1>4, <1>5, <1>6, <1>7 DEF Connected

LEMMA ServeConnected ==
  ASSUME TypeOK, Connected, NEW n \in Nodes, Serve(n)
  PROVE  Connected'
<1>1. /\ mode[n] = "registered" /\ mode' = [mode EXCEPT ![n] = "running"]
      /\ held' = held /\ calls' = calls /\ answered' = answered
  BY DEF Serve, Started, history
<1>2. \A k \in Nodes : mode'[k] = IF k = n THEN "running" ELSE mode[k]
  BY <1>1 DEF TypeOK
<1>3. \A k \in Nodes : Serving(k) => Serving(k)'
  BY <1>1, <1>2 DEF Serving
<1>4. \A p \in answered : p[1] \in Nodes /\ p[2] \in Nodes /\ p[2] # n
  BY <1>1 DEF TypeOK, Connected, AnswersServe, Serving
<1>5. \A c \in calls : c.to \in Nodes
  BY DEF TypeOK, CallType
<1>6. SelfHeld' /\ AnswersServe'
  BY <1>1, <1>2, <1>3, <1>4 DEF Connected, SelfHeld, AnswersServe
<1>7. NodeCancels'
  BY <1>1, <1>2, <1>3, <1>5 DEF Connected, NodeCancels
<1>8. CopiedIsHeld'
  BY <1>1, <1>2, <1>4 DEF Connected, CopiedIsHeld
<1> QED
  BY <1>6, <1>7, <1>8 DEF Connected

LEMMA ExitConnected ==
  ASSUME TypeOK, Connected, NEW n \in Nodes, Exit(n)
  PROVE  Connected'
<1>1. /\ mode' = [mode EXCEPT ![n] = "down"]
      /\ held' = [held EXCEPT ![n] = {}]
      /\ calls' = {c \in calls : c.to # n /\ (c.from = n => Serving(c.to))}
      /\ answered' = {p \in answered : n \notin {p[1], p[2]}}
  BY DEF Exit
<1>2. \A k \in Nodes : /\ mode'[k] = IF k = n THEN "down" ELSE mode[k]
                       /\ k # n => held'[k] = held[k]
  BY <1>1 DEF TypeOK
<1>3. \A k \in Nodes : k # n => (Serving(k)' <=> Serving(k))
  BY <1>2 DEF Serving
<1>4. \A p \in answered' : p \in answered /\ p[1] \in Nodes \ {n} /\ p[2] \in Nodes \ {n}
  BY <1>1 DEF TypeOK
<1>5. \A c \in calls' : c \in calls /\ c.to \in Nodes \ {n}
  BY <1>1 DEF TypeOK, CallType
<1>6. SelfHeld' /\ AnswersServe'
  BY <1>2, <1>3, <1>4 DEF Connected, SelfHeld, AnswersServe
<1>7. NodeCancels'
  <2> SUFFICES ASSUME NEW c \in calls', c.op = "Cancel", c.item \in Nodes,
                      ZoneOf[c.to] = ZoneOf[c.item]
               PROVE  /\ c.from = c.item
                      /\ mode'[c.item] = "stopping"
                           \/ (Serving(c.to)' /\ <<c.to, c.item>> \notin answered')
    BY DEF NodeCancels
  <2>1. /\ c.from = c.item
        /\ mode[c.item] = "stopping" \/ (Serving(c.to) /\ <<c.to, c.item>> \notin answered)
    BY <1>5 DEF Connected, NodeCancels
  <2>2. CASE c.item = n
    <3>1. Serving(c.to)'
      BY <1>1, <1>3, <1>5, <2>1, <2>2
    <3>2. <<c.to, c.item>> \notin answered'
      BY <1>4, <2>2
    <3> QED
      BY <2>1, <3>1, <3>2
  <2>3. CASE c.item # n
    BY <1>2, <1>3, <1>4, <1>5, <2>1, <2>3
  <2> QED
    BY <2>2, <2>3
<1>8. CopiedIsHeld'
  BY <1>2, <1>4 DEF Connected, CopiedIsHeld
<1> QED
  BY <1>6, <1>7, <1>8 DEF Connected

LEMMA NextConnected == TypeOK /\ Labels /\ Connected /\ [Next]_vars => Connected'
<1> SUFFICES ASSUME TypeOK, Labels, Connected, [Next]_vars PROVE Connected'
  OBVIOUS
<1>1. CASE \E n \in Nodes : Request(n) \/ Heartbeat(n) \/ RegSelf(n) \/ Stop(n)
  BY <1>1, RequestConnected, HeartbeatConnected, RegSelfConnected, StopConnected
<1>2. CASE \E n \in Nodes : Start(n) \/ Copy(n) \/ Serve(n) \/ Exit(n)
  BY <1>2, StartConnected, CopyConnected, ServeConnected, ExitConnected
<1>3. CASE \E c \in calls : Deliver(c)
  BY <1>3, DeliverConnected
<1>4. CASE \/ \E n \in Nodes : Miss(n) \/ ExitProtect(n) \/ DelZone(n) \/ Refresh(n)
           \/ \E c \in calls : Fail(c)
           \/ UNCHANGED vars
  <2>1. calls' \subseteq calls /\ mode' = mode /\ answered' = answered /\ held' = held
    BY <1>4 DEF Miss, ExitProtect, DelZone, Refresh, Fail, vars, counters, history
  <2> QED
    BY <2>1, StillConnected
<1> QED
  BY <1>1, <1>2, <1>3, <1>4 DEF Next

LEMMA ConnectedHolds == Spec => [](TypeOK /\ Labels /\ Connected)
BY InitTypeOK, NextTypeOK, InitLabels, NextLabels, InitConnected, NextConnected, PTL DEF Spec

\* And lists it, from the configured list on: a list of the zone, rebuilt from
\* what the node holds, has all the nodes of the zone that it holds.
Listing ==
  /\ \A n \in Nodes : mode[n] = "syncing" => view[n] = Nodes
  /\ \A p \in answered :
       mode[p[2]] = "running" /\ ZoneOf[p[1]] = ZoneOf[p[2]] /\ Mates(p[1], view[p[1]]) # {} =>
         p[2] \in view[p[1]]

LEMMA InitListing == Init => Listing
<1> SUFFICES ASSUME Init PROVE Listing
  OBVIOUS
<1>1. \A n \in Nodes : mode[n] # "syncing"
  BY DEF Init
<1>2. \A p \in answered : p[1] \in Settled /\ p[2] \in Settled /\ p[1] \in Nodes
  BY ClusterAssumption DEF Init
<1>3. \A p \in answered : view[p[1]] = Settled
  BY <1>2 DEF Init
<1> QED
  BY <1>1, <1>2, <1>3 DEF Listing

\* Steps that rebuild no list, copy nothing and start no node.
LEMMA StillListing ==
  ASSUME TypeOK, Connected, Listing, view' = view, answered' = answered,
         \A n \in Nodes : mode'[n] \in {mode[n], "registered", "running", "stopping"},
         \A n \in Nodes : mode'[n] = "running" => mode[n] = "running" \/ ~Serving(n)
  PROVE  Listing'
<1>1. \A p \in answered : p[1] \in Nodes /\ p[2] \in Nodes /\ Serving(p[2])
  BY DEF TypeOK, Connected, AnswersServe
<1>2. \A n \in Nodes : mode'[n] = "syncing" => mode[n] = "syncing"
  OBVIOUS
<1>3. \A p \in answered : mode'[p[2]] = "running" => mode[p[2]] = "running"
  BY <1>1
<1> QED
  BY <1>1, <1>2, <1>3 DEF Listing, Mates

LEMMA StartListing ==
  ASSUME TypeOK, Listing, NEW n \in Nodes, Start(n)
  PROVE  Listing'
<1> USE DEF TypeOK
<1>0. /\ mode[n] = "down" /\ answered' = answered
      /\ mode' = [mode EXCEPT ![n] = "syncing"] /\ view' = [view EXCEPT ![n] = Nodes]
  BY DEF Start
<1>1. \A k \in Nodes : /\ mode'[k] = IF k = n THEN "syncing" ELSE mode[k]
                       /\ view'[k] = IF k = n THEN Nodes ELSE view[k]
  BY <1>0
<1>2. \A p \in answered : p[1] \in Nodes /\ p[2] \in Nodes
  OBVIOUS
<1> QED
  BY <1>0, <1>1, <1>2 DEF Listing

LEMMA CopyListing ==
  ASSUME TypeOK, Listing, NEW n \in Nodes, Copy(n)
  PROVE  Listing'
<1>1. PICK m \in todo[n] : answered' = answered \cup {<<n, m>>} /\ mode' = mode /\ view' = view
  BY DEF Copy
<1>2. m \in Nodes /\ view[n] = Nodes
  BY DEF TypeOK, Listing
<1> QED
  BY <1>1, <1>2 DEF Listing, Mates

LEMMA RefreshListing ==
  ASSUME TypeOK, Connected, Listing, NEW n \in Nodes, Refresh(n)
  PROVE  Listing'
<1>1. /\ mode' = mode /\ answered' = answered /\ mode[n] # "syncing"
      /\ \A k \in Nodes : k # n => view'[k] = view[k]
  BY DEF Refresh, TypeOK, Serving, Started
<1>2. PICK nodes \in Fetched(n) : view'[n] = nodes
  BY DEF Refresh, TypeOK
<1>3. nodes = {} \/ \E m \in held[n] \cap Nodes : nodes = Mates(m, held[n] \cap Nodes)
  BY DEF Fetched
<1>4. \A p \in answered : p[1] \in Nodes /\ p[2] \in Nodes
  BY DEF TypeOK
<1>5. ASSUME NEW p \in answered, p[1] = n, mode[p[2]] = "running", ZoneOf[n] = ZoneOf[p[2]],
             Mates(n, nodes) # {}
      PROVE  p[2] \in nodes
  <2>1. PICK m \in held[n] \cap Nodes : nodes = Mates(m, held[n] \cap Nodes)
    BY <1>3, <1>5 DEF Mates
  <2>2. ZoneOf[m] = ZoneOf[n]
    BY <1>5, <2>1 DEF Mates
  <2>3. p[2] \in held[n]
    BY <1>5 DEF Connected, CopiedIsHeld
  <2> QED
    BY <1>4, <1>5, <2>1, <2>2, <2>3 DEF Mates
<1>6. \A k \in Nodes : mode'[k] = "syncing" => view'[k] = Nodes
  BY <1>1 DEF Listing
<1>7. ASSUME NEW p \in answered', mode'[p[2]] = "running", ZoneOf[p[1]] = ZoneOf[p[2]],
             Mates(p[1], view'[p[1]]) # {}
      PROVE  p[2] \in view'[p[1]]
  <2>1. CASE p[1] = n
    BY <1>1, <1>2, <1>5, <1>7, <2>1
  <2>2. CASE p[1] # n
    BY <1>1, <1>4, <1>7, <2>2 DEF Listing
  <2> QED
    BY <2>1, <2>2
<1> QED
  BY <1>6, <1>7 DEF Listing, Mates

LEMMA ExitListing ==
  ASSUME TypeOK, Listing, NEW n \in Nodes, Exit(n)
  PROVE  Listing'
<1>0. /\ answered' = {p \in answered : n \notin {p[1], p[2]}}
      /\ mode' = [mode EXCEPT ![n] = "down"] /\ view' = [view EXCEPT ![n] = {}]
  BY DEF Exit
<1>1. \A k \in Nodes : /\ mode'[k] = IF k = n THEN "down" ELSE mode[k]
                       /\ k # n => view'[k] = view[k]
  BY <1>0 DEF TypeOK
<1>2. \A p \in answered' : p \in answered /\ p[1] \in Nodes \ {n} /\ p[2] \in Nodes \ {n}
  BY <1>0 DEF TypeOK
<1>3. \A k \in Nodes : mode'[k] = "syncing" => view'[k] = Nodes
  BY <1>1 DEF Listing
<1>4. ASSUME NEW p \in answered', mode'[p[2]] = "running", ZoneOf[p[1]] = ZoneOf[p[2]],
             Mates(p[1], view'[p[1]]) # {}
      PROVE  p[2] \in view'[p[1]]
  BY <1>1, <1>2, <1>4 DEF Listing
<1> QED
  BY <1>3, <1>4 DEF Listing, Mates

LEMMA NextListing == TypeOK /\ Connected /\ Listing /\ [Next]_vars => Listing'
<1> SUFFICES ASSUME TypeOK, Connected, Listing, [Next]_vars PROVE Listing'
  OBVIOUS
<1>1. CASE \E n \in Nodes : Start(n) \/ Copy(n) \/ Refresh(n) \/ Exit(n)
  BY <1>1, StartListing, CopyListing, RefreshListing, ExitListing
<1>2. CASE \/ \E n \in Nodes : \/ Request(n) \/ Heartbeat(n) \/ Miss(n)
                                \/ ExitProtect(n) \/ DelZone(n)
           \/ \E c \in calls : Deliver(c) \/ Fail(c)
           \/ UNCHANGED vars
  <2>1. view' = view /\ answered' = answered /\ mode' = mode
    BY <1>2 DEF Request, Heartbeat, Miss, ExitProtect, DelZone, Deliver, Fail, vars, counters, history
  <2> QED
    BY <2>1, StillListing
<1>3. ASSUME NEW n \in Nodes, RegSelf(n) \/ Serve(n) \/ Stop(n) PROVE Listing'
  <2>1. view' = view /\ answered' = answered
    BY <1>3 DEF RegSelf, Serve, Stop, history
  <2>2. \A k \in Nodes : k # n => mode'[k] = mode[k]
    BY <1>3 DEF RegSelf, Serve, Stop, TypeOK
  <2>3. mode'[n] \in {"registered", "running", "stopping"}
    BY <1>3 DEF RegSelf, Serve, Stop, TypeOK
  <2>4. mode'[n] = "running" => ~Serving(n)
    BY <1>3 DEF RegSelf, Serve, Started, Stop, TypeOK, Serving
  <2> QED
    BY <2>1, <2>2, <2>3, <2>4, StillListing
<1> QED
  BY <1>1, <1>2, <1>3 DEF Next

\* However often nodes start, stop and crash and whatever lists are rebuilt, a
\* node holds the nodes of its zone that it copied from until they stop, and
\* lists them whenever it lists its zone at all.
THEOREM CopiesStayListed == Spec => []CopiedIsListed
<1>1. Spec => [](TypeOK /\ Connected /\ Listing)
  BY ConnectedHolds, InitListing, NextListing, PTL DEF Spec
<1>2. Connected /\ Listing => CopiedIsListed
  BY DEF Connected, CopiedIsHeld, Listing, CopiedIsListed
<1> QED
  BY <1>1, <1>2, PTL

-----------------------------------------------------------------------------
(* A cancellation spreads.                                                 *)
(*                                                                         *)
(* A node that a cancellation has to reach has got it and serves, so that  *)
(* it does not copy the instance again, or a call brings it, or it is      *)
(* brought by the one call of the cancellation to its zone, whose receiver *)
(* will pass it on.                                                        *)

CancelOf(i, c) == c.op = "Cancel" /\ c.item = i

ToPassOn(p) ==
  \E c \in calls :
    /\ CancelOf(p[1], c) /\ ~c.copy
    /\ ZoneOf[c.to] = ZoneOf[p[2]] /\ p[1] \in held[c.to] /\ p[2] \in view[c.to]
    /\ \A d \in calls : CancelOf(p[1], d) /\ ZoneOf[d.to] = ZoneOf[p[2]] => d = c

Spread(p) == Reached(p) \/ ToPassOn(p)

Spreading == \A p \in erased : Spread(p)

\* A step changes nothing about the cancellation of i: where i is held, but for
\* nodes that do not serve, and the calls that cancel it.
SameFor(i) ==
  /\ \A n \in Nodes : /\ i \in held[n] => i \in held'[n]
                      /\ Serving(n) /\ i \notin held[n] => i \notin held'[n]
  /\ \A c \in calls : CancelOf(i, c) => c \in calls'
  /\ \A c \in calls' : CancelOf(i, c) => c \in calls

LEMMA SpreadStays ==
  ASSUME TypeOK, NEW p \in Services \X Nodes, Spread(p), SameFor(p[1]), view' = view,
         \A n \in Nodes : Serving(n) => Serving(n)'
  PROVE  Spread(p)'
<1>1. \A c \in calls : c.to \in Nodes
  BY DEF TypeOK, CallType
<1>2. CASE Serving(p[2]) /\ p[1] \notin held[p[2]]
  BY <1>2 DEF SameFor, Spread, Reached
<1>3. CASE CancelOnItsWay(p[1], p[2])
  BY <1>3 DEF SameFor, Spread, Reached, CancelOnItsWay, CancelOf
<1>4. CASE ToPassOn(p)
  <2>1. PICK c \in calls :
          /\ CancelOf(p[1], c) /\ ~c.copy
          /\ ZoneOf[c.to] = ZoneOf[p[2]] /\ p[1] \in held[c.to] /\ p[2] \in view[c.to]
          /\ \A d \in calls : CancelOf(p[1], d) /\ ZoneOf[d.to] = ZoneOf[p[2]] => d = c
    BY <1>4 DEF ToPassOn
  <2>2. c \in calls' /\ p[1] \in held'[c.to] /\ p[2] \in view'[c.to]
    BY <1>1, <2>1 DEF SameFor
  <2>3. \A d \in calls' : CancelOf(p[1], d) /\ ZoneOf[d.to] = ZoneOf[p[2]] => d = c
    BY <2>1 DEF SameFor
  <2>4. ToPassOn(p)'
    BY <2>1, <2>2, <2>3 DEF ToPassOn, CancelOf
  <2> QED
    BY <2>4 DEF Spread
<1> QED
  BY <1>2, <1>3, <1>4 DEF Spread, Reached

LEMMA ErasedPairs ==
  ASSUME TypeOK, NEW p \in erased
  PROVE  p \in Services \X Nodes /\ p[1] \in Services /\ p[2] \in Nodes /\ p = <<p[1], p[2]>>
BY DEF TypeOK

\* Steps that change nothing about the cancellations that are recorded.
LEMMA StillSpreading ==
  ASSUME TypeOK, Spreading, erased' \subseteq erased, view' = view,
         \A n \in Nodes : Serving(n) => Serving(n)',
         \A p \in erased' : SameFor(p[1])
  PROVE  Spreading'
BY SpreadStays, ErasedPairs DEF Spreading

LEMMA ServingSame ==
  ASSUME mode' = mode
  PROVE  \A n : Serving(n)' <=> Serving(n)
BY DEF Serving

LEMMA OriginateSpreading ==
  ASSUME TypeOK, Spreading, NEW n \in Nodes, NEW op, NEW item, Originate(n, op, item),
         op = "Cancel" \/ op = "Register" => item \notin Services,
         erased' = erased, view' = view, \A k \in Nodes : Serving(k) => Serving(k)'
  PROVE  Spreading'
<1>1. \A i \in Services, k \in Nodes : i \in held[k] <=> i \in held'[k]
  <2>1. \A k \in Nodes : k # n => held'[k] = held[k]
    BY OriginateHolds
  <2>2. held'[n] = CASE op = "Register" -> held[n] \cup {item}
                     [] op = "Cancel" -> held[n] \ {item}
                     [] OTHER -> held[n]
    BY OriginateHolds
  <2>3. \A i \in Services : i \in held[n] <=> i \in held'[n]
    BY <2>2
  <2> QED
    BY <2>1, <2>3
<1>2. calls \subseteq calls' /\ \A c \in calls' : c \in calls \/ (c.op = op /\ c.item = item)
  BY OriginateCalls
<1>3. \A p \in erased' : SameFor(p[1])
  BY <1>1, <1>2, ErasedPairs DEF SameFor, CancelOf
<1> QED
  BY <1>3, StillSpreading

LEMMA FailSpreading ==
  ASSUME TypeOK, Spreading, NEW c \in calls, Fail(c)
  PROVE  Spreading'
<1>1. /\ calls' = calls \ {c} /\ mode' = mode /\ held' = held /\ view' = view
      /\ erased' = IF c.op = "Cancel" THEN {p \in erased : p[1] # c.item} ELSE erased
  BY DEF Fail
<1>2. \A p \in erased' : SameFor(p[1])
  BY <1>1 DEF SameFor, CancelOf
<1> QED
  BY <1>1, <1>2, StillSpreading, ServingSame

LEMMA CopySpreading ==
  ASSUME TypeOK, Spreading, NEW n \in Nodes, Copy(n)
  PROVE  Spreading'
<1>1. PICK m \in todo[n] :
        /\ held' = [held EXCEPT ![n] = held[n] \cup held[m]]
        /\ mode' = mode /\ view' = view /\ calls' = calls /\ erased' = erased
  BY DEF Copy
<1>2. ~Serving(n)
  BY DEF TypeOK, Serving
<1>3. \A p \in erased' : SameFor(p[1])
  BY <1>1, <1>2 DEF SameFor, TypeOK
<1> QED
  BY <1>1, <1>3, StillSpreading, ServingSame

LEMMA ServeSpreading ==
  ASSUME TypeOK, Spreading, NEW n \in Nodes, Serve(n)
  PROVE  Spreading'
<1>1. /\ mode' = [mode EXCEPT ![n] = "running"] /\ held' = held /\ view' = view
      /\ calls' = calls /\ erased' = erased
  BY DEF Serve, history
<1>2. \A k \in Nodes : Serving(k) => Serving(k)'
  BY <1>1 DEF Serving, TypeOK
<1>3. \A p \in erased' : SameFor(p[1])
  BY <1>1 DEF SameFor
<1> QED
  BY <1>1, <1>2, <1>3, StillSpreading

\* A node that is to pass a cancellation on keeps listing whom it is to reach.
LEMMA RefreshSpreading ==
  ASSUME TypeOK, Spreading, NEW n \in Nodes, Refresh(n)
  PROVE  Spreading'
<1>1. /\ mode' = mode /\ held' = held /\ calls' = calls
      /\ \A k \in Nodes : k # n => view'[k] = view[k]
      /\ erased' = {p \in erased :
                      \/ p[2] = n \/ p[2] \notin Mates(n, Nodes) \/ p[2] \in view'[n]
                      \/ ~CancelOnItsWay(p[1], n)}
  <2>1. PICK nodes \in Fetched(n) : view' = [view EXCEPT ![n] = nodes]
    BY DEF Refresh
  <2> QED
    BY <2>1 DEF Refresh, TypeOK
<1> SUFFICES ASSUME NEW p \in erased' PROVE Spread(p)'
  BY DEF Spreading
<1>2. p \in erased /\ Spread(p) /\ p[1] \in Services /\ p[2] \in Nodes
  BY <1>1, ErasedPairs DEF Spreading
<1>3. ASSUME Reached(p) PROVE Spread(p)'
  BY <1>1, <1>3 DEF Spread, Reached, CancelOnItsWay, Serving
<1>4. ASSUME ToPassOn(p) PROVE Spread(p)'
  <2>1. PICK c \in calls :
          /\ CancelOf(p[1], c) /\ ~c.copy
          /\ ZoneOf[c.to] = ZoneOf[p[2]] /\ p[1] \in held[c.to] /\ p[2] \in view[c.to]
          /\ \A d \in calls : CancelOf(p[1], d) /\ ZoneOf[d.to] = ZoneOf[p[2]] => d = c
    BY <1>4 DEF ToPassOn
  <2>2. c.to \in Nodes
    BY DEF TypeOK, CallType
  <2>3. CASE p[2] \in view'[c.to]
    BY <1>1, <2>1, <2>3 DEF Spread, ToPassOn
  <2>4. CASE c.to = n /\ p[2] \notin view'[n]
    <3>1. CancelOnItsWay(p[1], n)
      BY <2>1, <2>4 DEF CancelOnItsWay, CancelOf
    <3>2. p[2] = n
      BY <1>1, <1>2, <2>1, <2>4, <3>1 DEF Mates
    <3> QED
      BY <1>3, <3>1, <3>2 DEF Reached
  <2> QED
    BY <1>1, <2>1, <2>2, <2>3, <2>4
<1> QED
  BY <1>2, <1>3, <1>4 DEF Spread

\* Whoever is to pass the cancellation on does so when its call arrives.
LEMMA DeliverSpreading ==
  ASSUME TypeOK, Labels, Spreading, NEW c \in calls, Deliver(c)
  PROVE  Spreading'
<1> DEFINE y == c.to
<1>1. mode' = mode /\ view' = view /\ erased' = erased /\ Serving(y)
  BY DEF Deliver
<1>2. y \in Nodes /\ \A d \in calls : d.to \in Nodes
  BY DEF TypeOK, CallType
<1>3. /\ \A n \in Nodes : n # y => held'[n] = held[n]
      /\ held'[y] = IF c.op = "Cancel" THEN held[y] \ {c.item} ELSE held[y]
  BY DeliverHolds
<1>4. PICK to \in SUBSET (Nodes \ {y}) :
        /\ to \in Recipients(y, c)
        /\ calls' = (calls \ {c}) \cup {Call(y, c, m) : m \in to}
        /\ \A m \in to : c.op # "Set" => ~c.copy /\ ZoneOf[m] = ZoneOf[y]
  BY DeliverPasses
<1>5. \A m \in to : /\ Call(y, c, m).op = c.op /\ Call(y, c, m).item = c.item
                    /\ Call(y, c, m).to = m
  BY DEF Call
<1> HIDE DEF y
<1> SUFFICES ASSUME NEW p \in erased PROVE Spread(p)'
  BY <1>1 DEF Spreading
<1> DEFINE i == p[1]
           x == p[2]
<1>6. i \in Services /\ x \in Nodes /\ p \in Services \X Nodes /\ Spread(p)
  BY ErasedPairs DEF Spreading
<1>7. CASE ~CancelOf(i, c)
  <2>1. SameFor(i)
    BY <1>3, <1>4, <1>5, <1>7 DEF SameFor, CancelOf
  <2> QED
    BY <1>1, <1>6, <2>1, SpreadStays, ServingSame
<1>8. CASE CancelOf(i, c)
  <2>1. /\ i \notin held'[y]
        /\ \A n \in Nodes : i \in held'[n] => i \in held[n]
        /\ Serving(y)' /\ (Serving(x)' <=> Serving(x))
    BY <1>1, <1>3, <1>8, ServingSame DEF CancelOf
  <2>2. CASE Serving(x) /\ i \notin held[x]
    BY <1>6, <2>1, <2>2 DEF Spread, Reached
  <2>3. CASE CancelOnItsWay(i, x)
    <3>1. PICK d \in calls : CancelOf(i, d) /\ d.to = x
      BY <2>3 DEF CancelOnItsWay, CancelOf
    <3>2. CASE d = c
      BY <2>1, <3>1, <3>2 DEF Spread, Reached, y
    <3>3. CASE d # c
      <4>1. CancelOnItsWay(i, x)'
        BY <1>4, <3>1, <3>3 DEF CancelOnItsWay, CancelOf
      <4> QED
        BY <4>1 DEF Spread, Reached
    <3> QED
      BY <3>2, <3>3
  <2>4. CASE ToPassOn(p)
    <3>1. PICK d \in calls :
            /\ CancelOf(i, d) /\ ~d.copy
            /\ ZoneOf[d.to] = ZoneOf[x] /\ i \in held[d.to] /\ x \in view[d.to]
            /\ \A e \in calls : CancelOf(i, e) /\ ZoneOf[e.to] = ZoneOf[x] => e = d
      BY <2>4 DEF ToPassOn
    <3>2. CASE d = c /\ x = y
      BY <2>1, <3>2 DEF Spread, Reached
    <3>3. CASE d = c /\ x # y
      <4>1. c.op = "Cancel" /\ c.item = i /\ ~c.copy /\ i \in held[y] /\ x \in Mates(y, view[y])
        BY <1>8, <3>1, <3>3 DEF CancelOf, Mates, y
      <4>2. OtherZone(y, c)
        BY <4>1 DEF OtherZone, Labels, Labelled, Replayed, y
      <4>3. to = Mates(y, view[y]) \ {y}
        BY <1>4, <4>1, <4>2 DEF Recipients, Accepted, Targets
      <4>4. Call(y, c, x) \in calls' /\ CancelOf(i, Call(y, c, x)) /\ Call(y, c, x).to = x
        BY <1>4, <1>5, <3>3, <4>1, <4>3 DEF CancelOf
      <4>5. CancelOnItsWay(i, x)'
        BY <4>4 DEF CancelOnItsWay, CancelOf
      <4> QED
        BY <4>5 DEF Spread, Reached
    <3>4. CASE d # c
      <4>1. ZoneOf[y] # ZoneOf[x]
        BY <1>8, <3>1, <3>4 DEF y
      <4>2. d \in calls' /\ i \in held'[d.to] /\ x \in view'[d.to]
        BY <1>1, <1>2, <1>3, <1>4, <3>1, <3>4, <4>1
      <4>3. \A e \in calls' : CancelOf(i, e) /\ ZoneOf[e.to] = ZoneOf[x] => e = d
        BY <1>4, <1>5, <1>8, <3>1, <4>1 DEF CancelOf
      <4>4. ToPassOn(p)'
        BY <3>1, <4>2, <4>3 DEF ToPassOn, CancelOf
      <4> QED
        BY <4>4 DEF Spread
    <3> QED
      BY <3>2, <3>3, <3>4
  <2> QED
    BY <1>6, <2>2, <2>3, <2>4 DEF Spread, Reached
<1> QED
  BY <1>7, <1>8

\* A cancellation that begins reaches what it promises, if no other is on its way.
LEMMA CancelReaches ==
  ASSUME TypeOK, NEW n \in Nodes, NEW i \in Services, Serving(n), Originate(n, "Cancel", i),
         mode' = mode, view' = view, ~CancelInFlight(i), NEW x \in Reach(n, i)
  PROVE  Spread(<<i, x>>)'
<1> DEFINE req == Original("Cancel", i)
           mates == Mates(n, view[n])
           p == <<i, x>>
<1>1. i \in held[n] /\ req.op = "Cancel" /\ req.item = i /\ req.copy = FALSE
  <2>1. i \in held[n]
    BY DEF Reach
  <2>2. req.op = "Cancel" /\ req.item = i /\ req.copy = FALSE
    BY DEF Original
  <2> QED
    BY <2>1, <2>2
<1>2. PICK to \in Recipients(n, req) :
        /\ calls' = calls \cup {Call(n, req, m) : m \in to}
        /\ \A m \in to : LET c == Call(n, req, m)
                         IN /\ c.op = "Cancel" /\ c.item = i /\ c.from = n /\ c.to = m
                            /\ c.copy = (ZoneOf[m] = ZoneOf[n])
  BY OriginateCalls DEF Replayed
<1>3. /\ \A k \in Nodes : k # n => held'[k] = held[k]
      /\ held'[n] = held[n] \ {i}
  BY OriginateHolds
<1>4. to \in Targets(n, ZoneOf[i] # ZoneOf[n])
  BY <1>1, <1>2 DEF Recipients, Accepted, OtherZone
<1>5. \A c \in calls : ~CancelOf(i, c)
  <2>1. \A c \in calls : c.to \in Nodes
    BY DEF TypeOK, CallType
  <2> QED
    BY <2>1 DEF CancelInFlight, CancelOnItsWay, CancelOf
<1> HIDE DEF req
<1>6. p[1] = i /\ p[2] = x
  OBVIOUS
<1> HIDE DEF p
<1>7. ASSUME x \in to PROVE Spread(p)'
  <2>1. CancelOnItsWay(i, x)'
    BY <1>2, <1>7 DEF CancelOnItsWay
  <2> QED
    BY <1>6, <2>1 DEF Spread, Reached
<1>8. CASE x = n
  <2>1. Serving(n)' /\ i \notin held'[n]
    BY <1>3, ServingSame
  <2> QED
    BY <1>6, <1>8, <2>1 DEF Spread, Reached
<1>9. CASE x # n /\ x \in mates
  <2>1. mates \ {n} \subseteq to
    BY <1>4, <1>9 DEF Targets
  <2> QED
    BY <1>7, <1>9, <2>1 DEF p
<1>10. CASE x # n /\ x \notin mates
  <2>1. /\ mates # {} /\ ZoneOf[i] = ZoneOf[n] /\ x \in Nodes \ Mates(n, Nodes)
        /\ Mates(x, view[n]) # {}
        /\ \A r \in Mates(x, view[n]) : i \in held[r] /\ x \in view[r] \cup {r}
    BY <1>1, <1>10 DEF Reach
  <2>2. PICK R \in OneOfEachZone(view[n] \ mates) : to = (mates \ {n}) \cup R
    BY <1>4, <2>1 DEF Targets
  <2>3. PICK k \in Mates(x, view[n]) : TRUE
    BY <2>1
  <2>4. k \in view[n] \ mates /\ ZoneOf[k] = ZoneOf[x] /\ ZoneOf[x] # ZoneOf[n]
    BY <2>1, <2>3 DEF Mates
  <2>5. PICK r \in R : Mates(k, R) = {r}
    BY <2>4 DEF OneOfEachZone
  <2>6. r \in view[n] /\ ZoneOf[r] = ZoneOf[x] /\ r \in to
    BY <2>2, <2>4, <2>5 DEF OneOfEachZone, Mates
  <2>7. i \in held[r] /\ x \in view[r] \cup {r} /\ r \in Nodes /\ r # n
    BY <2>1, <2>4, <2>6 DEF Mates, TypeOK
  <2>8. CASE x = r
    BY <1>7, <2>6, <2>8 DEF p
  <2>9. CASE x # r
    <3> DEFINE c == Call(n, req, r)
    <3>1. c \in calls' /\ CancelOf(i, c) /\ ~c.copy /\ c.to = r
      BY <1>2, <2>4, <2>6 DEF CancelOf
    <3>2. \A d \in calls' : CancelOf(i, d) /\ ZoneOf[d.to] = ZoneOf[x] => d = c
      <4> SUFFICES ASSUME NEW d \in calls', CancelOf(i, d), ZoneOf[d.to] = ZoneOf[x]
                   PROVE  d = c
        OBVIOUS
      <4>1. PICK m \in to : d = Call(n, req, m)
        BY <1>2, <1>5
      <4>2. ZoneOf[m] = ZoneOf[r] /\ ZoneOf[r] # ZoneOf[n]
        BY <1>2, <2>4, <2>6, <4>1
      <4>3. m = r
        BY <1>2, <2>6, <4>2, OneRecipientOutside
      <4> QED
        BY <4>1, <4>3
    <3>3. i \in held'[r] /\ x \in view'[r]
      BY <1>3, <2>7, <2>9
    <3> HIDE DEF c
    <3>4. ToPassOn(p)'
      BY <1>6, <2>6, <3>1, <3>2, <3>3 DEF ToPassOn, CancelOf
    <3> QED
      BY <3>4 DEF Spread, p
  <2> QED
    BY <2>8, <2>9
<1> QED
  BY <1>8, <1>9, <1>10 DEF p

LEMMA RequestSpreading ==
  ASSUME TypeOK, Spreading, NEW n \in Nodes, Request(n)
  PROVE  Spreading'
<1>1. PICK op \in Ops, i \in Services :
        /\ Serving(n) /\ Originate(n, op, i) /\ erased' = Erased(n, op, i)
        /\ mode' = mode /\ view' = view
  BY DEF Request
<1>2. /\ \A k \in Nodes : k # n => held'[k] = held[k]
      /\ held'[n] = held[n] \cup {i} \/ held'[n] = held[n] \ {i} \/ held'[n] = held[n]
      /\ op = "Cancel" => held'[n] = held[n] \ {i}
  <2>1. \A k \in Nodes : k # n => held'[k] = held[k]
    BY <1>1, OriginateHolds
  <2>2. held'[n] = held[n] \cup {i} \/ held'[n] = held[n] \ {i} \/ held'[n] = held[n]
    BY <1>1, OriginateHolds
  <2>3. ASSUME op = "Cancel" PROVE held'[n] = held[n] \ {i}
    <3>1. held'[n] = CASE op = "Register" -> held[n] \cup {i}
                       [] op = "Cancel" -> held[n] \ {i}
                       [] OTHER -> held[n]
      BY <1>1, OriginateHolds
    <3> QED
      BY <2>3, <3>1
  <2> QED
    BY <2>1, <2>2, <2>3
<1>3. calls \subseteq calls' /\ \A c \in calls' : c \in calls \/ c.item = i
  BY <1>1, OriginateCalls
<1>4. \A j \in Services : j # i => SameFor(j)
  BY <1>2, <1>3 DEF SameFor, CancelOf
<1>s. \A k : Serving(k)' <=> Serving(k)
  BY <1>1, ServingSame
<1>5. CASE op = "Register"
  <2>1. erased' = {p \in erased : p[1] # i}
    BY <1>1, <1>5 DEF Erased
  <2>2. \A p \in erased' : SameFor(p[1])
    BY <1>4, <2>1, ErasedPairs
  <2> QED
    BY <1>1, <1>s, <2>1, <2>2, StillSpreading
<1>6. CASE op # "Register" /\ op # "Cancel"
  <2>1. erased' = erased
    BY <1>1, <1>6 DEF Erased
  <2> QED
    BY <1>1, <1>6, <1>s, <2>1, OriginateSpreading
\* A pair that was recorded before.
<1>7. ASSUME op = "Cancel", NEW p \in erased, p[1] = i => Reached(p)
      PROVE  Spread(p)'
  <2>1. p \in Services \X Nodes /\ p[1] \in Services /\ p[2] \in Nodes /\ Spread(p)
    BY ErasedPairs DEF Spreading
  <2>2. CASE p[1] # i
    BY <1>1, <1>4, <1>s, <2>1, <2>2, SpreadStays
  <2>3. CASE p[1] = i /\ Serving(p[2]) /\ i \notin held[p[2]]
    <3>1. i \notin held'[p[2]]
      BY <1>2, <1>7, <2>1, <2>3
    <3> QED
      BY <1>s, <2>3, <3>1 DEF Spread, Reached
  <2>4. CASE p[1] = i /\ CancelOnItsWay(p[1], p[2])
    <3>1. CancelOnItsWay(p[1], p[2])'
      BY <1>3, <2>4 DEF CancelOnItsWay
    <3> QED
      BY <3>1 DEF Spread, Reached
  <2> QED
    BY <1>7, <2>2, <2>3, <2>4 DEF Reached
<1>8. CASE op = "Cancel" /\ CancelInFlight(i)
  <2>1. erased' = {p \in erased : p[1] = i => Reached(p)}
    BY <1>1, <1>8 DEF Erased
  <2> QED
    BY <1>7, <1>8, <2>1 DEF Spreading
<1>9. CASE op = "Cancel" /\ ~CancelInFlight(i)
  <2>1. erased' = erased \cup {<<i, m>> : m \in Reach(n, i)}
    BY <1>1, <1>9 DEF Erased
  <2>2. ASSUME NEW p \in erased PROVE Spread(p)'
    <3>1. p[1] = i => Reached(p)
      <4>1. \A c \in calls : c.to \in Nodes
        BY DEF TypeOK, CallType
      <4>2. p[1] = i => ~ToPassOn(p)
        BY <1>9, <4>1 DEF ToPassOn, CancelOf, CancelInFlight, CancelOnItsWay
      <4> QED
        BY <4>2 DEF Spreading, Spread
    <3> QED
      BY <1>7, <1>9, <3>1
  <2>3. ASSUME NEW m \in Reach(n, i) PROVE Spread(<<i, m>>)'
    BY <1>1, <1>9, CancelReaches
  <2> QED
    BY <2>1, <2>2, <2>3 DEF Spreading
<1> QED
  BY <1>5, <1>6, <1>8, <1>9

LEMMA NextSpreading == TypeOK /\ Labels /\ Spreading /\ [Next]_vars => Spreading'
<1> SUFFICES ASSUME TypeOK, Labels, Spreading, [Next]_vars PROVE Spreading'
  OBVIOUS
<1>1. CASE \E n \in Nodes : Request(n)
  BY <1>1, RequestSpreading
<1>2. ASSUME NEW n \in Nodes, Heartbeat(n) \/ RegSelf(n) PROVE Spreading'
  <2>1. n \notin Services /\ n \in Nodes
    BY ClusterAssumption
  <2>2. \E op : Originate(n, op, n)
    BY <1>2 DEF Heartbeat, RegSelf
  <2>3. \A k \in Nodes : Serving(k) => Serving(k)'
    BY <1>2 DEF Heartbeat, RegSelf, Serving, TypeOK
  <2>4. erased' = erased /\ view' = view
    BY <1>2 DEF Heartbeat, RegSelf
  <2> QED
    BY <2>1, <2>2, <2>3, <2>4, OriginateSpreading
<1>3. CASE \E n \in Nodes : Start(n) \/ Stop(n) \/ Exit(n)
  <2>1. erased' = {}
    BY <1>3 DEF Start, Stop, Exit
  <2> QED
    BY <2>1 DEF Spreading
<1>4. CASE \E n \in Nodes : Copy(n) \/ Serve(n) \/ Refresh(n)
  BY <1>4, CopySpreading, ServeSpreading, RefreshSpreading
<1>5. CASE \E c \in calls : Deliver(c) \/ Fail(c)
  BY <1>5, DeliverSpreading, FailSpreading
<1>6. CASE (\E n \in Nodes : Miss(n) \/ ExitProtect(n) \/ DelZone(n)) \/ UNCHANGED vars
  <2>1. /\ mode' = mode /\ held' = held /\ calls' = calls /\ view' = view /\ erased' = erased
    BY <1>6 DEF Miss, ExitProtect, DelZone, vars, counters, history
  <2>2. \A p \in erased' : SameFor(p[1])
    BY <2>1 DEF SameFor
  <2> QED
    BY <2>1, <2>2, StillSpreading, ServingSame
<1> QED
  BY <1>1, <1>2, <1>3, <1>4, <1>5, <1>6 DEF Next

\* Whatever the lists of peers, the nodes that a cancellation promises to reach
\* do not hold the instance any more when its calls have been handled.
THEOREM CancelsSpread == Spec => []CancelSpreads
<1>1. Init => Spreading
  BY DEF Init, Spreading
<1>2. Spec => []Spreading
  BY <1>1, NextSpreading, ConnectedHolds, PTL DEF Spec
<1>3. TypeOK /\ Spreading => CancelSpreads
  <2> SUFFICES ASSUME TypeOK, Spreading, NEW p \in erased
               PROVE  CancelInFlight(p[1]) \/ p[1] \notin held[p[2]]
    BY DEF CancelSpreads
  <2>1. \A c \in calls : c.to \in Nodes
    BY DEF TypeOK, CallType
  <2>2. p[2] \in Nodes
    BY ErasedPairs
  <2> QED
    BY <2>1, <2>2 DEF Spreading, Spread, Reached, ToPassOn, CancelOf, CancelInFlight, CancelOnItsWay
<1> QED
  BY <1>2, <1>3, TypeCorrect, PTL

=============================================================================
