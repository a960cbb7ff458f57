------------------------------ MODULE LongPoll ------------------------------
(***************************************************************************)
(* Long polling of one key: Registry.Polls, broadcast and DelConns of      *)
(* registry/registery.go, the handlers poll and polls of                   *)
(* http/discovery.go, and the nodesproc goroutine of discovery/syncUp.go.  *)
(*                                                                         *)
(* The store is reduced to what a poller can tell: the Apps object under   *)
(* the key, its index (latestTimestamp), the App in it, of the one zone    *)
(* there is, how many instances that has, and a version that counts the    *)
(* writes to what can be fetched.  A change takes the locks one after the  *)
(* other, as in the code: a registration finds or makes its objects, moves *)
(* the index and then writes the instance; a cancellation removes it, then *)
(* moves the index, and deletes what it finds empty; a set only writes.    *)
(* Each goes on with the objects it found, also when they have left the    *)
(* store meanwhile.  Finding both objects, to read or to cancel, is one    *)
(* step.  Registry has the store in full.  Pollers name the zone they ask  *)
(* for: without one InstanceInfo keeps the instances of one zone only,     *)
(* which module Cluster has.                                               *)
(*                                                                         *)
(* Registry.conns holds a hosts object for the key; a broadcast takes it   *)
(* out and serves its connections under hclock, while pollers that looked  *)
(* it up before may still add themselves to it.  Objects and channels are  *)
(* numbered, and a number is used again when nothing refers to it.         *)
(***************************************************************************)
EXTENDS Integers, FiniteSets, Sequences

CONSTANTS Pollers,        \* clients of /poll, which poll again and again
          MultiPollers,   \* clients of /polls
          NodesProcs,     \* nodesproc goroutines
          HostOf,         \* the Hostname each of them polls with
          Publishers,     \* handlers of Register, Cancel and Set
          Changes,        \* the kinds of changes that arrive
          Initially,      \* instances registered at the start
          MaxChanges,     \* bound on the clock: 1, and one more for each change
          MaxLeft,        \* bound on what requests leave behind on a connection
          ChanCap         \* capacity of a channel (5 in the code)

Watchers == Pollers \cup MultiPollers \cup NodesProcs
HostNames == {HostOf[w] : w \in Watchers}

ASSUME LongPollAssumption ==
  /\ IsFiniteSet(Watchers) /\ IsFiniteSet(Publishers)
  /\ Changes \subseteq {"Register", "Cancel", "Set"}
  /\ Initially \in Nat /\ MaxChanges \in Nat /\ MaxLeft \in Nat
  /\ ChanCap \in Nat \ {0}

VARIABLES
  obj, app, size, latest, ver, indexed, clock, \* the store
  conns, hosts, buf,                        \* hosts object of the key, objects, channels
  ppc, job, held, left, out,                \* publishers
  wpc, seen, found, ptr, chan               \* watchers

store == <<obj, app, size, latest, ver, indexed, clock>>
wires == <<conns, hosts, buf>>
publisher == <<ppc, job, held, left, out>>
watcher == <<wpc, seen, found, ptr, chan>>
vars == <<store, wires, publisher, watcher>>

None == 0

\* The Apps and App objects, each named by the timestamp it was made with.
Objects == 0..(MaxChanges + 1)

\* A connection; gone is history, the part of its count that belongs to requests
\* which ended without being made to wait.
NoConn == [ch |-> None, count |-> 0, gone |-> 0]
NoHosts == [h \in HostNames |-> NoConn]
NoJob == [op |-> "none", ts |-> 0, obj |-> None, app |-> None, last |-> FALSE]
NoInfo == [ts |-> 0, ver |-> 0, obj |-> None, early |-> FALSE]
NoSend == [ch |-> None, info |-> NoInfo, n |-> 0]

Init ==
  /\ obj = IF Initially > 0 THEN 1 ELSE None
  /\ app = [o \in Objects |-> IF o = obj THEN obj ELSE None]
  /\ size = [a \in Objects |-> IF a = 1 THEN Initially ELSE 0]
  /\ latest = IF Initially > 0 THEN 1 ELSE 0
  /\ ver = 1 /\ indexed = 1 /\ clock = 1
  /\ conns = None
  /\ hosts = [o \in {} |-> NoHosts]
  /\ buf = [c \in {} |-> << >>]
  /\ ppc = [p \in Publishers |-> "idle"]
  /\ job = [p \in Publishers |-> NoJob]
  /\ held = [p \in Publishers |-> None]
  /\ left = [p \in Publishers |-> {}]
  /\ out = [p \in Publishers |-> NoSend]
  /\ wpc = [w \in Watchers |-> "idle"]
  /\ seen = [w \in Watchers |-> NoInfo]
  /\ found = [w \in Watchers |-> TRUE]
  /\ ptr = [w \in Watchers |-> None]
  /\ chan = [w \in Watchers |-> None]

-----------------------------------------------------------------------------
(* Objects and channels. *)

LiveHosts == {conns} \cup {ptr[w] : w \in Watchers} \cup {held[p] : p \in Publishers}
LiveChans ==
  {chan[w] : w \in Watchers} \cup {out[p].ch : p \in Publishers}
    \cup UNION {{hosts[o][h].ch : h \in HostNames} : o \in LiveHosts \ {None}}

\* A number that nothing bears; TLC takes the least one.
Fresh(live) == CHOOSE i \in 1..(Cardinality(live) + 1) : i \notin live

\* The contents after a step, without those that nothing refers to; what is
\* new is empty.
Wires(h, b) ==
  /\ hosts' = [o \in LiveHosts' \ {None} |-> IF o \in DOMAIN h THEN h[o] ELSE NoHosts]
  /\ buf' = [c \in LiveChans' \ {None} |-> IF c \in DOMAIN b THEN b[c] ELSE << >>]

\* hclock is held for reading by a broadcast.
ReadLocked(o) == \E p \in Publishers : held[p] = o /\ ppc[p] = "send"

-----------------------------------------------------------------------------
(* Changes of the store. *)

Bump(index, lts) == IF lts <= index THEN index + 1 ELSE lts

Later(a, b) == IF a > b THEN a ELSE b

\* The App that is fetched.
Here == IF obj = None THEN None ELSE app[obj]

GotoStep(p, step) ==
  /\ ppc' = [ppc EXCEPT ![p] = step]
  /\ UNCHANGED <<wires, held, left, out, watcher>>

\* The change is made, and broadcast begins.
GotoBroadcast(p) ==
  /\ job' = [job EXCEPT ![p] = NoJob]
  /\ GotoStep(p, "take")

\* A request arrives; Cancel and Set find an instance.
Arrive(p, op) ==
  /\ ppc[p] = "idle"
  /\ op \in Changes
  /\ op # "Register" => Here # None /\ size[Here] > 0
  /\ clock < MaxChanges
  /\ clock' = clock + 1
  /\ job' = [job EXCEPT ![p] = [op |-> op, ts |-> clock + 1,
                                obj |-> IF op = "Register" THEN None ELSE obj,
                                app |-> IF op = "Register" THEN None ELSE Here,
                                last |-> FALSE]]
  /\ GotoStep(p, IF op = "Register" THEN "newApps" ELSE "write")
  /\ UNCHANGED <<obj, app, size, latest, ver, indexed>>

\* newApps, under alock.
NewApps(p) ==
  /\ ppc[p] = "newApps"
  /\ obj' = IF obj = None THEN job[p].ts ELSE obj
  /\ job' = [job EXCEPT ![p].obj = obj']
  /\ GotoStep(p, "newApp")
  /\ UNCHANGED <<app, size, latest, ver, indexed, clock>>

\* Apps.NewApp: the App, and the index.
NewApp(p) ==
  /\ ppc[p] = "newApp"
  /\ app' = [app EXCEPT ![job[p].obj] = IF @ = None THEN job[p].ts ELSE @]
  /\ job' = [job EXCEPT ![p].app = app'[job[p].obj]]
  /\ latest' = IF job[p].obj = obj THEN Bump(latest, job[p].ts) ELSE latest
  /\ clock' = Later(clock, latest')
  /\ GotoStep(p, "write")
  /\ UNCHANGED <<obj, size, ver, indexed>>

\* Whether a handler's App is the one that is fetched.
IsHere(p) == Here # None /\ job[p].app = Here

\* NewInstance; nobody sees it if its App has left the store meanwhile.
RegisterWrite(p) ==
  /\ ppc[p] = "write" /\ job[p].op = "Register"
  /\ size' = [size EXCEPT ![job[p].app] = @ + 1]
  /\ \/ IsHere(p) /\ ver' = ver + 1 /\ indexed' = ver + 1
     \/ ~IsHere(p) /\ UNCHANGED <<ver, indexed>>
  /\ GotoBroadcast(p)
  /\ UNCHANGED <<obj, app, latest, clock>>

\* App.Cancel or App.Set finds nothing: another handler was faster.
NotFound(p) ==
  /\ ppc[p] = "write" /\ job[p].op \in {"Cancel", "Set"}
  /\ size[job[p].app] = 0
  /\ job' = [job EXCEPT ![p] = NoJob]
  /\ GotoStep(p, "idle")
  /\ UNCHANGED store

\* App.Cancel; it tells whether an instance is left.
CancelWrite(p) ==
  /\ ppc[p] = "write" /\ job[p].op = "Cancel"
  /\ size[job[p].app] > 0
  /\ size' = [size EXCEPT ![job[p].app] = @ - 1]
  /\ job' = [job EXCEPT ![p].last = size'[job[p].app] = 0]
  /\ \/ IsHere(p) /\ ver' = ver + 1 /\ indexed' = ver + 1
     \/ ~IsHere(p) /\ UNCHANGED <<ver, indexed>>
  /\ GotoStep(p, "bump")
  /\ UNCHANGED <<obj, app, latest, clock>>

\* Where a cancellation goes on from UpdateLatest.
Pruning(p) == IF job[p].last THEN "checkLen" ELSE "checkEmpty"

\* Apps.UpdateLatest of a cancellation, with the zero timestamp of clients.
CancelBumpForgotten(p) ==
  /\ ppc[p] = "bump"
  /\ GotoStep(p, Pruning(p))
  /\ UNCHANGED <<store, job>>
CancelBump(p) ==
  /\ ppc[p] = "bump"
  /\ latest' = IF job[p].obj = obj THEN Bump(latest, 0) ELSE latest
  /\ clock' = Later(clock, latest')
  /\ GotoStep(p, Pruning(p))
  /\ UNCHANGED <<obj, app, size, ver, indexed, job>>

\* App.Len, Apps.Del, Apps.App and delete(appm), each under its own lock: what
\* is deleted need not be empty any more, nor be what was found empty.
CheckLen(p) ==
  /\ ppc[p] = "checkLen"
  /\ GotoStep(p, IF size[job[p].app] = 0 THEN "delZone" ELSE "checkEmpty")
  /\ UNCHANGED <<store, job>>

DelZone(p) ==
  /\ ppc[p] = "delZone"
  /\ app' = [app EXCEPT ![job[p].obj] = None]
  /\ GotoStep(p, "checkEmpty")
  /\ UNCHANGED <<obj, size, latest, ver, indexed, clock, job>>

CheckEmpty(p) ==
  /\ ppc[p] = "checkEmpty"
  /\ \/ app[job[p].obj] = None /\ GotoStep(p, "deleteApps") /\ UNCHANGED job
     \/ app[job[p].obj] # None /\ GotoBroadcast(p)
  /\ UNCHANGED store

DeleteApps(p) ==
  /\ ppc[p] = "deleteApps"
  /\ obj' = None /\ latest' = 0
  /\ GotoBroadcast(p)
  /\ UNCHANGED <<app, size, ver, indexed, clock>>

\* App.Set: the index of Apps stays as it is.
SetWrite(p) ==
  /\ ppc[p] = "write" /\ job[p].op = "Set"
  /\ size[job[p].app] > 0
  /\ ver' = IF IsHere(p) THEN ver + 1 ELSE ver
  /\ GotoBroadcast(p)
  /\ UNCHANGED <<obj, app, size, latest, indexed, clock>>

-----------------------------------------------------------------------------
(* broadcast. *)

\* What Registry.Fetch returns now.  History that no decision uses: ver, the
\* Apps object, and early: a registration has moved its index and not yet
\* written its instance.
Info ==
  [ts |-> latest, ver |-> ver, obj |-> obj,
   early |-> \E p \in Publishers :
               ppc[p] = "write" /\ job[p].op = "Register" /\ IsHere(p)]

\* broadcast as if it left the hosts object in conns.
TakeKeeping(p) ==
  /\ ppc[p] = "take"
  /\ \/ /\ conns # None
        /\ held' = [held EXCEPT ![p] = conns]
        /\ ppc' = [ppc EXCEPT ![p] = "rlock"]
        /\ UNCHANGED conns
     \/ conns = None /\ ppc' = [ppc EXCEPT ![p] = "idle"] /\ UNCHANGED <<held, conns>>
  /\ UNCHANGED <<store, hosts, buf, job, left, out, watcher>>
Take(p) ==
  /\ ppc[p] = "take"
  /\ \/ /\ conns # None
        /\ held' = [held EXCEPT ![p] = conns]
        /\ conns' = None
        /\ ppc' = [ppc EXCEPT ![p] = "rlock"]
     \/ conns = None /\ ppc' = [ppc EXCEPT ![p] = "idle"] /\ UNCHANGED <<held, conns>>
  /\ UNCHANGED <<store, hosts, buf, job, left, out, watcher>>

RLock(p) ==
  /\ ppc[p] = "rlock"
  /\ left' = [left EXCEPT ![p] = {h \in HostNames : hosts[held[p]][h] # NoConn}]
  /\ ppc' = [ppc EXCEPT ![p] = "send"]
  /\ UNCHANGED <<store, wires, job, held, out, watcher>>

\* The next connection: fetch for it, or go on when nothing is found.
Pick(p) ==
  /\ ppc[p] = "send" /\ out[p] = NoSend
  /\ \E h \in left[p] :
       LET conn == hosts[held[p]][h]
       IN /\ left' = [left EXCEPT ![p] = @ \ {h}]
          /\ out' = IF Here = None THEN out
                    ELSE [out EXCEPT ![p] = [ch |-> conn.ch, info |-> Info, n |-> conn.count]]
  /\ UNCHANGED <<store, wires, ppc, job, held, watcher>>

Sent(p) ==
  out' = IF out[p].n = 1 THEN [out EXCEPT ![p] = NoSend] ELSE [out EXCEPT ![p].n = @ - 1]

SendUnbounded(p) ==
  /\ out[p] # NoSend
  /\ Sent(p)
  /\ UNCHANGED <<store, conns, ppc, job, held, left, watcher>>
  /\ Wires(hosts, [buf EXCEPT ![out[p].ch] = Append(@, out[p].info)])
Send(p) ==
  /\ out[p] # NoSend
  /\ Len(buf[out[p].ch]) < ChanCap
  /\ Sent(p)
  /\ UNCHANGED <<store, conns, ppc, job, held, left, watcher>>
  /\ Wires(hosts, [buf EXCEPT ![out[p].ch] = Append(@, out[p].info)])

\* 500ms have passed and the channel is still full.
SendTimeoutNever(p) == FALSE /\ UNCHANGED vars
SendTimeout(p) ==
  /\ out[p] # NoSend
  /\ Len(buf[out[p].ch]) = ChanCap
  /\ Sent(p)
  /\ UNCHANGED <<store, conns, ppc, job, held, left, watcher>>
  /\ Wires(hosts, buf)

Finish(p) ==
  /\ ppc[p] = "send" /\ out[p] = NoSend /\ left[p] = {}
  /\ ppc' = [ppc EXCEPT ![p] = "idle"]
  /\ held' = [held EXCEPT ![p] = None]
  /\ UNCHANGED <<store, conns, job, left, out, watcher>>
  /\ Wires(hosts, buf)

-----------------------------------------------------------------------------
(* Polls, and the handlers around it. *)

\* The index is newer than the one a poller holds: not NotModified.
NewsAfterNext(ts) == ts + 1 < latest
News(ts) == ts < latest

\* What the caller does with the error of Polls: /poll and nodesproc wait on
\* NotModified, /polls answers every error at once, nodesproc sleeps and
\* tries again on NothingFound.
Waits(w) == w \notin MultiPollers /\ found[w]

\* The bound MaxLeft: in the code nothing stops what requests leave behind.
WithinMaxLeft(w) == \A o \in {conns} \ {None} : hosts[o][HostOf[w]].gone < MaxLeft

\* A request fetches.  InstanceInfo tells NotModified before it looks for the
\* zone.  With data it has its answer, and the next one may follow; otherwise
\* it goes on to subscribe.
Fetch(w) ==
  /\ wpc[w] = "idle"
  /\ \/ /\ Here # None /\ News(seen[w].ts)
        /\ seen' = [seen EXCEPT ![w] = Info]
        /\ UNCHANGED <<wpc, found>>
     \/ /\ Here = None \/ ~News(seen[w].ts)
        /\ found' = [found EXCEPT ![w] = obj # None /\ ~News(seen[w].ts)]
        /\ ~Waits(w)' => WithinMaxLeft(w)
        /\ wpc' = [wpc EXCEPT ![w] = "lookup"]
        /\ UNCHANGED seen
  /\ UNCHANGED <<store, wires, publisher, ptr, chan>>

\* cLock: get or make the hosts object.
Lookup(w) ==
  /\ wpc[w] = "lookup"
  /\ conns' = IF conns = None THEN Fresh(LiveHosts) ELSE conns
  /\ ptr' = [ptr EXCEPT ![w] = conns']
  /\ wpc' = [wpc EXCEPT ![w] = "subscribe"]
  /\ UNCHANGED <<store, publisher, seen, found, chan>>
  /\ Wires(hosts, buf)

\* hclock: add the connection, or count one more on the one of this host.
Subscribe(w) ==
  LET o == ptr[w]
      old == hosts[o][HostOf[w]]
      ch == IF old = NoConn THEN Fresh(LiveChans) ELSE old.ch
  IN /\ wpc[w] = "subscribe"
     /\ ~ReadLocked(o)
     /\ ptr' = [ptr EXCEPT ![w] = None]
     /\ \/ /\ Waits(w)
           /\ wpc' = [wpc EXCEPT ![w] = "waiting"]
           /\ chan' = [chan EXCEPT ![w] = ch]
        \/ ~Waits(w) /\ wpc' = [wpc EXCEPT ![w] = "idle"] /\ UNCHANGED chan
     /\ found' = [found EXCEPT ![w] = TRUE]
     /\ UNCHANGED <<store, conns, publisher, seen>>
     /\ Wires([hosts EXCEPT ![o][HostOf[w]] =
                  [ch |-> ch, count |-> old.count + 1,
                   gone |-> IF Waits(w) THEN old.gone ELSE old.gone + 1]], buf)

Receive(w) ==
  /\ wpc[w] = "waiting"
  /\ buf[chan[w]] # << >>
  /\ seen' = [seen EXCEPT ![w] = Head(buf[chan[w]])]
  /\ wpc' = [wpc EXCEPT ![w] = IF w \in NodesProcs THEN "idle" ELSE "delConns"]
  /\ chan' = [chan EXCEPT ![w] = None]
  /\ UNCHANGED <<store, conns, publisher, found, ptr>>
  /\ Wires(hosts, [buf EXCEPT ![chan[w]] = Tail(@)])

\* 30 seconds have passed, or the client went away; nodesproc has no timer.
TimeoutLeaving(w) ==
  /\ wpc[w] = "waiting"
  /\ w \notin NodesProcs
  /\ wpc' = [wpc EXCEPT ![w] = "idle"]
  /\ chan' = [chan EXCEPT ![w] = None]
  /\ UNCHANGED <<store, conns, publisher, seen, found, ptr>>
  /\ Wires(hosts, buf)
Timeout(w) ==
  /\ wpc[w] = "waiting"
  /\ w \notin NodesProcs
  /\ wpc' = [wpc EXCEPT ![w] = "delConns"]
  /\ chan' = [chan EXCEPT ![w] = None]
  /\ UNCHANGED <<store, conns, publisher, seen, found, ptr>>
  /\ Wires(hosts, buf)

\* DelConns, cLock and then hclock of what is in conns by now.
FindHosts(w) ==
  /\ wpc[w] = "delConns"
  /\ ptr' = [ptr EXCEPT ![w] = conns]
  /\ wpc' = [wpc EXCEPT ![w] = IF conns = None THEN "idle" ELSE "delHost"]
  /\ UNCHANGED <<store, wires, publisher, seen, found, chan>>

Remove(conn) == IF conn.count > 1 THEN [conn EXCEPT !.count = conn.count - 1] ELSE NoConn

DelHost(w) ==
  /\ wpc[w] = "delHost"
  /\ ~ReadLocked(ptr[w])
  /\ ptr' = [ptr EXCEPT ![w] = None]
  /\ wpc' = [wpc EXCEPT ![w] = "idle"]
  /\ UNCHANGED <<store, conns, publisher, seen, found, chan>>
  /\ Wires([hosts EXCEPT ![ptr[w]][HostOf[w]] = Remove(@)], buf)

-----------------------------------------------------------------------------
Publish(p) ==
  \/ NewApps(p) \/ NewApp(p) \/ RegisterWrite(p)
  \/ CancelWrite(p) \/ CancelBump(p)
  \/ CheckLen(p) \/ DelZone(p) \/ CheckEmpty(p) \/ DeleteApps(p)
  \/ SetWrite(p) \/ NotFound(p)
  \/ Take(p) \/ RLock(p) \/ Pick(p) \/ Send(p) \/ SendTimeout(p) \/ Finish(p)

Watch(w) ==
  \/ Fetch(w) \/ Lookup(w) \/ Subscribe(w)
  \/ Receive(w) \/ Timeout(w) \/ FindHosts(w) \/ DelHost(w)

Next ==
  \/ \E p \in Publishers : Publish(p) \/ \E op \in Changes : Arrive(p, op)
  \/ \E w \in Watchers : Watch(w)

\* Goroutines that can run do run, timers fire, and clients poll again.
Fairness ==
  /\ \A p \in Publishers : WF_vars(Publish(p))
  /\ \A w \in Watchers : WF_vars(Watch(w))

Spec == Init /\ [][Next]_vars /\ Fairness

-----------------------------------------------------------------------------
ChangeSteps ==
  {"newApps", "newApp", "write", "bump", "checkLen", "delZone", "checkEmpty", "deleteApps"}

Infos == [ts : 0..clock, ver : 0..ver, obj : 0..clock, early : BOOLEAN]

TypeOK ==
  /\ obj \in 0..clock /\ latest \in 0..clock
  /\ app \in [Objects -> Objects] /\ size \in [Objects -> Nat]
  /\ indexed \in 1..ver
  /\ conns \in Nat
  /\ hosts \in [LiveHosts \ {None} -> [HostNames -> [ch : Nat, count : Nat, gone : Nat]]]
  /\ DOMAIN buf = LiveChans \ {None}
  /\ \A c \in DOMAIN buf : buf[c] \in Seq(Infos) /\ Len(buf[c]) <= ChanCap
  /\ ppc \in [Publishers -> ChangeSteps \cup {"idle", "take", "rlock", "send"}]
  /\ held \in [Publishers -> Nat]
  /\ left \in [Publishers -> SUBSET HostNames]
  /\ wpc \in [Watchers -> {"idle", "lookup", "subscribe", "waiting", "delConns", "delHost"}]
  /\ seen \in [Watchers -> Infos]
  /\ ptr \in [Watchers -> Nat]
  /\ chan \in [Watchers -> Nat]
  /\ \A w \in Watchers : wpc[w] = "waiting" <=> chan[w] # None

(***************************************************************************)
(* A poller never goes back to older content, however late a broadcast     *)
(* serves its channel, and although pollers of one host share a channel    *)
(* and some leave it with answers in it (registery.go:202-283).            *)
(***************************************************************************)
PollMonotone == [][\A w \in Watchers : seen'[w].ver >= seen[w].ver]_vars

Quiet == \A p \in Publishers : ppc[p] \notin ChangeSteps

(***************************************************************************)
(* When no change is on its way, a poller that holds the index is told     *)
(* NotModified, and rightly so: its content is at least that of the last   *)
(* registration or cancellation.  The exceptions are an answer made        *)
(* between the two steps of a registration (seen.early), and one from an   *)
(* Apps object that has been deleted since, because the index of the next  *)
(* one starts from the timestamp of its first registration.  A set does    *)
(* not count, for it leaves the index alone (instance.go:247-309).         *)
(***************************************************************************)
NotModifiedIsCurrent ==
  \A w \in Watchers :
    Quiet /\ obj # None /\ seen[w].obj = obj /\ ~News(seen[w].ts) /\ ~seen[w].early =>
      seen[w].ver >= indexed

(***************************************************************************)
(* Every request that is made to wait takes back what it has counted on    *)
(* the connection of its host, whether it is answered, times out or finds  *)
(* another hosts object by then.  What a connection counts beyond those    *)
(* that wait now are the requests that were never made to wait: to /polls, *)
(* and to /poll and by nodesproc when nothing was found.  They subscribe   *)
(* all the same and leave their count behind, and nothing in the code      *)
(* bounds it: a broadcast may wait half a second for each, with the        *)
(* handler of a registration (registery.go:222-251, 264-287, 359-379;      *)
(* http/discovery.go:82-148).                                              *)
(***************************************************************************)
CountIsRequests ==
  conns # None =>
    \A h \in HostNames :
      hosts[conns][h].count <=
        Cardinality({w \in Watchers :
                       HostOf[w] = h /\ wpc[w] \in {"waiting", "delConns", "delHost"}})
        + hosts[conns][h].gone

(***************************************************************************)
(* Every request to /poll is answered, although DelConns needs the lock    *)
(* that a broadcast holds while it sends.                                  *)
(***************************************************************************)
EveryPollReturns == \A w \in Pollers : wpc[w] # "idle" ~> wpc[w] = "idle"

(***************************************************************************)
(* When changes stop, every poller that polls again and again ends up with *)
(* the current content.  With cancellations alone it does; with            *)
(* registrations it does not: one that fetches between the two steps of a  *)
(* registration and subscribes after its broadcast holds the new index     *)
(* with the old instances.                                                 *)
(***************************************************************************)
EventuallyCurrent == <>[](obj = None \/ \A w \in Pollers : seen[w].ver = ver)

=============================================================================
