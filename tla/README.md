# apiCenter: specifications, model checking and proofs

apiCenter is a service registry in Go, a fork of bilibili's discovery.  Services
register instances under (zone, env, appid, hostname), renew them, cancel them and set
their status; clients fetch the instances of an appid or poll for changes; the nodes of
the registry replicate to each other.  This directory holds TLA+ models of it, the
TLC configurations that check them, and proofs for TLAPS.

    tlc -workers 2 -config MCRegistry.cfg MCRegistry.tla      # any run of the tables below
    tlapm RegistryProofs.tla                                  # any module *Proofs

`PROJECT.json` lists the runs, the source lines that each definition models, for each
checked property a mutation of the model that violates it, the findings and the hazards.

## 1. Inventory

| part | code | state | operations | what is hard |
|---|---|---|---|---|
| store | `registry/registery.go`, `model/instance.go` | `appm`: key → `Apps`; `Apps`: zone → `App`, index; `App`: hostname → `Instance` | Register, Renew, Cancel, Set, Fetch, FetchAll | each operation is several critical sections of different locks; pointers are used after the lock under which they were found |
| guard | `registry/guard.go` | expected and received heartbeats, threshold | incrExp, decrExp, setExp, incrFac, updateFac, ok | counted in another critical section than stored; two atomics in updateFac |
| long polling | `Polls`, `broadcast`, `DelConns` in `registery.go`; `poll`, `polls` in `http/discovery.go` | `conns`: key → `hosts`: hostname → connection (channel, count) | subscribe, broadcast, unsubscribe | change between fetch and subscription; shared channels; bounded channels; counts left behind |
| minute ticker | `proc`, `evict`, `resetExp` in `registery.go` | – | eviction each minute, recount every 15 | evict locks what it has locked |
| scheduler configuration | `registry/scheduler.go` | key → scheduler | Load, Reload, Get | two locks nested, then a broadcast |
| replication | `discovery/register.go`, `registry/node.go`, `registry/nodes.go` | node lists, node status | Replicate, ReplicateSet, the four calls, repair in Renew | lost calls, result codes, zones, what the replicated request carries |
| start and node list | `discovery/syncUp.go`, `discovery/discovery.go` | current `Nodes` (atomic value), protected | syncUp, regSelf, nodesproc, exitProtect | restart, self-renewal, polling without timeout |
| HTTP interface | `http/` | – | handlers | error paths that leave connections behind |
| naming client | `naming/client.go`, watcher in `naming/grpc/resolver.go` | `apps`: appid → resolvers, instances, `lastTs`; `node`, `nodeIdx`; `registry` | New, Build, Watch, Fetch, Close of a resolver; serverproc (polls, broadcast), selfproc; Register with its renewing goroutine, Set, Close | goroutines on shared atomics and maps; events of capacity one; contexts that interrupt a poll; timestamps of one node sent to another; nodes that go down or forget |
| weights | `naming/naming.go`, `naming/grpc/resolver.go` | the weights in the metadata of the instances that every Fetch shares | UseScheduler, newAddress | products of weights in int64, computed in place again and again |
| configuration, main, parameters | `conf/`, `cmd/`, `model/param.go`, `model/node.go` | – | – | the order of start and stop is in `Cluster`; reading flags and data types are not modelled |

Handlers of one node interact through the store, the guard, the `conns` table and the
locks; a change ends in a broadcast that serves the pollers; nodesproc is a poller inside
the node; nodes call each other's HTTP interface.

What makes the parts correct: an instance is where its path says and is found from the
moment its registration is answered; the guard counts what is stored; the index of a key
moves with each change, and a poller that keeps it never misses one; every request
returns; the nodes of a zone come to hold the same instances; a client finds a node that
answers, polls it for what it does not have, tells its watchers, and keeps its own
instances registered until they are cancelled, once; weights follow the schedule.

## 2. Modules

| module | models | state ↔ code | actions ↔ code |
|---|---|---|---|
| `Guard` | `guard.go` as operators | the four fields | one operator per method; `updateFac` as its two atomics `SwapFac`, `StoreFac` |
| `GuardSpec` | the guard under its callers in any order | plus `inHand`, the value between the two atomics; `received`, `closed` are history | Register, Cancel, Recount (`resetExp`), Heartbeat, BeginMinute/EndMinute (`updateFac`) |
| `GuardProofs` | theorems about `GuardSpec` | | |
| `Registry` | the store for one key of `appm` under concurrent handlers | `appm`, `apps` (every Apps object made), `inst` (App object and hostname → LatestTimestamp), the guard; `pc`, `arg`, `at` are a handler's position, request and pointers; `overlapped`, `known`, `skipped` are history | one action per critical section: NewApps, NewApp, NewInstance, CountRegister (Register); Lookup, Renew, CountRenew; Set; Cancel, UpdateLatest, CheckLen, DelZone, CheckEmpty, DeleteApps, CountCancel |
| `MCRegistry` | the same with symmetry | | |
| `Directory` | abstract: what the store promises to concurrent handlers | the listed instances, the requests being served, which of them were disturbed, what is in doubt | Call, Enter, Leave, Vanish, Return |
| `RegistryProofs` | theorems about `Registry`: the invariant of its objects and counts, what it promises, and that it implements `Directory` | | |
| `LongPoll` | pollers and broadcasts of one key | the store reduced to the Apps and App objects of one zone, index, numbers of instances and a version; `conns`, `hosts`, `buf` (channels); publishers and watchers with their positions | a change's critical sections (NewApps, NewApp, RegisterWrite; CancelWrite, CancelBump, CheckLen, DelZone, CheckEmpty, DeleteApps; SetWrite; NotFound), broadcast (Take, RLock, Pick, Send, SendTimeout, Finish), Polls (Fetch, Lookup, Subscribe), the handlers (Receive, Timeout) and DelConns (FindHosts, DelHost) |
| `MCLongPoll` | who polls from which host | | |
| `LongPollProofs` | theorems about `LongPoll` | | |
| `Locks` | the lock sections of every operation over Go's RWMutex | `todo`: the calls left; `pending`, `readers`, `rwait` per lock | Begin, and the steps of RLock, Lock and their unlocks |
| `LocksProofs` | theorems about `Locks` | | |
| `Cluster` | the nodes of a cluster: start, replication, list of peers, stop and crash | `held` (what a node's registry holds), `view` (its list of peers), `calls` in flight, `mode` (start, running, stopping), `todo` (peers `syncUp` has still to ask), `protected`; `emptied` (zones whose App is empty and not yet deleted); `handled`, `answered`, `erased` are history | Request and Heartbeat (a source request), Deliver and Fail (a call between nodes), Start, Copy, Miss (`New`, `syncUp`), RegSelf, Serve, ExitProtect, DelZone, Refresh (`nodesproc`), Stop, Exit |
| `MCCluster` | nodes and zones for TLC | | |
| `Naming` | the client's Discovery object and those who watch its resolvers | `list`, `idx` (the node list); `apps`, `zone`, `lastTs`; `id`, `joined`, `event` (resolvers); `spc`, `ctx`, `lastHost`, `want`, `retry`, `reply` (serverproc); `rpc`, `seen`, `quit` (watchers); `latest`, `down` are what the discovery nodes say and which are down | serverproc: Arm, Stop, Ask, Answer, Fail, Retry, LoadNodes and tryAppendSeedNodes (two steps: the list is loaded, then stored), Store, Notify; Build and Announce; selfproc and watchers: Receive, Fetch, OldNodes, StoreNodes, CloseResolver, Quit; Switch, Close; nodes: Change, Crash |
| `MCNaming` | nodes, their clocks and answers for TLC | | |
| `ClusterProofs` | theorems about `Cluster` | | |
| `NamingProofs` | theorems about `Naming` | | |
| `Registration` | Register, renewal and cancellation of one appid | `taken` (the registry map), `pc`, `stopped`, `token` (callers and their channel `ch`), `keeper` (the goroutine), `sent` (the request in flight); `holds`, `stray` are the nodes and requests that nobody waits for | Register, SendFirst, Registered, RegisterFails, Undo, Stop, Return; Tick, Renewed, NotFound, SendAgain, RegisteredAgain, Leave, Left, Signal; Switch, Close; nodes: Handle, HandleLate, Lose, Learn, Forget |
| `MCRegistration` | a list of two nodes for TLC | | |
| `RegistrationProofs` | theorems about `Registration` | | |
| `Weights` | UseScheduler and newAddress with integers of a given width | `weights` of the instances of one poll, by zone; `dst`, the schedule; `addrs`, what newAddress made last; `first`, `overflow` are history | UseScheduler, Resolve |
| `WeightsProofs` | theorems about `Weights` | | |

`Registry` extends `Guard`: its handlers run the guard's operators in their own
critical sections.  `LongPoll` is the view a poller has of the same handlers, and
`Locks` the view a mutex has of them; `Cluster` reduces the registry of each node to the
set of what it holds, one step per request, and adds the calls between nodes.  The four
share no variables because each reduces what the others keep.  `Registry` implements
`Directory`: `Dir` in `Registry` is the mapping, `ListsLikeDirectory` the property.
`Naming` and `Registration` are two sides of one client; all they share is `nodeIdx`,
which each moves at will for the other (`Switch`).  `Weights` continues where a watcher
of `Naming` has fetched.  `Registry` and `LongPoll` take a critical section as one step,
which presupposes that the section is entered and left: `Locks` checks that.

Abstractions.  Requests for different keys meet only in `alock`, the guard and the
broadcast of their own key, so one key is followed.  Time is a counter that grows with
the requests.  In `Registry` a registration may carry any earlier timestamp, because
`syncUp` and `regSelf` register with old ones, and so may a Set, whose timestamp its caller
chooses.  Metadata, addresses, versions and status
are left out.  A fetch reads index and instances in one step: `InstanceInfo` holds
`Apps.lock` over both, and reads the instances of one zone at one time.  In `LongPoll`
the numbers of hosts objects and channels are used again when nothing refers to them, and
a poller names a zone, or all instances are in one.  Each critical section of a change is a
step there as in `Registry`, except that an operation finds Apps and App in one.

The client is modelled with the discovery nodes it was written for: they answer a poll
with what is newer than the timestamps sent, under `latest_timestamp`, by zone.  With the
nodes of this repository it would get nowhere: `model.InstanceInfo` has no JSON tag for
the timestamp, so that the client reads 0 and takes the answer for an error
(client.go:598), and without a zone the instances come under the key `""`, which
`newSelf` never asks for.  Such answers are the failures of `Naming`.  A set stands for
the instances a node lists of an app, and only for the app of the nodes themselves is
told apart what is in the client's zone.  Several schedules for one zone, a second call
of a cancelling function and two concurrent calls of UseScheduler (a concurrent map
write) are left out.  `Set` of the client does nothing but send a request.

## 3. Runs

| run | question | bounds | result |
|---|---|---|---|
| `guard` | are the counters consistent in every order of operations | counts to 4 | holds |
| `registry` | is what the answers said so, whatever the handlers do between two critical sections, and does the store implement `Directory` | 2 handlers, 2 zones, 2 hosts, 4 requests | holds |
| `long_poll_publishers` | does a poller get consistent answers when the steps and broadcasts of two handlers interleave | 1 poller, 2 publishers, 3 changes of 1 instance, channel capacity 1, 1 count left behind | holds |
| `long_poll_pollers` | is every `/poll` answered, does every request that waited take its count back, and does a poller end up with the current content | a poller that shares its host with a client of `/polls`, 1 publisher that cancels both of 2 instances, so that the key goes, capacity 1, 2 counts left behind | holds |
| `locks` | no circular wait, no operation unlocks what it does not hold, and every operation returns | 1 request goroutine, the recount, the reload | holds |
| `cluster` | does a registration, renewal or cancellation come to a node once, does a cancellation reach all, does a node keep listing those it copied from | 3 nodes in 2 zones, 1 service instance, 2 requests, 2 calls of Sets in flight, 1 start, 1 lost call, any number of crashes | holds |
| `naming` | does the client hold what its node said, do its watchers learn of it, and does it find a node that answers | 2 nodes (a seed that stays up, and one that may go down), 2 apps, 2 resolvers, 2 events | holds |
| `registration` | is an appid registered once, kept registered, and over when its cancellation returns | 2 callers, 2 nodes, 2 times a node forgets, 2 faults | holds |
| `weights` | do weights follow the schedule, call after call, when does the code panic, and what is an average worth | 2 zones of up to 3 instances, weights 0, 16 or no metadata, shares 0 to 2, 3 calls, integers from -24 to 23 | holds |

Two handlers suffice for the races of `Registry`: each needs one handler between two
steps of another, and four requests allow a register, a cancel, a register and one
more.  Channel capacity 1 makes a channel full with one message and one request; the
code's 5 needs five.  `MaxChanges` bounds the clock of `LongPoll`, which
starts at 1.  `MaxLeft` bounds the counts that a connection keeps of requests which were not
made to wait (all of `/polls` without news, and those that find no key); nothing in the code
does, and the guard `WithinMaxLeft` is no part of it.  `MaxSets` bounds the calls of Sets in
flight, which go round for ever.  In `cluster` a zone of two nodes is
what it takes to be passed on in, and a second zone to be passed on from; two requests
let a cancellation cross another request or the stop and the restart of a node.  Three
requests in a zone of three nodes show more, and so does a second start, after which a
cancellation of the earlier life may arrive; both are left to the proofs (section 4).  So
are, in `LongPoll`, nodesproc and several pollers of one host, whose channel they share: the
proofs are about any of them (`NeverBack`, `CountsAreRequests`), the runs have one poller
each.  The nodes of `cluster` begin in
the state that restarting each node of a running cluster in turn leads to: each has
copied the nodes and services from the others.  In `naming` an event is a change at a node,
a node that goes down, a poll that fails at a node that is up, a switch that another
goroutine makes, or Close; builds, closed resolvers and interrupted polls are not
bounded.  Two events let a change follow a switch or the end of a node.  `nodeIdx` counts
modulo `Cycle`, a multiple of every length the list can have, as it is only used modulo
that length.  One of the
nodes is a seed and stays up: without one nothing can be promised.  `weights` has 24 for
`Half` (2^63 in the code; no argument needs a power of two) and 1
for the default weight (10): so 16 and the default fit in a zone and in the product of two,
three weights of 16 are a total of zero, a schedule of two zones is followed exactly for
three calls, and other schedules overflow at the second or third, as 64 bits are left with
real weights after some more.
Deadlock is not checked where the bounds stop the system.

Runs that end in a violation, each a disagreement between the code and what its
documentation says (`findings` in `PROJECT.json` quotes the lines):

| run | shows |
|---|---|
| `locks_eviction_ends` | `evict` calls `allApps` under `alock` and waits for itself: the first minute tick stops the registry |
| `registry_instances_are_reachable` | a cancellation that empties an App loses a concurrent registration |
| `cluster_other_zones` | nodesproc rebuilds its list from the instances of one zone, and forgets the others |

More disagreements were met while modelling and have no run.  TLC showed the first six on
the models above, with a property for each that is not kept:

- `long_poll`: a poller that fetches between the two steps of a registration
  (`registery.go:103-105`) and subscribes after its broadcast has the new index with the
  old instances, until the next change (against `doc/register.md:57`).
- `long_poll`: nodesproc receives from its channel without a timeout, so that a change
  between its fetch and its subscription is not loaded until another one happens (against
  `doc/discovery.md:25-26`).
- `long_poll`: the handler of `/polls` returns on every error, NotModified included, and so
  never hangs (against the comment at `discovery/register.go:76`).
- `cluster`: Node.call sends no status with a registration and the handler drops
  registrations without one, so that of two nodes that start one after the other the first
  is never told of the second (against `doc/discovery.md:87-90`).
- `cluster`: a Set goes round.  `setCall` posts its labels in a form (`node.go:94-106`) and
  `ArgSet` has json tags only (`param.go:71-82`), so that every receiver takes the call for a
  source request, names no instance in it, and passes it on to all, the node it came from
  included (`register.go:92-99`), where `doc/discovery.md:108-111` says that only source
  requests are passed on.
- `naming`: Close does not end selfproc, because nobody closes the channel it waits on
  (against the comment at `client.go:269`).

Others were met while reading: a call of UseScheduler for a schedule that names a zone
without instances is out of range (`naming.go:118`; `PanicsOnlyOnGaps` states that little
else fails); without a schedule and without instances in the zone it returns those of all
zones, where its comment says "only zone instances be returned" (`naming.go:75`); an appid
that was registered and cancelled cannot be registered again (`client.go:278`).  The protection
condition that `doc/register.md:75` describes is the reverse of `guard.go:51`.
`doc/register.md:19` says that the index moves with every change; Set does not move that
of Apps (`registery.go:190`).  `doc/register.md:73` says that the expectation shrinks by
2 with every cancellation; a cancellation that is counted before the registration leaves
it 2 too high, because `decrExp` does nothing at zero (`GuardAccount` in `Registry`
keeps the account).

The properties that hold are stated next to these so that the boundary is exact.
`SettledIsReachable` says that without a concurrent cancellation of the same key no
registration is lost; `GuardNeverUnderestimates` that the drift of the guard has one
direction; `NotModifiedIsCurrent` that the early answer of a registration is the only
way to a wrong NotModified on a living key, apart from Set; `CopiedIsListed` that a node
keeps and lists the nodes of its zone that it copied from, where the documentation promises
that these know it too; `NoEcho` that registrations, renewals and cancellations come to a
node once, which a Set does not; `CancelSpreads` names what a cancellation needs to reach
every node: all hold the instance, all lists are complete, no call fails, no node starts
or ends, and no other cancellation crosses it.  `EventuallyCurrent` holds
for cancellations, whose order of write and index is the right one, and fails for
registrations.

In `Naming` what a watcher saw is what the client holds or an event is on its way
(`NoMissedEvent`), and what the client holds is what its node last said
(`PollsWhatItHolds`); `EventuallyCurrent` joins the two with the node's own state, except
that an empty answer leaves the old instances (`client.go:618`).  The node list has no such
property: a list that selfproc stores between the load and the store of
`tryAppendSeedNodes` is overwritten and lost until the next change, as a model with three
hosts shows; `EventuallyAnswered` is what remains, a node that answers.  In
`Registration`, `ReturnedIsOver` ends at the client: a registration that its context
interrupted may still arrive at a node after the cancellation, and a renewal that is
interrupted switches the node, so that the cancellation may go to one that answers
NothingFound.

Fairness.  `Naming` assumes weak fairness of serverproc and of each watcher: its
goroutines run, and a poll ends with an answer, an error or the client's timeout of 40
seconds.  Builds and the events around the client need not happen.  `Registration` assumes
weak fairness of callers and goroutines and of a node's handling of a request, and strong
fairness of the branch of a select that a done context makes ready: Go chooses at random
among ready branches, and the other one is a ticker of 30 seconds.  `LongPoll` assumes weak fairness of each publisher and each watcher: the Go
scheduler runs every goroutine that can run, the 500 ms and 30 s timers fire, and a
client polls again after an answer.  Changes need not arrive.  `Locks` assumes strong
fairness of each goroutine inside an operation, which is what the starvation mode of
Go's mutexes gives; operations need not begin.

## 4. Proofs

`GuardProofs`: `TypeCorrect`, `ExpectationCorrect`, `HeartbeatsCorrect` and
`ProtectionCorrect` hold for every bound.  The inductive invariant is the conjunction of
the first three; the last follows from them and from the fact that the threshold rounds
down.

`RegistryProofs`, for any finite sets of handlers and hosts, any set of zones and any
number of requests:

- `TypeCorrect` : no handler follows a nil pointer, the expectation is never negative.
- `GuardSafe`: `GuardNeverUnderestimates`.
- `IndexSafe`: `IndexAdvances`.

The type invariant alone is not inductive: that a handler's pointers lead to existing
objects depends on the step it is at (`PointersOK`), and that `decrExp` keeps the
expectation a natural number depends on `GuardAccount`, the equation between the
expectation, the instances held, the counts pending and the calls of `decrExp` that did
nothing.  `IInv` adds both.  The proof goes by layers: `ControlStep`, `StoreStep`,
`PointersStep` and `CountedStep` each take one part through every action, `NextIInv`
joins them.  The assumption used is `RegistryAssumption` (finite sets of handlers and
hosts, a natural bound).

Its second part extends it to what the store promises: `SettledReachable`
(`SettledIsReachable`), `HandlersHold` (`HandlerHoldsItsInstance`) and
`DirectoryImplemented`, the refinement of `Directory` step by step.  None of the three is
inductive, because a handler acts on objects that others may have taken out of the map
meanwhile.  `Promises` says what each handler's pointers are worth at each of its steps:

- `ZonesApart`: an App object belongs to one zone for ever, even when nothing leads to it any
  more, so that a late write goes to no other zone;
- `RegisteringOK`, `CancellingOK`: a registration that nothing disturbs works on the objects that are
  found, a cancellation that nothing disturbs has removed what is found;
- `ClaimsOK`: as long as the answers say that an instance is there and nobody has removed
  it, no handler that cancels another instance of the key can still take its objects away, a
  registration of it finds them, and whoever looked it up holds the App it is in;
- `AbsentOK`: what is known to be absent stays so until someone registers it;
- `OperationOK`, `OverlapOK`, `StampsOK`: a handler takes the steps of its own operation, and
  history records who disturbs whom.

For the refinement, every action of the detailed specification is one of Enter, Leave,
Vanish, Call and Return of the abstract one or a stutter: what is listed changes by the one
request that is being served, and when an emptied App or Apps is deleted with an instance in
it, the instance was in doubt before.

`LongPollProofs`, for any pollers, hosts, publishers and capacity, any number of changes:
`Types`, `NotModified` (`NotModifiedIsCurrent`), `NeverBack` (`PollMonotone`) and
`CountsAreRequests`.  Hosts objects and channels are numbered, and that a number which nothing
bears can be found follows from the watchers being finitely many.  `ToldOK` says
that what has been told, or is in a channel, or is being sent, is what the store once had, and
what the index it carries says of the content; `BroadcastsOK` says why no answer is older than
what its receiver has seen: nothing is sent to a hosts object before it has left `conns`, no
two objects share a channel, and a watcher finds only the object in `conns`.
`CountsAreRequests` (`CountIsRequests`) has no hypothesis.  A request that is not made to
wait (`/polls` without news; `/poll` and nodesproc when the key is gone) subscribes all the
same and its handler returns without taking the count back (`registery.go:224-254`,
`http/discovery.go:89-100, 126-129`): the history `gone` of a connection is how many did,
and it may grow for ever.  What is proved is that nothing else is left behind: each request
that waits, or is about to take itself off, stands for one count and takes back one,
whichever hosts object it finds by then.

`LocksProofs`, for any number of goroutines: `Types` (`TypeOK`, with it that no goroutine
unlocks what it does not hold, which Go answers with a fatal error) and `NoDeadlock`
(`NoCircularWait`), for all operations but `evict`, with which the second is false
(`locks_eviction_ends`).  The
locks have an order: hosts, the scheduler's mutex, alock, Apps.lock, and the locks that
nothing is taken under.  `IInv` says that what is left of a goroutine's section takes
locks upwards only and releases them after, and that readers, writers and
waiters are where their sections say.  Of a group of waiting goroutines the one that waits
for the highest lock waits for somebody that holds it or is next to have it, and who
waits, if at all, for a higher one: outside the group.

`NamingProofs`, for any finite set of nodes, any apps and resolvers, any answers and any
number of events: `TypeCorrect`, `PollsCoverApps`, `PollsTellWhatIsHeld` and
`WatchersAreTold`.  Each is an inductive argument of its own.  A poll covers the apps
because Build cancels the
context of every poll that began before it; the timestamps are those of the last host
because serverproc alone writes them, forgets them when the host changes, and stores an
answer only as long as no other poll begins; a watcher is told because Build and broadcast
leave a trace (`rpc`, `telling`, the event) in the very step that makes what it saw
outdated.  `TypeCorrect` shows that a list names no node twice, although two goroutines write
it without a lock, because the seeds are added to the list that was loaded and only those that
it lacks; so the retries before that are bounded by the number of nodes.

`RegistrationProofs`, for any finite set of callers and any list of nodes:
`TypeCorrect`, `OneRegistration` and `ReturnIsLast`.  The invariant ties the step of a
caller to that of its goroutine and to the channel between them: the goroutine exists from
the moment the registration stands, and its signal is sent when it has nothing left to do.

`ClusterProofs`, for any finite set of nodes, any services and any division into zones:
`TypeCorrect`, `NoEchoes`, `CopiesStayListed` and `CancelsSpread`.  `NoEcho`, which speaks
of all requests but Sets, is not inductive: that a call may be passed on without coming back
depends on its labels.  `Labels` adds that such a call is a copy just when it stays in its
zone, so that its receiver sends it nowhere or inside the zone only; that
a renewal or a cancellation leaves a zone only if the item is of that zone, so that its
receiver in the other zone keeps it there; and that a call which is no copy is the only
sign of its request in the zone it goes to, which holds as its sender calls one node of
each other zone.  The only assumption is `ClusterAssumption`, and of the view of a node
nothing is used but that it contains nodes: it may be as stale as it likes.

`CopiesStayListed` (`CopiedIsListed`) rests on who carries the cancellation of a node inside
its zone: calls of that node only (`NodeCancels`), which is stopping, or has ended after its
call had reached a node that was serving and so copies no more.  The calls that a process
has made to nodes that do not listen end with it; if they did not, a cancellation could reach
a node after it has copied the next life of the node cancelled.  `CancelsSpread`
(`CancelSpreads`) follows the pairs of an instance and a node that are still to be emptied:
each has been reached, or a call brings the cancellation there, or the one call of the
cancellation to that zone goes to a node that holds the instance and lists the other
(`Spreading`).  The attempt to prove it showed that two cancellations can stop each other also
when the younger one comes as a copy to the node that has to pass the older one on, which takes a zone
of three nodes and three requests: the property promises nothing for pairs that are not yet
reached when a second cancellation begins (`Erased`).

`WeightsProofs`, for any zones, any number of instances and calls, any weights and shares and
any width of the integers: `TypeCorrect`, `SharesFollow`, `ProportionsAreKept`,
`PanicsAreGaps` and `AveragesWithin`, the five invariants of `weights`; the type of `addrs`
says that the resolver makes an address for exactly the instances it does not leave out.
Each loop of the code
is a recursive function of its turns.  The induction theorems of the library take an operator
as parameter, which the provers cannot instantiate, so the module starts from one about sets:
a set of numbers with zero and with the successor of each is `Nat` (`SetInduction`, from the
least element of its complement).  `Recursion` shows that a loop that stays in a set has a
value at each turn, and from it each loop lemma (`TotalsLoop`, `ProductsLoop`,
`AddressTotalsLoop`, `SumsLoop`, `FlattenSeqType`) that the function defined by the equation
satisfies it.  The argument about a call that overflows nothing:

- the total of a zone is the sum of its weights and no less than each (`TotalsExact`), and the
  product of the totals is a multiple of each of them (`ProductDivisible`; a map is walked in
  an order that has every key, `OrderOnto`);
- so the division of FixWeight is exact, the factor times the total of the zone is its share
  of the product, and the multiplications that follow cannot overflow (`FixExact`);
- so the new weights of a zone sum to its share of the product (`SumScaled`,
  `ScheduledExact`): that is `SharesFollowSchedule`, at whichever call.

`ProportionsKept` is not inductive: a weight that a call made zero counts as the default at
the next.  `InProportion` adds the zones without a share, whose weights are all zero at once
and stay so, and that other weights stay positive.  `AveragesWithin` is about `newAddress`
alone: after m addresses the total is between m times the least and m times the greatest
(`TotalsBetween`).  The attempt to prove it showed that the total of a resolver overflows on its own, by
instances of several zones, so that the property speaks of that total and not of the
products of UseScheduler; and that a panic on a total of zero is to be told from one on a
gap at the first call already, so that `overflow` counts the call that panics.
The assumptions are those of `WeightsAssumption`: registered weights, shares and the default
are integers and not negative.

Only model-checked: liveness under fairness, which is outside what the prover handles.

## 5. Not modelled yet, and the plan

1. `Cluster`: the times that calls carry (a late cancellation, two settings that
   cross), the status of a peer.
2. `App.Set` with several hosts: it stops at the first unknown one with those before it
   changed, and no document says what a failed request leaves.
3. In `LongPoll`: requests for several appids, the data race of `InstanceInfo`.
4. The scheduler's Load and Reload beyond their locks.

Not modelled: the choice of the instances that `evict` cancels, because `evict` never gets
there (`locks_eviction_ends`); Reload of the client; the shuffles, which are choices; HTTP
framework, JSON, logging, configuration and flags.
