---------------------------- MODULE Registration ----------------------------
(***************************************************************************)
(* Registering one appid through the client of naming/client.go: callers   *)
(* of Discovery.Register, the goroutine that each success leaves behind to *)
(* renew the instance every 30 seconds, the function it returns to cancel  *)
(* the registration, and Discovery.Close.                                  *)
(*                                                                         *)
(* Callers and goroutines share the registry map and the index into the    *)
(* node list.  A request goes to the node picked and ends with the node's  *)
(* answer, or without one: the context was cancelled, the time is up or    *)
(* the connection broke.  A node may still handle a request that nobody    *)
(* waits for, may hear of an instance from another node, and may forget it.*)
(***************************************************************************)
EXTENDS Naturals, Sequences, FiniteSets

CONSTANTS Callers,     \* calls of Register for the appid
          Nodes,       \* the node list, a sequence
          MaxForgets,  \* bound on the times a node forgets the instance
          MaxFaults    \* bound on the requests that fail, and on the switches of
                       \* the other goroutines

ASSUME RegistrationAssumption ==
  /\ IsFiniteSet(Callers)
  /\ Nodes \in Seq(STRING) /\ Len(Nodes) > 0
  /\ MaxForgets \in Nat /\ MaxFaults \in Nat

VARIABLES
  holds, stray, forgets,            \* nodes: who holds the instance, and requests
                                    \* that nobody waits for
  taken, idx,                       \* the appid is in Discovery.registry; nodeIdx
  pc, stopped, token,               \* callers; their contexts; their channels ch
  keeper,                           \* the goroutine of a registration
  sent,                             \* the request of a caller or of its goroutine
  closed, faults                    \* Close was called; budget

nodes == <<holds, stray, forgets>>
callers == <<pc, stopped, token>>
vars == <<nodes, taken, idx, callers, keeper, sent, closed, faults>>

Hosts == {Nodes[i] : i \in 1..Len(Nodes)}
Ops == {"register", "renew", "cancel"}
NoRequest == [op |-> "none", host |-> "none", code |-> "none"]

Init ==
  /\ holds = {} /\ stray = {} /\ forgets = 0
  /\ taken = FALSE /\ idx = 0
  /\ pc = [c \in Callers |-> "idle"]
  /\ stopped = [c \in Callers |-> FALSE]
  /\ token = [c \in Callers |-> FALSE]
  /\ keeper = [c \in Callers |-> "none"]
  /\ sent = [c \in Callers |-> NoRequest]
  /\ closed = FALSE /\ faults = 0

-----------------------------------------------------------------------------
(* Nodes, as far as a client can tell. *)

\* What a node holds after a request: a renewal changes nothing.
Handled(op, h) ==
  holds' = CASE op = "register" -> holds \cup {h}
             [] op = "renew" -> holds
             [] op = "cancel" -> holds \ {h}

Code(op, h) == IF op = "register" \/ h \in holds THEN "OK" ELSE "NothingFound"

Handle(c) ==
  /\ sent[c].code = "pending"
  /\ Handled(sent[c].op, sent[c].host)
  /\ sent' = [sent EXCEPT ![c].code = Code(sent[c].op, sent[c].host)]
  /\ UNCHANGED <<stray, forgets, taken, idx, callers, keeper, closed, faults>>

HandleLate(s) ==
  /\ Handled(s[1], s[2])
  /\ stray' = stray \ {s}
  /\ UNCHANGED <<forgets, taken, idx, callers, keeper, sent, closed, faults>>

Lose(s) ==
  /\ stray' = stray \ {s}
  /\ UNCHANGED <<holds, forgets, taken, idx, callers, keeper, sent, closed, faults>>

\* Another node passes the registration on.
Learn(h) ==
  /\ holds # {}
  /\ holds' = holds \cup {h}
  /\ UNCHANGED <<stray, forgets, taken, idx, callers, keeper, sent, closed, faults>>

\* A node restarts, evicts the instance, or hears of a cancellation.
Forget(h) ==
  /\ h \in holds /\ forgets < MaxForgets
  /\ holds' = holds \ {h}
  /\ forgets' = forgets + 1
  /\ UNCHANGED <<stray, taken, idx, callers, keeper, sent, closed, faults>>

-----------------------------------------------------------------------------
(* Requests. *)

pickNode == Nodes[(idx % Len(Nodes)) + 1]

switchNode == idx' = (idx + 1) % Len(Nodes)

\* The context of a registration, a child of the client's.
Done(c) == stopped[c] \/ closed

Send(c, op) == sent' = [sent EXCEPT ![c] = [op |-> op, host |-> pickNode, code |-> "pending"]]

\* The answer of a request, with the client's next step.
Answered(c, code) ==
  /\ sent[c].code = code
  /\ sent' = [sent EXCEPT ![c] = NoRequest]
  /\ UNCHANGED <<nodes, idx, closed, faults>>

Fault == faults < MaxFaults /\ faults' = faults + 1

\* A request ends without an answer: its context is cancelled (a cancellation
\* has none), or something failed.  The next one goes to another node.
Unanswered(c) ==
  /\ sent[c] # NoRequest
  /\ IF Done(c) /\ sent[c].op # "cancel" THEN UNCHANGED faults ELSE Fault
  /\ stray' = stray \cup
       (IF sent[c].code = "pending" /\ sent[c].op # "renew"
        THEN {<<sent[c].op, sent[c].host>>} ELSE {})
  /\ sent' = [sent EXCEPT ![c] = NoRequest]
  /\ switchNode
  /\ UNCHANGED <<holds, forgets, closed>>

\* A node answers with another error.
Refused(c) ==
  /\ sent[c].code = "pending" /\ Fault
  /\ sent' = [sent EXCEPT ![c] = NoRequest]
  /\ UNCHANGED <<nodes, idx, closed>>

Failed(c) == Unanswered(c) \/ Refused(c)

-----------------------------------------------------------------------------
(* A call of Register. *)

\* Mutant: the appid is looked up and not entered.
RegisterTwice(c) ==
  /\ pc[c] \in {"idle", "duplicate", "error"}
  /\ IF taken
     THEN pc' = [pc EXCEPT ![c] = "duplicate"]
     ELSE pc' = [pc EXCEPT ![c] = "register"]
  /\ UNCHANGED <<nodes, taken, idx, stopped, token, keeper, sent, closed, faults>>

\* ErrDuplication, or the appid is taken and the registration begins.
Register(c) ==
  /\ pc[c] \in {"idle", "duplicate", "error"}
  /\ IF taken
     THEN pc' = [pc EXCEPT ![c] = "duplicate"] /\ UNCHANGED taken
     ELSE pc' = [pc EXCEPT ![c] = "register"] /\ taken' = TRUE
  /\ UNCHANGED <<nodes, idx, stopped, token, keeper, sent, closed, faults>>

SendFirst(c) ==
  /\ pc[c] = "register" /\ sent[c] = NoRequest
  /\ Send(c, "register")
  /\ UNCHANGED <<nodes, taken, idx, callers, keeper, closed, faults>>

\* The registration stands; a goroutine keeps it.
Registered(c) ==
  /\ pc[c] = "register" /\ Answered(c, "OK")
  /\ pc' = [pc EXCEPT ![c] = "holding"]
  /\ keeper' = [keeper EXCEPT ![c] = "wait"]
  /\ UNCHANGED <<taken, stopped, token>>

RegisterFails(c) ==
  /\ pc[c] = "register" /\ Failed(c)
  /\ pc' = [pc EXCEPT ![c] = "undo"]
  /\ UNCHANGED <<taken, stopped, token, keeper>>

Undo(c) ==
  /\ pc[c] = "undo"
  /\ taken' = FALSE
  /\ pc' = [pc EXCEPT ![c] = "error"]
  /\ UNCHANGED <<nodes, idx, stopped, token, keeper, sent, closed, faults>>

\* The function that Register returned: it cancels the context ...
Stop(c) ==
  /\ pc[c] = "holding"
  /\ stopped' = [stopped EXCEPT ![c] = TRUE]
  /\ pc' = [pc EXCEPT ![c] = "stopping"]
  /\ UNCHANGED <<nodes, taken, idx, token, keeper, sent, closed, faults>>

\* Mutant: it does not wait for the goroutine.
ReturnAtOnce(c) ==
  /\ pc[c] = "stopping"
  /\ pc' = [pc EXCEPT ![c] = "returned"]
  /\ UNCHANGED <<nodes, taken, idx, stopped, token, keeper, sent, closed, faults>>

\* ... and waits for the goroutine.
Return(c) ==
  /\ pc[c] = "stopping" /\ token[c]
  /\ token' = [token EXCEPT ![c] = FALSE]
  /\ pc' = [pc EXCEPT ![c] = "returned"]
  /\ UNCHANGED <<nodes, taken, idx, stopped, keeper, sent, closed, faults>>

caller(c) == SendFirst(c) \/ Registered(c) \/ RegisterFails(c) \/ Undo(c) \/ Return(c)

-----------------------------------------------------------------------------
(* The goroutine of a registration. *)

Goto(c, step) == keeper' = [keeper EXCEPT ![c] = step]

Tick(c) ==
  /\ keeper[c] = "wait"
  /\ Send(c, "renew")
  /\ Goto(c, "renew")
  /\ UNCHANGED <<nodes, taken, idx, callers, closed, faults>>

Renewed(c) ==
  /\ keeper[c] = "renew"
  /\ Answered(c, "OK") \/ Failed(c)
  /\ Goto(c, "wait")
  /\ UNCHANGED <<taken, callers>>

\* Mutant: a node that lost the instance is not told of it again.
NotFoundIgnored(c) ==
  /\ keeper[c] = "renew" /\ Answered(c, "NothingFound")
  /\ Goto(c, "wait")
  /\ UNCHANGED <<taken, callers>>

NotFound(c) ==
  /\ keeper[c] = "renew" /\ Answered(c, "NothingFound")
  /\ Goto(c, "register")
  /\ UNCHANGED <<taken, callers>>

\* Mutant: the node is asked to renew what it does not know.
SendRenewAgain(c) ==
  /\ keeper[c] = "register" /\ sent[c] = NoRequest
  /\ Send(c, "renew")
  /\ UNCHANGED <<nodes, taken, idx, callers, keeper, closed, faults>>

SendAgain(c) ==
  /\ keeper[c] = "register" /\ sent[c] = NoRequest
  /\ Send(c, "register")
  /\ UNCHANGED <<nodes, taken, idx, callers, keeper, closed, faults>>

RegisteredAgain(c) ==
  /\ keeper[c] = "register"
  /\ Answered(c, "OK") \/ Failed(c)
  /\ Goto(c, "wait")
  /\ UNCHANGED <<taken, callers>>

\* The context is done: the last request cancels the registration.
Leave(c) ==
  /\ keeper[c] = "wait" /\ Done(c)
  /\ Send(c, "cancel")
  /\ Goto(c, "cancel")
  /\ UNCHANGED <<nodes, taken, idx, callers, closed, faults>>

\* Mutant: a cancellation that fails ends the goroutine without a signal.
LeftSilently(c) ==
  /\ keeper[c] = "cancel"
  /\ \/ (Answered(c, "OK") \/ Answered(c, "NothingFound")) /\ Goto(c, "signal")
     \/ Failed(c) /\ Goto(c, "ended")
  /\ UNCHANGED <<taken, callers>>

Left(c) ==
  /\ keeper[c] = "cancel"
  /\ Answered(c, "OK") \/ Answered(c, "NothingFound") \/ Failed(c)
  /\ Goto(c, "signal")
  /\ UNCHANGED <<taken, callers>>

\* Mutant: the channel has no room, and takes the signal only from hand to hand.
SignalWaiting(c) ==
  /\ keeper[c] = "signal" /\ pc[c] = "stopping"
  /\ token' = [token EXCEPT ![c] = TRUE]
  /\ Goto(c, "ended")
  /\ UNCHANGED <<nodes, taken, idx, pc, stopped, sent, closed, faults>>

\* The channel has room for one signal, so that nobody need wait for it.
Signal(c) ==
  /\ keeper[c] = "signal" /\ ~token[c]
  /\ token' = [token EXCEPT ![c] = TRUE]
  /\ Goto(c, "ended")
  /\ UNCHANGED <<nodes, taken, idx, pc, stopped, sent, closed, faults>>

keeping(c) ==
  \/ Tick(c) \/ Renewed(c) \/ NotFound(c) \/ SendAgain(c) \/ RegisteredAgain(c)
  \/ Leave(c) \/ Left(c) \/ Signal(c)

-----------------------------------------------------------------------------
\* serverproc, Set or another registration moves the index.
Switch ==
  /\ Fault /\ switchNode
  /\ UNCHANGED <<nodes, taken, callers, keeper, sent, closed>>

Close ==
  /\ ~closed
  /\ closed' = TRUE
  /\ UNCHANGED <<nodes, taken, idx, callers, keeper, sent, faults>>

Next ==
  \/ \E c \in Callers : Register(c) \/ Stop(c) \/ caller(c) \/ keeping(c) \/ Handle(c)
  \/ \E s \in stray : HandleLate(s) \/ Lose(s)
  \/ \E h \in Hosts : Learn(h) \/ Forget(h)
  \/ Switch \/ Close

\* The goroutines run, a node answers, and a tick comes every 30 seconds.  A
\* goroutine whose context is done does not wait for the next tick: the choice
\* between the two is made at random, and a tick is rarely there.
Fairness ==
  \A c \in Callers :
    /\ WF_vars(caller(c)) /\ WF_vars(keeping(c)) /\ WF_vars(Handle(c))
    /\ SF_vars(Leave(c))

Spec == Init /\ [][Next]_vars
FairSpec == Spec /\ Fairness

-----------------------------------------------------------------------------
(* Properties. *)

\* Every variable keeps its type; a request is the one its sender waits for.
TypeOK ==
  /\ holds \subseteq Hosts
  /\ stray \subseteq {"register", "cancel"} \X Hosts
  /\ forgets \in 0..MaxForgets /\ faults \in 0..MaxFaults
  /\ taken \in BOOLEAN /\ closed \in BOOLEAN /\ idx \in 0..Len(Nodes) - 1
  /\ pc \in [Callers -> {"idle", "duplicate", "error", "register", "undo", "holding",
                         "stopping", "returned"}]
  /\ stopped \in [Callers -> BOOLEAN] /\ token \in [Callers -> BOOLEAN]
  /\ keeper \in [Callers -> {"none", "wait", "renew", "register", "cancel", "signal",
                             "ended"}]
  /\ sent \in [Callers -> {NoRequest} \cup
                 [op : Ops, host : Hosts, code : {"pending", "OK", "NothingFound"}]]
  /\ \A c \in Callers : sent[c] # NoRequest =>
       sent[c].op = IF pc[c] = "register" THEN "register" ELSE keeper[c]

\* Who works for the appid, or has: its goroutine may have ended.
Involved == {c \in Callers : pc[c] \in {"register", "undo"} \/ keeper[c] # "none"}

\* The appid is taken by one caller: however calls of Register, their failures
\* and their retries interleave, no two goroutines renew one instance, and an
\* appid is taken only by a registration that is under way or stood (Register,
\* lines 277-295).
TakenByOne ==
  /\ taken <=> Involved # {}
  /\ \A c, d \in Involved : c = d

\* Nothing of a registration is left when the function that cancels it has
\* returned: no goroutine, no request that somebody waits for (Register, lines
\* 296-314).
ReturnedIsOver ==
  \A c \in Callers : pc[c] = "returned" => keeper[c] = "ended" /\ sent[c] = NoRequest

\* The node in use comes to hold every instance that is registered, whichever
\* nodes forgot it and whichever requests failed (the goroutine of Register,
\* lines 305-309).
KeptRegistered ==
  <>[](\A c \in Callers : pc[c] = "holding" /\ ~closed => pickNode \in holds)

\* The function that cancels a registration returns (Register, lines 297-300).
CancelReturns == \A c \in Callers : pc[c] = "stopping" ~> pc[c] = "returned"

\* Close ends every goroutine that renews, whether somebody cancels its
\* registration too or not (Close, line 271; Register, lines 296, 310-313).
CloseEndsKeepers == closed ~> \A c \in Callers : keeper[c] \in {"none", "ended"}
=============================================================================
