------------------------- MODULE RegistrationProofs -------------------------
(***************************************************************************)
(* Theorems about Registration, for every number of calls of Register,     *)
(* every node list and every number of faults.                             *)
(***************************************************************************)
EXTENDS Registration, TLAPS

\* The steps of a call before a goroutine is there.
Before == {"idle", "duplicate", "error", "register", "undo"}

(***************************************************************************)
(* The inductive invariant: how far a call and its goroutine may be apart. *)
(* A call has a goroutine from its success on, the signal is the last      *)
(* thing the goroutine sends, and only a signal lets the call return.      *)
(***************************************************************************)
Stages ==
  \A c \in Callers :
    /\ keeper[c] = "none" <=> pc[c] \in Before
    /\ token[c] => keeper[c] = "ended"
    /\ pc[c] = "returned" => keeper[c] = "ended"

IInv == TypeOK /\ Stages /\ TakenByOne

-----------------------------------------------------------------------------
(* Initially. *)

LEMMA InitIInv == Init => IInv
<1>1. Len(Nodes) \in Nat /\ Len(Nodes) > 0
  BY RegistrationAssumption
<1> SUFFICES ASSUME Init PROVE IInv
  OBVIOUS
<1>2. TypeOK
  <2>1. idx \in 0..Len(Nodes) - 1
    BY <1>1 DEF Init
  <2>2. forgets \in 0..MaxForgets /\ faults \in 0..MaxFaults
    BY RegistrationAssumption DEF Init
  <2>3. /\ sent \in [Callers -> {NoRequest}]
        /\ \A c \in Callers : sent[c] = NoRequest
    BY DEF Init
  <2> QED
    BY <2>1, <2>2, <2>3 DEF Init, TypeOK
<1>3. Stages
  BY DEF Init, Stages, Before
<1>4. Involved = {}
  BY DEF Init, Involved
<1> QED
  BY <1>2, <1>3, <1>4 DEF Init, IInv, TakenByOne

-----------------------------------------------------------------------------
(* What the requests keep. *)

\* Every index picks a node, and the next index is one.
LEMMA NodePicked ==
  ASSUME idx \in 0..Len(Nodes) - 1
  PROVE  /\ pickNode \in Hosts
         /\ (idx + 1) % Len(Nodes) \in 0..Len(Nodes) - 1
<1>1. Len(Nodes) \in Nat /\ Len(Nodes) > 0
  BY RegistrationAssumption
<1>2. idx % Len(Nodes) \in 0..Len(Nodes) - 1
  BY <1>1
<1> QED
  BY <1>1, <1>2 DEF pickNode, Hosts

\* A request is in hand only where it is waited for.
LEMMA Waiting ==
  ASSUME IInv, NEW c \in Callers, sent[c] # NoRequest
  PROVE  pc[c] = "register" \/ keeper[c] \in Ops
BY DEF IInv, TypeOK, Ops

-----------------------------------------------------------------------------
(* The steps of a call. *)

LEMMA RegisterIInv ==
  ASSUME IInv, NEW c \in Callers, Register(c)
  PROVE  IInv'
<1>1. TypeOK'
  <2>1. sent[c] = NoRequest
    BY Waiting DEF IInv, Stages, Before, Register, Ops
  <2> QED
    BY <2>1 DEF IInv, TypeOK, Register, nodes
<1>2. Stages'
  BY DEF IInv, TypeOK, Stages, Before, Register
<1>3. TakenByOne'
  <2>1. CASE taken
    <3>1. Involved' = Involved
      BY <2>1 DEF IInv, TypeOK, Register, Involved
    <3> QED
      BY <2>1, <3>1 DEF IInv, TakenByOne, Register
  <2>2. CASE ~taken
    <3>1. Involved = {}
      BY <2>2 DEF IInv, TakenByOne
    <3>2. Involved' = {c}
      BY <2>2, <3>1 DEF IInv, TypeOK, Register, Involved
    <3> QED
      BY <2>2, <3>2 DEF TakenByOne, Register
  <2> QED
    BY <2>1, <2>2
<1> QED
  BY <1>1, <1>2, <1>3 DEF IInv

\* Nobody else gets involved, and the appid stays taken or free.
LEMMA SameInvolved ==
  ASSUME IInv, taken' = taken, Involved' = Involved
  PROVE  TakenByOne'
BY DEF IInv, TakenByOne

\* A request that ends leaves none behind.
LEMMA RequestEnds ==
  ASSUME IInv, NEW c \in Callers,
         \/ \E code \in {"OK", "NothingFound"} : Answered(c, code)
         \/ Failed(c)
  PROVE  /\ sent' = [sent EXCEPT ![c] = NoRequest]
         /\ sent[c] # NoRequest
         /\ holds' \subseteq Hosts /\ stray' \subseteq {"register", "cancel"} \X Hosts
         /\ forgets' \in 0..MaxForgets /\ faults' \in 0..MaxFaults
         /\ idx' \in 0..Len(Nodes) - 1
         /\ closed' \in BOOLEAN
<1>1. CASE \E code \in {"OK", "NothingFound"} : Answered(c, code)
  BY <1>1 DEF IInv, TypeOK, Answered, nodes, NoRequest
<1>2. CASE Unanswered(c)
  <2>1. (idx + 1) % Len(Nodes) \in 0..Len(Nodes) - 1
    BY NodePicked DEF IInv, TypeOK
  <2>2. faults' \in 0..MaxFaults
    BY <1>2, RegistrationAssumption DEF IInv, TypeOK, Unanswered, Fault
  <2>3. stray' \subseteq {"register", "cancel"} \X Hosts
    BY <1>2 DEF IInv, TypeOK, Unanswered, Ops, NoRequest
  <2> QED
    BY <1>2, <2>1, <2>2, <2>3 DEF IInv, TypeOK, Unanswered, switchNode
<1>3. CASE Refused(c)
  BY <1>3, RegistrationAssumption DEF IInv, TypeOK, Refused, Fault, nodes, NoRequest
<1> QED
  BY <1>1, <1>2, <1>3 DEF Failed

\* A request that is sent is one.
LEMMA RequestSent ==
  ASSUME IInv, NEW c \in Callers, NEW op \in Ops, Send(c, op)
  PROVE  /\ sent' \in [Callers -> {NoRequest} \cup
                        [op : Ops, host : Hosts, code : {"pending", "OK", "NothingFound"}]]
         /\ sent'[c].op = op
         /\ \A d \in Callers \ {c} : sent'[d] = sent[d]
BY NodePicked DEF IInv, TypeOK, Send

LEMMA CallerIInv ==
  ASSUME IInv, NEW c \in Callers, caller(c)
  PROVE  IInv'
<1>1. CASE SendFirst(c)
  <2>1. TypeOK'
    BY <1>1, RequestSent DEF IInv, TypeOK, SendFirst, nodes, callers, Ops
  <2>2. Stages' /\ Involved' = Involved
    BY <1>1 DEF IInv, Stages, SendFirst, callers, Involved
  <2> QED
    BY <1>1, <2>1, <2>2, SameInvolved DEF IInv, SendFirst
<1>2. CASE Registered(c)
  <2>1. TypeOK'
    BY <1>2, RequestEnds DEF IInv, TypeOK, Registered, Answered
  <2>2. Stages' /\ Involved' = Involved
    BY <1>2 DEF IInv, TypeOK, Stages, Before, Registered, Involved
  <2> QED
    BY <1>2, <2>1, <2>2, SameInvolved DEF IInv, Registered
<1>3. CASE RegisterFails(c)
  <2>1. TypeOK'
    BY <1>3, RequestEnds DEF IInv, TypeOK, RegisterFails
  <2>2. Stages' /\ Involved' = Involved
    BY <1>3 DEF IInv, TypeOK, Stages, Before, RegisterFails, Involved
  <2> QED
    BY <1>3, <2>1, <2>2, SameInvolved DEF IInv, RegisterFails
<1>4. CASE Undo(c)
  <2>1. sent[c] = NoRequest
    BY <1>4, Waiting DEF IInv, Stages, Before, Undo, Ops
  <2>2. TypeOK'
    BY <1>4, <2>1 DEF IInv, TypeOK, Undo, nodes
  <2>3. Stages'
    BY <1>4 DEF IInv, TypeOK, Stages, Before, Undo
  <2>4. Involved' = {}
    BY <1>4 DEF IInv, TypeOK, Stages, Before, TakenByOne, Undo, Involved
  <2> QED
    BY <1>4, <2>2, <2>3, <2>4 DEF IInv, TakenByOne, Undo
<1>5. CASE Return(c)
  <2>1. sent[c] = NoRequest
    BY <1>5, Waiting DEF IInv, Stages, Return, Ops
  <2>2. TypeOK'
    BY <1>5, <2>1 DEF IInv, TypeOK, Return, nodes
  <2>3. Stages' /\ Involved' = Involved
    BY <1>5 DEF IInv, TypeOK, Stages, Before, Return, Involved
  <2> QED
    BY <1>5, <2>2, <2>3, SameInvolved DEF IInv, Return
<1> QED
  BY <1>1, <1>2, <1>3, <1>4, <1>5 DEF caller

LEMMA StopIInv ==
  ASSUME IInv, NEW c \in Callers, Stop(c)
  PROVE  IInv'
<1>1. TypeOK'
  BY DEF IInv, TypeOK, Stop, nodes
<1>2. Stages' /\ Involved' = Involved
  BY DEF IInv, TypeOK, Stages, Before, Stop, Involved
<1> QED
  BY <1>1, <1>2, SameInvolved DEF IInv, Stop

-----------------------------------------------------------------------------
(* The steps of a goroutine. *)

\* A goroutine that goes on is still one.
LEMMA GoesOn ==
  ASSUME IInv, NEW c \in Callers, NEW step \in {"wait", "renew", "register", "cancel", "signal"},
         keeper[c] \notin {"none", "ended"}, Goto(c, step), UNCHANGED <<taken, callers>>
  PROVE  /\ Stages' /\ TakenByOne'
         /\ keeper' \in [Callers -> {"none", "wait", "renew", "register", "cancel", "signal",
                                     "ended"}]
         /\ pc[c] # "register"
<1>1. Stages'
  BY DEF IInv, TypeOK, Stages, Goto, callers
<1>2. Involved' = Involved
  BY DEF IInv, TypeOK, Goto, callers, Involved
<1> QED
  BY <1>1, <1>2, SameInvolved DEF IInv, TypeOK, Stages, Before, Goto

LEMMA KeepingIInv ==
  ASSUME IInv, NEW c \in Callers, keeping(c)
  PROVE  IInv'
<1>1. CASE Tick(c)
  <2>1. Stages' /\ TakenByOne' /\ pc[c] # "register"
    BY <1>1, GoesOn DEF Tick
  <2>2. TypeOK'
    BY <1>1, <2>1, RequestSent DEF IInv, TypeOK, Tick, Goto, nodes, callers, Ops
  <2> QED
    BY <2>1, <2>2 DEF IInv
<1>2. CASE Renewed(c)
  <2>1. Stages' /\ TakenByOne'
    BY <1>2, GoesOn DEF Renewed
  <2>2. TypeOK'
    BY <1>2, RequestEnds DEF IInv, TypeOK, Renewed, Goto, callers
  <2> QED
    BY <2>1, <2>2 DEF IInv
<1>3. CASE NotFound(c)
  <2>1. Stages' /\ TakenByOne'
    BY <1>3, GoesOn DEF NotFound
  <2>2. TypeOK'
    BY <1>3, RequestEnds DEF IInv, TypeOK, NotFound, Goto, callers
  <2> QED
    BY <2>1, <2>2 DEF IInv
<1>4. CASE SendAgain(c)
  <2>1. pc[c] # "register"
    BY <1>4 DEF IInv, Stages, Before, SendAgain
  <2>2. TypeOK'
    BY <1>4, <2>1, RequestSent DEF IInv, TypeOK, SendAgain, nodes, callers, Ops
  <2>3. Stages' /\ Involved' = Involved
    BY <1>4 DEF IInv, Stages, SendAgain, callers, Involved
  <2> QED
    BY <1>4, <2>2, <2>3, SameInvolved DEF IInv, SendAgain
<1>5. CASE RegisteredAgain(c)
  <2>1. Stages' /\ TakenByOne'
    BY <1>5, GoesOn DEF RegisteredAgain
  <2>2. TypeOK'
    BY <1>5, RequestEnds DEF IInv, TypeOK, RegisteredAgain, Goto, callers
  <2> QED
    BY <2>1, <2>2 DEF IInv
<1>6. CASE Leave(c)
  <2>1. Stages' /\ TakenByOne' /\ pc[c] # "register"
    BY <1>6, GoesOn DEF Leave
  <2>2. TypeOK'
    BY <1>6, <2>1, RequestSent DEF IInv, TypeOK, Leave, Goto, nodes, callers, Ops
  <2> QED
    BY <2>1, <2>2 DEF IInv
<1>7. CASE Left(c)
  <2>1. Stages' /\ TakenByOne'
    BY <1>7, GoesOn DEF Left
  <2>2. TypeOK'
    BY <1>7, RequestEnds DEF IInv, TypeOK, Left, Goto, callers
  <2> QED
    BY <2>1, <2>2 DEF IInv
<1>8. CASE Signal(c)
  <2>1. sent[c] = NoRequest
    BY <1>8, Waiting DEF IInv, Stages, Before, Signal, Ops
  <2>2. TypeOK'
    BY <1>8, <2>1 DEF IInv, TypeOK, Signal, Goto, nodes
  <2>3. Stages' /\ Involved' = Involved
    BY <1>8 DEF IInv, TypeOK, Stages, Before, Signal, Goto, Involved
  <2> QED
    BY <1>8, <2>2, <2>3, SameInvolved DEF IInv, Signal
<1> QED
  BY <1>1, <1>2, <1>3, <1>4, <1>5, <1>6, <1>7, <1>8 DEF keeping

-----------------------------------------------------------------------------
(* Everything else. *)

LEMMA HandleIInv ==
  ASSUME IInv, NEW c \in Callers, Handle(c)
  PROVE  IInv'
<1>1. sent[c] # NoRequest
  BY DEF Handle, NoRequest
<1>2. sent[c] \in [op : Ops, host : Hosts, code : {"pending", "OK", "NothingFound"}]
  BY <1>1 DEF IInv, TypeOK
<1>3. holds' \subseteq Hosts
  BY <1>2 DEF IInv, TypeOK, Handle, Handled, Ops
<1>4. Code(sent[c].op, sent[c].host) \in {"OK", "NothingFound"}
  BY DEF Code
<1>5. TypeOK'
  BY <1>1, <1>2, <1>3, <1>4 DEF IInv, TypeOK, Handle, callers, NoRequest
<1>6. Stages' /\ Involved' = Involved
  BY DEF IInv, Stages, Handle, callers, Involved
<1> QED
  BY <1>5, <1>6, SameInvolved DEF IInv, Handle

LEMMA NodesIInv ==
  ASSUME IInv,
         \/ \E s \in stray : HandleLate(s) \/ Lose(s)
         \/ \E h \in Hosts : Learn(h) \/ Forget(h)
         \/ Switch \/ Close
  PROVE  IInv'
<1>1. /\ UNCHANGED <<taken, callers, keeper, sent>>
      /\ closed' \in BOOLEAN
  BY DEF IInv, TypeOK, HandleLate, Lose, Learn, Forget, Switch, Close
<1>2. holds' \subseteq Hosts /\ stray' \subseteq {"register", "cancel"} \X Hosts
  BY DEF IInv, TypeOK, HandleLate, Lose, Learn, Forget, Switch, Close, Handled, nodes
<1>3. forgets' \in 0..MaxForgets /\ faults' \in 0..MaxFaults
  BY RegistrationAssumption
  DEF IInv, TypeOK, HandleLate, Lose, Learn, Forget, Switch, Close, Fault, nodes
<1>4. idx' \in 0..Len(Nodes) - 1
  BY NodePicked
  DEF IInv, TypeOK, HandleLate, Lose, Learn, Forget, Switch, Close, switchNode
<1>5. TypeOK'
  BY <1>1, <1>2, <1>3, <1>4 DEF IInv, TypeOK, callers
<1>6. Stages' /\ Involved' = Involved
  BY <1>1 DEF IInv, Stages, callers, Involved
<1> QED
  BY <1>1, <1>5, <1>6, SameInvolved DEF IInv

-----------------------------------------------------------------------------
(* The theorems. *)

LEMMA NextIInv == IInv /\ [Next]_vars => IInv'
<1>1. ASSUME IInv, Next PROVE IInv'
  BY <1>1, RegisterIInv, CallerIInv, StopIInv, KeepingIInv, HandleIInv, NodesIInv DEF Next
<1>2. ASSUME IInv, UNCHANGED vars PROVE IInv'
  BY <1>2 DEF IInv, TypeOK, Stages, TakenByOne, Involved, vars, nodes, callers
<1> QED
  BY <1>1, <1>2

LEMMA Invariance == Spec => []IInv
BY InitIInv, NextIInv, PTL DEF Spec

\* Every variable keeps its type, and a request is the one its sender waits
\* for, whatever the node list and however many calls and faults there are.
THEOREM TypeCorrect == Spec => []TypeOK
BY Invariance, PTL DEF IInv

\* However many calls of Register race for an appid, at most one is at work
\* for it or has a goroutine, and the appid is taken exactly when one is.
THEOREM OneRegistration == Spec => []TakenByOne
BY Invariance, PTL DEF IInv

\* When the function that cancels a registration has returned, its goroutine
\* has ended and no request of it is waited for.
THEOREM ReturnIsLast == Spec => []ReturnedIsOver
<1>1. IInv => ReturnedIsOver
  BY Waiting DEF IInv, Stages, Before, ReturnedIsOver, Ops
<1> QED
  BY <1>1, Invariance, PTL
=============================================================================
