----------------------------- MODULE Directory -----------------------------
(***************************************************************************)
(* What the store of a registry promises to concurrent handlers: a set of  *)
(* listed instances that changes by the requests for them and by nothing   *)
(* else.  Registry implements it.                                          *)
(*                                                                         *)
(* An instance enters the list while a registration of it is being served  *)
(* and leaves it while a cancellation of it is.  A registration that       *)
(* nothing disturbed ends with the instance listed, a cancellation with    *)
(* the instance not listed.  Only what is in doubt may vanish, and only    *)
(* while a cancellation of some instance is being served: those whose last *)
(* request was disturbed, until one is served undisturbed.                 *)
(***************************************************************************)
CONSTANTS Handlers, Zones, Hosts

VARIABLES
  listed,     \* the instances that requests find
  pending,    \* the request each handler serves, or Idle
  disturbed,  \* the handlers that another handler may have disturbed
  doubt       \* the instances of which nothing is promised

vars == <<listed, pending, disturbed, doubt>>

Keys == Zones \X Hosts
Idle == [op |-> "none", zone |-> "none", host |-> "none"]
Requests == [op : {"Register", "Renew", "Cancel", "Set"}, zone : Zones, host : Hosts]

Key(req) == <<req.zone, req.host>>
Serving == {r \in Handlers : pending[r] # Idle}

\* a may change what b is about to establish.
Disturbs(a, b) ==
  \/ a.op # "Renew" /\ Key(a) = Key(b)
  \/ a.op = "Cancel" /\ b.op = "Register"

Doubtful == doubt \cup {Key(pending[r]) : r \in disturbed}

Init ==
  /\ listed = {}
  /\ pending = [r \in Handlers |-> Idle]
  /\ disturbed = {}
  /\ doubt = {}

Call(r, req) ==
  /\ pending[r] = Idle
  /\ pending' = [pending EXCEPT ![r] = req]
  /\ disturbed' = disturbed \cup {q \in Serving : Disturbs(req, pending[q])}
                    \cup {q \in {r} : \E s \in Serving : Disturbs(pending[s], req)}
  /\ UNCHANGED <<listed, doubt>>

Enter(r) ==
  /\ pending[r].op = "Register"
  /\ listed' = listed \cup {Key(pending[r])}
  /\ UNCHANGED <<pending, disturbed, doubt>>

Leave(r) ==
  /\ pending[r].op = "Cancel"
  /\ listed' = listed \ {Key(pending[r])}
  /\ UNCHANGED <<pending, disturbed, doubt>>

Vanish(r) ==
  /\ pending[r].op = "Cancel"
  /\ \E lost \in SUBSET (listed \cap Doubtful) : listed' = listed \ lost
  /\ UNCHANGED <<pending, disturbed, doubt>>

Return(r) ==
  LET k == Key(pending[r])
  IN /\ pending[r] # Idle
     /\ \/ r \in disturbed /\ doubt' = doubt \cup {k}
        \/ /\ r \notin disturbed /\ doubt' \in {doubt, doubt \ {k}}
           /\ pending[r].op = "Register" => k \in listed
           /\ pending[r].op = "Cancel" => k \notin listed
     /\ pending' = [pending EXCEPT ![r] = Idle]
     /\ disturbed' = disturbed \ {r}
     /\ UNCHANGED listed

Next ==
  \E r \in Handlers :
    \/ \E req \in Requests : Call(r, req)
    \/ Enter(r) \/ Leave(r) \/ Vanish(r) \/ Return(r)

Spec == Init /\ [][Next]_vars

=============================================================================
