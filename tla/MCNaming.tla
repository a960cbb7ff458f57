----------------------------- MODULE MCNaming ------------------------------
(***************************************************************************)
(* Instances of Naming for TLC: a seed n1 that stays up and a node n2 that *)
(* may go down, with clocks of their own.                                  *)
(***************************************************************************)
EXTENDS Naming

CONSTANTS n1, n2, elsewhere

Answers ==
  [self |-> {{n1, n2}, {n2}, {elsewhere}}, a |-> {{"some"}, {}}]

Clocks ==
  [h \in Hosts |->
     [a \in Apps |->
        [ts |-> IF h = n1 THEN 1 ELSE 2,
         body |-> IF a = "self" THEN {n2} ELSE {"some"}]]]
=============================================================================
