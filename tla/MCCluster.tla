----------------------------- MODULE MCCluster -----------------------------
(***************************************************************************)
(* Instances of Cluster for TLC: a zone with one node and a zone with two, *)
(* all running, and an instance of a service of the first zone; and one    *)
(* zone with two nodes that start from nothing.                            *)
(***************************************************************************)
EXTENDS Cluster, TLC

CONSTANTS a1, a2, b1, b2, s

ThreeNodes == {a1, b1, b2}
OneZone == {a1, a2}
Service == {s}

\* The two nodes of zone B are alike.
Alike == Permutations({b1, b2})

ZoneOfItem == [i \in Items |-> IF i \in {b1, b2} THEN "B" ELSE "A"]
=============================================================================
