----------------------------- MODULE MCRegistry -----------------------------
(* Registry on a small instance, with symmetry on its sets of model values. *)
EXTENDS Registry, TLC

Symmetry == Permutations(Handlers) \cup Permutations(Zones) \cup Permutations(Hosts)

=============================================================================
