--------------------------- MODULE MCRegistration ---------------------------
(* Registration with two nodes, for TLC. *)
EXTENDS Registration

TwoNodes == <<"n1", "n2">>
=============================================================================
