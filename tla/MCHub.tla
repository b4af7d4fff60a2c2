------------------------------- MODULE MCHub -------------------------------
(* Model values and bounds for Hub. *)
EXTENDS Hub, TLC

CONSTANTS c1, c2

MCClients == {c1, c2}
ClientSymmetry == Permutations(MCClients)
=============================================================================
