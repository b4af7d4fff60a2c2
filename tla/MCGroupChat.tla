---------------------------- MODULE MCGroupChat ----------------------------
(* Model values and bounds for GroupChat. *)
EXTENDS GroupChat, TLC

CONSTANTS u1, u2, u3, r1, r2

MCUsers == {u1, u2, u3}
MCRequests == {r1, r2}

Symmetry == Permutations(MCUsers) \cup Permutations(MCRequests)
=============================================================================
