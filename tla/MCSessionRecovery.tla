-------------------------- MODULE MCSessionRecovery -------------------------
(* One user, three concurrent requests. *)
EXTENDS SessionRecovery, TLC
CONSTANTS u1, r1, r2, r3
MCUsers == {u1}
MCRequests == {r1, r2, r3}
RequestSymmetry == Permutations(MCRequests)
=============================================================================
