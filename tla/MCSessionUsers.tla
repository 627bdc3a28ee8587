--------------------------- MODULE MCSessionUsers ---------------------------
(* Two users, two concurrent requests, of one user or of both.             *)
EXTENDS SessionRecovery, TLC
CONSTANTS u1, u2, r1, r2
MCUsers == {u1, u2}
MCRequests == {r1, r2}
=============================================================================
