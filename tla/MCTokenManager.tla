--------------------------- MODULE MCTokenManager ---------------------------
(* TokenManager with two users, each with one token, and three goroutines. *)
EXTENDS TokenManager, TLC
CONSTANTS k1, k2, c1, c2, c3, t1, t2
MCKeys == {k1, k2}
MCTokens == {t1, t2}
MCOwner == t1 :> k1 @@ t2 :> k2
MCCallers == {c1, c2, c3}
CallerSymmetry == Permutations(MCCallers)
=============================================================================
