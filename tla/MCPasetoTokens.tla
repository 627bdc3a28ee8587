--------------------------- MODULE MCPasetoTokens ---------------------------
(* Two users log in, three times in all, with two keys or none.            *)
EXTENDS PasetoTokens, TLC
CONSTANTS l1, l2, u1, u2, k1, default
MCLogins == {l1, l2}
MCUsers == {u1, u2}
MCKeys == {k1, default}
Symmetry == Permutations(MCLogins) \cup Permutations(MCUsers)
=============================================================================
