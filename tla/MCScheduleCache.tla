--------------------------- MODULE MCScheduleCache ---------------------------
(* Two requests of one student while a semester changes and rolls over.     *)
EXTENDS ScheduleCache, TLC
CONSTANTS r1, r2
MCRequests == {r1, r2}
RequestSymmetry == Permutations(MCRequests)
=============================================================================
