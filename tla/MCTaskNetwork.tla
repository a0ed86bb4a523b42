--------------------------- MODULE MCTaskNetwork ---------------------------
(* Instances of TaskNetwork for TLC. *)
EXTENDS TaskNetwork, TLC

CONSTANTS t1, t2, t3

MCTask == {t1, t2, t3}
TaskSymmetry == Permutations(MCTask)
=============================================================================
