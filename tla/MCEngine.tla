------------------------------ MODULE MCEngine ------------------------------
(* Instances of Engine for TLC. *)
EXTENDS Engine, TLC

CONSTANTS c1, c2

MCContract == {c1, c2}

(* One contract, twice in a transaction; both contracts. *)
MCEmits == {(c1 :> 2) @@ (c2 :> 0), (c1 :> 1) @@ (c2 :> 1)}
=============================================================================
