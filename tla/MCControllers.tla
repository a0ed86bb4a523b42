--------------------------- MODULE MCControllers ----------------------------
(* Instances of Controllers for TLC. *)
EXTENDS Controllers, TLC

CONSTANTS s1, s2

MCSlot == {s1, s2}
MCOneSlot == {s1}

=============================================================================
