-------------------------- MODULE MCSubscriptions --------------------------
(* Subscriptions on its own, for TLC. *)
EXTENDS Subscriptions

CONSTANT s1

MCClient == {s1}
MCMember == {"x", "y"}
MCClause == {[op |-> "and", on |-> MCMember]}
=============================================================================
