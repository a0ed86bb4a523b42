------------------------------ MODULE MCModels ------------------------------
(* Instances of Models for TLC. *)
EXTENDS Models, TLC

CONSTANTS m1, m2

MCModel == {m1, m2}
MCOneModel == {m1}
OwnTables == [m \in MCModel |-> m]
OwnTable == [m \in MCOneModel |-> m]
Ns == [m \in MCModel |-> IF m = m1 THEN "ns1" ELSE "ns2"]

Configuration(strict, readers, namespaces, models) ==
    [strict_model_reader |-> strict, readers |-> readers, namespaces |-> namespaces, models |-> models]

(* Everything is indexed, with either reader; one namespace, with readers; one
   model, with and without its namespace; and a model of a namespace that is
   not indexed, so that nothing is. *)
MCConfig ==
    {Configuration(strict, FALSE, {}, {}) : strict \in BOOLEAN} \cup
    {Configuration(FALSE, TRUE, {"ns1"}, {})} \cup
    {Configuration(FALSE, FALSE, namespaces, {m1}) : namespaces \in {{}, {"ns1"}, {"ns2"}}}

MCReaders == {Configuration(TRUE, TRUE, {}, {})}
=============================================================================
