----------------------------- MODULE FilterCases -----------------------------
(* Filters and records for TLC: no, one or two values of each field, clauses
   of every kind, and composite ones to the second level. *)
EXTENDS Integers, Sequences, SequencesExt, FiniteSetsExt, TLC

CONSTANT None

Sets == {{}, {1}, {1, 2}}
Ids == {None, 1, 2}
Keys(pattern, keys, models) ==
    [is |-> "Keys", pattern_matching |-> pattern, keys |-> keys, models |-> models]

KeysClauses ==
    {Keys(p, k, {}) : p \in {"FixedLen", "VariableLen"}, k \in BoundedSeq(0..1, 2)}

Leaf ==
    {[is |-> "HashedKeys", ids |-> {}], [is |-> "HashedKeys", ids |-> {1}],
     Keys("FixedLen", <<1, 0>>, {}), Keys("FixedLen", << >>, {}), Keys("VariableLen", <<0, 1>>, {1})} \cup
    {[is |-> "Member", model |-> 1, op |-> op, value |-> 1] : op \in {"Eq", "Neq", "Gt"}} \cup
    {[is |-> "Member", model |-> 2, op |-> "Lte", value |-> 0]}

Of(op, S, n) == {[is |-> op, clauses |-> s] : s \in BoundedSeq(S, n)}
Flat == Of("And", Leaf, 2) \cup Of("Or", Leaf, 2)
Nested == Of("And", {[is |-> "HashedKeys", ids |-> {1}], Keys("FixedLen", <<1, 0>>, {}),
                     [is |-> "Member", model |-> 1, op |-> "Eq", value |-> 1]}, 2)

Clauses ==
    {None} \cup Leaf \cup Flat \cup
    UNION {{[is |-> o, clauses |-> <<a, b>>] : a \in Leaf, b \in {[n EXCEPT !.is = p] : n \in Nested}} :
             o \in {"And", "Or"}, p \in {"And", "Or"}}

Kinds == {"token", "balance", "transfer", "contract", "transaction", "aggregation", "activity", "event",
           "entity"}

Call == [contract : {1, 2}, entrypoint : {1}, caller : {1, 2}]

Filters ==
    "token" :> [contracts : Sets, token_ids : Sets] @@
    "balance" :> [contracts : Sets, accounts : Sets, token_ids : Sets] @@
    "transfer" :> [contracts : Sets, accounts : Sets, token_ids : Sets] @@
    "contract" :> [contracts : Sets, types : Sets] @@
    "transaction" :> [hashes : {{}, {1}}, callers : {{}, {1}}, called : {{}, {1}}, entrypoints : {{}, {2}},
                      models : {{}, {1}}, from_block : {None, 1}, to_block : {None, 1}] @@
    "aggregation" :> [aggregators : Sets, entities : Sets] @@
    "activity" :> [worlds : Sets, namespaces : Sets, callers : Sets] @@
    "event" :> {{}} \cup {{c} : c \in KeysClauses} @@
    "entity" :> {[clause |-> c, worlds |-> s[1], models |-> s[2]] :
                    c \in Clauses, s \in {<<{}, {}>>, <<{1}, {}>>, <<{1}, {1}>>}}

(* The models of an entity: one or both of those of the first world, or that of the
   second. *)
Models ==
    {1 :> v : v \in 0..2} \cup {2 :> w : w \in 0..1} \cup {3 :> 1} \cup
    {1 :> v @@ 2 :> w : v \in 0..2, w \in 0..1}
WorldOf(m) == IF 3 \in DOMAIN m THEN 2 ELSE 1

Records ==
    "token" :> [contract : 1..3, token_id : Ids] @@
    "balance" :> [contract : 1..3, account : 1..3, token_id : Ids] @@
    "transfer" :> [contract : {1, 3}, from : 1..3, to : 1..3, token_id : Ids] @@
    "contract" :> [contract : 1..3, type : 1..3] @@
    "transaction" :> [hash : {1, 2}, block : 0..2, models : SUBSET {1, 2}, calls : kSubset(1, Call) \cup kSubset(2, Call)] @@
    "aggregation" :> [aggregator : 1..3, entity : 1..3] @@
    "activity" :> [world : 1..3, namespace : 1..3, caller : 1..3] @@
    "event" :> BoundedSeq(1..2, 3) \ {<< >>} @@
    "entity" :> UNION {[id : {1, 2}, keys : {<<1>>, <<1, 2>>, <<2, 1, 1>>}, world : {WorldOf(m)},
                        updated : DOMAIN m, models : {m}] : m \in Models}
=============================================================================
