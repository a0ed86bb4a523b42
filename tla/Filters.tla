------------------------------- MODULE Filters -------------------------------
(***************************************************************************)
(* What a query selects of a table and what a subscription with the same   *)
(* filter announces of it, for the records a client can both query and     *)
(* subscribe to.  A state is one filter put to one record.                 *)
(*                                                                         *)
(* A list of a filter is a set, and an empty one does not restrict.  A     *)
(* fungible token has no id (None).  Keys are short sequences of numbers,  *)
(* in which 0 stands for "any" in a pattern.  An entity has a value of     *)
(* each of its models, one of which, `updated', was just written for the   *)
(* first time.  The text of a WHERE clause is an OR of ANDs, a sequence of *)
(* sequences of conditions, since AND binds stronger than OR.              *)
(***************************************************************************)
EXTENDS Integers, Sequences, SequencesExt, FiniteSets

CONSTANTS
    None,
    Kind,       \* the kinds of records
    Filter,     \* for each kind, the filters that are tried
    Record      \* for each kind, the records

VARIABLES kind, filter, record

filterVars == <<kind, filter, record>>

Restricts(S, v) == S = {} \/ v \in S

-----------------------------------------------------------------------------
(* The subscription managers.  The ids of a filter do not concern what has
   none. *)
IdInterests(ids, id) == id = None \/ Restricts(ids, id)

process_token(f, r) == Restricts(f.contracts, r.contract) /\ IdInterests(f.token_ids, r.token_id)

process_balance(f, r) ==
    /\ Restricts(f.contracts, r.contract)
    /\ Restricts(f.accounts, r.account)
    /\ IdInterests(f.token_ids, r.token_id)

(* Mutant: both ends of the transfer have to be asked for. *)
process_transfer_both(f, r) ==
    /\ Restricts(f.contracts, r.contract)
    /\ Restricts(f.accounts, r.from) /\ Restricts(f.accounts, r.to)
    /\ IdInterests(f.token_ids, r.token_id)

process_transfer(f, r) ==
    /\ Restricts(f.contracts, r.contract)
    /\ Restricts(f.accounts, r.from) \/ Restricts(f.accounts, r.to)
    /\ IdInterests(f.token_ids, r.token_id)

process_contract(f, r) == Restricts(f.contracts, r.contract) /\ Restricts(f.types, r.type)

(* The `continue' of the loops over calls and models is that of these loops:
   only hashes and blocks restrict. *)
process_transaction(f, r) ==
    /\ Restricts(f.hashes, r.hash)
    /\ f.from_block # None => r.block >= f.from_block
    /\ f.to_block # None => r.block <= f.to_block

process_aggregation_update(f, r) == Restricts(f.aggregators, r.aggregator) /\ Restricts(f.entities, r.entity)

process_activity_update(f, r) ==
    Restricts(f.worlds, r.world) /\ Restricts(f.namespaces, r.namespace) /\ Restricts(f.callers, r.caller)

(* The keys of an event or entity under a pattern. *)
KeysMatch(c, keys) ==
    /\ c.pattern_matching = "FixedLen" => Len(keys) = Len(c.keys)
    /\ \A i \in DOMAIN keys : i <= Len(c.keys) => c.keys[i] \in {0, keys[i]}

match_keys(clauses, keys) == clauses # {} => \E c \in clauses : KeysMatch(c, keys)

Compare(op, a, b) ==
    CASE op = "Eq" -> a = b [] op = "Neq" -> a # b [] op = "Gt" -> a > b [] op = "Lte" -> a <= b

(* Only the model that was written is compared with the clause. *)
RECURSIVE match_entity(_, _)
match_entity(c, r) ==
    CASE c.is = "HashedKeys" -> Restricts(c.ids, r.id)
      [] c.is = "Keys" -> Restricts(c.models, r.updated) /\ KeysMatch(c, r.keys)
      [] c.is = "Member" -> c.model = r.updated /\ Compare(c.op, r.models[r.updated], c.value)
      [] c.is = "And" -> \A i \in DOMAIN c.clauses : match_entity(c.clauses[i], r)
      [] c.is = "Or" -> \E i \in DOMAIN c.clauses : match_entity(c.clauses[i], r)

process_entity_update(f, r) ==
    f.clause # None => Restricts(f.worlds, r.world) /\ match_entity(f.clause, r)

-----------------------------------------------------------------------------
(* The queries. *)
tokens(f, r) ==
    r.token_id # None /\ Restricts(f.contracts, r.contract) /\ Restricts(f.token_ids, r.token_id)

token_balances(f, r) ==
    /\ Restricts(f.contracts, r.contract)
    /\ Restricts(f.accounts, r.account)
    /\ Restricts(f.token_ids, r.token_id)

token_transfers(f, r) ==
    /\ Restricts(f.contracts, r.contract)
    /\ f.accounts # {} => r.from \in f.accounts \/ r.to \in f.accounts
    /\ Restricts(f.token_ids, r.token_id)

contracts(f, r) == Restricts(f.contracts, r.contract) /\ Restricts(f.types, r.type)

(* One call has to satisfy all that is asked of calls. *)
transactions(f, r) ==
    /\ Restricts(f.hashes, r.hash)
    /\ f.callers # {} \/ f.entrypoints # {} \/ f.called # {} =>
         \E call \in r.calls : /\ Restricts(f.called, call.contract)
                               /\ Restricts(f.entrypoints, call.entrypoint)
                               /\ Restricts(f.callers, call.caller)
    /\ f.models # {} => r.models \cap f.models # {}
    /\ f.from_block # None => r.block >= f.from_block
    /\ f.to_block # None => r.block <= f.to_block

aggregations(f, r) == Restricts(f.aggregators, r.aggregator) /\ Restricts(f.entities, r.entity)

activities(f, r) ==
    Restricts(f.worlds, r.world) /\ Restricts(f.namespaces, r.namespace) /\ Restricts(f.callers, r.caller)

(* The regular expression: a pattern without keys stands for one key, and one
   of variable length allows more keys after it. *)
build_keys_pattern(c, keys) ==
    LET pattern == IF c.keys = << >> THEN <<0>> ELSE c.keys
    IN  /\ Len(keys) >= Len(pattern)
        /\ c.pattern_matching = "FixedLen" => Len(keys) = Len(pattern)
        /\ \A i \in DOMAIN pattern : pattern[i] \in {0, keys[i]}

(* The query of events takes one clause. *)
events(clauses, keys) == clauses # {} => \E c \in clauses : build_keys_pattern(c, keys)

(* Two texts joined with AND, without parentheses: the last alternative of the
   one and the first of the other become one. *)
AndJoin(s, t) ==
    IF s = << >> THEN t ELSE IF t = << >> THEN s
    ELSE Front(s) \o <<Last(s) \o Head(t)>> \o Tail(t)

Join(texts, is_or) == FoldLeft(LAMBDA s, t : IF is_or THEN s \o t ELSE AndJoin(s, t), << >>, texts)

RECURSIVE build_composite_clause(_)
build_composite_clause(c) ==
    Join([i \in DOMAIN c.clauses |->
             IF c.clauses[i].is \in {"And", "Or"} THEN build_composite_clause(c.clauses[i])
             ELSE <<<<c.clauses[i]>>>>],
         c.is = "Or")

(* A condition on the row of the entity and one of its models m, to which the
   tables of all the models are joined: a member of a model that the entity does
   not have is NULL. *)
Condition(c, r, m) ==
    CASE c.is = "HashedKeys" -> r.id \in c.ids
      [] c.is = "Keys" -> /\ c.models # {} => c.models \cap DOMAIN r.models # {}
                          /\ build_keys_pattern(c, r.keys)
      [] c.is = "Member" -> c.model \in DOMAIN r.models /\ Compare(c.op, r.models[c.model], c.value)
      [] c.is = "Worlds" -> r.world \in c.worlds
      [] c.is = "Models" -> m \in c.models

(* A clause that is not composite is made the only one of a conjunction. *)
Composite(clause) ==
    IF clause = None THEN [is |-> "And", clauses |-> << >>]
    ELSE IF clause.is \in {"And", "Or"} THEN clause
    ELSE [is |-> "And", clauses |-> <<clause>>]

RECURSIVE Leaves(_)
Leaves(c) ==
    IF c.is \in {"And", "Or"} THEN UNION {Leaves(c.clauses[i]) : i \in DOMAIN c.clauses} ELSE {c}

(* Only the tables of the models asked for are joined: the query fails if a member
   of another one is compared. *)
Joined(f) ==
    \A leaf \in Leaves(Composite(f.clause)) : leaf.is = "Member" => Restricts(f.models, leaf.model)

query_by_composite(f, r) ==
    LET worlds == IF f.worlds = {} THEN << >> ELSE <<<<[is |-> "Worlds", worlds |-> f.worlds]>>>>
        models == IF f.models = {} THEN << >> ELSE <<<<[is |-> "Models", models |-> f.models]>>>>
        where_clause == Join(<<build_composite_clause(Composite(f.clause)), worlds, models>>, FALSE)
    IN  /\ Joined(f)
        /\ where_clause # << >> =>
             \E m \in DOMAIN r.models : \E i \in DOMAIN where_clause :
                 \A j \in DOMAIN where_clause[i] : Condition(where_clause[i][j], r, m)

-----------------------------------------------------------------------------
Selected ==
    CASE kind = "token" -> tokens(filter, record)
      [] kind = "balance" -> token_balances(filter, record)
      [] kind = "transfer" -> token_transfers(filter, record)
      [] kind = "contract" -> contracts(filter, record)
      [] kind = "transaction" -> transactions(filter, record)
      [] kind = "aggregation" -> aggregations(filter, record)
      [] kind = "activity" -> activities(filter, record)
      [] kind = "event" -> events(filter, record)
      [] kind = "entity" -> query_by_composite(filter, record)

Announced ==
    CASE kind = "token" -> process_token(filter, record)
      [] kind = "balance" -> process_balance(filter, record)
      [] kind = "transfer" -> process_transfer(filter, record)
      [] kind = "contract" -> process_contract(filter, record)
      [] kind = "transaction" -> process_transaction(filter, record)
      [] kind = "aggregation" -> process_aggregation_update(filter, record)
      [] kind = "activity" -> process_activity_update(filter, record)
      [] kind = "event" -> match_keys(filter, record)
      [] kind = "entity" -> process_entity_update(filter, record)

(* A client asks with a filter, then a record is written. *)
Init ==
    /\ kind \in Kind
    /\ filter \in Filter[kind]
    /\ record = None

Write ==
    /\ record = None
    /\ record' \in Record[kind]
    /\ UNCHANGED <<kind, filter>>

Next == Write

Spec == Init /\ [][Next]_filterVars

-----------------------------------------------------------------------------
(* A pattern of fixed length has keys, a disjunction has clauses, and clauses
   are nested without a change of the operator. *)
PlainKeys(c) == c.is = "Keys" /\ c.pattern_matching = "FixedLen" => c.keys # << >>

PlainClause(c) ==
    /\ \A leaf \in Leaves(c) : PlainKeys(leaf)
    /\ c.is = "Or" => c.clauses # << >>
    /\ c.is \in {"And", "Or"} =>
         \A i \in DOMAIN c.clauses : c.clauses[i].is \in {"And", "Or"} =>
             c.clauses[i].is = c.is /\ c.clauses[i].clauses # << >>

(* Of the models of the entity, a clause names no other than the updated one. *)
AboutUpdate(c) ==
    \A leaf \in Leaves(c) :
        /\ leaf.is = "Member" /\ leaf.model \in DOMAIN record.models => leaf.model = record.updated
        /\ leaf.is = "Keys" /\ leaf.models \cap DOMAIN record.models # {} => record.updated \in leaf.models

Plain ==
    CASE kind = "event" -> \A c \in filter : PlainKeys(c)
      [] kind = "entity" -> filter.clause # None =>
             /\ PlainClause(filter.clause) /\ AboutUpdate(filter.clause)
             /\ filter.clause.is = "Or" => filter.worlds = {} /\ filter.models = {}
      [] OTHER -> TRUE

(* A list of ids is not empty, a pattern is not longer than the keys, and a nested
   clause is not empty. *)
ExactClause(c) ==
    /\ \A leaf \in Leaves(c) :
          /\ leaf.is = "HashedKeys" => leaf.ids # {}
          /\ leaf.is = "Keys" => Len(leaf.keys) <= Len(record.keys)
    /\ c.is \in {"And", "Or"} =>
          \A i \in DOMAIN c.clauses : c.clauses[i].is \in {"And", "Or"} => c.clauses[i].clauses # << >>

(* For an entity, and/or clauses may be nested at will: what AND binds without
   parentheses only adds to what is selected. *)
Exact ==
    CASE kind \in {"contract", "aggregation", "activity"} -> TRUE
      [] kind \in {"token", "balance", "transfer"} -> record.token_id # None
      [] kind = "event" -> \A c \in filter : Len(c.keys) <= Len(record)
      [] kind = "entity" ->
             /\ filter.models = {}
             /\ IF filter.clause = None THEN filter.worlds = {} ELSE ExactClause(filter.clause)
      [] OTHER -> FALSE

(* A client that queries and subscribes with the same filter is told of every
   change to what it would query, whichever of the two implementations of the
   filter it meets (the WHERE clauses of storage.rs and model.rs, the
   process_* functions and match_entity), and where the filters mean the same,
   of nothing else. *)
SubscriptionFollowsQuery ==
    record # None => (Plain /\ Selected => Announced) /\ (Exact /\ Announced => Selected)
=============================================================================
