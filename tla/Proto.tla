------------------------------- MODULE Proto --------------------------------
(***************************************************************************)
(* What the server and its clients say to each other: the conversions      *)
(* between the types of the program and the messages of the wire           *)
(* (crates/proto/src/lib.rs, schema.rs).  A message is given by the codec  *)
(* of each of its fields: the pair of what From / Into does to the field   *)
(* on one side and what (Try)From does on the other.                       *)
(*                                                                         *)
(* A felt or a 256-bit number is a number below Radix ^ Width, in bytes    *)
(* Width digits.  A time is a pair of seconds and a fraction.  Numbers,    *)
(* texts and flags that are copied are the name of their field.            *)
(***************************************************************************)
EXTENDS Integers, Sequences, SequencesExt, FiniteSets

CONSTANTS None, Failed, Radix, Width, Depth

(* Codecs.  A value that only some of them tell apart is given as the zero    *)
(* they compare with and another.                                            *)
Same == [as |-> "same"]
Bytes == [as |-> "bytes"]
Time == [as |-> "time"]
Rfc3339 == [as |-> "rfc3339"]
Key == [as |-> "key"]
Todo == [as |-> "todo"]
Some(c) == [as |-> "some", of |-> c]
OrDefault(c, default) == [as |-> "ordefault", of |-> c, default |-> default]
Option(c) == [as |-> "option", of |-> c]
List(c) == [as |-> "list", of |-> c]
Code(names) == [as |-> "code", names |-> names]
NonZero(zero, other) == [as |-> "nonzero", zero |-> zero, other |-> other]
OrZero(c, zero, other) == [as |-> "orzero", of |-> c, zero |-> zero, other |-> other]
Message(m) == [as |-> "message", of |-> m]
OneOf(leaf, cases) == [as |-> "oneof", leaf |-> leaf, cases |-> cases]

Bytess == List(Bytes)

-----------------------------------------------------------------------------
(* Enumerations, in the order of their declaration: `as i32' *)

ContractType == Code(<<"WORLD", "ERC20", "ERC721", "ERC1155", "UDC", "OTHER">>)
PaginationDirection == Code(<<"Forward", "Backward">>)
OrderDirection == Code(<<"Asc", "Desc">>)
PatternMatching == Code(<<"FixedLen", "VariableLen">>)
LogicalOperator == Code(<<"And", "Or">>)
ComparisonOperator ==
    Code(<<"Eq", "Neq", "Gt", "Gte", "Lt", "Lte", "In", "NotIn", "Contains", "ContainsAll",
           "ContainsAny", "ArrayLengthEq", "ArrayLengthGt", "ArrayLengthLt">>)
CallType == Code(<<"Execute", "ExecuteFromOutside">>)

(* Queries *)
OrderBy == [field |-> Same, direction |-> OrderDirection]

Pagination ==
    [cursor |-> NonZero("", "cursor"), limit |-> NonZero(0, 1), direction |-> PaginationDirection,
     order_by |-> List(Message("OrderBy"))]

(* Every query but one takes a missing pagination for the default one. *)
Page ==
    OrDefault(Message("Pagination"),
              [cursor |-> None, limit |-> None, direction |-> "Forward", order_by |-> << >>])

TokenTransferQuery ==
    [account_addresses |-> Bytess, contract_addresses |-> Bytess, token_ids |-> Bytess, pagination |-> Page]
ControllerQuery == [contract_addresses |-> Bytess, usernames |-> List(Same), pagination |-> Page]
TokenAttributeFilter == [trait_name |-> Same, trait_value |-> Same]
TokenQuery ==
    [contract_addresses |-> Bytess, token_ids |-> Bytess, pagination |-> Page,
     attribute_filters |-> List(Message("TokenAttributeFilter"))]
AggregationQuery == [aggregator_ids |-> List(Same), entity_ids |-> List(Same), pagination |-> Page]
TokenBalanceQuery ==
    [account_addresses |-> Bytess, contract_addresses |-> Bytess, token_ids |-> Bytess, pagination |-> Page]
TokenContractQuery ==
    [contract_addresses |-> Bytess, contract_types |-> List(ContractType), pagination |-> Page]
ContractQuery == [contract_addresses |-> Bytess, contract_types |-> List(ContractType)]
EventQuery == [keys |-> Option(Message("KeysClause")), pagination |-> Page]
TransactionFilter ==
    [transaction_hashes |-> Bytess, caller_addresses |-> Bytess, contract_addresses |-> Bytess,
     entrypoints |-> List(Same), model_selectors |-> Bytess,
     from_block |-> Option(Same), to_block |-> Option(Same)]
TransactionQuery == [filter |-> Option(Message("TransactionFilter")), pagination |-> Page]
ActivityQuery ==
    [world_addresses |-> Bytess, namespaces |-> List(Same), caller_addresses |-> Bytess,
     from_time |-> Option(Time), to_time |-> Option(Time), pagination |-> Page]
AchievementQuery ==
    [world_addresses |-> Bytess, namespaces |-> List(Same), hidden |-> Option(Same), pagination |-> Page]
PlayerAchievementQuery ==
    [world_addresses |-> Bytess, namespaces |-> List(Same), player_addresses |-> Bytess,
     pagination |-> Some(Message("Pagination"))]
SearchQuery == [query |-> Same, limit |-> Same]

(* Clauses; Query is the query for entities and event messages. *)
KeysClause == [keys |-> List(Key), pattern_matching |-> PatternMatching, models |-> List(Same)]
MemberValue ==
    OneOf("String",
          [Primitive |-> Message("Primitive"), String |-> Same, List |-> List(Message("MemberValue"))])
MemberClause ==
    [model |-> Same, member |-> Same, operator |-> ComparisonOperator, value |-> Some(Message("MemberValue"))]
CompositeClause == [operator |-> LogicalOperator, clauses |-> List(Message("Clause"))]
Clause ==
    OneOf("HashedKeys",
          [HashedKeys |-> Bytess, Keys |-> Message("KeysClause"), Member |-> Message("MemberClause"),
           Composite |-> Message("CompositeClause")])
Query ==
    [clause |-> Option(Message("Clause")), pagination |-> Page, no_hashed_keys |-> Same,
     models |-> List(Same), historical |-> Same, world_addresses |-> Bytess]

-----------------------------------------------------------------------------
(* Answers *)

Contract ==
    [contract_address |-> Bytes, contract_type |-> ContractType, head |-> Option(Same), tps |-> Option(Same),
     last_block_timestamp |-> Option(Same), last_pending_block_tx |-> Option(Bytes),
     updated_at |-> Time, created_at |-> Time]
Controller == [address |-> Bytes, username |-> Same, deployed_at |-> Time]
Token ==
    [token_id |-> Option(Bytes), contract_address |-> Bytes, name |-> Same, symbol |-> Same,
     decimals |-> Same, metadata |-> Same, total_supply |-> Option(Bytes)]
TokenContract ==
    [contract_address |-> Bytes, type |-> ContractType, name |-> Same, symbol |-> Same, decimals |-> Same,
     metadata |-> Same, token_metadata |-> Same, total_supply |-> Option(Bytes), traits |-> Same]
TokenBalance ==
    [balance |-> Bytes, account_address |-> Bytes, contract_address |-> Bytes, token_id |-> Option(Bytes)]
TokenTransfer ==
    [id |-> Same, contract_address |-> Bytes, from_address |-> Bytes, to_address |-> Bytes, amount |-> Bytes,
     token_id |-> Option(Bytes), executed_at |-> Time, event_id |-> Option(Same)]
AggregationEntry ==
    [id |-> Same, aggregator_id |-> Same, entity_id |-> Same, value |-> Bytes, display_value |-> Same,
     position |-> Same, model_id |-> Same, created_at |-> Rfc3339, updated_at |-> Rfc3339]
ModelMessage ==
    [world_address |-> Bytes, selector |-> Bytes, schema |-> Same, layout |-> Same, name |-> Same,
     namespace |-> Same, packed_size |-> Same, unpacked_size |-> Same, use_legacy_store |-> Same,
     class_hash |-> Bytes, contract_address |-> Bytes]
Event == [keys |-> Bytess, data |-> Bytess, transaction_hash |-> Bytes]
TransactionCall ==
    [contract_address |-> Bytes, entrypoint |-> Same, calldata |-> Bytess, call_type |-> CallType,
     caller_address |-> Bytes]
Transaction ==
    [transaction_hash |-> Bytes, sender_address |-> Bytes, calldata |-> Bytess, max_fee |-> Bytes,
     signature |-> Bytess, nonce |-> Bytes, block_number |-> Same, transaction_type |-> Same,
     block_timestamp |-> Time, calls |-> List(Message("TransactionCall")), unique_models |-> Bytess]
Activity ==
    [id |-> Same, world_address |-> Bytes, namespace |-> Same, caller_address |-> Bytes,
     session_start |-> Time, session_end |-> Time, action_count |-> Same, actions |-> Same,
     updated_at |-> Time]
Achievement ==
    [id |-> Same, world_address |-> Bytes, namespace |-> Same, entity_id |-> Same, hidden |-> Same,
     index |-> Same, points |-> Same, start |-> Same, end |-> Same, group |-> Same, icon |-> Same,
     title |-> Same, description |-> Same, tasks |-> List(Message("AchievementTask")),
     data |-> Option(Same), total_completions |-> Same, completion_rate |-> Same,
     created_at |-> Time, updated_at |-> Time]
AchievementTask ==
    [task_id |-> Same, description |-> Same, total |-> Same, total_completions |-> Same,
     completion_rate |-> Same, created_at |-> Time]
AchievementProgression ==
    [id |-> Same, achievement_id |-> Same, task_id |-> Same, world_address |-> Bytes, namespace |-> Same,
     player_id |-> Bytes, count |-> Same, completed |-> Same, completed_at |-> Option(Time),
     created_at |-> Time, updated_at |-> Time]
PlayerAchievementStats ==
    [total_points |-> Same, completed_achievements |-> Same, total_achievements |-> Same,
     completion_percentage |-> Same, last_achievement_at |-> Option(Time),
     created_at |-> Time, updated_at |-> Time]
TaskProgress == [task_id |-> Same, count |-> Same, completed |-> Same]
PlayerAchievementProgress ==
    [achievement |-> Some(Message("Achievement")), task_progress |-> List(Message("TaskProgress")),
     completed |-> Same, progress_percentage |-> Same]
PlayerAchievementEntry ==
    [player_address |-> Bytes, stats |-> Some(Message("PlayerAchievementStats")),
     achievements |-> List(Message("PlayerAchievementProgress"))]
SqlValue == OneOf("Text",
          [Text |-> Same, Integer |-> Same, Real |-> Same, Blob |-> Same, Null |-> Same])
SearchMatch == [id |-> Same, fields |-> Same, score |-> Option(Same)]
TableSearchResults == [table |-> Same, count |-> Same, matches |-> List(Message("SearchMatch"))]
SearchResponse == [total |-> Same, results |-> List(Message("TableSearchResults"))]

(* The types of a model.  A primitive without a value is sent as zero. *)
Primitive ==
    OneOf("Integer",
          [Integer |-> OrZero(Same, 0, 1), Felt |-> OrZero(Bytes, 0, 1), U256 |-> OrZero(Bytes, 0, 1)])
EnumOption == [name |-> Same, ty |-> Some(Message("Ty"))]
Enum == [name |-> Same, option |-> OrZero(Same, 0, 1), options |-> List(Message("EnumOption"))]
Member == [name |-> Same, ty |-> Some(Message("Ty")), key |-> Same]
Struct == [name |-> Same, children |-> List(Message("Member"))]
Ty ==
    OneOf("ByteArray",
          [Primitive |-> Message("Primitive"), Enum |-> Message("Enum"), Struct |-> Message("Struct"),
           Tuple |-> List(Message("Ty")), Array |-> List(Message("Ty")), ByteArray |-> Same,
           FixedSizeArray |-> Todo])
Entity ==
    [world_address |-> Bytes, hashed_keys |-> Bytes, models |-> List(Message("Struct")),
     created_at |-> Time, updated_at |-> Time, executed_at |-> Time]

Messages ==
    [OrderBy |-> OrderBy, Pagination |-> Pagination, TokenTransferQuery |-> TokenTransferQuery,
     ControllerQuery |-> ControllerQuery, TokenAttributeFilter |-> TokenAttributeFilter,
     TokenQuery |-> TokenQuery, AggregationQuery |-> AggregationQuery,
     TokenBalanceQuery |-> TokenBalanceQuery, TokenContractQuery |-> TokenContractQuery,
     ContractQuery |-> ContractQuery, EventQuery |-> EventQuery, TransactionFilter |-> TransactionFilter,
     TransactionQuery |-> TransactionQuery, ActivityQuery |-> ActivityQuery,
     AchievementQuery |-> AchievementQuery, PlayerAchievementQuery |-> PlayerAchievementQuery,
     SearchQuery |-> SearchQuery, KeysClause |-> KeysClause, MemberClause |-> MemberClause,
     CompositeClause |-> CompositeClause, Query |-> Query, Contract |-> Contract,
     Controller |-> Controller, Token |-> Token, TokenContract |-> TokenContract,
     TokenBalance |-> TokenBalance, TokenTransfer |-> TokenTransfer,
     AggregationEntry |-> AggregationEntry, Model |-> ModelMessage, Event |-> Event,
     TransactionCall |-> TransactionCall, Transaction |-> Transaction, Activity |-> Activity,
     Achievement |-> Achievement, AchievementTask |-> AchievementTask,
     AchievementProgression |-> AchievementProgression,
     PlayerAchievementStats |-> PlayerAchievementStats, TaskProgress |-> TaskProgress,
     PlayerAchievementProgress |-> PlayerAchievementProgress,
     PlayerAchievementEntry |-> PlayerAchievementEntry, SearchMatch |-> SearchMatch,
     TableSearchResults |-> TableSearchResults, SearchResponse |-> SearchResponse,
     EnumOption |-> EnumOption, Enum |-> Enum, Member |-> Member, Struct |-> Struct, Entity |-> Entity]

Unions ==
    [MemberValue |-> MemberValue, Clause |-> Clause, SqlValue |-> SqlValue, Primitive |-> Primitive, Ty |-> Ty]

-----------------------------------------------------------------------------
(* The two directions of a codec.  A part that cannot be converted fails the *)
(* whole: a panic in the one direction, an error in the other.               *)

Whole(parts) == IF \E p \in DOMAIN parts : parts[p] = Failed THEN Failed ELSE parts

Tagged(tag, value) == IF value = Failed THEN Failed ELSE <<tag, value>>

ToBytes(n) == [i \in 1..Width |-> (n \div Radix ^ (Width - i)) % Radix]

FromBytes(bytes) == FoldLeft(LAMBDA n, b : n * Radix + b, 0, bytes)

RECURSIVE Into(_, _)
Into(c, v) ==
    CASE c.as = "same" -> v
      [] c.as = "bytes" -> ToBytes(v)
      [] c.as = "time" -> v[1]
      [] c.as = "rfc3339" -> [text |-> v]
      [] c.as = "key" -> IF v = None THEN << >> ELSE ToBytes(v)
      [] c.as = "todo" -> Failed
      [] c.as \in {"some", "ordefault"} -> Into(c.of, v)
      [] c.as = "option" -> IF v = None THEN None ELSE Into(c.of, v)
      [] c.as = "list" -> Whole([i \in DOMAIN v |-> Into(c.of, v[i])])
      [] c.as = "code" -> (CHOOSE i \in DOMAIN c.names : c.names[i] = v) - 1
      [] c.as = "nonzero" -> IF v = None THEN c.zero ELSE v
      [] c.as = "orzero" -> Into(c.of, IF v = None THEN c.zero ELSE v)
      [] c.as = "message" ->
           IF c.of \in DOMAIN Unions THEN Into(Unions[c.of], v)
           ELSE Whole([f \in DOMAIN Messages[c.of] |-> Into(Messages[c.of][f], v[f])])
      [] c.as = "oneof" -> Tagged(v[1], Into(c.cases[v[1]], v[2]))

RECURSIVE TryFrom(_, _)
TryFrom(c, w) ==
    CASE c.as = "same" -> w
      [] c.as = "bytes" -> FromBytes(w)
      [] c.as = "time" -> <<w, 0>>
      [] c.as = "rfc3339" -> w.text
      [] c.as = "key" -> IF w = << >> THEN None ELSE FromBytes(w)
      [] c.as = "some" -> IF w = None THEN Failed ELSE TryFrom(c.of, w)
      [] c.as = "ordefault" -> IF w = None THEN c.default ELSE TryFrom(c.of, w)
      [] c.as = "option" -> IF w = None THEN None ELSE TryFrom(c.of, w)
      [] c.as = "list" -> Whole([i \in DOMAIN w |-> TryFrom(c.of, w[i])])
      [] c.as = "code" -> c.names[w + 1]
      [] c.as = "nonzero" -> IF w = c.zero THEN None ELSE w
      [] c.as = "orzero" -> TryFrom(c.of, w)
      [] c.as = "message" ->
           IF c.of \in DOMAIN Unions THEN TryFrom(Unions[c.of], w)
           ELSE Whole([f \in DOMAIN Messages[c.of] |-> TryFrom(Messages[c.of][f], w[f])])
      [] c.as = "oneof" -> Tagged(w[1], TryFrom(c.cases[w[1]], w[2]))

-----------------------------------------------------------------------------
(* The values a message is tried with: a sample, and every value that       *)
(* differs from it in one place, to the given depth.                        *)

Samples == {0, Radix}

RECURSIVE Sample(_, _)
Sample(c, name) ==
    CASE c.as = "same" -> name
      [] c.as \in {"bytes", "key"} -> 1
      [] c.as \in {"time", "rfc3339"} -> <<1, 0>>
      [] c.as \in {"some", "ordefault", "option"} -> Sample(c.of, name)
      [] c.as = "list" -> << >>
      [] c.as = "code" -> c.names[1]
      [] c.as \in {"nonzero", "orzero"} -> c.other
      [] c.as = "message" ->
           IF c.of \in DOMAIN Unions THEN Sample(Unions[c.of], name)
           ELSE [f \in DOMAIN Messages[c.of] |-> Sample(Messages[c.of][f], f)]
      [] c.as = "oneof" -> <<c.leaf, Sample(c.cases[c.leaf], name)>>

RECURSIVE Variants(_, _, _)
Variants(c, name, depth) ==
    CASE c.as = "same" -> {name}
      [] c.as = "bytes" -> Samples
      [] c.as = "key" -> Samples \cup {None}
      [] c.as \in {"time", "rfc3339"} -> {<<s, u>> : s \in {0, 1}, u \in {0, 1}}
      [] c.as \in {"some", "ordefault"} -> Variants(c.of, name, depth)
      [] c.as = "option" -> {None} \cup Variants(c.of, name, depth)
      [] c.as = "list" -> {<< >>} \cup {<<Sample(c.of, name), v>> : v \in Variants(c.of, name, depth)}
      [] c.as = "code" -> Range(c.names)
      [] c.as \in {"nonzero", "orzero"} -> {None, c.zero, c.other}
      [] c.as = "todo" -> {<< >>}
      [] c.as = "message" ->
           IF depth = 0 THEN {Sample(c, name)}
           ELSE IF c.of \in DOMAIN Unions THEN Variants(Unions[c.of], name, depth - 1)
           ELSE UNION {{[Sample(c, name) EXCEPT ![f] = v] :
                           v \in Variants(Messages[c.of][f], f, depth - 1)} : f \in DOMAIN Messages[c.of]}
      [] c.as = "oneof" ->
           UNION {{<<t, v>> : v \in Variants(c.cases[t], t, depth)} : t \in DOMAIN c.cases}

(* What becomes of a value on the way, stated from the value alone. *)
RECURSIVE Kept(_, _)
Kept(c, v) ==
    CASE c.as = "time" -> <<v[1], 0>>
      [] c.as = "todo" -> Failed
      [] c.as = "nonzero" -> IF v = c.zero THEN None ELSE v
      [] c.as = "orzero" -> IF v = None THEN c.zero ELSE v
      [] c.as \in {"some", "ordefault"} -> Kept(c.of, v)
      [] c.as = "option" -> IF v = None THEN None ELSE Kept(c.of, v)
      [] c.as = "list" -> Whole([i \in DOMAIN v |-> Kept(c.of, v[i])])
      [] c.as = "message" ->
           IF c.of \in DOMAIN Unions THEN Kept(Unions[c.of], v)
           ELSE Whole([f \in DOMAIN Messages[c.of] |-> Kept(Messages[c.of][f], v[f])])
      [] c.as = "oneof" -> Tagged(v[1], Kept(c.cases[v[1]], v[2]))
      [] OTHER -> v

-----------------------------------------------------------------------------
VARIABLE case

Init ==
    \E m \in DOMAIN Messages \cup DOMAIN Unions :
        \E v \in Variants(Message(m), m, Depth) : case = [message |-> m, value |-> v]

Next == UNCHANGED case

Spec == Init /\ [][Next]_case

(* What a client reads is what the server sent, and the reverse for a query: *)
(* every number keeps its leading zeros, every name its meaning, every key   *)
(* that matches anything is told from the key zero.  Only this is lost: the  *)
(* fraction of a second of a time, the difference between no cursor or limit *)
(* and an empty one, and between a value that is not set and zero; a type    *)
(* with an array of fixed size cannot be sent at all.  A value that made the *)
(* trip once makes it again unchanged.                                       *)
WireKeeps ==
    "message" \in DOMAIN case =>
        LET c == Message(case.message)
            sent == Into(c, case.value)
            got == IF sent = Failed THEN Failed ELSE TryFrom(c, sent)
        IN  /\ got = Kept(c, case.value)
            /\ got # Failed => TryFrom(c, Into(c, got)) = got
=============================================================================
