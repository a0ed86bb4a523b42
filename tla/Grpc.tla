-------------------------------- MODULE Grpc --------------------------------
(***************************************************************************)
(* The calls of the World service, from the method of a client to the      *)
(* storage or the subscription manager that serves it, and back.           *)
(*                                                                         *)
(* A call passes four hands: the method of the client library (crates/     *)
(* client), the gRPC client that builds the request (crates/grpc/client),  *)
(* the handler that takes it apart (crates/grpc/server), and the storage   *)
(* or the manager.  Arguments are handed on by position between the first  *)
(* two and between the last two, and by the name of the field in between.  *)
(* The prefixes are World for the gRPC client and serve for the handler;   *)
(* the methods of the library have their own names.                        *)
(***************************************************************************)
EXTENDS Proto

CONSTANT CallDepth      \* bound: depth of the queries and answers tried

Names == List(Same)
Id == <<"subscription_id", Same>>

-----------------------------------------------------------------------------
(* Queries: the message asked with, what the handler asks of the storage,    *)
(* what its answer is made of, and whether it comes in pages.                *)

Pages(query, storage, item) == [query |-> query, storage |-> storage, item |-> item, paged |-> TRUE]
Unpaged(query, storage, item) == [query |-> query, storage |-> storage, item |-> item, paged |-> FALSE]

serve_retrieve_transactions == Pages("TransactionQuery", "transactions", "Transaction")
serve_retrieve_entities == Pages("Query", "entities", "Entity")
serve_retrieve_event_messages == Pages("Query", "event_messages", "Entity")
serve_retrieve_events == Pages("EventQuery", "events", "Event")
serve_retrieve_controllers == Pages("ControllerQuery", "controllers", "Controller")
serve_retrieve_aggregations == Pages("AggregationQuery", "aggregations", "AggregationEntry")
serve_retrieve_activities == Pages("ActivityQuery", "activities", "Activity")
serve_retrieve_achievements == Pages("AchievementQuery", "achievements", "Achievement")
serve_retrieve_player_achievements ==
    Pages("PlayerAchievementQuery", "player_achievements", "PlayerAchievementEntry")
serve_search == Unpaged("SearchQuery", "search", "SearchResponse")
serve_retrieve_contracts == Unpaged("ContractQuery", "contracts", "Contract")
serve_retrieve_tokens == Pages("TokenQuery", "tokens", "Token")
serve_retrieve_token_contracts == Pages("TokenContractQuery", "token_contracts", "TokenContract")
serve_retrieve_token_transfers == Pages("TokenTransferQuery", "token_transfers", "TokenTransfer")
serve_retrieve_token_balances == Pages("TokenBalanceQuery", "token_balances", "TokenBalance")

(* The methods of the library, with the handler their request goes to and    *)
(* the message its items are read as.                                        *)
Asks(handler, item) == [handler |-> handler, item |-> item]

controllers == Asks(serve_retrieve_controllers, "Controller")
contracts == Asks(serve_retrieve_contracts, "Contract")
tokens == Asks(serve_retrieve_tokens, "Token")
token_balances == Asks(serve_retrieve_token_balances, "TokenBalance")
token_contracts == Asks(serve_retrieve_token_contracts, "TokenContract")
token_transfers == Asks(serve_retrieve_token_transfers, "TokenTransfer")
transactions == Asks(serve_retrieve_transactions, "Transaction")
aggregations == Asks(serve_retrieve_aggregations, "AggregationEntry")
activities == Asks(serve_retrieve_activities, "Activity")
achievements == Asks(serve_retrieve_achievements, "Achievement")
player_achievements == Asks(serve_retrieve_player_achievements, "PlayerAchievementEntry")
entities == Asks(serve_retrieve_entities, "Entity")
event_messages == Asks(serve_retrieve_event_messages, "Entity")
starknet_events == Asks(serve_retrieve_events, "Event")
search == Asks(serve_search, "SearchResponse")

Queries ==
    [controllers |-> controllers, contracts |-> contracts, tokens |-> tokens,
     token_balances |-> token_balances, token_contracts |-> token_contracts,
     token_transfers |-> token_transfers, transactions |-> transactions, aggregations |-> aggregations,
     activities |-> activities, achievements |-> achievements,
     player_achievements |-> player_achievements, entities |-> entities,
     event_messages |-> event_messages, events |-> starknet_events, search |-> search]

Cursor == NonZero("", "cursor")

(* The client's half of a query: the query is sent, never left out. *)
Request(method, query) == Into(Message(method.handler.query), query)

(* The handler: a query that is missing or cannot be read is refused, an    *)
(* error of the storage is passed on.  Storage answers with a page.         *)
Retrieve(handler, request, answer) ==
    LET query == IF request = None THEN Failed ELSE TryFrom(Message(handler.query), request)
        items == IF answer = Failed THEN Failed ELSE Into(List(Message(handler.item)), answer.items)
    IN  IF Failed \in {query, items} THEN [asked |-> None, response |-> Failed]
        ELSE [asked |-> [of |-> handler.storage, query |-> query],
              response |-> [items |-> items, next_cursor |-> Into(Cursor, answer.next_cursor)]]

(* Mutant: the cursor is handed to the caller as it was received. *)
PageOf_raw(method, response) ==
    IF response = Failed THEN Failed
    ELSE [items |-> TryFrom(List(Message(method.item)), response.items), next_cursor |-> response.next_cursor]

PageOf(method, response) ==
    IF response = Failed THEN Failed
    ELSE [items |-> TryFrom(List(Message(method.item)), response.items),
          next_cursor |-> IF method.handler.paged THEN TryFrom(Cursor, response.next_cursor) ELSE None]

-----------------------------------------------------------------------------
(* Subscriptions: the arguments of the library's method in the order it      *)
(* passes them on.                                                           *)

on_activity_updated == <<"world_addresses", "namespaces", "caller_addresses">>
update_activity_subscription == <<"subscription_id", "world_addresses", "namespaces", "caller_addresses">>
on_achievement_progression_updated ==
    <<"world_addresses", "namespaces", "player_addresses", "achievement_ids">>
update_achievement_progression_subscription ==
    <<"subscription_id", "world_addresses", "namespaces", "player_addresses", "achievement_ids">>
on_aggregation_updated == <<"aggregator_ids", "entity_ids">>
update_aggregation_subscription == <<"subscription_id", "aggregator_ids", "entity_ids">>
on_transaction == <<"filter">>
on_entity_updated == <<"clause", "world_addresses">>
update_entity_subscription == <<"subscription_id", "clause", "world_addresses">>
on_event_message_updated == <<"clause", "world_addresses">>
update_event_message_subscription == <<"subscription_id", "clause", "world_addresses">>
on_starknet_event == <<"keys">>
on_token_balance_updated == <<"contract_addresses", "account_addresses", "token_ids">>
update_token_balance_subscription ==
    <<"subscription_id", "contract_addresses", "account_addresses", "token_ids">>
on_token_updated == <<"contract_addresses", "token_ids">>
update_token_subscription == <<"subscription_id", "contract_addresses", "token_ids">>
on_token_transfer_updated == <<"contract_addresses", "account_addresses", "token_ids">>
update_token_transfer_subscription ==
    <<"subscription_id", "contract_addresses", "account_addresses", "token_ids">>

(* The gRPC client's parameters in their order, each with what its field     *)
(* of the request is made with.                                              *)
World_subscribe_activities ==
    <<<<"world_addresses", Bytess>>, <<"namespaces", Names>>, <<"caller_addresses", Bytess>>>>
World_update_activities_subscription ==
    <<Id, <<"world_addresses", Bytess>>, <<"namespaces", Names>>, <<"caller_addresses", Bytess>>>>
World_subscribe_achievement_progressions ==
    <<<<"world_addresses", Bytess>>, <<"namespaces", Names>>, <<"player_addresses", Bytess>>,
      <<"achievement_ids", Names>>>>
World_update_achievement_progressions_subscription ==
    <<Id, <<"world_addresses", Bytess>>, <<"namespaces", Names>>, <<"player_addresses", Bytess>>,
      <<"achievement_ids", Names>>>>
World_subscribe_aggregations == <<<<"aggregator_ids", Names>>, <<"entity_ids", Names>>>>
World_update_aggregations_subscription == <<Id, <<"aggregator_ids", Names>>, <<"entity_ids", Names>>>>
World_subscribe_transactions == <<<<"filter", Option(Message("TransactionFilter"))>>>>
World_subscribe_entities == <<<<"clause", Option(Message("Clause"))>>, <<"world_addresses", Bytess>>>>
World_update_entities_subscription ==
    <<Id, <<"clause", Option(Message("Clause"))>>, <<"world_addresses", Bytess>>>>
World_subscribe_event_messages == <<<<"clause", Option(Message("Clause"))>>, <<"world_addresses", Bytess>>>>
World_update_event_messages_subscription ==
    <<Id, <<"clause", Option(Message("Clause"))>>, <<"world_addresses", Bytess>>>>
World_subscribe_events == <<<<"keys", List(Message("KeysClause"))>>>>
World_subscribe_token_balances ==
    <<<<"contract_addresses", Bytess>>, <<"account_addresses", Bytess>>, <<"token_ids", Bytess>>>>
World_update_token_balances_subscription ==
    <<Id, <<"contract_addresses", Bytess>>, <<"account_addresses", Bytess>>, <<"token_ids", Bytess>>>>
World_subscribe_tokens == <<<<"contract_addresses", Bytess>>, <<"token_ids", Bytess>>>>
World_update_tokens_subscription == <<Id, <<"contract_addresses", Bytess>>, <<"token_ids", Bytess>>>>
World_subscribe_token_transfers ==
    <<<<"contract_addresses", Bytess>>, <<"account_addresses", Bytess>>, <<"token_ids", Bytess>>>>
World_update_token_transfers_subscription ==
    <<Id, <<"contract_addresses", Bytess>>, <<"account_addresses", Bytess>>, <<"token_ids", Bytess>>>>

(* The handler's arguments to the manager in their order, each with how its  *)
(* field of the request is read.                                             *)
serve_subscribe_activities ==
    <<<<"world_addresses", Bytess>>, <<"namespaces", Names>>, <<"caller_addresses", Bytess>>>>
serve_update_activities_subscription ==
    <<Id, <<"world_addresses", Bytess>>, <<"namespaces", Names>>, <<"caller_addresses", Bytess>>>>
serve_subscribe_achievement_progressions ==
    <<<<"world_addresses", Bytess>>, <<"namespaces", Names>>, <<"player_addresses", Bytess>>,
      <<"achievement_ids", Names>>>>
serve_update_achievement_progressions_subscription ==
    <<Id, <<"world_addresses", Bytess>>, <<"namespaces", Names>>, <<"player_addresses", Bytess>>,
      <<"achievement_ids", Names>>>>
serve_subscribe_aggregations == <<<<"aggregator_ids", Names>>, <<"entity_ids", Names>>>>
serve_update_aggregations_subscription == <<Id, <<"aggregator_ids", Names>>, <<"entity_ids", Names>>>>
serve_subscribe_transactions == <<<<"filter", Option(Message("TransactionFilter"))>>>>
serve_subscribe_entities == <<<<"clause", Option(Message("Clause"))>>, <<"world_addresses", Bytess>>>>
serve_update_entities_subscription ==
    <<Id, <<"clause", Option(Message("Clause"))>>, <<"world_addresses", Bytess>>>>
serve_subscribe_event_messages == <<<<"clause", Option(Message("Clause"))>>, <<"world_addresses", Bytess>>>>
serve_update_event_messages_subscription ==
    <<Id, <<"clause", Option(Message("Clause"))>>, <<"world_addresses", Bytess>>>>
serve_subscribe_events == <<<<"keys", List(Message("KeysClause"))>>>>
serve_subscribe_token_balances ==
    <<<<"contract_addresses", Bytess>>, <<"account_addresses", Bytess>>, <<"token_ids", Bytess>>>>
serve_update_token_balances_subscription ==
    <<Id, <<"contract_addresses", Bytess>>, <<"account_addresses", Bytess>>, <<"token_ids", Bytess>>>>
serve_subscribe_tokens == <<<<"contract_addresses", Bytess>>, <<"token_ids", Bytess>>>>
serve_update_tokens_subscription == <<Id, <<"contract_addresses", Bytess>>, <<"token_ids", Bytess>>>>

serve_subscribe_token_transfers ==
    <<<<"contract_addresses", Bytess>>, <<"account_addresses", Bytess>>, <<"token_ids", Bytess>>>>
serve_update_token_transfers_subscription ==
    <<Id, <<"contract_addresses", Bytess>>, <<"account_addresses", Bytess>>, <<"token_ids", Bytess>>>>

(* The parameters of the managers' add_subscriber and update_subscriber, or  *)
(* the fields of the filter they take.                                       *)
ActivityFilter == <<"world_addresses", "namespaces", "caller_addresses">>
AchievementProgressionFilter == <<"world_addresses", "namespaces", "player_addresses", "achievement_ids">>
AggregationFilter == <<"aggregator_ids", "entity_ids">>
transaction_add_subscriber == <<"filter">>
entity_add_subscriber == <<"clause", "world_addresses">>
event_message_add_subscriber == <<"clause", "world_addresses">>
event_add_subscriber == <<"keys">>
token_balance_add_subscriber == <<"contract_addresses", "account_addresses", "token_ids">>
token_add_subscriber == <<"contract_addresses", "token_ids">>
token_transfer_add_subscriber == <<"contract_addresses", "account_addresses", "token_ids">>

Updating(parameters) == <<"subscription_id">> \o parameters

Path(library, world, handler, manager) ==
    [library |-> library, world |-> world, handler |-> handler, manager |-> manager]

Paths ==
    {Path(on_activity_updated, World_subscribe_activities, serve_subscribe_activities, ActivityFilter),
     Path(update_activity_subscription, World_update_activities_subscription,
          serve_update_activities_subscription, Updating(ActivityFilter)),
     Path(on_achievement_progression_updated, World_subscribe_achievement_progressions,
          serve_subscribe_achievement_progressions, AchievementProgressionFilter),
     Path(update_achievement_progression_subscription, World_update_achievement_progressions_subscription,
          serve_update_achievement_progressions_subscription, Updating(AchievementProgressionFilter)),
     Path(on_aggregation_updated, World_subscribe_aggregations, serve_subscribe_aggregations,
          AggregationFilter),
     Path(update_aggregation_subscription, World_update_aggregations_subscription,
          serve_update_aggregations_subscription, Updating(AggregationFilter)),
     Path(on_transaction, World_subscribe_transactions, serve_subscribe_transactions,
          transaction_add_subscriber),
     Path(on_entity_updated, World_subscribe_entities, serve_subscribe_entities, entity_add_subscriber),
     Path(update_entity_subscription, World_update_entities_subscription,
          serve_update_entities_subscription, Updating(entity_add_subscriber)),
     Path(on_event_message_updated, World_subscribe_event_messages, serve_subscribe_event_messages,
          event_message_add_subscriber),
     Path(update_event_message_subscription, World_update_event_messages_subscription,
          serve_update_event_messages_subscription, Updating(event_message_add_subscriber)),
     Path(on_starknet_event, World_subscribe_events, serve_subscribe_events, event_add_subscriber),
     Path(on_token_balance_updated, World_subscribe_token_balances, serve_subscribe_token_balances,
          token_balance_add_subscriber),
     Path(update_token_balance_subscription, World_update_token_balances_subscription,
          serve_update_token_balances_subscription, Updating(token_balance_add_subscriber)),
     Path(on_token_updated, World_subscribe_tokens, serve_subscribe_tokens, token_add_subscriber),
     Path(update_token_subscription, World_update_tokens_subscription, serve_update_tokens_subscription,
          Updating(token_add_subscriber)),
     Path(on_token_transfer_updated, World_subscribe_token_transfers, serve_subscribe_token_transfers,
          token_transfer_add_subscriber),
     Path(update_token_transfer_subscription, World_update_token_transfers_subscription,
          serve_update_token_transfers_subscription, Updating(token_transfer_add_subscriber))}

(* What a caller may pass: the name of an argument tells its type. *)
TypeOf(path, name) == path.world[CHOOSE i \in DOMAIN path.world : path.world[i][1] = name][2]

Arguments(path) == Range(path.library)

(* One call: the arguments by name, the caller's to the manager's. *)
Received(path, given) ==
    LET request == [f \in {path.world[i][1] : i \in DOMAIN path.world} |->
                      LET i == CHOOSE j \in DOMAIN path.world : path.world[j][1] = f
                      IN  Into(path.world[i][2], given[path.library[i]])]
    IN  [p \in Range(path.manager) |->
           LET i == CHOOSE j \in DOMAIN path.manager : path.manager[j] = p
           IN  TryFrom(path.handler[i][2], request[path.handler[i][1]])]

-----------------------------------------------------------------------------
(* The worlds: the handler sorts the models by world, the client the models  *)
(* of a world by selector.  A model here is its world, selector and content. *)

serve_worlds(models) == [w \in {m[1] : m \in Range(models)} |-> SelectSeq(models, LAMBDA m : m[1] = w)]

World_worlds(worlds) ==
    [w \in DOMAIN worlds |->
       [s \in {m[2] : m \in Range(worlds[w])} |->
          LET ms == SelectSeq(worlds[w], LAMBDA m : m[2] = s) IN ms[Len(ms)]]]

-----------------------------------------------------------------------------
(* A query that differs from the sample in one place with a plain answer, or *)
(* a plain query with any answer.                                            *)
PagesOf(item) ==
    {[items |-> <<v, Sample(Message(item), item)>>, next_cursor |-> None] :
        v \in Variants(Message(item), item, CallDepth)}
    \cup {[items |-> << >>, next_cursor |-> c] : c \in {None, "cursor"}}

QueryInit ==
    \E m \in DOMAIN Queries :
        LET h == Queries[m].handler IN
        \/ \E q \in Variants(Message(h.query), h.query, CallDepth) :
              case = [method |-> m, query |-> q, answer |-> [items |-> << >>, next_cursor |-> None]]
        \/ \E a \in PagesOf(Queries[m].item) \cup {Failed} :
              /\ a # Failed => h.paged \/ a.next_cursor = None
              /\ case = [method |-> m, query |-> Sample(Message(h.query), h.query), answer |-> a]

SubscribeInit ==
    \E path \in Paths :
        \E a \in Arguments(path) : \E v \in Variants(TypeOf(path, a), a, CallDepth) :
            case = [path |-> path,
                    given |-> [b \in Arguments(path) |->
                                 IF b = a THEN v ELSE Sample(TypeOf(path, b), b)]]

WorldsInit ==
    \E n \in 0..3 : \E models \in [1..n -> {1, 2} \X {1, 2}] :
        /\ \A i, j \in 1..n : models[i] = models[j] => i = j
        /\ case = [models |-> [i \in 1..n |-> <<models[i][1], models[i][2], i>>]]

CallInit == QueryInit \/ SubscribeInit \/ WorldsInit

CallSpec == CallInit /\ [][Next]_case

(* What the storage or the manager is asked is what the caller of the       *)
(* library meant, each argument in its place and as the wire keeps it; what *)
(* the caller gets is the storage's page, its cursor included, and the end  *)
(* of the list is told from a further page; an error of the storage, and    *)
(* an answer that cannot be sent, is an error of the call and never an      *)
(* empty page.                                                              *)
CallsAgree ==
    CASE "method" \in DOMAIN case ->
           LET m == Queries[case.method]
               kept == IF case.answer = Failed THEN Failed
                       ELSE Kept(List(Message(m.item)), case.answer.items)
               served == Retrieve(m.handler, Request(m, case.query), case.answer)
           IN  /\ kept = Failed => PageOf(m, served.response) = Failed
               /\ kept # Failed =>
                    /\ served.asked = [of |-> case.method,
                                       query |-> Kept(Message(m.handler.query), case.query)]
                    /\ PageOf(m, served.response) =
                         [items |-> kept, next_cursor |-> case.answer.next_cursor]
      [] "path" \in DOMAIN case ->
           Received(case.path, case.given) =
             [a \in Arguments(case.path) |-> Kept(TypeOf(case.path, a), case.given[a])]
      [] "models" \in DOMAIN case ->
           \A m \in Range(case.models) : World_worlds(serve_worlds(case.models))[m[1]][m[2]] = m
      [] OTHER -> TRUE
=============================================================================
