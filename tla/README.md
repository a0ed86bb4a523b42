# Torii in TLA+

Torii indexes the contracts of a Starknet chain into SQLite and serves what it has indexed. This directory holds
TLA+ models of its parts, the TLC configurations that check them on small instances, and TLAPS proofs for the parts
where a small instance is not enough. `PROJECT.json` ties every definition to the lines it models, every run to its
configuration, every property to a mutation of the code that breaks it, and every hazard to the properties that
would notice it.

## The system

    chain (JSON-RPC)                             controllers service (HTTP)
        |                                                  |
     Fetcher --batch--> Engine <---- fork / join ---- ControllersSync
                          |                                |
                     TaskManager                           |
                          |                                |
                     TaskNetwork  (levels of tasks)        |
                          |                                |
                     processors   (store, register, upgrade, tokens, messages)
                          |  read and write                |
                        caches                             |
                          |                                |
                          +---- messages ----> Executor <--+   one open transaction
                                                  |
                                   SQLite         +----> Broker ----> gRPC, GraphQL subscribers
                                      |
       clients ---> proxy ---> GraphQL, gRPC, images ----> reads, subscriptions, messages ----> relay <---> peers

The **engine** repeats one round: start the synchronisation of controllers, fetch a batch from the cursors in the
database (or take the batch kept from a failed round), hand its events to the **task manager**, apply the gathered
balance differences, move the cursors, join the synchronisation, commit. Any error rolls back the transaction,
empties the caches and the task network, and the same batch is tried again after a delay.

The **task manager** files each event under a task and declares dependencies between tasks; the **task network** runs
the tasks level by level, the tasks of a level at the same time under a semaphore. The **processors** read and write
through caches, and send statements to the **executor**, which is the only writer: it takes messages from a channel one
at a time, inside one transaction that only `execute` and `rollback` end. It publishes every update at once
(optimistic) and again after the commit.

Beside the engine run tasks that fetch **metadata** of tokens and of the world, and the **servers**. Clients reach them
through one **proxy**: gRPC and GraphQL answer queries by pages and forward updates of the broker, images of tokens are
fetched when they are asked for, and signed **messages** are checked and written through the executor into whatever
transaction is open. The **relay** passes messages on to other servers. The **runner** starts all of these, builds
the GraphQL server again when models change, and ends the process with the first task that ends.

## Modules

| Module | Code | State, and what its actions are |
|---|---|---|
| `TaskNetwork` | `task-network`, `adigraphmap` | The graph, the deferred dependencies, the level at work and the permits. `add_task`, `add_task_with_dependencies`, `add_dependencies`, the steps of `process_tasks`, handlers that end with Ok, an error or a panic, handlers orphaned by a panic. |
| `TaskManager` | `processors/task_manager.rs` | Adds the events of each task and their `Latest` coalescing to `TaskNetwork`; handlers take the events in sequence; `clear_tasks` after a failure. |
| `Fetcher` | `indexer/fetcher/json_rpc.rs` | A pure module: what `fetch` returns for given cursors and the events of a given chain. `fetch_range` in pages, the preconfirmed block, the new cursors. |
| `Engine` | `indexer/engine/engine.rs` | The growing chain (the events of each contract in order, each with its block and transaction; the preconfirmed block, the latest block), the cached fetch, the batch in process, the working and the committed database; fetch, process, commit, failure, crash. |
| `Indexer` | | What the engine promises: for each contract, the indexed events are a prefix of its events, and only grow. |
| `Executor` | `sqlite/executor/mod.rs`, `storage.rs` | The channel, the open transaction, the disk, the publication queue; writers that send `set_entity` and `delete_entity` as several messages, the engine's commit and rollback, statements, commits and rollbacks that fail, crashes. |
| `ModelRow` | `sqlite/lib.rs`, `model.rs` | A pure module: a value to columns (`set_entity_model`), columns to a value (`map_row_to_ty`). |
| `EntityTask` | the four `store_*` processors | The pending events of one entity with their indexing modes, and its row. |
| `Models` | `register_model`, `upgrade_model`, `resolve_model_or_skip`, `ModelCache`, `storage.rs` | The models on chain and their events; the filters on namespaces and on models; the cache, the models table and the columns of tables, in the transaction and on disk; API readers that fill the cache. |
| `I256` | `math` | Signed numbers as sign and magnitude, and the map of differences built on them. |
| `Erc` | transfer processors, `erc.rs`, `ErcCache`, `executor/erc.rs` | Transfers on chain; handlers at the stages of registration under the contract's and the token's lock; differences, tables, rollback and crash. |
| `TokenTraits` | `executor/erc.rs`, `executor/mod.rs` | Token metadata, the attributes and the contract's trait counters that are kept of it as configured, and what is announced. A query fails at a trait that is repeated. |
| `Aggregation` | `executor/aggregator.rs` | Leaderboard entries of each function with normalised and displayed value, and their order; updates of some members only, that lack the group or the number. |
| `Achievement` | `executor/achievement.rs`, `event_message.rs` | Definitions, tasks, progressions and statistics, with the coalescing of progressions. |
| `Activity` | `executor/activity.rs`, `StoreTransaction` | Sessions of callers, per namespace. |
| `Controllers` | `controllers/sync.rs`, `engine.rs` | The service's list, the cursor in memory, the forked tasks, working and committed rows, the engine's round. |
| `Subscriptions` | `subscriptions/entity.rs`, `subscriptions/mod.rs`, `broker`, `executor/mod.rs` | A writer whose updates the executor publishes at once or after the commit, the stream of the broker, the subscribers with their channels, and clients that subscribe, change their clause, query, receive and hang up. |
| `Filters` | `storage.rs`, `model.rs`, `subscriptions/*.rs` | For each kind of record, what a filter selects as SQL and what it announces as a function on updates. An entity has several models, of which SQL sees all and the function the one that was written. `FilterCases` lists the filters and records that are tried. |
| `Pagination` | `query.rs`, `cursor.rs` | A listing page by page: the request, the cursor, the rows returned so far, and the writes between two pages. |
| `Connections` | `graphql/query`, `graphql/object` | The same over GraphQL, where queries are built in another way: patterns of keys, filters, orders, cursors and offsets of entities, models, balances and transfers. |
| `Messaging` | `messaging` | Publishers at the stages of `validate_and_set_entity`, the open transaction they share with the engine, commits, rollbacks and crashes. |
| `Relay` | `libp2p/client`, `libp2p/relay` | The command loop of the client, the loop of each server's relay, the topics of clients and of peers, publications on their way, lost or overtaken. |
| `MetadataUpdates` | `erc4906_*.rs`, `erc7572_*.rs` | Events that announce new metadata, the fetch, awaited or left to a task, what is stored in the transaction and on disk. |
| `ResourceMetadata` | `metadata_update.rs`, `storage.rs` | Metadata of the world and its resources: the URI set by an event, and the retrieval of its document by a task. |
| `MetadataFetch` | `erc.rs`, `fetch.rs` | A pure module: the methods tried for a URI, their retries, and the text of a data URI without control characters and with its quotes escaped. |
| `Deployments` | `controller.rs` | Deployments of accounts, by their calldata or a lookup that may fail, handled side by side. |
| `Proto`, `Grpc` | `proto`, `grpc/client`, `grpc/server`, `client` | Pure modules: the codec of each field of each message, and each call from the client's method to the storage and back. |
| `StaticImages` | `server/handlers/static.rs` | The token, its image files with their times, requests at the stages of check, fetch, write and answer, clients with copies. |
| `Runner` | `runner`, `server/proxy.rs`, `graphql/server.rs`, `graphql/schema.rs` | The database file, a start with or without a snapshot, signals and stops; the loop that rebuilds the GraphQL server, the lock of the proxy's handlers, and requests. |

`TaskManager`, `Executor` and `Erc` are checked as they are, with sets of model values in their `.cfg`. Each `MC*` module gives model values to the constants of one module, except two. `MCTables` instantiates nine
modules: those of tables that the executor derives from what it stores (`EntityTask`, `TokenTraits`, `Aggregation`,
`Achievement`, `Activity`) and those of the read side (`Subscriptions`, `Filters`, `Pagination`, `Connections`).
`MCServices` combines what goes on beside the indexing: it extends `Messaging` and `Runner`, and instantiates `Relay`,
`MetadataUpdates`, `ResourceMetadata`, `Deployments`, `MetadataFetch`, `Grpc` and `StaticImages`. The modules of each share no state, so one of them
moves in each behaviour, chosen by the variable `table` or `service`, and every property of the run is
about the one that moves. Configurations of the program (indexing modes,
strict reading of schemas, indexed namespaces and models, kind of token contract) are variables chosen in Init and never changed,
so that one run covers them all. Modules interact as in the code:
`TaskManager` extends `TaskNetwork`; `Engine` extends `Fetcher` and implements `Indexer` under the refinement
mapping in `Engine`; `EntityTask` extends `ModelRow`; `Erc` extends `I256`; `Grpc` extends `Proto`.

What the abstraction keeps and drops is said in each module's header. Two choices run through all of them. A value is
a model value unless a property compares its parts. And the working database and the committed one are two variables,
so that rollback and crash are assignments from the second to the first, and a property can speak of what survives.

## Runs

| Run | Module | Properties | What it shows |
|---|---|---|---|
| `task_network` | `MCTaskNetwork` | `Acyclic`, `DependencyOrder`, `DeclaredHonoured`, `BoundedConcurrency`, `OkMeansAllRan`, `FailStop` | Three tasks submitted with every dependency list of length at most two, in every order, and processed with two permits: dependencies are neither lost nor overtaken, a failure stops the call, and no task is dropped. |
| `task_manager` | `TaskManager` | `HandledAsSubmitted`, `Terminates` | Batches of up to three events over two tasks, in Historical and Latest mode, with one permit, failures, panics and retries: each handler processes exactly what its batch submitted, in order; every process_tasks call returns and every handler detached by a panic ends. |
| `engine` | `MCEngine` | `CursorCovered`, `ImplementsIndexer`, `CatchesUp` | Two contracts on a growing chain, fetched in chunks and pages and from the preconfirmed block, with a failed fetch, batch or commit or a crash anywhere: what is committed is a growing prefix of the chain's events and no cursor runs ahead of it, and every mined event is committed once the chain and the faults stop. |
| `executor` | `Executor` | `Consistent`, `CommittedAsWanted`, `Answered`, `AnnouncedIffCommitted` | Two models of one entity are written and deleted in parallel, with a failing statement, commit or rollback and a crash anywhere: tables stay consistent, commits are whole, subscribers of confirmed updates hear of committed ones only, and every request of the engine is answered. |
| `models` | `MCModels` | `TableMatchesSchema`, `StoredWithoutReaders`, `ReplayCompletes` | Two models registered and upgraded among stores, batches cut anywhere, failed, rolled back, retried or lost in a crash; schemas read at the event's block or at the tip, all models indexed, those of one namespace or a single one, API requests filling the cache or not: tables, models and cache agree, stores are complete and the replay completes, unless a models filter alone leaves a model out that is upgraded or stored. |
| `erc` | `Erc` | `RegisteredOnce`, `BalancesAgree`, `Completes` | Concurrent transfer handlers of an ERC-20, or of two tokens of an ERC-721 of which one may have a URI that cannot be read, with a failed registration or a crash anywhere: each token is inserted once and before its transfers, balances and supplies are those of the chain, and all transfers are committed unless one is of the unreadable token. |
| `tables` | `MCTables` | `RowIsRecord`, `AttributesMatch`, `StatisticsAgree`, `SessionsAreRuns`, `Mirrors`, `SubscriptionFollowsQuery`, `StableRowsOnce` | What the executor derives from stored records agrees with them: model rows with the records of the world, attributes and trait counters with the metadata, leaderboards, achievements and sessions with the updates; and what clients read agrees with what is stored: a subscription mirrors the committed entity, announces what the same query selects, and a listing by pages returns every row that stays; listings over GraphQL return what was asked for, once. |
| `controllers` | `MCControllers` | `NothingSkipped`, `StoredUnlessRolledBack`, `RoundEnds` | Two synchronisations beside each other, one detached by an error of the fetcher, with failures of the service and restarts: while no round is rolled back no controller is skipped and every one is stored; rolled back or not, every round of the engine ends. |
| `models_readers` (violation) | `MCModels` | `StoredInFull` | An API request that read the old schema before a retried upgrade puts it back in the cache after it, and the stores of the batch are decoded with it. |
| `controllers_rollback` (violation) | `MCControllers` | `EventuallyStored` | A round that fails rolls the controllers written beside it back, while the cursor stays after them. |
| `subscriptions_partial` (violation) | `MCSubscriptions` | `MirrorsPartialUpdates` | A subscription to a conjunction of two members misses the update of one member that makes the entity match. |
| `services` | `MCServices` | `AnsweredIsStored`, `RelayedEverywhere`, `MetadataFollowsEvents`, `ControllersFound`, `CallsAgree`, `ImagesCurrent`, `SchemaCurrent`, `DatabaseKept`, `TimestampsGrow` | What goes on beside the indexing of events: messages of users are stored when they are acknowledged and replace older ones only, servers relay them to each other once and all of them get the newest; metadata of tokens and of the world follows the events although requests overtake each other and fail; controllers deployed on chain are found; what a client of the gRPC server asks and gets is what the storage is asked and answers; the images served are those of the token, although requests and updates run beside each other; and the process keeps its database from start to start and routes requests to a GraphQL server of the newest schema until a build of it panics. |

## Bounds

Each bound is a named constant, given its value in the `.cfg`.

* `TaskNetwork`: three tasks, the smallest number with a cycle that no single dependency list shows, and two permits, so
  that a handler waits for one.
* `Engine`: two contracts, three transactions and two blocks after the genesis block, one block per fetched range and two events per page:
  a page limit is reached, a transaction is seen in the preconfirmed block and then in a mined one, and one contract lags
  behind the other.
* `Executor`: one entity with two models, the smallest instance in which writers disturb each other; two operations
  in a transaction and two transactions, so that something is committed before something is lost.
* `Models`: two models in namespaces of their own, four events and one fault; the run on readers takes two faults, as it needs the cache to be
  emptied while a request is under way.
* `Erc`: three transfers of two tokens let two handlers wait for one lock while a third holds another. Amounts are 1 or 2
  for an ERC-20, where a balance may be partly spent, and 1 for an ERC-721, of which one token may be unreadable.
* `MCTables`: three pending events of one entity; four changes of metadata of two tokens, in which a trait may be repeated; four updates of a leaderboard;
  two creations and three progressions of achievements, each by two, which reaches, passes or half reaches a target; seven units of time for sessions. `Aggregation` stands `W` = 6 bits
  for the 128 of the code: hexadecimal numbers are below 2^(W-1), between it and 2^W, and above, decimal ones are of both signs,
  and sums reach 2^(W-1). One subscriber with room for
  two messages, two writes and one change of its clause: its channel overflows, and it retrieves the entity again. Filters have no, one or two
  values for each field, clauses are nested to the second level, where precedence matters, and an entity has one or two models. Three rows (up to four
  over GraphQL), pages of one or two and two writes during a listing (one over GraphQL), so that rows move to both sides of a cursor.
* `MCServices`: two publishers of one entity beside a batch of two events; two servers and two publications; two events about
  the metadata of two tokens, three about that of the world, each with one fault; three deployments of two accounts in batches of
  two; two retries of a request and texts of up to five characters; two updates of a token's image and two requests in
  two sizes, with one fault (a failed read, a late write, a client that leaves); two models, two starts and two requests,
  so that a server is replaced twice and the database of one start is found by the next. Messages of the wire are nested to
  `Depth` 6, which every message that is not recursive stays below.
* `Controllers`: three instants at which controllers are created, two synchronisations at the same time and one restart.

One fault is enough in most runs, as the state after recovery is again a state without faults. Symmetry is used in
the safety run `task_network`, for the tasks, which no definition tells apart, and in no run with a liveness property.

## Fairness

* `TaskManager`, with the fairness of `TaskNetwork`: the runtime polls every spawned handler (weak fairness), and tokio's semaphore is first in, first out
  (strong fairness of an orphan's acquisition, that other handlers repeatedly disable).
* `Executor`: its loop takes messages while there are any, and senders go on (weak).
* `Engine`: the loop goes on (weak) and the chain goes on mining what it has accepted (weak). No fairness of successful
  attempts is needed, as the number of faults is bounded.
* `Models`, `Erc`: indexing goes on (weak). Requests, transfers and faults are never forced.
* `Controllers`: the round and the forked task go on (weak); a request of a service that is asked for ever is
  answered at some time (strong, for fetches and for processing), the assumption under which retrying makes sense.

## Proofs

`TaskNetworkProofs` proves, for every finite set of tasks, every number of permits and every bound on dependency
lists, `TypeCorrect`, `AlwaysAcyclic`, `PrerequisitesFirst`, `NoDependencyLost`, `ConcurrencyBounded`,
`OkIsComplete` and `FailuresStop`. The assumptions are those of `TaskNetwork` on its constants.

All follow from one inductive invariant `IInv`, the conjunction of

* `TypeOK`;
* `GraphInv`: deferred dependencies are those of tasks that do not exist yet, edges join existing tasks, the graph is
  *ranked*, and every declared dependency is an edge, is deferred or was refused because of a cycle;
* `LevelInv`: every task of the level at work has been spawned, a task outside it has succeeded or has not started, and
  while a panic is being handled there is no orphan yet;
* `DependencyOrder`;
* `PermitsInv`: permits in use and permits free add up.

The ranking is the heart of it. Acyclicity alone is preserved by adding an accepted edge, but it does not give a source
in every set of nodes without an argument on paths. With "a bounded rank increases along every edge" instead, both facts are
short: a ranked graph has no cycle (`RankedIsAcyclic`), and a node of least rank has no predecessor
(`RankedHasSource`), so that the levels run out only when all tasks have one (`LevelsCover`, which `OkIsComplete` needs).
The work is in `RankedAddEdges`: when edges are added that close no cycle, the nodes reachable from their targets are lifted
above all others.

On top of it, `HandlersProcessAll` proves `HandledAsSubmitted` of `TaskManager` for any tasks and keys. The invariant `TMInv`
says of each task what its filed events are in terms of what was submitted (`Filed`): the historical ones, and the last
of each key, both with growing numbers. Moving a key to the back (`InsertLatest`) keeps that, and a handler has always
processed a prefix of its agenda.

`ErcProofs` and `ErcSums` prove `RegisteredOnce` and `BalancesAgree` for any finite set of accounts, any tokens,
values, numbers of transfers and faults (`TokensRegisteredOnce`, `BalancesFollowChain`). `ErcProofs` starts with the
arithmetic: addition and subtraction by sign and magnitude are those of the integers (`AddIsAddition`,
`SubIsSubtraction`), no result is a negative zero (`NeverNegativeZero`), and crediting and debiting change exactly one entry
of the difference map by exactly the amount (`CreditIsCredit`, `DebitIsDebit`). The invariant `IInv` has three parts:

* `RegInv`: the stage of each handler says what it holds and what it has found (`StageInv`), a mutex is held by the one
  handler that is past its acquisition (`LockInv`), and the registry is what the transaction has inserted (`StoreInv`);
* `BalanceInv`: the changes in the cache are what the transfers whose handlers are done add up to, in whatever order
  they ended, and what is committed are the sums over the transfers up to the cursor. No account sends more than it has,
  so that every sum over a prefix of the chain is a natural number, as the code's unsigned balances are;
* `CountInv`: the supply of a contract with tokens, with its pending change, is the number of registered tokens.

The balances need sums over sets of transfers that are not intervals, since handlers end in any order. `ErcProofs` states the laws it
uses (`SumLaws`: a sum counts each transfer once, disjoint sets add up, later transfers do not count, a supply is the sum of
what the accounts hold) and proves both results from them. `ErcSums` proves the laws for the fold that defines a sum, by induction over the
subsets of a finite set. The library's induction theorems cannot be used, as they take an operator; instead, the set
of subsets for which a law fails has no least element, since strict inclusion of finite sets is well-founded.

`ModelsProofs` proves `TableMatchesSchema` and `StoredWithoutReaders` for any models, versions, events and faults
(`TablesMatchSchemas`, `RecordsStoredInFull`), if models have tables of their own (`OneTableEach`), as within one
world. `ChainInv` is the history a world enforces: a model is registered before anything else happens to it, and its
versions grow. `SchemaInv` bounds the versions that are stored, cached or on their way to the cache by the columns of the
tables. `VersionInv`, which holds without readers, says that what is resolved is what the transaction has, and as
new as every definition processed so far.

`ExecutorProofs` proves for all entities, models, values and bounds that the
store is consistent (`StoreIsConsistent`), that commits are what the writers wanted (`CommitsAreWanted`), and that updates
are confirmed exactly when they are committed (`Announced`). The only assumption is that `None` is no value. The
invariant has three layers:

* `Base`: types; the request of the engine is the last message of the channel and is sent when every writer is idle
  (`ChannelOk`); and `References` of both databases, which every statement keeps, failed ones included;
* `Clean`, as long as nothing failed: each writer's messages in the channel and still to be sent are whole operations one after the
  other but for the first, whose start the database has seen, and the last leaves what is wanted (`Stream`);
  entities and models are linked; the disk has what was wanted at the last commit;
* `QueueInv`: what waits to be announced belongs to the attempt under way, and what was announced to a committed one.

`Stream` is what makes it inductive. It speaks of one writer's positions in the channel only, so that messages of
others may be put between them or taken (`StreamAppendOther`, `StreamTakeOther`) without being looked at, and the
statements of one writer leave the rows of the others alone (`RunFrame`). An entity is shared by its models, and the
deletion of one may remove it: `LinkedRun` shows that it goes exactly with the last.

`ControllersProofs` proves `NothingSkipped` for any number of synchronisations, controllers and restarts
(`NoControllerSkipped`). As long as no round is rolled back, both the committed controllers and those with the open transaction
are all up to some time (`Full`), and what a synchronisation has left continues without a gap what somebody has written
(`Follows`), although several of them write the same controllers.

`EngineProofs` proves `CursorCovered`, and that `Engine` implements `Indexer`, for any contracts, any sizes of ranges
and pages, any chain, and any number of failures and crashes (`CursorsCovered`, `EngineImplementsIndexer`). The
assumptions are that the sizes are positive, that `None` is no number, and, in the model of the chain, that a contract
emits nothing before the block it is indexed from. The argument is about positions in the events of a contract. A cursor
stands for one (`Position`): the end of its head's block, or of its pending transaction. The invariant `IInv` says that

* the events are a `Stream`: they lie in the order of blocks and transactions, so that every block and every transaction
  has an end, and those of the preconfirmed block are last;
* the committed log is the part before the position of the committed cursor (`StandsFor`), and so is the open
  transaction's when it is about to be committed;
* a request under way holds the part from where the fetch began to the position it has read to (`GoodRequest`), and a
  fetched or cached batch appended to the log is what its new cursor stands for (`Ready`).

It is inductive because nothing moves a position. The chain grows at its end; a block that is mined turns the end of a
pending transaction into one within a mined block (`StreamGrows`, `StreamMined`, `StandsStill`). The longest steps are `ReadPageIs`, in which
the range of a request jumps to the first event of a page, `PreprocessIs`, where the events up to the pending
transaction are dropped from a range that has them again, and `PreconfirmedIs`. From `Ready`, a commit appends what
follows, which is the only step of `Indexer` that the engine takes.

`ServicesProofs` proves what the run `services` checks of `Messaging` and `Runner`. `AnsweredIsStored` and `TimestampsGrow` hold for any
number of publishers, clocks and batches (`AnswersAreStored`, `MessagesGrowNewer`), if the bounds of the configuration are numbers
(`MessagingConfiguration`). A message, and the row it left, was checked against the committed row of now or against an older one (`CheckedInv`);
a publisher whom nothing befell finds its writes in the transaction (`FateInv`); and unless a batch was split and
undone, the transaction holds whole batches and what was sent of the next (`BatchInv`).

`SchemaCurrent` and `DatabaseKept` hold for any models, clients, chunks, starts and requests
(`SchemaIsCurrent`, `DatabaseIsKept`), if `Nothing` is neither a file nor a number and the snapshot holds known models
(`RunnerConfiguration`). `PhaseInv` says which chunk may still be on its way in which phase, `FileInv` that nothing was committed to a
file a snapshot is written to, `ServersInv` which server the route and the loop know at each stage of a replacement, `SchemaInv`
that models grow from server to server, and `RequestInv` that the route does not move while a request holds the lock. A build that
panics drops the channel of the server it was to replace, which stops although the proxy routes to it: requests are refused from then
until the process has ended, and the theorem says so.

Only model-checked: liveness properties and those about fairness (`Terminates`, `Answered`, `CatchesUp`,
`ReplayCompletes`, `Completes`, `StoredUnlessRolledBack`, `RoundEnds`), which are outside what TLAPS proves; what recursively
defined operators compute (`ModelRow`, `MetadataFetch`, `Proto`), whose modules TLAPS cannot reason about; and the
invariants of the derived tables, the read side, the relay, the metadata, the controllers found on chain and the images.

## Where code and text disagree

The runs marked "violation" check what a comment or a document says against what the code does; each has an
entry under `findings` with both quoted.

* `models_readers` (`sqlite/sqlite/src/storage.rs:92`): model() reads the committed row and then overwrites the cache without checking that it is still missing.
* `controllers_rollback` (`controllers/src/sync.rs:184`): sync moves the in-memory cursor when it has sent a controller to the executor, not when it is committed.
* `subscriptions_partial` (`sqlite/sqlite/src/executor/mod.rs:576`): SetEntity loads the model for subscription matching before the columns of the event are written (storage.rs set_entity sends SetEntity first, set_entity_model later), and the other side of the match is the partial model of the event.

Other disagreements were met while modelling and have no run of their own. The models follow the code, and the
properties of the passing runs are stated where the code keeps them. Paths are below `src/crates/`.

* `sqlite/sqlite/src/lib.rs:207`: set_entity_model stores a fixed size array like an array, as a bare JSON array (collect_members, sqlite/sqlite/src/lib.rs:207-217); map_row_to_ty says 'Fixed size array is stored as json object: {"elements": Vec<JsonValue>, "size": u32} ... see Sql::set_entity_model' (sqlite/sqlite/src/model.rs:379-381) and fails with InvalidFixedSizeArray on anything else. Executor::entity_model then fails for every row that is already there, so a second SetEntity announces no update and DeleteEntity deletes nothing.
* `sqlite/sqlite/src/storage.rs:113`: After a failed batch reset_to_committed_storage empties the model cache (crates/cache/src/lib.rs:145) and only model() repopulates it, one model at a time; models() returns whatever the cache holds, because ModelCache::models (crates/cache/src/lib.rs:195) never returns an error and the database fallback is never reached. Until a restart the committed models that nothing resolved since are missing from worlds() and from entity queries. docs/architecture/decisions/0001-indexer-task-dependency-and-rollback-cache-recovery.md:39 says: "Engine rollback handling resets commit-sensitive cache state to what is committed in storage." and storage.rs:103 says models() "Returns the models for the storage."
* `sqlite/sqlite/src/lib.rs:273`: The table of a model is named after its tag only (CREATE TABLE IF NOT EXISTS [namespace-name]), while its row in models and its entities are scoped by world. When a second world registers a model of the same tag with more members, no column is added, and its stores fail. storage.rs:1882 says ids are prefixed "for multi-world support".
* `processors/src/erc.rs:438`: To count a new token in its contract's supply, try_register_nft_token_metadata calls update_balance_diff with the recipient 0x1, which also credits a balance of the contract to the account 0x1 (crates/cache/src/lib.rs:364), stored and published as a token balance of a holder that no transfer names. The comment at processors/src/erc.rs:434 says only: "For ERC-1155, we need to track unique token count at contract level".
* `processors/src/erc.rs:585`: fetch_token_uri returns an error when the URI's bytes are not UTF-8 (or not a short string), which fails the transfer handler and its batch at every retry, so that the indexer never passes this transfer. Every other failure to obtain metadata is tolerated: processors/src/erc.rs:567 says "Error fetching token URI, empty metadata will be used instead."
* `sqlite/sqlite/src/executor/mod.rs:1173`: UpdateTokenMetadata selects the token's metadata after the UPDATE of line 1163, so that the traits it subtracts from the contract's counts are the new ones: the counts of the traits a token no longer has never decrease. The comment at sqlite/sqlite/src/executor/mod.rs:1172 says "Get the old metadata before updating (needed for trait subtraction)" and the one at executor/erc.rs:259 "This properly handles subtracting old traits and adding new traits".
* `sqlite/sqlite/src/executor/aggregator.rs:486`: normalize_value_to_hex parses a decimal as u128 first and returns it without the bias, which only negative numbers get: -1 becomes 2^127 - 1 and is ordered above 5. The comments at sqlite/sqlite/src/executor/aggregator.rs:473 and 477 say "Lexicographic ordering matches numerical ordering" and "For signed integers, we add a bias to shift into positive range for correct lexicographic ordering: i128::MIN + bias = 0, i128::MAX + bias = u128::MAX".
* `sqlite/sqlite/src/executor/aggregator.rs:360`: upsert_aggregation_entry numbers the rows that its WHERE clause a.id = ? has already reduced to one, so that the published position is always 1. The comments at sqlite/sqlite/src/executor/aggregator.rs:13 and 354 say "Returns the updated entry with its calculated position" and "fetch the entry with its calculated position".
* `sqlite/sqlite/src/executor/aggregator.rs:314`: parse_display_to_i128 reads a hexadecimal value as u128 and casts it to i128: a value of 2^127 or more is added as a negative number (and one of 2^128 or more as 0), so that a sum of unsigned numbers decreases. The comment at sqlite/sqlite/src/executor/aggregator.rs:213 says "Sum/accumulate the new value with existing".
* `processors/src/processors/event_message.rs:62`: An event message of a model that is not historical is indexed with IndexingMode::Latest: of the progressions of a player on a task in one batch only the last is processed, while update_achievement_progression adds counts (count=count+EXCLUDED.count). sqlite/sqlite/src/executor/achievement.rs:158 says "This is called when a player makes progress on a task", and the models are not historical by default (cli/src/options.rs:809).
* `sqlite/sqlite/src/executor/achievement.rs:204`: A progression whose task has no row is dropped. The tasks of a creation and of a progression in one batch depend only on the registration of their own models (event_message.rs:51), so that the progression may be processed first and is lost for good. sqlite/sqlite/src/executor/achievement.rs:158 says "This is called when a player makes progress on a task".
* `sqlite/sqlite/src/executor/achievement.rs:186`: The target of a progression is that of whichever achievement with the task is found first, and one completed flag is kept for all of them: an achievement with another target for the task is completed too early or too late. sqlite/sqlite/src/executor/achievement.rs:728 says "A player has completed the achievement if they have completed all its tasks".
* `sqlite/sqlite/src/executor/achievement.rs:369`: register_achievement never deletes rows of achievement_tasks. After an achievement is created again with fewer tasks the completed rows can outnumber the tasks of the definition, and completed_tasks == total_tasks fails for a player who has completed them all. sqlite/sqlite/src/executor/achievement.rs:728 says "A player has completed the achievement if they have completed all its tasks".
* `sqlite/sqlite/src/executor/achievement.rs:276`: The rate of an achievement is only computed when a player has completed it, although its divisor is the number of active players: a player who starts later does not change it. migrations/20251008000001_create_achievements_tables.sql:18 says "Percentage of active players who completed".
* `sqlite/sqlite/src/executor/mod.rs:507`: StoreTransaction looks the namespaces up with SELECT DISTINCT namespace FROM models WHERE id IN (selectors), while register_model stores a model under the id world:selector (sqlite/sqlite/src/storage.rs:1765): nothing matches and no activity is tracked, except for models registered before ids were scoped. cli/src/options.rs:841 says "aggregates transaction calls into sessions for efficient activity queries", and sqlite/sqlite/src/executor/mod.rs:477 "Track activities for WORLD contract interactions".
* `sqlite/sqlite/src/model.rs:721`: "Combine all conditions with AND" joins the text of a composite clause to the
  conditions on worlds and models without parentheses. AND binds stronger than OR, so that a disjunction also returns
  entities of other worlds and models; a disjunction nested in a conjunction (line 640) loses its parentheses likewise.
* `grpc/server/src/subscriptions/mod.rs:150`: a clause on a member, or on keys of a model, is compared with the model that was
  written, where a query joins all models of the entity (`sqlite/sqlite/src/model.rs:942`): a client with a conjunction of
  conditions on two models is never told of an entity that it would find.
* `processors/src/lib.rs:61`: a model that is unknown because `--indexing.models` leaves it out is an error when no namespaces are
  given, and skipped when they are. "The models of the world that torii should index" (`cli/src/options.rs:219`) alone therefore
  makes the first upgrade or record of another model fail the batch for ever.
* `sqlite/sqlite/src/executor/erc.rs:203`: the key of an attribute is made of the token and the trait, so that metadata with a
  repeated trait fails after the token was written: the traits that follow are not stored, none is counted, and the token is not
  announced. With `trait_counts` alone repeated traits are counted.
* `processors/src/erc.rs:657`: a URI that starts with `ipfs` and not with `ipfs://` panics where other errors mean "empty metadata will
  be used instead".
* `runner/src/lib.rs:970`: a build of the GraphQL server that fails panics, and the server before stops with the task that held its
  channel, while the proxy keeps its address.
* `sqlite/sqlite/src/cursor.rs:90`: one value is bound for each field of the order, but the condition of the
  second field has two placeholders. With a requested order the second page is always empty.
* `sqlite/sqlite/src/query.rs:199`: a backward page is reversed and then cut to the limit, which drops the row nearest
  to where the client was instead of the extra one, and the cursor is taken at the wrong end.
* `sqlite/sqlite/src/query.rs:153`: orders that are not unique (the end of a session, points) skip the rows that tie
  with the last one of a page.
* `grpc/server/src/subscriptions/transaction.rs:108`: the filters on callers, contracts, entrypoints and models
  `continue` the loop over calls or models and not the one over subscribers, so that they have no effect;
  `types.proto` calls them lists "to filter by".
* `sqlite/sqlite/src/utils.rs:48`: a pattern of fixed length without keys selects what has one key in a query, and
  what has none in a subscription.
* `sqlite/sqlite/src/executor/mod.rs:1302`: a rollback publishes nothing, so that subscribers of optimistic updates keep what
  was rolled back; and what they were sent before its commit cannot be retrieved by one who subscribes in between.
* `grpc/server/src/subscriptions/entity.rs:126`: without a clause a subscription ignores its world filter.
* `graphql/src/query/data.rs:225`: a page is continued with `<=` after a cursor and `>=` before one, whatever the order,
  and the first row is dropped only if it is the cursor's: with an order, rows that tie repeat or are lost; and when the
  cursor's row was written meanwhile, the last row of the page is dropped in its place. Comparators of nested members are
  accepted and ignored, and an offset of 1 is none.
* `graphql/src/object/erc/token_balance.rs`, `token_transfer.rs`: a request with a cursor fails always (the column `id` is
  ambiguous), and the transfers of tokens without metadata are counted and not shown.
* `server/src/handlers/static.rs`: a file is not flushed before it is given the token's time, so that the write may give it
  a later one; `If-Modified-Since` is consulted although `If-None-Match` differs; a request for a smaller size of an SVG
  image is not found.
* `sqlite/sqlite/src/storage.rs:2112`: a second URI of a resource does not replace the first in the table.
* `processors/src/processors/erc4906_metadata_update.rs`: with `metadata_updates_only_at_head` an update before the head is
  skipped for good, where the comment says "defer"; `erc7572_contract_uri_updated.rs`: a document that cannot be read fails
  the batch for ever.
* `messaging/src/lib.rs:203`: a message ends with a commit, also of what the engine has written of its batch so far; its
  timestamp is compared before the signature is verified, so that of two messages the older may be stored last;
  and batches of messages, and those of GraphQL, are not forwarded to the relay.
* `libp2p/relay/src/lib.rs:256`: "We shouldn't panic here" is followed by an `unwrap` of the same payload at line 277.
* `grpc/client`: the token transfer subscription drops the id that the server sends first.
* `runner/src/lib.rs:284`: a signal that arrives before the executor is created finds no receiver and is lost; line
  1069: the snapshot is not flushed before it is opened; and an interrupted download leaves a file that a start with the
  snapshot option refuses, and one without it opens.

## Not modelled

* Typed data: an encoding under a hash. Nothing of it changes state, and a hash is not a thing to enumerate.
* MCP server, command line, migrations, metrics: a request and its answer, options, or SQL files; no run-time state.
* Generated protocol code and the bindings for the browser: they follow `Proto` and `Grpc` by construction.
* Full-text search and single-row resolvers of GraphQL: what SQLite answers, passed on.

In the modelled parts, these are left out:

* what is only measured or logged, and all times but those that decide something (sessions, cursors of controllers,
  timestamps of messages and of files);
* the text of SQL and the encoding of felts, except where a property is about an encoding;
* reorganisations of the chain: `Fetcher` trusts that mined blocks stay, as the code does;
* a statement that fails in the middle of the application of balance differences;
* queries over more than 64 models, which are split into chunks, and those of historical entities;
* the subscriptions of kinds other than entities as streams: `Filters` has what they announce, and their delivery is the
  code `Subscriptions` models for entities;
* the gossip between peers, of which `Relay` keeps what it may do to a publication;
* the allocation of threads by the runner, its certificates, and the order in which its servers bind.

`PROJECT.json` lists each component with its status.
