------------------------------ MODULE MCTables ------------------------------
(***************************************************************************)
(* The tables the executor keeps from what it stores: the rows of a model, *)
(* the traits of tokens, leaderboards, achievements and activity sessions; *)
(* and the ways to read a table: a feed of updates, a filter and listings  *)
(* by pages, over gRPC and GraphQL, for TLC.  No variable is shared by two *)
(* of them, so that the histories of all of them are the histories of each *)
(* on its own: `table' is the one that moves.                              *)
(***************************************************************************)
EXTENDS Integers, Sequences, TLC

CONSTANTS
    NULL, ERR, None, Unreadable,
    t1, t2, red, big,                               \* tokens and traits
    g1, g2,                                         \* groups of an aggregator
    a1, a2, k1, k2, k3, p1, p2,                     \* achievements, tasks and players
    c1, c2, move, wrap, n1, n2, m1, m2, m3,         \* callers, entrypoints, namespaces, models
    s1,                                             \* a subscription
    MaxPending, MaxMetadataUpdates, MaxAggregationUpdates, MaxCreations, MaxProgress, MaxTime,
    subscription_buffer_size, MaxWrites, MaxRequests, MaxChanges

VARIABLES
    table,
    historical, pending, row, onchain,
    config, metadata, attributes, traits, announced, updates, read, changed,
    field, entries, published, history,
    mode, achievements, achievement_tasks, progressions, player_achievements,
    created, queue, emitted, creations, events,
    activities, executed_at, now,
    optimistic, partial, work, disk, publish_queue, executing, unannounced, stream, subscribers, chan,
    conn, view, synced, writes, requests,
    kind, filter, record,
    pagination, rows, cursor, listed, pages, done, stable, changes,
    request, g_rows, total_count, g_cursor, offset, g_listed, g_pages, g_done, failed, g_stable, kept,
    tied, g_changes

rowVars == <<historical, pending, row, onchain>>
traitVars == <<config, metadata, attributes, traits, announced, updates, read, changed>>
boardVars == <<field, entries, published, history>>
trophyVars == <<mode, achievements, achievement_tasks, progressions, player_achievements,
                created, queue, emitted, creations, events>>
sessionVars == <<activities, executed_at, now>>
feedVars == <<optimistic, partial, work, disk, publish_queue, executing, unannounced, stream,
              subscribers, chan, conn, view, synced, writes, requests>>
filterVars == <<kind, filter, record>>
listingVars == <<pagination, rows, cursor, listed, pages, done, stable, changes>>
connectionVars == <<request, g_rows, total_count, g_cursor, offset, g_listed, g_pages, g_done, failed,
                    g_stable, kept, tied, g_changes>>

-----------------------------------------------------------------------------
(* A model with a key, an integer, an enum with and without payload and an
   array. *)
R == INSTANCE ModelRow

Item(option, v) ==
    R!Enum(option, <<R!Member("Empty", R!Unit),
                     R!Member("Held", IF option = "Held" THEN R!Struct(<<R!Member("id", R!Primitive(v))>>)
                                      ELSE R!Struct(<<R!Member("id", R!Primitive(NULL))>>))>>)

MCSchema == R!Struct(<<R!Member("player", R!Primitive(NULL)), R!Member("score", R!Primitive(NULL)),
                       R!Member("item", Item(NULL, NULL)), R!Member("path", R!Array(<< >>))>>)

MCMemberValues ==
    [player |-> {R!Primitive(1)}, score |-> {R!Primitive(1), R!Primitive(2)},
     item |-> {Item("Empty", NULL), Item("Held", 1)}, path |-> {R!Array(<<1, 2>>)}]

Row == INSTANCE EntityTask WITH Schema <- MCSchema, MemberValues <- MCMemberValues

(* Traits that are shared, that are dropped and that are repeated. *)
MCMetadata == {<< >>, <<red>>, <<red, big>>, <<red, red>>, <<big, red, big>>}

Traits == INSTANCE TokenTraits WITH
    Token <- {t1, t2}, Trait <- {red, big}, Metadata <- MCMetadata,
    MaxUpdates <- MaxMetadataUpdates

(* The largest i128 is 31 and the largest u128 is 63.  Hexadecimal numbers below
   and above both, positive and negative decimal ones, and sums that reach 31. *)
MCField ==
    {[enc |-> "hex", numbers |-> {10, 20, 40, 70}],
     [enc |-> "dec", numbers |-> {0, 9, 13}],
     [enc |-> "dec", numbers |-> {-11, -2, 0, 9}]}

Board == INSTANCE Aggregation WITH
    Group <- {g1, g2}, Field <- MCField, W <- 6, MaxUpdates <- MaxAggregationUpdates

(* Two achievements, each task of which belongs to one of them.  A progression
   of two reaches the first target, passes the second and half reaches the third. *)
MCDefinition ==
    (a1 :> {[tasks |-> k1 :> 2 @@ k2 :> 1, points |-> 5]}) @@
    (a2 :> {[tasks |-> k3 :> 3, points |-> 3]})

Players == {p1, p2}

Trophies == INSTANCE Achievement WITH
    Ach <- {a1, a2}, Task <- {k1, k2, k3}, Player <- Players,
    Definition <- MCDefinition, Count <- {2}

Call(c, e) == [caller |-> c, entrypoint |-> e]

(* Transactions on one and on two namespaces, one of them reached only through
   a model that was registered after ids were scoped, and excluded calls. *)
MCTransaction == <<
    [models |-> {m1, m2}, calls |-> <<Call(c1, wrap), Call(c1, move)>>],
    [models |-> {m1}, calls |-> <<Call(c1, move), Call(c2, move)>>],
    [models |-> {m1, m3}, calls |-> <<Call(c1, move)>>],
    [models |-> {m2, m3}, calls |-> <<Call(c1, move), Call(c1, move)>>]>>

Sessions == INSTANCE Activity WITH
    Caller <- {c1, c2}, Entrypoint <- {move, wrap}, Excluded <- {wrap},
    Namespace <- {n1, n2}, Model <- {m1, m2, m3},
    NamespaceOf <- (m1 :> n1) @@ (m2 :> n1) @@ (m3 :> n2), Scoped <- {m2},
    Transaction <- MCTransaction, Timeout <- 2

(* Clauses on keys, on one member and on two. *)
MCSubscription ==
    {[op |-> "keys", on |-> {}], [op |-> "and", on |-> {"x"}],
     [op |-> "and", on |-> {"x", "y"}], [op |-> "or", on |-> {"x", "y"}]}

Feed == INSTANCE Subscriptions WITH Client <- {s1}, Member <- {"x", "y"}, Clause <- MCSubscription

Cases == INSTANCE FilterCases
MCKind == Cases!Kinds
MCFilter == Cases!Filters
MCRecord == Cases!Records

Asked == INSTANCE Filters WITH Kind <- MCKind, Filter <- MCFilter, Record <- MCRecord

Listing == INSTANCE Pagination WITH Id <- 1..3, Limit <- {1, 2}

(* Keys of different lengths, and patterns with wildcards in every place. *)
MCKeys == <<<<"x", "y">>, <<"x">>, <<"x", "y", "x">>, <<"y", "y">>>>

MCPatterns ==
    {<< >>, <<"x">>, <<"y">>, <<"*", "y">>, <<"x", "*">>, <<"x", "*", "x">>, <<"*", "y", "*">>}

Connection == INSTANCE Connections WITH
    Id <- 1..4, Scored <- 1..3, Fungible <- {1}, KeysOf <- MCKeys, Patterns <- MCPatterns,
    Score <- 0..2, Limit <- {1, 2}, MaxPages <- 4, MaxChanges <- 1,
    rows <- g_rows, cursor <- g_cursor, listed <- g_listed, pages <- g_pages, done <- g_done,
    stable <- g_stable, changes <- g_changes

ASSUME Configurations ==
    /\ Traits!Configuration
    /\ Board!Configuration
    /\ Trophies!Configuration
    /\ Sessions!Configuration
    /\ Feed!Configuration

-----------------------------------------------------------------------------
(* The choices that belong to a table which does not move are fixed.
   Progressions are kept and creations come first, or neither. *)
Init ==
    /\ table \in {"row", "traits", "board", "trophies", "sessions", "feed", "filter", "listing",
                 "connection"}
    /\ Row!Init /\ (table # "row" => historical)
    /\ Traits!Init /\ (table # "traits" => config.token_attributes /\ config.trait_counts)
    /\ Board!Init /\ (table # "board" => field = CHOOSE f \in MCField : TRUE)
    /\ Trophies!Init /\ mode.historical # mode.same_batch /\ (table # "trophies" => mode.historical)
    /\ Sessions!Init
    /\ Feed!Init /\ (table # "feed" => ~optimistic /\ ~partial)
    /\ IF table = "filter" THEN Asked!Init
       ELSE kind = None /\ filter = None /\ record = None
    /\ IF table = "listing" THEN Listing!Init
       ELSE /\ pagination = None /\ rows = None /\ cursor = None /\ listed = None
            /\ pages = 0 /\ done = TRUE /\ stable = {} /\ changes = 0
    /\ IF table = "connection" THEN Connection!Init
       ELSE /\ request = None /\ g_rows = None /\ total_count = None /\ g_cursor = None /\ offset = 0
            /\ g_listed = None /\ g_pages = 0 /\ g_done = TRUE /\ failed = FALSE /\ g_stable = {}
            /\ kept = TRUE /\ tied = FALSE /\ g_changes = 0

Next ==
    \/ table = "row" /\ Row!Next
        /\ UNCHANGED <<table, traitVars, boardVars, trophyVars, sessionVars, feedVars, filterVars, listingVars, connectionVars>>
    \/ table = "traits" /\ Traits!Next
        /\ UNCHANGED <<table, rowVars, boardVars, trophyVars, sessionVars, feedVars, filterVars, listingVars, connectionVars>>
    \/ table = "board" /\ Board!Next
        /\ UNCHANGED <<table, rowVars, traitVars, trophyVars, sessionVars, feedVars, filterVars, listingVars, connectionVars>>
    \/ table = "trophies" /\ Trophies!Next
        /\ UNCHANGED <<table, rowVars, traitVars, boardVars, sessionVars, feedVars, filterVars, listingVars, connectionVars>>
    \/ table = "sessions" /\ Sessions!Next
        /\ UNCHANGED <<table, rowVars, traitVars, boardVars, trophyVars, feedVars, filterVars, listingVars, connectionVars>>
    \/ table = "feed" /\ Feed!Next
        /\ UNCHANGED <<table, rowVars, traitVars, boardVars, trophyVars, sessionVars, filterVars, listingVars, connectionVars>>
    \/ table = "filter" /\ Asked!Next
        /\ UNCHANGED <<table, rowVars, traitVars, boardVars, trophyVars, sessionVars, feedVars, listingVars, connectionVars>>
    \/ table = "listing" /\ Listing!Next
        /\ UNCHANGED <<table, rowVars, traitVars, boardVars, trophyVars, sessionVars, feedVars, filterVars, connectionVars>>
    \/ table = "connection" /\ Connection!Next
        /\ UNCHANGED <<table, rowVars, traitVars, boardVars, trophyVars, sessionVars, feedVars, filterVars, listingVars>>

vars == <<table, rowVars, traitVars, boardVars, trophyVars, sessionVars, feedVars, filterVars,
          listingVars, connectionVars>>

Spec == Init /\ [][Next]_vars

-----------------------------------------------------------------------------
(* The row of a model reads back as the record the world holds, once the store
   events are processed (set_entity_model, map_row_to_ty). *)
RowIsRecord == table = "row" => Row!RowIsRecord

(* The attributes of a token are those of its last readable metadata, up to a
   trait that is repeated; its contract counts each trait, exactly until an update
   changes the traits of a token; and it is announced as it is stored, unless
   its metadata repeats a trait (store_token_attributes, apply_trait_operations). *)
AttributesMatch == table = "traits" => Traits!AttributesMatch

(* Sums, counts, averages and extremes are those of the updates
   (update_aggregation), and leaderboards are ordered by the displayed numbers
   (normalize_value_to_hex).  The count of a task is the sum of the progressions
   emitted for it (update_achievement_progression); the stored completions and
   points are those of the players' progress (update_achievement_completion_stats,
   update_task_completion_stats, update_player_achievement_stats). *)
StatisticsAgree ==
    /\ table = "board" => Board!AggregatesAgree /\ Board!OrderIsNumerical
    /\ table = "trophies" => Trophies!ProgressCounted /\ Trophies!StatisticsAgree

(* Sessions are the maximal runs of calls without a pause longer than the
   timeout (update_activity). *)
SessionsAreRuns == table = "sessions" => Sessions!SessionsAreRuns

(* A client that has received all there is knows whether the entity is in its
   clause (EntityManager, publish_optimistic_and_queue). *)
Mirrors == table = "feed" => Feed!Mirrors

(* What a query selects, a subscription with the same filter announces
   (storage.rs, match_entity). *)
SubscriptionFollowsQuery == table = "filter" => Asked!SubscriptionFollowsQuery

(* The rows that do not change during a listing are returned once, over gRPC
   (execute_paginated_query) and over GraphQL, which returns no other rows
   (fetch_multiple_rows). *)
StableRowsOnce ==
    /\ table = "listing" => Listing!StableRowsOnce
    /\ table = "connection" => Connection!RowsOnce
=============================================================================
