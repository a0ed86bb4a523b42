----------------------------- MODULE Pagination -----------------------------
(***************************************************************************)
(* A client that lists a table page by page while the indexer writes it    *)
(* (execute_paginated_query).  A row has an event_id, which is unique and  *)
(* grows with every write, and a score, which is not unique and stands for *)
(* the columns such as session_end and total_points that some listings are *)
(* ordered by.                                                             *)
(***************************************************************************)
EXTENDS Integers, Sequences, SequencesExt, FiniteSets, TLC

CONSTANTS
    Id,             \* the rows that may be there, a set of naturals
    Limit,          \* page sizes
    MaxChanges      \* bound: writes during a listing

VARIABLES
    pagination,     \* the request: order_by, direction, limit, and the default order
    rows,           \* the table: what is there of each row
    cursor,         \* the cursor of the next page, empty before the first
    listed,         \* how often each row was returned
    pages, done,
    stable,         \* the rows that were there all the time, unchanged
    changes

listingVars == <<pagination, rows, cursor, listed, pages, done, stable, changes>>

Asc(f) == [field |-> f, direction |-> "Asc"]
Desc(f) == [field |-> f, direction |-> "Desc"]

(* The default order of entities, of historical entities and of activities. *)
DefaultOrder == {Desc("event_id"), Asc("event_id"), Desc("score")}

Pagination ==
    [order_by : {<< >>, <<Asc("score")>>}, direction : {"Forward", "Backward"}, limit : Limit,
     default : DefaultOrder]

OrderBy == Append(pagination.order_by, pagination.default)
Ascends(i) == (OrderBy[i].direction = "Asc") = (pagination.direction = "Forward")
Column(r, i) == rows[r][OrderBy[i].field]

-----------------------------------------------------------------------------
(* The values of the cursor are bound one after another to the placeholders
   of all conditions; one that gets no value is NULL, which no comparison
   satisfies. *)
Bound(n) == IF n <= Len(cursor) THEN {cursor[n]} ELSE {}

(* Mutant: the comparison with the cursor includes equality. *)
build_cursor_conditions_inclusive(r) ==
    cursor # << >> =>
        \A v \in Bound(1) : IF Ascends(1) THEN Column(r, 1) >= v ELSE Column(r, 1) <= v

(* The conditions, one for each field of the order, are joined with AND. *)
build_cursor_conditions(r) ==
    LET before(i) == (i * (i - 1)) \div 2       \* placeholders of the earlier conditions
        holds(i) ==
            /\ \A j \in 1..(i - 1) : Column(r, j) \in Bound(before(i) + j)
            /\ \E v \in Bound(before(i) + i) :
                 IF Ascends(i) THEN Column(r, i) > v ELSE Column(r, i) < v
    IN  cursor # << >> => \A i \in 1..Len(OrderBy) : holds(i)

build_cursor_values(r) == [i \in 1..Len(OrderBy) |-> Column(r, i)]

(* ORDER BY, ties in the order of the rows. *)
Precedes(a, b) ==
    LET differ == {i \in 1..Len(OrderBy) : Column(a, i) # Column(b, i)}
        first == CHOOSE i \in differ : \A j \in differ : i <= j
    IN  IF differ = {} THEN a < b
        ELSE IF Ascends(first) THEN Column(a, first) < Column(b, first)
        ELSE Column(a, first) > Column(b, first)

Take(s, n) == SubSeq(s, 1, IF n < Len(s) THEN n ELSE Len(s))

(* One row more than the limit is fetched to see whether there are more. *)
execute_paginated_query ==
    LET found == SetToSortSeq({r \in DOMAIN rows : build_cursor_conditions(r)}, Precedes)
        fetched == Take(found, pagination.limit + 1)
        has_more == Len(found) > pagination.limit
        ordered == IF pagination.direction = "Backward" THEN Reverse(fetched) ELSE fetched
        items == Take(ordered, pagination.limit)
    IN  /\ ~done
        /\ listed' = [r \in Id |-> listed[r] + Cardinality({i \in DOMAIN items : items[i] = r})]
        /\ done' = ~has_more
        /\ cursor' = IF has_more THEN build_cursor_values(Last(items)) ELSE << >>
        /\ pages' = pages + 1
        /\ UNCHANGED <<pagination, rows, stable, changes>>

-----------------------------------------------------------------------------
(* A write inserts the row or gives it a new event_id. *)
LastEvent == Cardinality(Id) + changes

Write(r, score) ==
    /\ ~done /\ changes < MaxChanges
    /\ changes' = changes + 1
    /\ rows' = r :> [event_id |-> LastEvent + 1, score |-> score] @@ rows
    /\ stable' = stable \ {r}
    /\ UNCHANGED <<pagination, cursor, listed, pages, done>>

Delete(r) ==
    /\ ~done /\ changes < MaxChanges /\ r \in DOMAIN rows
    /\ changes' = changes + 1
    /\ rows' = [q \in DOMAIN rows \ {r} |-> rows[q]]
    /\ stable' = stable \ {r}
    /\ UNCHANGED <<pagination, cursor, listed, pages, done>>

Init ==
    /\ pagination \in Pagination
    /\ \E S \in SUBSET Id : \E score \in [S -> 0..1] :
         rows = [r \in S |-> [event_id |-> r, score |-> score[r]]]
    /\ cursor = << >> /\ listed = [r \in Id |-> 0]
    /\ pages = 0 /\ done = FALSE
    /\ stable = DOMAIN rows
    /\ changes = 0

Next ==
    \/ execute_paginated_query
    \/ \E r \in Id : Delete(r) \/ \E score \in 0..1 : Write(r, score)

Spec == Init /\ [][Next]_listingVars

-----------------------------------------------------------------------------
Unique(order) == Len(order) = 1 /\ order[1].field = "event_id"

(* What is written during a listing neither hides nor repeats the rows that
   stay as they are: going forward, no such row is returned twice, and a
   finished listing returned every one of them if it is in the default order,
   that order is unique, or there was one page (execute_paginated_query).  A
   requested order, an order with ties and the backward direction do lose rows
   from the second page on. *)
StableRowsOnce ==
    \A r \in stable :
        /\ pagination.direction = "Forward" => listed[r] <= 1
        /\ done /\ (pages = 1 \/ (pagination.direction = "Forward" /\ Unique(OrderBy))) => listed[r] = 1
=============================================================================
