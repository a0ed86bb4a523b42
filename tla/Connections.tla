---------------------------- MODULE Connections ----------------------------
(***************************************************************************)
(* GraphQL connections: a client lists the rows a request asks for, page   *)
(* by page, while the indexer writes the table.  Rows are selected by a    *)
(* pattern of keys (entities), by a filter on a member (models), by a      *)
(* balance that is not zero (balances) or by metadata that is not empty    *)
(* (transfers).  A page is continued by the cursor of its last row, or by  *)
(* an offset.                                                              *)
(***************************************************************************)
EXTENDS Integers, Sequences, SequencesExt, FiniteSets, TLC

CONSTANTS
    None,           \* no cursor, no count, no order
    Id,             \* the entities that may be there, a set of naturals
    Scored,         \* those that may be there of the other tables
    Fungible,       \* the rows that are of tokens without ids
    KeysOf,         \* the keys of each row, a sequence
    Patterns,       \* the patterns of keys asked for
    Score,          \* the values of the member rows are filtered and ordered by, balances, or
                    \* lengths of metadata
    Limit,          \* page sizes
    MaxChanges,     \* bound: writes during a listing
    MaxPages        \* bound: pages of a listing that repeats itself

VARIABLES
    request,        \* the arguments of the query other than cursor and offset
    rows,           \* the table: what is there of each row
    total_count,    \* the number of rows counted before the page is read
    cursor,         \* the cursor of the last page: the id and the ordering value of its last row
    offset,
    listed,         \* how often each row was returned
    pages, done, failed,
    stable,         \* the rows that were there all the time, unchanged
    kept,           \* the row of the cursor was there whenever a page was read
    tied,           \* two rows had the same value
    changes

connectionVars == <<request, rows, total_count, cursor, offset, listed, pages, done, failed,
                    stable, kept, tied, changes>>

-----------------------------------------------------------------------------
(* Names of filters: the field and a suffix, cut where suffixes overlap. *)
Suffix ==
    [Gt |-> <<"GT">>, Gte |-> <<"GT", "E">>, Lt |-> <<"LT">>, Lte |-> <<"LT", "E">>,
     Neq |-> <<"N", "EQ">>, Eq |-> <<"EQ">>, NotIn |-> <<"NOT", "IN">>, In |-> <<"IN">>,
     NotLike |-> <<"NOT", "LIKE">>, Like |-> <<"LIKE">>]

(* The order in which suffixes are tried. *)
Comparator == <<"Gt", "Gte", "Lt", "Lte", "Neq", "Eq", "NotIn", "In", "NotLike", "Like">>

parse_filter(name) ==
    LET hits == {i \in DOMAIN Comparator : IsSuffix(Suffix[Comparator[i]], name)}
        i == CHOOSE h \in hits : \A g \in hits : h <= g
    IN  IF hits = {} THEN [field |-> name, comparator |-> "Eq"]
        ELSE [field |-> SubSeq(name, 1, Len(name) - Len(Suffix[Comparator[i]])),
              comparator |-> Comparator[i]]

(* What a where argument may name: a member, or a member of a member, with or
   without a suffix. *)
Where == [nested : BOOLEAN, suffix : {<< >>} \cup {Suffix[c] : c \in DOMAIN Suffix}]

(* Top-level names are looked up with their suffixes, nested ones only without. *)
parse_where_argument(where) ==
    IF ~where.nested THEN {parse_filter(<<"score">> \o where.suffix)}
    ELSE {parse_filter(<<"stats", ".", "score">>) : x \in {s \in {where.suffix} : s = << >>}}

(* The comparison with 1; LIKE without wildcards is equality. *)
Compare(comparator, v) ==
    CASE comparator = "Gt" -> v > 1
      [] comparator = "Gte" -> v >= 1
      [] comparator = "Lt" -> v < 1
      [] comparator = "Lte" -> v <= 1
      [] comparator \in {"Neq", "NotIn", "NotLike"} -> v # 1
      [] comparator \in {"Eq", "In", "Like"} -> v = 1

-----------------------------------------------------------------------------
(* A key of a LIKE pattern is one segment; % stands for any text between two
   slashes, so for one or more segments. *)
Like(p, keys) ==
    \E end \in [0..Len(p) -> 0..Len(keys)] :
        /\ end[0] = 0
        /\ \A i \in DOMAIN p :
             IF p[i] = "*" THEN end[i] > end[i - 1]
             ELSE end[i] = end[i - 1] + 1 /\ keys[end[i]] = p[i]

(* In a regular expression a wildcard is one segment, and the last may be empty. *)
Regexp(p, keys) ==
    /\ Len(keys) >= IF Last(p) = "*" THEN Len(p) - 1 ELSE Len(p)
    /\ \A i \in DOMAIN p : p[i] = "*" \/ keys[i] = p[i]

keys_to_pattern(p, keys) ==
    p # << >> => IF p[1] = "*" THEN Regexp(p, keys) ELSE Like(p, keys)

build_conditions(r) ==
    /\ request.table = "entities" => keys_to_pattern(request.keys, KeysOf[r])
    /\ request.table = "models" =>
         \A w \in request.where : \A f \in parse_where_argument(w) :
             Compare(f.comparator, rows[r].score)

(* Balances of zero are left out, but not of tokens without ids; transfers of
   tokens whose metadata is empty are. *)
Selected(r) ==
    /\ build_conditions(r)
    /\ request.table = "balances" => r \in Fungible \/ rows[r].score # 0
    /\ request.table = "transfers" => rows[r].score # 0

-----------------------------------------------------------------------------
IsCursorBased == request.by # "offset"

Ascending ==
    IF request.order # None THEN request.order = "Asc" ELSE request.by = "last"

OrderValue(r) == IF request.order # None THEN rows[r].score ELSE rows[r].id

Encode(r) == <<rows[r].id, OrderValue(r)>>

(* `after' compares with <=, `before' with >=, whatever the order. *)
Reaches(v, w) == IF request.argument = "after" THEN v <= w ELSE v >= w

handle_cursor(r) ==
    cursor # None =>
        IF request.order # None
        THEN \/ Reaches(rows[r].id, cursor[1]) /\ rows[r].score = cursor[2]
             \/ Reaches(rows[r].score, cursor[2])
        ELSE Reaches(rows[r].id, cursor[1])

Precedes(a, b) ==
    LET less(q, r) == OrderValue(q) < OrderValue(r)
                      \/ (OrderValue(q) = OrderValue(r) /\ rows[q].id < rows[r].id)
    IN  IF Ascending THEN less(a, b) ELSE less(b, a)

Take(s, n) == SubSeq(s, 1, IF n < Len(s) THEN n ELSE Len(s))

(* The row of the cursor comes first and is removed; if another row does, or it
   is the only one, the last row is.  One row more than the page shows whether
   there are more. *)
Page(data, limit) ==
    LET rest == IF cursor = None THEN data
                ELSE IF Encode(data[1]) = cursor /\ Len(data) # 1 THEN Tail(data)
                ELSE Front(data)
        more == Len(rest) = IF cursor = None THEN limit ELSE limit - 1
    IN  [items |-> IF more THEN Front(rest) ELSE rest, has_next_page |-> more]

(* The rows among those that are found, in order, from the offset on. *)
Fetch(S) ==
    LET found == SetToSortSeq(S, Precedes)
        limit == request.size +
                 IF ~IsCursorBased THEN 0 ELSE IF cursor = None THEN 1 ELSE 2
        data == Take(SubSeq(found, offset + 1, Len(found)), limit)
    IN  IF data = << >> THEN [items |-> data, has_next_page |-> FALSE]
        ELSE IF IsCursorBased THEN Page(data, limit)
        ELSE [items |-> data, has_next_page |-> limit + offset < total_count]

fetch_multiple_rows == Fetch({r \in DOMAIN rows : Selected(r) /\ handle_cursor(r)})

(* The same over the joined tables, where a cursor is an error (ErcCursor). *)
fetch_token_balances == Fetch({r \in DOMAIN rows : Selected(r)})

fetch_token_transfers == Fetch({r \in DOMAIN rows : Selected(r)})

-----------------------------------------------------------------------------
OfErc == request.table \in {"balances", "transfers"}

(* Rows are counted by a statement of their own; all balances and transfers of
   the account are. *)
count_rows ==
    /\ ~done /\ total_count = None /\ pages < MaxPages
    /\ total_count' = Cardinality({r \in DOMAIN rows : build_conditions(r)})
    /\ UNCHANGED <<request, rows, cursor, offset, listed, pages, done, failed, stable, kept, tied,
                   changes>>

(* The client goes on from the end of the page while there is a next one. *)
resolve_many ==
    LET page == CASE request.table = "balances" -> fetch_token_balances
                  [] request.table = "transfers" -> fetch_token_transfers
                  [] OTHER -> fetch_multiple_rows
    IN  /\ total_count # None /\ ~(OfErc /\ cursor # None)
        /\ listed' = [r \in Id |->
                        listed[r] + Cardinality({i \in DOMAIN page.items : page.items[i] = r})]
        /\ done' = ~page.has_next_page
        /\ cursor' = IF IsCursorBased /\ page.items # << >> THEN Encode(Last(page.items)) ELSE None
        /\ offset' = IF IsCursorBased THEN 0 ELSE offset + request.size
        /\ total_count' = None
        /\ pages' = pages + 1
        /\ kept' = (kept /\ (cursor # None =>
                        \E r \in DOMAIN rows : Selected(r) /\ Encode(r) = cursor))
        /\ UNCHANGED <<request, rows, failed, stable, tied, changes>>

(* A cursor of balances and transfers is compared with a column `id' that
   several of the joined tables have, which is an error. *)
ErcCursor ==
    /\ total_count # None /\ OfErc /\ cursor # None
    /\ failed' = TRUE /\ done' = TRUE /\ total_count' = None
    /\ UNCHANGED <<request, rows, cursor, offset, listed, pages, stable, kept, tied, changes>>

-----------------------------------------------------------------------------
Present == IF request.table = "entities" THEN Id ELSE Scored

ScoresOf(r) == IF request.table = "entities" THEN {r} ELSE Score

Ties(t) == \E q, r \in DOMAIN t : q # r /\ t[q].score = t[r].score

(* A write gives the row a new event id, which orders entities and models.
   Balances are ordered by what they are balances of; a transfer keeps the id of
   its event when the metadata of its token is written. *)
Write(r, score) ==
    LET id == IF request.table = "balances" THEN r
              ELSE IF request.table = "transfers" /\ r \in DOMAIN rows THEN rows[r].id
              ELSE Cardinality(Id) + changes + 1
    IN  /\ ~done /\ changes < MaxChanges
        /\ changes' = changes + 1
        /\ rows' = r :> [id |-> id, score |-> score] @@ rows
        /\ stable' = stable \ {r}
        /\ tied' = (tied \/ Ties(rows'))
        /\ UNCHANGED <<request, total_count, cursor, offset, listed, pages, done, failed, kept>>

Delete(r) ==
    /\ ~done /\ changes < MaxChanges /\ r \in DOMAIN rows /\ ~OfErc
    /\ changes' = changes + 1
    /\ rows' = [q \in DOMAIN rows \ {r} |-> rows[q]]
    /\ stable' = stable \ {r}
    /\ UNCHANGED <<request, total_count, cursor, offset, listed, pages, done, failed, kept, tied>>

(* Entities take a pattern of keys, models an order and a filter. *)
Request ==
    LET paging == [by : {"first", "last", "offset"}, size : Limit, argument : {"after", "before"}]
        of(table, keys, order, where) ==
            {[by |-> p.by, size |-> p.size, argument |-> p.argument,
              table |-> table, keys |-> k, order |-> o, where |-> w] :
             p \in {q \in paging : (q.by = "last") = (q.argument = "before") \/ order # {None}},
             k \in keys, o \in order, w \in where}
    IN  of("entities", Patterns, {None}, {{}}) \cup of("models", {<< >>}, {"Asc", "Desc"}, {{}})
        \cup {q \in of("models", {<< >>}, {None}, {{w} : w \in Where}) : q.by = "offset"}
        \cup of("balances", {<< >>}, {None}, {{}}) \cup of("transfers", {<< >>}, {None}, {{}})

Init ==
    /\ request \in Request
    /\ \E S \in SUBSET Present :
         \E score \in IF request.table = "entities" THEN {[r \in S |-> r]} ELSE [S -> Score] :
            rows = [r \in S |-> [id |-> r, score |-> score[r]]]
    /\ total_count = None /\ cursor = None /\ offset = 0
    /\ listed = [r \in Id |-> 0]
    /\ pages = 0 /\ done = FALSE /\ failed = FALSE
    /\ stable = DOMAIN rows /\ kept = TRUE /\ tied = Ties(rows)
    /\ changes = 0

Next ==
    \/ count_rows \/ resolve_many \/ ErcCursor
    \/ \E r \in Present : Delete(r) \/ \E score \in ScoresOf(r) : Write(r, score)

Spec == Init /\ [][Next]_connectionVars

-----------------------------------------------------------------------------
(* What a request asks for: keys that agree with the pattern position by
   position, and a value that compares as the suffix says. *)
KeysAgree(p, keys) ==
    Len(keys) >= Len(p) /\ \A i \in DOMAIN p : p[i] \in {"*", keys[i]}

Meant(where) ==
    IF where.suffix = << >> THEN "Eq" ELSE CHOOSE c \in DOMAIN Suffix : Suffix[c] = where.suffix

Wanted(r) ==
    /\ KeysAgree(request.keys, KeysOf[r])
    /\ \A w \in request.where : Compare(Meant(w), rows[r].score)
    /\ request.table = "balances" => r \in Fungible \/ rows[r].score # 0
    /\ request.table = "transfers" => rows[r].score # 0

(* Requests that also return other rows: a wildcard in front of a key of a
   pattern that starts with a key, a wildcard at the end of one that starts with
   a wildcard, and a nested member with a suffix. *)
Loose ==
    LET p == request.keys
    IN  \/ p # << >> /\ p[1] # "*" /\ \E i, j \in DOMAIN p : i < j /\ p[i] = "*" /\ p[j] # "*"
        \/ Len(p) > 1 /\ p[1] = "*" /\ Last(p) = "*"
        \/ \E w \in request.where : w.nested /\ w.suffix # << >>

(* A listing returns each row it is asked for once, although rows are written
   between its pages (fetch_multiple_rows).  By cursors: no row that stays as it
   is comes twice, and at most the last one is missing, none if no row a cursor
   points to was written.  This takes an order without ties, and `after' where it
   descends, `before' where it ascends.  By offsets: if nothing is written.  A
   request that is not loose returns no other row. *)
RowsOnce ==
    LET wanted == {r \in stable : Wanted(r)}
        orderly == /\ Ascending = (request.argument = "before")
                   /\ request.order # None => ~tied
    IN  /\ IsCursorBased /\ orderly =>
             /\ \A r \in wanted : listed[r] <= 1
             /\ done /\ ~failed =>
                  Cardinality({r \in wanted : listed[r] = 0}) <= IF kept THEN 0 ELSE 1
        /\ ~IsCursorBased /\ changes = 0 /\ done => \A r \in wanted : listed[r] = 1
        /\ changes = 0 /\ ~Loose => \A r \in Id : listed[r] > 0 => r \in wanted
=============================================================================
