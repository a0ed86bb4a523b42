------------------------------ MODULE Fetcher ------------------------------
(***************************************************************************)
(* The fetcher of crates/indexer/fetcher/src/json_rpc.rs: from each        *)
(* contract's cursor it finds the events that are still to be processed,   *)
(* first in a range of mined blocks, then in the preconfirmed block, and   *)
(* the cursors that stand for having processed them.                       *)
(*                                                                         *)
(* The chain shows itself to the fetcher as the events of each contract,   *)
(* in order, each with its block and its transaction. A transaction is     *)
(* known by its place on the chain, which stands for its hash.             *)
(***************************************************************************)
EXTENDS Integers, Sequences, FiniteSets, FiniteSetsExt

CONSTANTS
    Contract,
    None,
    blocks_chunk_size,
    events_chunk_size,
    world_block

ASSUME ChunkSizes ==
    blocks_chunk_size \in Nat \ {0} /\ events_chunk_size \in Nat \ {0} /\ world_block \in Nat

ASSUME NoneIsNoNumber == None \notin Nat

(* ContractCursor: the last block processed in full, and the transaction up to
   which the block after it was processed. *)
NewCursor == [head |-> None, pending |-> None]

Lesser(a, b) == IF a <= b THEN a ELSE b
Greater(a, b) == IF a >= b THEN a ELSE b

Event(block, tx, i) == [block |-> block, tx |-> tx, index |-> i]

EventsOfTx(block, tx, n) == [i \in 1..n |-> Event(block, tx, i)]

(* The events at positions that follow each other. *)
Slice(events, positions) ==
    IF positions = {} THEN << >> ELSE SubSeq(events, Min(positions), Max(positions))

(* starknet_getEvents of one contract, from a block up to the latest. *)
EventsFrom(events, from, latest) ==
    Slice(events, {i \in DOMAIN events : events[i].block \in from..latest})

(* The page of a list of events that begins after the first n. *)
Page(events, n) == SubSeq(events, n + 1, Lesser(n + events_chunk_size, Len(events)))

-----------------------------------------------------------------------------
(* The first block to ask for. A head of 0 is the head of a contract that was
   never fetched. *)
FirstBlock(cursor) ==
    IF cursor.head = None THEN world_block
    ELSE IF cursor.head = 0 THEN 0 ELSE cursor.head + 1

(* fetch_range: the request for a contract that is not at the latest block. *)
NewRequest(cursor, latest) ==
    LET from == FirstBlock(cursor)
        to == Lesser(from + blocks_chunk_size, latest)
    IN  [from |-> from, to |-> to, to_block |-> to, read |-> 0, events |-> << >>,
         done |-> cursor.head = latest]

(* The events of a page before the first one out of the range. *)
InRange(page, to) == Slice(page, {i \in DOMAIN page : \A j \in 1..i : page[j].block <= to})

(* Mutant: a continuation token is not followed. *)
ReadPage_no_token(request, all, latest) ==
    [request EXCEPT !.events = @ \o InRange(Page(all, request.read), request.to), !.done = TRUE]

(* fetch_all_event_pages: the range follows the first event of a page when it
   lies beyond it, and the pages end with the first event out of the range. *)
ReadPage(request, all, latest) ==
    LET page == Page(all, request.read)
        jump == page # << >> /\ (page[1].block > request.to \/ request.from = 0)
        from == IF jump THEN page[1].block ELSE request.from
        to == IF jump THEN Lesser(from + blocks_chunk_size, latest) ELSE request.to
        read == request.read + Len(page)
    IN  [from |-> from, to |-> to,
         to_block |-> IF request.read = 0 THEN to ELSE Greater(request.to_block, to),
         read |-> read,
         events |-> request.events \o InRange(page, to),
         done |-> read = Len(all) \/ \E i \in DOMAIN page : page[i].block > to]

(* What is left of a batch after the transaction it was processed up to. *)
AfterPending(events, tx) ==
    LET last == {i \in DOMAIN events : events[i].tx = tx}
    IN  IF last = {} THEN events
        ELSE SubSeq(events, Max(last) + 1, Len(events))

(* A contract at the latest block has no batch and keeps its cursor. *)
preprocess_fetched_events(batch, cursor, latest) ==
    IF cursor.head = latest THEN [events |-> << >>, cursor |-> cursor]
    ELSE [events |-> AfterPending(batch.events, cursor.pending),
          cursor |-> [head |-> batch.to_block,
                      pending |-> IF cursor.head # batch.to_block THEN None ELSE cursor.pending]]

-----------------------------------------------------------------------------
(* fetch_preconfirmed_block: for the contracts that are up to date, the
   transactions after the last one that was processed. *)
AfterLast(txs, tx) ==
    IF tx = None THEN txs
    ELSE IF tx \in txs THEN {t \in txs : t > tx} ELSE {}

(* The events of a contract in the receipts of some transactions. *)
EventsIn(events, txs) == Slice(events, {i \in DOMAIN events : events[i].tx \in txs})

fetch_preconfirmed_of(events, txs, latest, result) ==
    LET news == EventsIn(events, AfterLast(txs, result.cursor.pending))
    IN  IF result.cursor.head # latest \/ news = << >> THEN result
        ELSE [events |-> result.events \o news,
              cursor |-> [result.cursor EXCEPT !.pending = news[Len(news)].tx]]

(* Mutant: a block mined since the range was fetched is not noticed. *)
fetch_preconfirmed_block_unchecked(emitted, number, txs, latest, results) ==
    [c \in Contract |-> fetch_preconfirmed_of(emitted[c], txs, latest, results[c])]

(* Nothing is taken from a preconfirmed block that does not follow the latest
   block of this fetch. *)
fetch_preconfirmed_block(emitted, number, txs, latest, results) ==
    IF number # latest + 1 THEN results
    ELSE [c \in Contract |-> fetch_preconfirmed_of(emitted[c], txs, latest, results[c])]

UpToDate(results, latest) == \E c \in Contract : results[c].cursor.head = latest
=============================================================================
