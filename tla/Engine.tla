------------------------------- MODULE Engine -------------------------------
(***************************************************************************)
(* The engine of crates/indexer/engine: it fetches from the committed      *)
(* cursors, processes what was fetched inside the executor's transaction,  *)
(* and commits events and cursors together; a failed batch is rolled back  *)
(* and retried from the cached fetch, and a restarted process begins from  *)
(* what is committed.  The chain goes on growing meanwhile.                *)
(*                                                                         *)
(* Processing is the log of the events it was handed, per contract.        *)
(***************************************************************************)
EXTENDS Fetcher

CONSTANTS
    Emits,          \* how many events a transaction may emit per contract
    Preconfirmed,   \* FetchingFlags::PRECONFIRMED_BLOCK
    MaxTxs,         \* bound: transactions of the chain
    MaxBlocks,      \* bound: blocks mined after the genesis block
    MaxFaults       \* bound: failed fetches, batches and commits, and crashes

ASSUME EmitsType == Emits \subseteq [Contract -> Nat]

VARIABLES
    mined,      \* the number of the latest block; block 0 is the genesis block
    txs,        \* the transactions so far
    preconf,    \* those of the preconfirmed block
    emitted,    \* the events of each contract
    disk,       \* committed: log and cursors of each contract
    work,       \* the executor's open transaction
    pc,         \* where the engine's loop is
    latest,     \* number of the latest block, as this fetch read it
    requests,   \* the event request of each contract
    result,     \* events and new cursor of each contract, as fetched
    cached,     \* Engine.cached_fetch
    faults

envVars == <<mined, txs, preconf, emitted>>
vars == <<envVars, disk, work, pc, latest, requests, result, cached, faults>>

NoRequests == [c \in Contract |-> NewRequest(NewCursor, 0)]
NoResult == [c \in Contract |-> [events |-> << >>, cursor |-> NewCursor]]
EmptyStore == [log |-> [c \in Contract |-> << >>], cursors |-> [c \in Contract |-> NewCursor]]

-----------------------------------------------------------------------------
(* The chain. An indexed contract is deployed in world_block or later. *)

AddTransaction ==
    /\ txs < MaxTxs
    /\ txs' = txs + 1
    /\ preconf' = preconf \cup {txs + 1}
    /\ \E emits \in Emits :
         /\ \A c \in Contract : emits[c] > 0 => mined + 1 >= world_block
         /\ emitted' = [c \in Contract |-> emitted[c] \o EventsOfTx(mined + 1, txs + 1, emits[c])]
    /\ UNCHANGED <<mined, disk, work, pc, latest, requests, result, cached, faults>>

MineBlock ==
    /\ mined < MaxBlocks
    /\ mined' = mined + 1
    /\ preconf' = {}
    /\ UNCHANGED <<txs, emitted, disk, work, pc, latest, requests, result, cached, faults>>

-----------------------------------------------------------------------------
(* The loop of start *)

(* get_contracts and block_hash_and_number. *)
StartFetch ==
    /\ pc = "idle"
    /\ cached = None
    /\ latest' = mined
    /\ requests' = [c \in Contract |-> NewRequest(disk.cursors[c], mined)]
    /\ pc' = "pages"
    /\ UNCHANGED <<envVars, disk, work, result, cached, faults>>

(* A failed batch is processed again without fetching. *)
RetryCached ==
    /\ pc = "idle"
    /\ cached # None
    /\ result' = cached
    /\ pc' = "process"
    /\ UNCHANGED <<envVars, disk, work, latest, requests, cached, faults>>

(* A batch of requests brings one page for every contract that needs more. *)
FetchPages ==
    /\ pc = "pages"
    /\ \E c \in Contract : ~requests[c].done
    /\ requests' = [c \in Contract |->
           IF requests[c].done THEN requests[c]
           ELSE ReadPage(requests[c], EventsFrom(emitted[c], FirstBlock(disk.cursors[c]), latest), latest)]
    /\ UNCHANGED <<envVars, disk, work, pc, latest, result, cached, faults>>

FetchRange ==
    /\ pc = "pages"
    /\ \A c \in Contract : requests[c].done
    /\ result' = [c \in Contract |-> preprocess_fetched_events(requests[c], disk.cursors[c], latest)]
    /\ pc' = IF Preconfirmed /\ UpToDate(result', latest) THEN "preconf" ELSE "fetched"
    /\ requests' = NoRequests
    /\ UNCHANGED <<envVars, disk, work, latest, cached, faults>>

FetchPreconfirmed ==
    /\ pc = "preconf"
    /\ result' = fetch_preconfirmed_block(emitted, mined + 1, preconf, latest, result)
    /\ pc' = "fetched"
    /\ UNCHANGED <<envVars, disk, work, latest, requests, cached, faults>>

(* The new fetch is cached for a retry. *)
Fetched ==
    /\ pc = "fetched"
    /\ cached' = result
    /\ latest' = 0
    /\ pc' = "process"
    /\ UNCHANGED <<envVars, disk, work, requests, result, faults>>

Fault == faults < MaxFaults /\ faults' = faults + 1

FetchFails ==
    /\ pc \in {"pages", "preconf"}
    /\ Fault
    /\ cached' = None
    /\ latest' = 0
    /\ requests' = NoRequests
    /\ result' = NoResult
    /\ pc' = "idle"
    /\ UNCHANGED <<envVars, disk, work>>

(* process: the events, then the cursors, in the open transaction. *)
ProcessEvents ==
    /\ pc = "process"
    /\ work' = [work EXCEPT !.log = [c \in Contract |-> @[c] \o result[c].events]]
    /\ pc' = "cursors"
    /\ UNCHANGED <<envVars, disk, latest, requests, result, cached, faults>>

UpdateCursors ==
    /\ pc = "cursors"
    /\ work' = [work EXCEPT !.cursors = [c \in Contract |-> result[c].cursor]]
    /\ cached' = None
    /\ pc' = "execute"
    /\ UNCHANGED <<envVars, disk, latest, requests, result, faults>>

(* Mutant: the transaction is dropped instead of committed. *)
Execute_dropped ==
    /\ pc = "execute"
    /\ work' = disk
    /\ result' = NoResult
    /\ pc' = "idle"
    /\ UNCHANGED <<envVars, disk, latest, requests, cached, faults>>

Execute ==
    /\ pc = "execute"
    /\ disk' = work
    /\ result' = NoResult
    /\ pc' = "idle"
    /\ UNCHANGED <<envVars, work, latest, requests, cached, faults>>

(* Processing fails, before or after its events are written. *)
ProcessFails ==
    /\ pc \in {"process", "cursors"}
    /\ Fault
    /\ pc' = "rollback"
    /\ UNCHANGED <<envVars, disk, work, latest, requests, result, cached>>

Rollback ==
    /\ pc = "rollback"
    /\ work' = disk
    /\ result' = NoResult
    /\ pc' = "idle"
    /\ UNCHANGED <<envVars, disk, latest, requests, cached, faults>>

(* The process ends at any point, also because a commit failed before or after
   it reached the disk, and begins again. *)
Crash ==
    /\ Fault
    /\ \/ UNCHANGED disk
       \/ pc = "execute" /\ disk' = work
    /\ work' = disk'
    /\ cached' = None
    /\ requests' = NoRequests
    /\ result' = NoResult
    /\ latest' = 0
    /\ pc' = "idle"
    /\ UNCHANGED envVars

-----------------------------------------------------------------------------
Init ==
    /\ mined = 0
    /\ txs = 0
    /\ preconf = {}
    /\ emitted = [c \in Contract |-> << >>]
    /\ disk = EmptyStore
    /\ work = EmptyStore
    /\ pc = "idle"
    /\ latest = 0
    /\ requests = NoRequests
    /\ result = NoResult
    /\ cached = None
    /\ faults = 0

Loop ==
    \/ StartFetch
    \/ RetryCached
    \/ FetchPages
    \/ FetchRange
    \/ FetchPreconfirmed
    \/ Fetched
    \/ ProcessEvents
    \/ UpdateCursors
    \/ Execute
    \/ Rollback

Faults ==
    \/ FetchFails
    \/ ProcessFails
    \/ Crash

Next ==
    \/ AddTransaction
    \/ MineBlock
    \/ Loop
    \/ Faults

Fairness == WF_vars(Loop) /\ WF_vars(MineBlock)

Spec == Init /\ [][Next]_vars /\ Fairness

-----------------------------------------------------------------------------
(* Properties *)

(* The engine implements the indexer's promise: what is committed for a contract
   is a prefix of its events on the chain, each event once, in order, none left
   out, across chunks, pages, the preconfirmed block becoming a mined one,
   retries and crashes; and it never shrinks. *)
Abstract == INSTANCE Indexer WITH indexed <- disk.log
ImplementsIndexer == Abstract!ISpec

(* A cursor never runs ahead of the data: the blocks up to the head, and the
   block after it up to the pending transaction, are in the log. *)
CursorCovered ==
    \A c \in Contract :
        LET cur == disk.cursors[c]
            settled == IF cur.head = None THEN << >> ELSE EventsFrom(emitted[c], 0, cur.head)
        IN  /\ Abstract!Begins(settled, disk.log[c])
            /\ cur.pending = None => disk.log[c] = settled
            /\ cur.pending # None => disk.log[c] # << >> /\ disk.log[c][Len(disk.log[c])].tx = cur.pending

(* When the chain stops growing, every mined event is eventually committed. *)
CatchesUp ==
    (mined = MaxBlocks) ~>
        (\A c \in Contract : Abstract!Begins(EventsFrom(emitted[c], 0, mined), disk.log[c]))
=============================================================================
