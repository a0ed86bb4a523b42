--------------------------- MODULE MetadataUpdates ---------------------------
(***************************************************************************)
(* Refreshing the metadata of tokens on ERC-4906 and ERC-7572 events       *)
(* (crates/processors). An event says that metadata changed, not what it   *)
(* is: the processor asks the contract for the URI at the preconfirmed     *)
(* block, fetches the document and stores it. It waits for that, or, with  *)
(* async_metadata_updates, leaves it to a task beside the engine.          *)
(*                                                                         *)
(* Metadata is the version of the contract's state it was fetched at;      *)
(* Empty is what is stored when it cannot be had. A batch of the engine is *)
(* one event. Retries of a request are in MetadataFetch.                   *)
(***************************************************************************)
EXTENDS Integers, Sequences, FiniteSets

CONSTANTS
    Nft,            \* token ids, 1..n
    Contract,       \* the contract's own entry in tokens
    Registered,     \* the sets of ids that may be registered
    Unreadable,     \* the sets of ids whose documents may be missing
    Empty, Failed, None,
    MaxEvents,      \* bound: events of the chain
    MaxFaults       \* bound: failed requests, failed batches, crashes

Id == Nft \cup {Contract}

VARIABLES
    config,         \* EventProcessorConfig: async, only_at_head
    registered,     \* the tokens that are registered; the others never are
    unreadable,     \* ids whose document cannot be fetched or parsed
    version,        \* on chain
    chain,          \* the events, each with the ids and the version it is about
    pos,            \* events committed
    phase,          \* of the engine
    tasks,          \* spawned fetches
    db, disk,       \* metadata column of tokens: in the transaction, committed
    faults,
    expected,       \* history: version of the last event that was processed, of those that
                    \* came when no other was about to be stored
    overlapping,    \* history: the tokens of the event that are being fetched for another
    disturbed       \* history: a fault

vars == <<config, registered, unreadable, version, chain, pos, phase, tasks, db, disk, faults,
          expected, overlapping, disturbed>>

chainVars == <<version, chain>>
configVars == <<config, registered, unreadable>>

-----------------------------------------------------------------------------
(* The chain: MetadataUpdate of one token, BatchMetadataUpdate of a range,
   ContractURIUpdated *)

Emit(kind, ids) ==
    /\ Len(chain) < MaxEvents
    /\ version' = [i \in Id |-> IF i \in ids THEN version[i] + 1 ELSE version[i]]
    /\ chain' = Append(chain, [kind |-> kind, ids |-> ids, version |-> version'])
    /\ UNCHANGED <<configVars, pos, phase, tasks, db, disk, faults, expected, overlapping, disturbed>>

Event ==
    \/ \E t \in Nft : Emit("single", {t})
    \/ \E from, to \in Nft : from <= to /\ Emit("batch", from..to)
    \/ Emit("contract", {Contract})

-----------------------------------------------------------------------------
(* The processors *)

AtHead == pos + 1 = Len(chain)

(* The tokens whose metadata is fetched: an event of a single token, or of the
   contract, is skipped when it is not registered; a batch is not looked at. *)
Concerned(e) == IF e.kind = "batch" THEN e.ids ELSE e.ids \cap registered

(* Both kinds of token updates are skipped, not put off, away from the head. *)
Skipped(e) == config.only_at_head /\ ~AtHead /\ e.kind # "contract"

(* Mutant: batches are never waited for. *)
Detached_batches(e) == e.kind = "batch" \/ (config.async /\ e.kind # "contract")

(* update_contract_metadata is always awaited. *)
Detached(e) == config.async /\ e.kind # "contract"

Busy(i) == \E k \in tasks : k.id = i

(* A task per token, on the permits of nft_metadata_semaphore. *)
Spawn(e) ==
    {[id |-> i, event |-> pos + 1, stage |-> "fetch", value |-> None, detached |-> Detached(e)] :
        i \in Concerned(e)}

Process ==
    /\ phase = "idle"
    /\ pos < Len(chain)
    /\ LET e == chain[pos + 1]
       IN  IF Skipped(e)
           THEN /\ phase' = "skip"
                /\ UNCHANGED <<tasks, overlapping>>
           ELSE /\ tasks' = tasks \cup Spawn(e)
                /\ phase' = IF Detached(e) \/ Concerned(e) = {} THEN "commit" ELSE "await"
                /\ overlapping' = {i \in Concerned(e) : ~disturbed /\ Busy(i)}
    /\ UNCHANGED <<configVars, chainVars, pos, db, disk, faults, expected, disturbed>>

(* fetch_token_metadata: what the contract says now, or Empty when the document
   cannot be read. update_contract_metadata: an error instead. *)
Fetched(i) ==
    IF i \notin unreadable THEN version[i] ELSE IF i = Contract THEN Failed ELSE Empty

Step(k, k2) == tasks' = (tasks \ {k}) \cup {k2}

Fetch(k) ==
    /\ k.stage = "fetch"
    /\ Step(k, [k EXCEPT !.stage = "store", !.value = Fetched(k.id)])
    /\ UNCHANGED <<configVars, chainVars, pos, phase, db, disk, faults, expected, overlapping, disturbed>>

(* The requests fail although they are repeated: a token gets Empty, a contract
   keeps what it has; or the URI is not text, an error. *)
FetchFails(k) ==
    /\ k.stage = "fetch"
    /\ faults < MaxFaults
    /\ faults' = faults + 1
    /\ \E v \in {Failed, IF k.id = Contract THEN None ELSE Empty} :
         Step(k, [k EXCEPT !.stage = "store", !.value = v])
    /\ disturbed' = TRUE
    /\ UNCHANGED <<configVars, chainVars, pos, phase, db, disk, expected, overlapping>>

(* update_token_metadata: the statement fails when the token has no row. *)
Updated(rows, k) ==
    IF k.value \in {Failed, None} \/ rows[k.id] = None THEN rows
    ELSE [rows EXCEPT ![k.id] = k.value]

(* A task that failed is forgotten when nobody waits for it. *)
Store(k) ==
    /\ k.stage = "store"
    /\ db' = Updated(db, k)
    /\ IF k.detached THEN tasks' = tasks \ {k} ELSE Step(k, [k EXCEPT !.stage = "done"])
    /\ UNCHANGED <<configVars, chainVars, pos, phase, disk, faults, expected, overlapping, disturbed>>

Awaited == {k \in tasks : ~k.detached}

(* try_join_all: every task has ended, and then the first error counts. *)
Join ==
    /\ phase = "await"
    /\ \A k \in Awaited : k.stage = "done"
    /\ phase' = IF \E k \in Awaited : k.value = Failed THEN "failed" ELSE "commit"
    /\ tasks' = tasks \ Awaited
    /\ UNCHANGED <<configVars, chainVars, pos, db, disk, faults, expected, overlapping, disturbed>>

-----------------------------------------------------------------------------
(* The engine *)

Commit ==
    /\ phase \in {"commit", "skip"}
    /\ phase' = "idle"
    /\ disk' = db
    /\ pos' = pos + 1
    /\ LET e == chain[pos + 1]
       IN  expected' = [i \in Id |-> IF phase = "commit" /\ i \in e.ids \ overlapping
                                     THEN e.version[i] ELSE expected[i]]
    /\ overlapping' = {}
    /\ UNCHANGED <<configVars, chainVars, tasks, db, faults, disturbed>>

Rollback ==
    /\ phase = "failed"
    /\ phase' = "idle"
    /\ db' = disk
    /\ overlapping' = {} /\ disturbed' = TRUE
    /\ UNCHANGED <<configVars, chainVars, pos, tasks, disk, faults, expected>>

(* Something else in the batch fails. *)
BatchFails ==
    /\ phase = "commit"
    /\ faults < MaxFaults
    /\ faults' = faults + 1
    /\ phase' = "failed"
    /\ UNCHANGED <<configVars, chainVars, pos, tasks, db, disk, expected, overlapping, disturbed>>

Crash ==
    /\ faults < MaxFaults
    /\ faults' = faults + 1
    /\ phase' = "idle"
    /\ tasks' = {}
    /\ db' = disk
    /\ overlapping' = {} /\ disturbed' = TRUE
    /\ UNCHANGED <<configVars, chainVars, pos, disk, expected>>

-----------------------------------------------------------------------------
Init ==
    /\ config \in [async : BOOLEAN, only_at_head : BOOLEAN]
    /\ registered \in Registered
    /\ unreadable \in Unreadable
    /\ version = [i \in Id |-> 0]
    /\ chain = << >>
    /\ pos = 0
    /\ phase = "idle"
    /\ tasks = {}
    /\ db = [i \in Id |-> IF i \in registered THEN 0 ELSE None]
    /\ disk = db
    /\ faults = 0
    /\ expected = version
    /\ overlapping = {}
    /\ disturbed = FALSE

Index ==
    \/ Process
    \/ \E k \in tasks : Fetch(k)
    \/ \E k \in tasks : Store(k)
    \/ Join
    \/ Commit
    \/ Rollback

Next ==
    \/ Event
    \/ Index
    \/ \E k \in tasks : FetchFails(k)
    \/ BatchFails
    \/ Crash

Spec == Init /\ [][Next]_vars

-----------------------------------------------------------------------------
(* Properties *)

(* Is a row as new as what the last event announced? A token whose document cannot
   be had is emptied, a contract keeps what it has. *)
Follows(i, row) ==
    \/ row = Empty
    \/ row >= expected[i]
    \/ i = Contract /\ faults > 0

(* Between batches, the metadata on disk is at least as new as the last event that
   was processed for the token. When fetches run beside the engine, that holds for
   the open transaction once they have ended, provided that nothing was rolled back
   or lost; and a fetch that another one overtakes never takes a row back behind the
   event that came when no fetch of the token was running
   (erc4906_metadata_update.rs, erc4906_batch_metadata_update.rs). *)
MetadataFollowsEvents ==
    phase = "idle" =>
        \A i \in registered :
            /\ ~config.async => Follows(i, disk[i])
            /\ config.async /\ tasks = {} /\ ~disturbed => Follows(i, db[i])
=============================================================================
