---------------------------- MODULE Deployments -----------------------------
(***************************************************************************)
(* Controllers found on chain: the processor of the universal deployer's   *)
(* ContractDeployed events (crates/processors/src/processors/              *)
(* controller.rs).  A deployment is a controller when its calldata has one *)
(* of the known forms, or else when the lookup service knows its address.  *)
(*                                                                         *)
(* The events of a batch are handled side by side, one task per address,   *)
(* and an error of one of them rolls the batch back; the engine retries.   *)
(* A salt is a username or not: a short string of other characters and one *)
(* that is no short string at all are passed over alike.                   *)
(***************************************************************************)
EXTENDS Integers, Sequences, SequencesExt, FiniteSets

CONSTANTS
    Address, Username,
    Calldata,               \* the calldata of the deployments tried
    NoName,                 \* a salt that is not a username
    Batch,                  \* events of a batch
    MaxFaults,              \* bound: requests that fail
    MaxEvents               \* bound: deployments

VARIABLES
    chain,      \* the ContractDeployed events
    known,      \* external: the addresses the lookup service knows
    known0,     \* history: those it knew when the events were emitted
    pos,        \* events of the batches committed
    todo,       \* the events of the batch each task has yet to handle, by address
    attempt,    \* attempts of the request each task is at, 0 when it makes none
    failed,     \* whether a handler of the batch failed
    tx, db,     \* controllers by username, in the open transaction and committed
    faults

deploymentVars == <<chain, known, known0, pos, todo, attempt, failed, tx, db, faults>>

NoRows == [u \in {} |-> 0]
(* CARTRIDGE_MAGIC, one letter standing for all. *)
Magic == [i \in 1..22 |-> 104]

-----------------------------------------------------------------------------
parse_controller_calldata_webauthn(c) ==
    /\ Len(c) >= 25
    /\ c[1] = 0 /\ c[2] = 4 /\ c[3] = 22
    /\ SubSeq(c, 4, 25) = Magic

parse_controller_calldata_eip191(c) ==
    Len(c) >= 4 /\ c[1] = 0 /\ c[2] = 3 /\ (Len(c) = 4 => c[4] = 1)

parse_controller_calldata_external(c) == Len(c) >= 3 /\ c[1] = 1 /\ (Len(c) = 3 => c[3] = 1)

parse_controller_calldata_starknet(c) ==
    Len(c) >= 4 /\ c[1] = 0 /\ c[2] = 0 /\ (Len(c) = 4 => c[4] = 1)

parse_controller_calldata_siws(c) ==
    Len(c) >= 5 /\ c[1] = 0 /\ c[2] = 5 /\ (Len(c) = 5 => c[5] = 1)

KnownForm(c) ==
    \/ parse_controller_calldata_webauthn(c)
    \/ parse_controller_calldata_eip191(c)
    \/ parse_controller_calldata_starknet(c)
    \/ parse_controller_calldata_external(c)
    \/ parse_controller_calldata_siws(c)

is_valid_username(salt) == salt \in Username

-----------------------------------------------------------------------------
add_controller(rows, e) ==
    [u \in DOMAIN rows \cup {e.salt} |-> IF u = e.salt THEN e.address ELSE rows[u]]

EventsOf(a, first, last) ==
    SelectSeq(SubSeq(chain, first, last), LAMBDA e : e.address = a)

BatchEnd == IF pos + Batch < Len(chain) THEN pos + Batch ELSE Len(chain)

Submitted == [a \in Address |-> EventsOf(a, pos + 1, BatchEnd)]

Busy == \E a \in Address : todo[a] # << >>

(* The task has its next event before it and is not waiting for an answer. *)
Ready(a) == todo[a] # << >> /\ attempt[a] = 0 /\ ~failed

(* process: a known form, or a salt that is no username, needs no request. *)
Process(a) ==
    LET e == Head(todo[a]) IN
    /\ Ready(a)
    /\ KnownForm(e.calldata) \/ ~is_valid_username(e.salt)
    /\ tx' = IF is_valid_username(e.salt) THEN add_controller(tx, e) ELSE tx
    /\ todo' = [todo EXCEPT ![a] = Tail(@)]
    /\ UNCHANGED <<chain, known, known0, pos, attempt, failed, db, faults>>

(* Otherwise the service is asked, *)
Ask(a) ==
    LET e == Head(todo[a]) IN
    /\ Ready(a)
    /\ ~KnownForm(e.calldata) /\ is_valid_username(e.salt)
    /\ attempt' = [attempt EXCEPT ![a] = 1]
    /\ UNCHANGED <<chain, known, known0, pos, todo, failed, tx, db, faults>>

(* and whatever it answers for the address makes it a controller. *)
LookupAnswers(a) ==
    LET e == Head(todo[a]) IN
    /\ attempt[a] > 0 /\ ~failed
    /\ tx' = IF e.address \in known THEN add_controller(tx, e) ELSE tx
    /\ attempt' = [attempt EXCEPT ![a] = 0]
    /\ todo' = [todo EXCEPT ![a] = Tail(@)]
    /\ UNCHANGED <<chain, known, known0, pos, failed, db, faults>>

MaxRetries == 3

(* Mutant: an address that could not be looked up is no controller. *)
GiveUp_skips(a) ==
    /\ todo' = [todo EXCEPT ![a] = Tail(@)]
    /\ attempt' = [attempt EXCEPT ![a] = 0]
    /\ UNCHANGED failed

(* The error fails the handler and with it the batch. *)
GiveUp(a) ==
    /\ failed' = TRUE
    /\ attempt' = [attempt EXCEPT ![a] = 0]
    /\ UNCHANGED todo

(* A request that cannot be sent is repeated, *)
LookupFails(a) ==
    /\ attempt[a] > 0 /\ ~failed /\ faults < MaxFaults
    /\ faults' = faults + 1
    /\ \/ /\ attempt[a] < MaxRetries
          /\ attempt' = [attempt EXCEPT ![a] = @ + 1]
          /\ UNCHANGED <<todo, failed>>
       \/ /\ attempt[a] = MaxRetries
          /\ GiveUp(a)
    /\ UNCHANGED <<chain, known, known0, pos, tx, db>>

(* an answer that cannot be read is not. *)
LookupUnreadable(a) ==
    /\ attempt[a] > 0 /\ ~failed /\ faults < MaxFaults
    /\ faults' = faults + 1
    /\ GiveUp(a)
    /\ UNCHANGED <<chain, known, known0, pos, tx, db>>

-----------------------------------------------------------------------------
(* External: the engine's batch around the handlers. *)

Commit ==
    /\ ~failed /\ ~Busy /\ pos < Len(chain)
    /\ db' = tx
    /\ pos' = BatchEnd
    /\ todo' = [a \in Address |-> EventsOf(a, pos' + 1,
                                           IF pos' + Batch < Len(chain) THEN pos' + Batch ELSE Len(chain))]
    /\ UNCHANGED <<chain, known, known0, attempt, failed, tx, faults>>

Rollback ==
    /\ failed
    /\ tx' = db
    /\ failed' = FALSE
    /\ todo' = Submitted
    /\ attempt' = [a \in Address |-> 0]
    /\ UNCHANGED <<chain, known, known0, pos, db, faults>>

(* External: the service learns of an account. *)
Learn(a) ==
    /\ a \notin known
    /\ known' = known \cup {a}
    /\ UNCHANGED <<chain, known0, pos, todo, attempt, failed, tx, db, faults>>

Event == [address : Address, calldata : Calldata, salt : Username \cup {NoName}]

Init ==
    /\ chain \in [1..MaxEvents -> Event]
    /\ known \in SUBSET Address /\ known0 = known
    /\ pos = 0
    /\ todo = Submitted
    /\ attempt = [a \in Address |-> 0]
    /\ failed = FALSE
    /\ tx = NoRows /\ db = NoRows
    /\ faults = 0

Next ==
    \/ \E a \in Address :
          Process(a) \/ Ask(a) \/ LookupAnswers(a) \/ LookupFails(a) \/ LookupUnreadable(a) \/ Learn(a)
    \/ Commit
    \/ Rollback

Spec == Init /\ [][Next]_deploymentVars

-----------------------------------------------------------------------------
(* When a batch is committed, no controller deployed in it is missing: the   *)
(* username of every deployment of a known form, or whose address the        *)
(* service knew all along, has a row, whatever requests failed on the way.   *)
(* And only controllers are there: a row's address was deployed with that    *)
(* username, and has a known form or is known to the service.                *)
ControllersFound ==
    /\ \A i \in 1..pos :
          is_valid_username(chain[i].salt) /\ (KnownForm(chain[i].calldata) \/ chain[i].address \in known0)
            => chain[i].salt \in DOMAIN db
    /\ \A u \in DOMAIN db : \E i \in 1..pos :
          /\ chain[i].salt = u /\ chain[i].address = db[u]
          /\ KnownForm(chain[i].calldata) \/ chain[i].address \in known
=============================================================================
