------------------------------ MODULE Messaging ------------------------------
(***************************************************************************)
(* Off-chain messages of users (crates/messaging): a message is checked    *)
(* against the committed entity, its signature is verified by the identity *)
(* contract, and the entity is written through the executor, whose single  *)
(* open transaction the engine fills with the events of its batch at the   *)
(* same time. A publisher is a request of the gRPC or GraphQL server, or   *)
(* the loop of the relay: several are under way at once.                   *)
(*                                                                         *)
(* One entity of one model is enough: messages of different entities meet  *)
(* in the transaction only, as messages and the batch do. A message is its *)
(* timestamp (0: it has none) and the identity that signed it. The         *)
(* statements of an operation are those of Executor, with entities and     *)
(* entity_model as one. The executor takes statements in the order they    *)
(* are sent, so each is run here by the step that sends it; its channel,   *)
(* and statements that fail, are in Executor.                              *)
(***************************************************************************)
EXTENDS Integers

CONSTANTS
    Publisher, Identity,
    MaxTime,            \* bound: timestamps and readings of the clock, in milliseconds
    future_tolerance, max_age,
    require_timestamp,  \* MessagingConfig
    Batch,              \* events of a batch of the engine
    MaxMessages,        \* bound: messages published, over a whole behaviour
    MaxBatches,         \* bound: batches of the engine
    MaxFaults,          \* bound: failed batches and crashes
    None

MessagingConfiguration ==
    /\ {future_tolerance, max_age, MaxTime, Batch} \subseteq Nat
    /\ require_timestamp \in BOOLEAN

ASSUME MessagingConfigured == MessagingConfiguration

VARIABLES
    stage,      \* where validate_and_set_entity of a publisher stands
    message,    \* the message a publisher holds
    db,         \* what the open transaction sees
    disk,       \* what is committed
    engine,     \* what the engine does or waits for
    applied,    \* events of the batch sent in this attempt
    messages, faults,
    fate,       \* history: what happened while a publisher's write was under way
    split       \* history: was the batch committed in part, and then undone?

messagingVars == <<stage, message, db, disk, engine, applied, messages, faults,
          fate, split>>

publishVars == <<stage, message, messages>>
engineVars == <<engine, applied, faults>>
storeVars == <<db, disk>>

(* The time at which a message was sent; which commit it was checked against
   is history. *)
Message == [timestamp : 0..MaxTime, identity : Identity]

NoEntity == [timestamp |-> 0, identity |-> None, checked |-> 0]

EmptyDb == [entity |-> FALSE, row |-> NoEntity, events |-> 0, head |-> 0, version |-> 0]

-----------------------------------------------------------------------------
(* messaging/lib.rs: what is checked before the signature *)

TimestampInWindow(m, t) ==
    m.timestamp # 0 => /\ m.timestamp <= t + future_tolerance
                       /\ t - m.timestamp <= max_age

TimestampPresent(m) == require_timestamp => m.timestamp # 0

(* Mutant: a message with the timestamp of the entity is accepted. *)
NewerThan_equal(m, stored) ==
    stored.timestamp # 0 => m.timestamp # 0 /\ m.timestamp >= stored.timestamp

(* An entity with a timestamp wants a message with a greater one. *)
NewerThan(m, stored) ==
    stored.timestamp # 0 => m.timestamp # 0 /\ m.timestamp > stored.timestamp

(* The identity that must have signed: the entity's, or the message's when there
   is no entity. *)
IdentityOf(m, stored) == IF stored = NoEntity THEN m.identity ELSE stored.identity

Acceptable(m, stored, t) ==
    /\ TimestampInWindow(m, t)
    /\ TimestampPresent(m)
    /\ NewerThan(m, stored)

(* Up to the await of validate_signature. The entity is read through the pool of
   readers, so what is seen is what is committed. A message that cannot be parsed
   or is refused here leaves no trace. *)
Validate(p, m) ==
    /\ stage[p] = "idle"
    /\ messages < MaxMessages
    /\ messages' = messages + 1
    /\ \E now \in 1..MaxTime : Acceptable(m, disk.row, now)
    /\ stage' = [stage EXCEPT ![p] = "signature"]
    /\ message' = [message EXCEPT ![p] =
           [timestamp |-> m.timestamp, identity |-> m.identity, checked |-> disk.version,
            signer |-> IdentityOf(m, disk.row)]]
    /\ UNCHANGED <<storeVars, engineVars, fate, split>>

(* Back to the caller, with an error or the id of the entity. *)
Return(p) ==
    /\ stage' = [stage EXCEPT ![p] = "idle"]
    /\ message' = [message EXCEPT ![p] = None]

(* The provider answers: is_valid_signature, or an error. *)
ValidSignature(p) ==
    /\ stage[p] = "signature"
    /\ message[p].signer = message[p].identity
    /\ stage' = [stage EXCEPT ![p] = "entity"]
    /\ UNCHANGED <<message, messages, storeVars, engineVars, fate, split>>

InvalidSignature(p) ==
    /\ stage[p] = "signature"
    /\ Return(p)
    /\ UNCHANGED <<messages, storeVars, engineVars, fate, split>>

-----------------------------------------------------------------------------
(* messaging/entity.rs: set_entity, statements sent one after the other; then
   execute, which is awaited. *)

(* The row a message leaves. *)
RowOf(m) == [timestamp |-> m.timestamp, identity |-> m.identity, checked |-> m.checked]

(* A publisher from its first statement to its commit. *)
Writing(p) == stage[p] \in {"row", "execute"}

Met(P(_), what) == fate' = [p \in Publisher |-> IF P(p) THEN fate[p] \cup {what} ELSE fate[p]]

WriteEntity(p) ==
    /\ stage[p] = "entity"
    /\ stage' = [stage EXCEPT ![p] = "row"]
    /\ db' = [db EXCEPT !.entity = TRUE]
    /\ UNCHANGED <<message, messages, disk, engineVars, fate, split>>

(* The foreign key wants the entity; the error of a row without one is logged. *)
WriteRow(p) ==
    /\ stage[p] = "row"
    /\ stage' = [stage EXCEPT ![p] = "execute"]
    /\ db' = IF db.entity THEN [db EXCEPT !.row = RowOf(message[p])] ELSE db
    /\ LET Other(q) == Writing(q) /\ q # p IN Met(Other, "overwritten")
    /\ UNCHANGED <<message, messages, disk, engineVars, split>>

(* The transaction of everybody is committed, whoever asks for it. *)
Commit ==
    /\ db' = [db EXCEPT !.version = @ + 1]
    /\ disk' = db'
    /\ LET Landed(q) == Writing(q) /\ db.row = RowOf(message[q]) IN Met(Landed, "landed")

(* Mutant: the caller is answered when the statements are queued. *)
Execute_unawaited(p) ==
    /\ stage[p] = "execute"
    /\ stage' = [stage EXCEPT ![p] = "answered"]
    /\ UNCHANGED <<message, messages, storeVars, engineVars, fate, split>>

Execute(p) ==
    /\ stage[p] = "execute"
    /\ stage' = [stage EXCEPT ![p] = "answered"]
    /\ Commit
    /\ split' = IF split = "undone" THEN split
                ELSE IF engine = "process" /\ applied > 0 THEN "yes" ELSE "no"
    /\ UNCHANGED <<message, messages, engineVars>>

(* publish_message and the relay's loop: the caller gets the id of the entity. *)
Answer(p) ==
    /\ stage[p] = "answered"
    /\ Return(p)
    /\ fate' = [fate EXCEPT ![p] = {}]
    /\ UNCHANGED <<messages, storeVars, engineVars, split>>

-----------------------------------------------------------------------------
(* The engine: the statements of a batch, the cursors, commit or rollback *)

ProcessEvent ==
    /\ engine = "process"
    /\ applied < Batch
    /\ disk.head < MaxBatches
    /\ applied' = applied + 1
    /\ db' = [db EXCEPT !.events = @ + 1]
    /\ UNCHANGED <<publishVars, disk, engine, faults, fate, split>>

UpdateCursors ==
    /\ engine = "process"
    /\ applied = Batch
    /\ engine' = "commit"
    /\ db' = [db EXCEPT !.head = @ + 1]
    /\ UNCHANGED <<publishVars, disk, applied, faults, fate, split>>

CommitBatch ==
    /\ engine = "commit"
    /\ engine' = "process"
    /\ applied' = 0
    /\ Commit
    /\ split' = IF split = "undone" THEN split ELSE "no"
    /\ UNCHANGED <<publishVars, faults>>

(* Everything that is not committed is gone: the events of the batch, and the
   writes of messages that wait for their commit. The batch starts again. *)
Undo ==
    /\ db' = disk
    /\ applied' = 0
    /\ engine' = "process"
    /\ split' = IF split = "no" THEN "no" ELSE "undone"

RollbackBatch ==
    /\ faults < MaxFaults
    /\ engine = "process"
    /\ faults' = faults + 1
    /\ Undo
    /\ Met(Writing, "rollback")
    /\ UNCHANGED <<publishVars, disk>>

(* The process ends and starts again; publishers get no answer. *)
Crash ==
    /\ faults < MaxFaults
    /\ faults' = faults + 1
    /\ Undo
    /\ stage' = [p \in Publisher |-> "idle"]
    /\ message' = [p \in Publisher |-> None]
    /\ fate' = [p \in Publisher |-> {}]
    /\ UNCHANGED <<messages, disk>>

-----------------------------------------------------------------------------
MessagingInit ==
    /\ stage = [p \in Publisher |-> "idle"]
    /\ message = [p \in Publisher |-> None]
    /\ db = EmptyDb
    /\ disk = EmptyDb
    /\ engine = "process"
    /\ applied = 0
    /\ messages = 0
    /\ faults = 0
    /\ fate = [p \in Publisher |-> {}]
    /\ split = "no"

Publish(p) ==
    \/ \E m \in Message : Validate(p, m)
    \/ ValidSignature(p)
    \/ InvalidSignature(p)
    \/ WriteEntity(p)
    \/ WriteRow(p)
    \/ Execute(p)
    \/ Answer(p)

Index ==
    \/ ProcessEvent
    \/ UpdateCursors
    \/ CommitBatch
    \/ RollbackBatch

MessagingNext ==
    \/ \E p \in Publisher : Publish(p)
    \/ Index
    \/ Crash

MessagingSpec == MessagingInit /\ [][MessagingNext]_messagingVars

-----------------------------------------------------------------------------
(* Properties *)

(* A publisher that gets its answer has met a fate: its message was on disk, another
   message was written over it, or the engine rolled the transaction of both back. *)
AnswerFollowsFate ==
    \A p \in Publisher : stage[p] = "answered" => fate[p] # {}

(* What is on disk of the engine's batches are whole batches, each once, unless
   the commit of a message fell within a batch. *)
BatchesWhole == split = "no" => disk.events = Batch * disk.head

(* A publisher is told Ok (validate_and_set_entity returns the entity's id) only
   when its message was on disk, was written over or was rolled back with the
   engine's batch in the meantime; and the engine's batches are committed whole,
   unless a message was committed within one. *)
AnsweredIsStored == AnswerFollowsFate /\ BatchesWhole

(* A committed message is replaced by a newer one, or by one that was checked
   before it was committed: the check of timestamps is made on the committed
   entity, before the signature is verified and the write is queued. *)
NewerReplaces ==
    LET old == disk.row
        new == disk'.row
    IN  new # old /\ old.timestamp # 0 =>
          new.timestamp > old.timestamp \/ new.checked < disk.version

TimestampsGrow == [][NewerReplaces]_messagingVars
=============================================================================
