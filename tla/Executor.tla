------------------------------ MODULE Executor ------------------------------
(***************************************************************************)
(* The single writer of the SQLite store: task handlers send statements    *)
(* over a channel without waiting (crates/sqlite/sqlite/src/storage.rs),   *)
(* the executor runs them one by one inside an open transaction            *)
(* (executor/mod.rs), and the engine asks it to commit or to roll back.    *)
(* Updates are announced twice to subscribers: optimistically when the     *)
(* statement has run, and again when its transaction is committed.         *)
(*                                                                         *)
(* A writer is an entity-model pair: the TaskManager runs the events of    *)
(* one pair in sequence and different pairs in parallel.                   *)
(***************************************************************************)
EXTENDS Integers, Sequences, FiniteSets, Functions

CONSTANTS
    Entity, Model, Value,
    None,           \* no row
    MaxOps,         \* bound: operations of one attempt at a batch
    MaxAttempts,    \* bound: attempts at a batch, over a whole behaviour
    MaxErrors       \* bound: statements that fail, over a whole behaviour

ASSUME NoneIsNoValue == None \notin Value

VARIABLES
    todo,       \* messages a writer's current operation has still to send
    channel,    \* the unbounded mpsc channel to the executor
    db,         \* what the open transaction sees
    disk,       \* what is committed
    tx,         \* Executor.transaction: "open" or "none"
    queue,      \* Executor.publish_queue
    final,      \* history: updates announced as not optimistic
    engine,     \* what the engine waits for
    attempt,    \* history: number of the current attempt
    committed,  \* history: the attempts that were committed
    ops,        \* operations issued in this attempt
    errors,     \* statements that failed so far
    want,       \* history: the row each writer wants, by program order
    goal        \* history: want at the last commit

vars == <<todo, channel, db, disk, tx, queue, final, engine, attempt, committed,
          ops, errors, want, goal>>

Writer == Entity \X Model

EmptyDb == [ent |-> {}, em |-> {}, row |-> [w \in Writer |-> None], head |-> 0]

-----------------------------------------------------------------------------
(* storage.rs: the messages of one operation, sent back to back *)

SetEntity(w) == [type |-> "SetEntity", w |-> w]
EntityModel(w) == [type |-> "EntityModel", w |-> w]
ModelRow(w, v) == [type |-> "ModelRow", w |-> w, v |-> v]
DeleteEntity(w) == [type |-> "DeleteEntity", w |-> w]
UpdateCursors == [type |-> "UpdateCursors"]
Execute == [type |-> "Execute"]
Rollback == [type |-> "Rollback"]

Idle(w) == todo[w] = << >>

Operation(w, messages, v) ==
    /\ engine = "process"
    /\ Idle(w)
    /\ ops < MaxOps
    /\ ops' = ops + 1
    /\ todo' = [todo EXCEPT ![w] = messages]
    /\ want' = [want EXCEPT ![w] = v]
    /\ UNCHANGED <<channel, db, disk, tx, queue, final, engine, attempt, committed, errors, goal>>

set_entity(w, v) == Operation(w, <<SetEntity(w), EntityModel(w), ModelRow(w, v)>>, v)

delete_entity(w) == Operation(w, <<DeleteEntity(w)>>, None)

(* Handlers run on several threads: their messages interleave. *)
Send(w) ==
    /\ todo[w] # << >>
    /\ channel' = Append(channel, Head(todo[w]))
    /\ todo' = [todo EXCEPT ![w] = Tail(@)]
    /\ UNCHANGED <<db, disk, tx, queue, final, engine, attempt, committed, ops, errors, want, goal>>

(* The engine, once every handler has returned: cursors and then commit, each
   awaited, or a rollback. *)
Ask(from, to, message) ==
    /\ engine = from
    /\ engine' = to
    /\ channel' = Append(channel, message)
    /\ UNCHANGED <<todo, db, disk, tx, queue, final, attempt, committed, ops, errors, want, goal>>

update_cursors == (\A w \in Writer : Idle(w)) /\ Ask("process", "cursors", UpdateCursors)
execute == Ask("commit", "execute", Execute)
rollback == (\A w \in Writer : Idle(w)) /\ Ask("process", "rollback", Rollback)

-----------------------------------------------------------------------------
(* executor/mod.rs: the handler of each message *)

ModelsOf(D, e) == {m \in Model : <<e, m>> \in D.em}

HasRow(D, e) == \E m \in Model : D.row[<<e, m>>] # None

(* INSERT INTO entities, then entity_model; the foreign keys want the entity
   to exist. *)
RunSetEntity(D, w) == [D EXCEPT !.ent = @ \cup {w[1]}, !.em = @ \cup {w}]
RunEntityModel(D, w) == IF w[1] \in D.ent THEN [D EXCEPT !.em = @ \cup {w}] ELSE D
RunModelRow(D, w, v) == IF w[1] \in D.ent THEN [D EXCEPT !.row[w] = v] ELSE D

(* Mutant: the entity goes with the first of its models. *)
RunDeleteEntity_all(D, w) ==
    IF D.row[w] = None THEN D
    ELSE [D EXCEPT !.row[w] = None, !.em = @ \ {w}, !.ent = @ \ {w[1]}]

(* The entity is deleted when none of its models is left, unless the foreign
   key of a model's row forbids it. A row that is not there is an error, after
   which nothing is changed. *)
RunDeleteEntity(D, w) ==
    IF D.row[w] = None THEN D
    ELSE LET D2 == [D EXCEPT !.row[w] = None, !.em = @ \ {w}]
         IN  [D2 EXCEPT !.ent = IF ModelsOf(D2, w[1]) = {} /\ ~HasRow(D2, w[1])
                                THEN @ \ {w[1]} ELSE @]

RunUpdateCursors(D) == [D EXCEPT !.head = @ + 1]

Run(D, msg) ==
    CASE msg.type = "SetEntity" -> RunSetEntity(D, msg.w)
      [] msg.type = "EntityModel" -> RunEntityModel(D, msg.w)
      [] msg.type = "ModelRow" -> RunModelRow(D, msg.w, msg.v)
      [] msg.type = "DeleteEntity" -> RunDeleteEntity(D, msg.w)
      [] msg.type = "UpdateCursors" -> RunUpdateCursors(D)

(* A handler that fails has run a prefix of its statements. *)
Partial(D, msg) ==
    {D} \cup
    CASE msg.type = "SetEntity" -> {[D EXCEPT !.ent = @ \cup {msg.w[1]}]}
      [] msg.type = "DeleteEntity" /\ D.row[msg.w] # None ->
           {[D EXCEPT !.row[msg.w] = None],
            [D EXCEPT !.row[msg.w] = None, !.em = @ \ {msg.w}]}
      [] OTHER -> {}

(* publish_optimistic_and_queue: what a handler that did not fail announces. *)
Announces(D, msg) ==
    CASE msg.type = "SetEntity" -> << <<attempt, msg.w, "set">> >>
      [] msg.type = "DeleteEntity" /\ D.row[msg.w] # None
             /\ (HasRow(Run(D, msg), msg.w[1]) => ModelsOf(Run(D, msg), msg.w[1]) # {})
           -> << <<attempt, msg.w, "delete">> >>
      [] OTHER -> << >>

IsStatement(msg) == msg.type \notin {"Execute", "Rollback"}

(* The reply of an awaited UpdateCursors lets the engine go on. *)
Reply(msg, ok) ==
    engine' = IF msg.type # "UpdateCursors" THEN engine
              ELSE IF ok THEN "commit" ELSE "failed"

HandleStatement ==
    /\ channel # << >>
    /\ tx = "open"
    /\ IsStatement(Head(channel))
    /\ db' = Run(db, Head(channel))
    /\ queue' = queue \o Announces(db, Head(channel))
    /\ Reply(Head(channel), TRUE)
    /\ channel' = Tail(channel)
    /\ UNCHANGED <<todo, disk, tx, final, attempt, committed, ops, errors, want, goal>>

(* The error is logged; only a sender that waits for a reply hears of it. *)
HandleFailure ==
    /\ channel # << >>
    /\ tx = "open"
    /\ IsStatement(Head(channel))
    /\ errors < MaxErrors
    /\ errors' = errors + 1
    /\ db' \in Partial(db, Head(channel))
    /\ Reply(Head(channel), FALSE)
    /\ channel' = Tail(channel)
    /\ UNCHANGED <<todo, disk, tx, queue, final, attempt, committed, ops, want, goal>>

(* After a failed process the engine rolls back. *)
ProcessFailed == Ask("failed", "rollback", Rollback)

NewAttempt ==
    /\ attempt' = attempt + 1
    /\ ops' = 0
    /\ engine' = "process"

(* Mutant: a busy database puts the commit off, again and again. *)
HandleExecute_requeued ==
    /\ channel # << >> /\ Head(channel) = Execute /\ tx = "open"
    /\ channel' = Append(Tail(channel), Execute)
    /\ UNCHANGED <<todo, db, disk, tx, queue, final, engine, attempt, committed, ops,
                   errors, want, goal>>

(* execute: commit, begin a new transaction, then announce the updates. *)
HandleExecute ==
    /\ channel # << >> /\ Head(channel) = Execute /\ tx = "open"
    /\ disk' = db
    /\ committed' = committed \cup {attempt}
    /\ goal' = want
    /\ final' = final \cup Range(queue)
    /\ queue' = << >>
    /\ NewAttempt
    /\ channel' = Tail(channel)
    /\ UNCHANGED <<todo, db, tx, errors, want>>

(* The commit fails, or the WAL checkpoint or the next BEGIN after a commit:
   no transaction is left, the engine's start returns the error. *)
HandleExecuteFails ==
    /\ channel # << >> /\ Head(channel) = Execute /\ tx = "open"
    /\ errors < MaxErrors
    /\ errors' = errors + 1
    /\ \/ disk' = db /\ committed' = committed \cup {attempt} /\ goal' = want
       \/ UNCHANGED <<disk, committed, goal>>
    /\ tx' = "none"
    /\ engine' = "stopped"
    /\ channel' = Tail(channel)
    /\ UNCHANGED <<todo, db, queue, final, attempt, ops, want>>

(* Mutant: the queue survives the rollback. *)
HandleRollback_keeps_queue ==
    /\ channel # << >> /\ Head(channel) = Rollback /\ tx = "open"
    /\ db' = disk
    /\ want' = goal
    /\ NewAttempt
    /\ channel' = Tail(channel)
    /\ UNCHANGED <<todo, disk, tx, queue, final, committed, errors, goal>>

(* Mutant: the transaction goes on with the writes of the failed attempt. *)
HandleRollback_keeps_writes ==
    /\ channel # << >> /\ Head(channel) = Rollback /\ tx = "open"
    /\ queue' = << >>
    /\ want' = goal
    /\ NewAttempt
    /\ channel' = Tail(channel)
    /\ UNCHANGED <<todo, db, disk, tx, final, committed, errors, goal>>

(* rollback: undo, begin a new transaction, drop the queued updates. *)
HandleRollback ==
    /\ channel # << >> /\ Head(channel) = Rollback /\ tx = "open"
    /\ db' = disk
    /\ queue' = << >>
    /\ want' = goal
    /\ NewAttempt
    /\ channel' = Tail(channel)
    /\ UNCHANGED <<todo, disk, tx, final, committed, errors, goal>>

HandleRollbackFails ==
    /\ channel # << >> /\ Head(channel) = Rollback /\ tx = "open"
    /\ errors < MaxErrors
    /\ errors' = errors + 1
    /\ db' = disk
    /\ tx' = "none"
    /\ engine' = "stopped"
    /\ channel' = Tail(channel)
    /\ UNCHANGED <<todo, disk, queue, final, attempt, committed, ops, want, goal>>

(* The process ends, at any point or because the engine stopped, and starts
   again on what was committed. *)
Restart ==
    /\ todo' = [w \in Writer |-> << >>]
    /\ channel' = << >>
    /\ db' = disk
    /\ tx' = "open"
    /\ queue' = << >>
    /\ want' = goal
    /\ NewAttempt
    /\ UNCHANGED <<disk, final, committed, errors, goal>>

Crash == attempt < MaxAttempts /\ Restart

-----------------------------------------------------------------------------
Init ==
    /\ todo = [w \in Writer |-> << >>]
    /\ channel = << >>
    /\ db = EmptyDb
    /\ disk = EmptyDb
    /\ tx = "open"
    /\ queue = << >>
    /\ final = {}
    /\ engine = "process"
    /\ attempt = 1
    /\ committed = {}
    /\ ops = 0
    /\ errors = 0
    /\ want = EmptyDb.row
    /\ goal = EmptyDb.row

Bounded == attempt <= MaxAttempts

Handle ==
    \/ HandleStatement
    \/ HandleFailure
    \/ HandleExecute
    \/ HandleExecuteFails
    \/ HandleRollback
    \/ HandleRollbackFails

Sends ==
    \/ \E w \in Writer : Send(w)
    \/ update_cursors
    \/ execute
    \/ ProcessFailed

Next ==
    /\ Bounded
    /\ \/ \E w \in Writer, v \in Value : set_entity(w, v)
       \/ \E w \in Writer : delete_entity(w)
       \/ Sends
       \/ rollback
       \/ Handle
       \/ Crash

(* Sends are synchronous, the executor's loop takes every message. *)
Fairness == WF_vars(Bounded /\ Sends) /\ WF_vars(Bounded /\ Handle)

Spec == Init /\ [][Next]_vars /\ Fairness

-----------------------------------------------------------------------------
(* Properties *)

(* Nothing refers to an entity that does not exist, whatever failed.  When
   nothing is under way and no statement failed, an entity exists exactly when
   it has a model, and an entity has a model exactly when the model's table has
   its row: writers of two models of one entity do not disturb each other. *)
Consistent ==
    /\ \A D \in {db, disk} : \A w \in Writer :
          (w \in D.em \/ D.row[w] # None) => w[1] \in D.ent
    /\ (errors = 0 /\ channel = << >> /\ \A w \in Writer : Idle(w)) =>
          /\ db.em = {w \in Writer : db.row[w] # None}
          /\ db.ent = {w[1] : w \in db.em}

(* Without failures, what is committed is what the writers wanted, in their
   program order, across rollbacks and crashes. *)
CommittedAsWanted == errors = 0 => disk.row = goal

(* Subscribers that want confirmed updates never hear of an update whose
   transaction was not committed; and unless the executor failed after a
   commit, the updates of a committed transaction are all announced before the
   next one starts. *)
AnnouncedIffCommitted ==
    [][/\ \A u \in final' : u[1] \in committed'
       /\ (committed' # committed /\ tx' = "open")
            => queue' = << >> /\ Range(queue) \subseteq final']_vars

(* A request of the engine is answered. *)
Answered == (engine \in {"cursors", "execute", "rollback"}) ~>
                (engine \in {"process", "commit", "failed", "stopped"} \/ ~Bounded)
=============================================================================
