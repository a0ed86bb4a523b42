------------------------------- MODULE Models -------------------------------
(***************************************************************************)
(* Model definitions: the tables of the store, the models table that       *)
(* describes them, and the model cache in front of it, while batches of    *)
(* register, upgrade and store events are processed, fail, are rolled back *)
(* and retried, and while API requests read through the same cache         *)
(* (crates/processors, crates/cache, crates/sqlite).                       *)
(*                                                                         *)
(* A schema is a version number v: it has the members 1..v, an upgrade     *)
(* appends one.  A store event carries the version it was emitted with.    *)
(***************************************************************************)
EXTENDS Integers, Sequences, FiniteSets

CONSTANTS
    Model,              \* a model of a world
    TableOf,            \* the table of a model, named after its tag: worlds share it
    NamespaceOf,        \* the namespace of a model
    Config,             \* the configurations: strict_model_reader (schemas are read at the
                        \* event's block), namespaces and models (what is indexed, all of
                        \* them when empty) and readers (API requests read models meanwhile)
    MaxVersion,         \* bound: versions of a model
    MaxEvents,          \* bound: events of the chain
    MaxFaults           \* bound: failed batches and crashes

Namespace == {NamespaceOf[m] : m \in Model}

ASSUME Tables == DOMAIN TableOf = Model
ASSUME Configs ==
    Config \subseteq [strict_model_reader : BOOLEAN, readers : BOOLEAN,
                      namespaces : SUBSET Namespace, models : SUBSET Model]
ASSUME Bounds == MaxVersion \in Nat /\ MaxEvents \in Nat /\ MaxFaults \in Nat

VARIABLES
    config,     \* the configuration of the process
    onchain,    \* version of each model in the world, 0 when not registered
    events,     \* the world's events, in order
    pos,        \* number of events whose effects are committed
    last,       \* last event of the batch, or pos between batches
    done,       \* the events of the batch that were processed
    cache,      \* ModelCache: version of each model, 0 when absent
    work,       \* the open transaction: models and tables
    disk,       \* what is committed
    stored,     \* history: version each store event was stored with, 0 if not
    reader,     \* an API request between its database read and its cache write
    pc, faults

chainVars == <<config, onchain, events>>
vars == <<config, onchain, events, pos, last, done, cache, work, disk, stored, reader, pc, faults>>

NoModels == [m \in Model |-> 0]
Table == {TableOf[m] : m \in Model}
EmptyStore == [models |-> NoModels, columns |-> [t \in Table |-> {}]]
NoReader == [model |-> 0, version |-> 0]

Batch == pos + 1 .. last
IsDef(i) == events[i].type \in {"register", "upgrade"}
SameModel(i, j) == events[i].model = events[j].model

-----------------------------------------------------------------------------
(* The world *)

Emit(type, m, v) ==
    /\ Len(events) < MaxEvents
    /\ events' = Append(events, [type |-> type, model |-> m, version |-> v])
    /\ onchain' = [onchain EXCEPT ![m] = v]
    /\ UNCHANGED <<config, pos, last, done, cache, work, disk, stored, reader, pc, faults>>

ModelRegistered(m) == onchain[m] = 0 /\ Emit("register", m, 1)
ModelUpgraded(m) == onchain[m] \in 1..(MaxVersion - 1) /\ Emit("upgrade", m, onchain[m] + 1)
StoreSetRecord(m) == onchain[m] > 0 /\ Emit("store", m, onchain[m])

-----------------------------------------------------------------------------
(* Processors *)

(* The filters of the configuration; an empty one lets everything pass. *)
should_index(m) ==
    /\ config.namespaces = {} \/ NamespaceOf[m] \in config.namespaces
    /\ config.models = {} \/ m \in config.models

Indexed == {m \in Model : should_index(m)}

(* Mutant: the cache is the only place a model is looked up. *)
Resolve_cache_only(m) == cache[m]

(* storage.model: the cache first, then the committed database, which fills
   the cache. *)
Resolve(m) == IF cache[m] # 0 THEN cache[m] ELSE disk.models[m]
CacheAfterResolve(m) == [cache EXCEPT ![m] = Resolve(m)]

(* ModelRPCReader: the schema at the event's block, or the current one. *)
ReadSchema(i) == IF config.strict_model_reader THEN events[i].version ELSE onchain[events[i].model]

Process(i) ==
    /\ pc = "process"
    /\ i \in Batch \ done
    /\ done' = done \cup {i}
    /\ UNCHANGED <<chainVars, pos, last, disk, reader, pc, faults>>

(* The definitions of a model are one task: its events run in order. *)
DefTurn(i) == IsDef(i) /\ \A j \in Batch : IsDef(j) /\ SameModel(i, j) /\ j < i => j \in done

NewColumns(prev, v) == (1..v) \ (1..prev)

(* Columns are added one by one; to add one that is there is an error that is
   only logged. *)
register_model(m, v, columns) ==
    /\ work' = [work EXCEPT !.models[m] = v, !.columns[TableOf[m]] = @ \cup columns]
    /\ cache' = [cache EXCEPT ![m] = v]

RegisterModel(i) ==
    LET m == events[i].model
        v == ReadSchema(i)
    IN  /\ events[i].type = "register"
        /\ DefTurn(i)
        /\ Process(i)
        /\ IF m \in Indexed
           THEN register_model(m, v, IF work.columns[TableOf[m]] = {} THEN 1..v ELSE {})
           ELSE UNCHANGED <<work, cache>>
        /\ UNCHANGED stored

(* resolve_model_or_skip: an unknown model is skipped when namespaces are
   filtered, whatever it is unknown for.  Otherwise it is an error. *)
Skips(m) == Resolve(m) = 0 /\ config.namespaces # {}
Unknown(m) == Resolve(m) = 0 /\ config.namespaces = {}

(* An upgrade that adds nothing to the schema that is known is skipped. *)
UpgradeModel(i) ==
    LET m == events[i].model
        prev == Resolve(m)
        v == ReadSchema(i)
    IN  /\ events[i].type = "upgrade"
        /\ DefTurn(i)
        /\ ~ Unknown(m)
        /\ Process(i)
        /\ IF Skips(m) \/ v <= prev
           THEN cache' = CacheAfterResolve(m) /\ UNCHANGED work
           ELSE register_model(m, v, NewColumns(prev, v))
        /\ UNCHANGED stored

(* Mutant: a store event does not depend on the model's task. *)
StoreTurn_any(i) == TRUE

(* A store task depends on the task of its model. *)
StoreTurn(i) == \A j \in Batch : IsDef(j) /\ SameModel(i, j) => j \in done

(* The row is written with the members of the schema that was resolved, if the
   table has their columns. *)
StoreRecord(i) ==
    LET m == events[i].model
        v == Resolve(m)
    IN  /\ events[i].type = "store"
        /\ StoreTurn(i)
        /\ ~ Unknown(m)
        /\ Process(i)
        /\ cache' = CacheAfterResolve(m)
        /\ stored' = [stored EXCEPT ![i] = IF 1..v \subseteq work.columns[TableOf[m]] THEN v ELSE 0]
        /\ UNCHANGED work

(* An upgrade or a record of a model that is unknown, with no namespaces to
   filter: the processor fails, and fails again at every retry. *)
ResolveFails(i) ==
    /\ pc = "process"
    /\ i \in Batch \ done
    /\ \/ events[i].type = "upgrade" /\ DefTurn(i)
       \/ events[i].type = "store" /\ StoreTurn(i)
    /\ Unknown(events[i].model)
    /\ pc' = "rollback"
    /\ UNCHANGED <<chainVars, pos, last, done, cache, work, disk, stored, reader, faults>>

-----------------------------------------------------------------------------
(* Engine *)

StartBatch ==
    /\ pc = "idle"
    /\ pos < Len(events)
    /\ last' \in (pos + 1)..Len(events)
    /\ done' = {}
    /\ pc' = "process"
    /\ UNCHANGED <<chainVars, pos, cache, work, disk, stored, reader, faults>>

Execute ==
    /\ pc = "process"
    /\ done = Batch
    /\ disk' = work
    /\ pos' = last
    /\ done' = {}
    /\ pc' = "idle"
    /\ UNCHANGED <<chainVars, last, cache, work, stored, reader, faults>>

Fault == faults < MaxFaults /\ faults' = faults + 1

(* A processor fails, at any event; the batch is kept for a retry. *)
ProcessFails ==
    /\ pc = "process"
    /\ Fault
    /\ pc' = "rollback"
    /\ UNCHANGED <<chainVars, pos, last, done, cache, work, disk, stored, reader>>

Forget == [i \in 1..MaxEvents |-> IF i <= pos THEN stored[i] ELSE 0]

(* Mutant: the cache keeps what the failed batch has put there. *)
RollbackAndReset_keeps_cache ==
    /\ pc = "rollback"
    /\ work' = disk
    /\ stored' = Forget
    /\ done' = {}
    /\ pc' = "process"
    /\ UNCHANGED <<chainVars, pos, last, cache, disk, reader, faults>>

(* rollback, then reset_to_committed_storage, which empties the model cache. *)
RollbackAndReset ==
    /\ pc = "rollback"
    /\ work' = disk
    /\ cache' = NoModels
    /\ stored' = Forget
    /\ done' = {}
    /\ pc' = "process"
    /\ UNCHANGED <<chainVars, pos, last, disk, reader, faults>>

(* A new process loads the cache from the database. *)
Crash ==
    /\ Fault
    /\ work' = disk
    /\ cache' = disk.models
    /\ stored' = Forget
    /\ done' = {}
    /\ last' = pos
    /\ reader' = NoReader
    /\ pc' = "idle"
    /\ UNCHANGED <<chainVars, pos, disk>>

(* An API request for a model: a miss reads the committed database and then
   writes the cache, with the engine running in between. *)
ReadMiss(m) ==
    /\ config.readers
    /\ reader = NoReader
    /\ cache[m] = 0
    /\ disk.models[m] # 0
    /\ reader' = [model |-> m, version |-> disk.models[m]]
    /\ UNCHANGED <<chainVars, pos, last, done, cache, work, disk, stored, pc, faults>>

ReadFill ==
    /\ reader # NoReader
    /\ cache' = [cache EXCEPT ![reader.model] = reader.version]
    /\ reader' = NoReader
    /\ UNCHANGED <<chainVars, pos, last, done, work, disk, stored, pc, faults>>

-----------------------------------------------------------------------------
Init ==
    /\ config \in Config
    /\ onchain = NoModels
    /\ events = << >>
    /\ pos = 0
    /\ last = 0
    /\ done = {}
    /\ cache = NoModels
    /\ work = EmptyStore
    /\ disk = EmptyStore
    /\ stored = [i \in 1..MaxEvents |-> 0]
    /\ reader = NoReader
    /\ pc = "idle"
    /\ faults = 0

World == \E m \in Model : ModelRegistered(m) \/ ModelUpgraded(m) \/ StoreSetRecord(m)

Indexing ==
    \/ StartBatch
    \/ \E i \in 1..MaxEvents :
           i \in Batch /\ (RegisterModel(i) \/ UpgradeModel(i) \/ StoreRecord(i) \/ ResolveFails(i))
    \/ Execute
    \/ RollbackAndReset

Faults == ProcessFails \/ Crash
Requests == (\E m \in Model : ReadMiss(m)) \/ ReadFill

Next == World \/ Indexing \/ Faults \/ Requests

Spec == Init /\ [][Next]_vars /\ WF_vars(Indexing)

-----------------------------------------------------------------------------
(* Properties *)

(* The table of a model has the columns of the schema it is described by, in
   the open transaction and on disk; and, but for the moment between a
   rollback and the reset of the cache, it has those of the cached schema. *)
TableMatchesSchema ==
    \A m \in Model :
        /\ \A D \in {work, disk} : 1..D.models[m] \subseteq D.columns[TableOf[m]]
        /\ pc # "rollback" => 1..cache[m] \subseteq work.columns[TableOf[m]]

(* A store event is stored with all the members it carries: its model is
   resolved to a schema that is at least as new as the event's. *)
StoredInFull ==
    \A i \in 1..Len(events) :
        (events[i].type = "store" /\ events[i].model \in Indexed /\ (i <= pos \/ i \in done))
            => stored[i] >= events[i].version

(* That holds as long as no API request reads models at the same time. *)
StoredWithoutReaders == ~ config.readers => StoredInFull

(* A models filter without a namespaces filter leaves models out of the store
   whose upgrades and records are errors: a world that emits one has an event
   that is never committed. *)
FilteredOut(i) ==
    /\ config.namespaces = {}
    /\ events[i].type # "register"
    /\ events[i].model \notin Indexed
Stuck == \E i \in pos + 1 .. Len(events) : FilteredOut(i)

(* Every event of the world is eventually committed, whatever failed before,
   unless there is an event the filters make an error of (resolve_model_or_skip);
   and no such event is ever committed. *)
ReplayCompletes ==
    /\ \A n \in 1..MaxEvents : (Len(events) = n) ~> (pos >= n \/ Stuck)
    /\ [](\A i \in 1..pos : ~ FilteredOut(i))
=============================================================================
