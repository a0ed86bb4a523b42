---------------------------- MODULE TaskManager ----------------------------
(***************************************************************************)
(* The TaskManager of crates/processors: it files every event of a batch   *)
(* under a task of the TaskNetwork, keeps only the last of the events that *)
(* are indexed in Latest mode, and hands each task's events to their       *)
(* processor one after the other.                                          *)
(*                                                                         *)
(* An event is its indexing mode (HISTORICAL, or the key of Latest), the   *)
(* task it is meant for and its number among the events of that task.      *)
(***************************************************************************)
EXTENDS TaskNetwork, Functions

CONSTANTS
    EventKey,       \* the keys of IndexingMode::Latest
    HISTORICAL,     \* IndexingMode::Historical
    MaxEvents       \* bound: events of one batch

ASSUME HistoricalIsNoKey == HISTORICAL \notin EventKey
ASSUME MaxEventsNat == MaxEvents \in Nat

VARIABLES
    data,       \* TaskData of each task: events and latest_only_events
    log,        \* history: the events submitted to each task in this batch
    handled     \* history: the events each handler of the call has processed

tmVars == <<data, log, handled>>
allVars == <<vars, tmVars>>

NoData == [events |-> << >>, latest |-> << >>]
Nothing == [t \in Task |-> << >>]

BatchSize == FoldFunctionOnSet(LAMBDA s, n : Len(s) + n, 0, log, Task)
NewEvent(t, mode) == [task |-> t, mode |-> mode, id |-> Len(log[t]) + 1]

-----------------------------------------------------------------------------
(* hashlink's LinkedHashMap::insert moves a key that is there to the back. *)
Without(s, i) == SubSeq(s, 1, i - 1) \o SubSeq(s, i + 1, Len(s))

InsertLatest(s, e) ==
    IF \E i \in DOMAIN s : s[i].mode = e.mode
    THEN Append(Without(s, CHOOSE i \in DOMAIN s : s[i].mode = e.mode), e)
    ELSE Append(s, e)

File(d, e) ==
    IF e.mode = HISTORICAL
    THEN [d EXCEPT !.events = Append(@, e)]
    ELSE [d EXCEPT !.latest = InsertLatest(@, e)]

(* An existing task takes the event and the dependencies, a new one is added
   with both. An error of the network is only logged: the event stays. *)
add_parallelized_event_with_dependencies(t, deps, mode) ==
    /\ BatchSize < MaxEvents
    /\ \/ add_dependencies_to_existing(t, deps)
       \/ add_task_with_dependencies(t, deps)
    /\ data' = [data EXCEPT ![t] = File(@, NewEvent(t, mode))]
    /\ log' = [log EXCEPT ![t] = Append(@, NewEvent(t, mode))]
    /\ UNCHANGED handled

(* The order in which a handler goes through its events. *)
Agenda(d) == d.events \o d.latest

(* The handler processes the next event of its task. *)
ProcessEvent(t) ==
    /\ st[t] = "running"
    /\ Len(handled[t]) < Len(Agenda(data[t]))
    /\ handled' = [handled EXCEPT ![t] = Append(@, Agenda(data[t])[Len(@) + 1])]
    /\ UNCHANGED <<vars, data, log>>

(* A handler returns Ok after its last event; it returns Err, or panics, at
   any of them. *)
HandlerReturns(t, outcome) ==
    /\ HandlerEnds(t, outcome)
    /\ outcome = "ok" => Len(handled[t]) = Len(Agenda(data[t]))
    /\ outcome # "ok" => Len(handled[t]) < Len(Agenda(data[t]))
    /\ UNCHANGED tmVars

process_all ==
    /\ process_tasks
    /\ UNCHANGED tmVars

(* A failed call keeps the network and the payloads. *)
ReturnsError ==
    /\ ReturnJoinError \/ ReturnTaskError
    /\ handled' = Nothing
    /\ UNCHANGED <<data, log>>

(* The network is emptied on success; the payloads go with its nodes. *)
ReturnsOk ==
    /\ ReturnOk
    /\ data' = [t \in Task |-> NoData]
    /\ log' = Nothing
    /\ handled' = Nothing

(* Mutant: what the failed attempt has filed is kept. *)
clear_tasks_keeps_data ==
    /\ phase = "collect"
    /\ UNCHANGED <<vars, data, handled>>
    /\ log' = Nothing

(* The engine calls clear_tasks after every failed batch. *)
clear_tasks ==
    /\ clear
    /\ data' = [t \in Task |-> NoData]
    /\ log' = Nothing
    /\ UNCHANGED handled

-----------------------------------------------------------------------------
TMInit ==
    /\ Init
    /\ data = [t \in Task |-> NoData]
    /\ log = Nothing
    /\ handled = Nothing

Modes == EventKey \cup {HISTORICAL}

TMProcess ==
    \/ \E t \in Task : ProcessEvent(t)
    \/ \E t \in Task : AcquirePermit(t) /\ UNCHANGED tmVars
    \/ \E t \in Task, outcome \in Finished : HandlerReturns(t, outcome)
    \/ StartNextLevel /\ UNCHANGED tmVars
    \/ ReturnsError
    \/ ReturnsOk

TMNext ==
    \/ \E t \in Task, deps \in DepLists, mode \in Modes :
         add_parallelized_event_with_dependencies(t, deps, mode)
    \/ clear_tasks
    \/ process_all
    \/ TMProcess
    \/ Orphans /\ UNCHANGED tmVars

(* The fairness of TaskNetwork: a call that is made is executed, and the
   scheduler does not forget a detached handler. *)
TMFairness ==
    /\ WF_allVars(TMProcess)
    /\ \A t \in Task : /\ SF_allVars(OrphanAcquires(t) /\ UNCHANGED tmVars)
                      /\ WF_allVars(OrphanEnds(t) /\ UNCHANGED tmVars)

TMSpec == TMInit /\ [][TMNext]_allVars /\ TMFairness

-----------------------------------------------------------------------------
(* Properties *)

(* What must be processed of a log of submitted events: the historical ones,
   and the last one of each key. *)
LastOfItsKey(s, i) == \A j \in (i + 1)..Len(s) : s[j].mode # s[i].mode
ToProcess(s) == {s[i] : i \in {j \in DOMAIN s : s[j].mode = HISTORICAL \/ LastOfItsKey(s, j)}}

(* The historical events come first; otherwise the order is that of submission. *)
Precedes(d, e) ==
    IF (d.mode = HISTORICAL) = (e.mode = HISTORICAL) THEN d.id < e.id ELSE d.mode = HISTORICAL

(* When a handler has returned Ok, it has processed the historical events of
   its task and the last event of each Latest key, in the order in which the
   batch submitted them, each once. Batches do not mix: what is filed was
   submitted since the last successful call or clear_tasks, so the retry of a
   failed batch does not process an event twice. *)
HandledAsSubmitted ==
    \A t \in Task :
        /\ phase = "process" /\ st[t] = "ok" =>
               /\ Range(handled[t]) = ToProcess(log[t])
               /\ \A i, j \in DOMAIN handled[t] : i < j => Precedes(handled[t][i], handled[t][j])
        /\ Range(Agenda(data[t])) \subseteq Range(log[t])
=============================================================================
