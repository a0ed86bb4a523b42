---------------------------- MODULE TaskNetwork ----------------------------
(***************************************************************************)
(* The dependency network that the indexer fills with tasks and then runs  *)
(* level by level: crates/task-network (TaskNetwork) on top of             *)
(* crates/adigraphmap (AcyclicDigraphMap), driven the way its only client, *)
(* the TaskManager of crates/processors, drives it.                        *)
(*                                                                         *)
(* A task's payload is abstracted away here (see TaskManager); what is     *)
(* kept is the graph, the deferred dependencies, the levels, the semaphore *)
(* and the three ways in which a handler ends: Ok, Err and a panic.        *)
(***************************************************************************)
EXTENDS Integers, Sequences, FiniteSets

CONSTANTS
    Task,       \* the task ids (u64 hashes in the code)
    Permits,    \* max_concurrent_tasks, the permits of the semaphore
    MaxDeps     \* bound: the longest dependency list of one call

ASSUME TaskFinite == IsFiniteSet(Task)
ASSUME PermitsPositive == Permits \in Nat \ {0}
ASSUME MaxDepsNat == MaxDeps \in Nat

VARIABLES
    tasks,      \* keys of AcyclicDigraphMap.node_indices
    edges,      \* <<from, to>>: from must be processed before to
    pending,    \* pending_dependents: prerequisite |-> deferred dependents
    declared,   \* history: every <<from, to>> asked for since the last clear
    phase,      \* "collect" between two calls of process_tasks, else "process"
    level,      \* the tasks of the level process_tasks is waiting for
    st,         \* what became of each task in the current process_tasks call
    orphan,     \* handlers that outlive the call that spawned them
    permits,    \* free permits of the semaphore
    result      \* what the last process_tasks call returned

graphVars == <<tasks, edges, pending, declared>>
execVars == <<phase, level, st, orphan, permits, result>>
vars == <<tasks, edges, pending, declared, phase, level, st, orphan, permits, result>>

DepLists == UNION {[1..n -> Task] : n \in 0..MaxDeps}
Finished == {"ok", "err", "panic"}

-----------------------------------------------------------------------------
(* AcyclicDigraphMap *)

(* has_path_connecting(graph, a, b): b is in every set of nodes that holds
   a and is closed under the edges (a path of length zero counts). *)
Reaches(E, a, b) ==
    \A S \in SUBSET Task :
        (a \in S /\ \A e \in E : e[1] \in S => e[2] \in S) => b \in S

(* Mutant: only a self-dependency is recognised as a cycle. *)
would_create_cycle_self(E, from, to) == from = to

would_create_cycle(E, from, to) == Reaches(E, to, from)

(* Mutant: a node is levelled as soon as one of its prerequisites is. *)
NextLevelAny(T, E, levelled) ==
    {t \in T \ levelled : (\E e \in E : e[2] = t) =>
                            \E e \in E : e[2] = t /\ e[1] \in levelled}

(* The nodes of the level that follows the nodes already levelled. The code
   counts down the incoming edges of the neighbours of the previous level;
   a count reaches zero exactly when every predecessor has been levelled. *)
NextLevel(T, E, levelled) ==
    {t \in T \ levelled : \A e \in E : e[2] = t => e[1] \in levelled}

-----------------------------------------------------------------------------
(* TaskNetwork: building the graph *)

(* add_dependencies stops at the first dependency whose edge would close a
   cycle. The edges of one call all point to the same task, so whether one
   of them is refused does not depend on the ones added before it. *)
Refused(T, E, t, d) == d \in T /\ would_create_cycle(E, d, t)

Accepted(T, E, t, deps) ==
    {deps[i] : i \in {j \in DOMAIN deps :
                        \A k \in 1..j : ~Refused(T, E, t, deps[k])}}

(* Mutant: a dependency on a task that is not there yet is dropped. *)
add_dependencies_no_defer(T, E, P, t, deps) ==
    /\ edges' = E \cup {<<d, t>> : d \in Accepted(T, E, t, deps) \cap T}
    /\ pending' = P

(* add_dependency_or_defer for each accepted dependency. *)
add_dependencies(T, E, P, t, deps) ==
    LET acc == Accepted(T, E, t, deps) IN
    /\ edges' = E \cup {<<d, t>> : d \in acc \cap T}
    /\ pending' = [d \in Task |-> IF d \in acc \ T THEN P[d] \cup {t} ELSE P[d]]

(* resolve_pending_dependents: the entry is removed first; the dependents
   that are in the graph become edges, in the order of a HashSet, until one
   is refused. *)
Resolvable(T, E, t) ==
    {d \in pending[t] \cap T : ~would_create_cycle(E, t, d)}

Resolutions(T, E, t) ==
    IF Resolvable(T, E, t) = pending[t] \cap T
    THEN {Resolvable(T, E, t)}
    ELSE SUBSET Resolvable(T, E, t)

Forget(t) == [pending EXCEPT ![t] = {}]

Declare(t, deps) == declared' = declared \cup {<<deps[i], t>> : i \in DOMAIN deps}

(* add_task_with_dependencies on a key that is not in the graph. When a
   deferred dependent is refused, the error skips the new task's own
   dependencies, and the node stays. *)
add_task_with_dependencies(t, deps) ==
    /\ phase = "collect"
    /\ t \notin tasks
    /\ tasks' = tasks \cup {t}
    /\ \E resolved \in Resolutions(tasks', edges, t) :
         LET E == edges \cup {<<t, d>> : d \in resolved} IN
         IF resolved = pending[t] \cap tasks'
         THEN add_dependencies(tasks', E, Forget(t), t, deps)
         ELSE edges' = E /\ pending' = Forget(t)
    /\ Declare(t, deps)
    /\ UNCHANGED execVars

(* The TaskManager calls add_dependencies only for a task it found in the
   network (get_mut). *)
add_dependencies_to_existing(t, deps) ==
    /\ phase = "collect"
    /\ t \in tasks
    /\ tasks' = tasks
    /\ add_dependencies(tasks, edges, pending, t, deps)
    /\ Declare(t, deps)
    /\ UNCHANGED execVars

clear ==
    /\ phase = "collect"
    /\ tasks' = {}
    /\ edges' = {}
    /\ pending' = [d \in Task |-> {}]
    /\ declared' = {}
    /\ UNCHANGED execVars

-----------------------------------------------------------------------------
(* TaskNetwork: process_tasks *)

Idle == [t \in Task |-> "none"]
Succeeded == {t \in Task : st[t] = "ok"}

(* Spawning a level: every task of it waits for a permit. *)
Spawn(L, s) == [t \in Task |-> IF t \in L THEN "queued" ELSE s[t]]

(* An empty network returns Ok at once and changes nothing. *)
process_tasks ==
    /\ phase = "collect"
    /\ tasks # {}
    /\ phase' = "process"
    /\ level' = NextLevel(tasks, edges, {})
    /\ st' = Spawn(level', Idle)
    /\ UNCHANGED <<graphVars, orphan, permits, result>>

(* Mutant: the handler starts without waiting for a permit. *)
AcquirePermit_unguarded(t) ==
    /\ phase = "process"
    /\ st[t] = "queued"
    /\ st' = [st EXCEPT ![t] = "running"]
    /\ permits' = IF permits > 0 THEN permits - 1 ELSE 0
    /\ UNCHANGED <<graphVars, phase, level, orphan, result>>

AcquirePermit(t) ==
    /\ phase = "process"
    /\ st[t] = "queued"
    /\ permits > 0
    /\ st' = [st EXCEPT ![t] = "running"]
    /\ permits' = permits - 1
    /\ UNCHANGED <<graphVars, phase, level, orphan, result>>

(* Mutant: a failed handler is put back in the queue. *)
HandlerEnds_requeue(t, outcome) ==
    /\ phase = "process"
    /\ st[t] = "running"
    /\ outcome = "panic" => \A u \in Task : orphan[u] = "none"
    /\ st' = [st EXCEPT ![t] = IF outcome = "err" THEN "queued" ELSE outcome]
    /\ permits' = permits + 1
    /\ UNCHANGED <<graphVars, phase, level, orphan, result>>

(* The permit is dropped when the handler ends, however it ends. A panic is
   only taken when no handler of an earlier panicked call is left, so that a
   task has at most one orphan (bound of the model). *)
HandlerEnds(t, outcome) ==
    /\ phase = "process"
    /\ st[t] = "running"
    /\ outcome = "panic" => \A u \in Task : orphan[u] = "none"
    /\ st' = [st EXCEPT ![t] = outcome]
    /\ permits' = permits + 1
    /\ UNCHANGED <<graphVars, phase, level, orphan, result>>

(* try_join_all resolves to the first JoinError without waiting for the
   other handles; dropping a tokio handle detaches its task. *)
ReturnJoinError ==
    /\ phase = "process"
    /\ \E t \in level : st[t] = "panic"
    /\ phase' = "collect"
    /\ result' = "err"
    /\ orphan' = [t \in Task |-> IF st[t] \in {"queued", "running"} THEN st[t] ELSE orphan[t]]
    /\ st' = Idle
    /\ level' = {}
    /\ UNCHANGED <<graphVars, permits>>

(* Mutant: the first Err short-circuits the join, like a JoinError. *)
ReturnTaskError_early ==
    /\ phase = "process"
    /\ \E t \in level : st[t] = "err"
    /\ phase' = "collect"
    /\ result' = "err"
    /\ st' = Idle
    /\ level' = {}
    /\ UNCHANGED <<graphVars, orphan, permits>>

(* Every handle of the level has returned and one of them returned Err. *)
ReturnTaskError ==
    /\ phase = "process"
    /\ \A t \in level : st[t] \in {"ok", "err"}
    /\ \E t \in level : st[t] = "err"
    /\ phase' = "collect"
    /\ result' = "err"
    /\ st' = Idle
    /\ level' = {}
    /\ UNCHANGED <<graphVars, orphan, permits>>

LevelSucceeded ==
    /\ phase = "process"
    /\ \A t \in level : st[t] = "ok"

StartNextLevel ==
    /\ LevelSucceeded
    /\ level' = NextLevel(tasks, edges, Succeeded)
    /\ level' # {}
    /\ st' = Spawn(level', st)
    /\ UNCHANGED <<graphVars, phase, orphan, permits, result>>

(* Mutant: the call returns after its first level. *)
ReturnOk_first ==
    /\ LevelSucceeded
    /\ phase' = "collect"
    /\ result' = "ok"
    /\ level' = {}
    /\ st' = Idle
    /\ tasks' = {}
    /\ edges' = {}
    /\ pending' = [d \in Task |-> {}]
    /\ declared' = {}
    /\ UNCHANGED <<orphan, permits>>

(* No level is left: the graph and the deferred dependencies are cleared. *)
ReturnOk ==
    /\ LevelSucceeded
    /\ NextLevel(tasks, edges, Succeeded) = {}
    /\ phase' = "collect"
    /\ result' = "ok"
    /\ level' = {}
    /\ st' = Idle
    /\ tasks' = {}
    /\ edges' = {}
    /\ pending' = [d \in Task |-> {}]
    /\ declared' = {}
    /\ UNCHANGED <<orphan, permits>>

OrphanAcquires(t) ==
    /\ orphan[t] = "queued"
    /\ permits > 0
    /\ orphan' = [orphan EXCEPT ![t] = "running"]
    /\ permits' = permits - 1
    /\ UNCHANGED <<graphVars, phase, level, st, result>>

OrphanEnds(t) ==
    /\ orphan[t] = "running"
    /\ orphan' = [orphan EXCEPT ![t] = "none"]
    /\ permits' = permits + 1
    /\ UNCHANGED <<graphVars, phase, level, st, result>>

-----------------------------------------------------------------------------
Init ==
    /\ tasks = {}
    /\ edges = {}
    /\ pending = [d \in Task |-> {}]
    /\ declared = {}
    /\ phase = "collect"
    /\ level = {}
    /\ st = Idle
    /\ orphan = Idle
    /\ permits = Permits
    /\ result = "none"

Build ==
    \/ \E t \in Task, deps \in DepLists : add_task_with_dependencies(t, deps)
    \/ \E t \in Task, deps \in DepLists : add_dependencies_to_existing(t, deps)
    \/ clear

Process ==
    \/ \E t \in Task : AcquirePermit(t)
    \/ \E t \in Task, outcome \in Finished : HandlerEnds(t, outcome)
    \/ ReturnJoinError
    \/ ReturnTaskError
    \/ StartNextLevel
    \/ ReturnOk

Orphans ==
    \/ \E t \in Task : OrphanAcquires(t)
    \/ \E t \in Task : OrphanEnds(t)

Next == Build \/ process_tasks \/ Process \/ Orphans

(* The runtime polls every spawned task that can make progress, and a
   handler ends: its own retries are bounded. Tokio's semaphore serves its
   waiters in FIFO order, so a waiting task that permits are released to again
   and again is served. Nothing obliges the client to add tasks or to call
   process_tasks. *)
Fairness ==
    /\ WF_vars(Process)
    /\ \A t \in Task : SF_vars(OrphanAcquires(t)) /\ WF_vars(OrphanEnds(t))

Spec == Init /\ [][Next]_vars /\ Fairness

-----------------------------------------------------------------------------
(* Properties *)

(* Every variable has its type, and the free permits are within the
   semaphore's size. *)
TypeOK ==
    /\ tasks \in SUBSET Task
    /\ edges \in SUBSET (Task \X Task)
    /\ pending \in [Task -> SUBSET Task]
    /\ declared \in SUBSET (Task \X Task)
    /\ phase \in {"collect", "process"}
    /\ level \in SUBSET Task
    /\ st \in [Task -> {"none", "queued", "running"} \cup Finished]
    /\ orphan \in [Task -> {"none", "queued", "running"}]
    /\ permits \in 0..Permits
    /\ result \in {"none", "ok", "err"}

(* The edges never form a cycle (the "expect" of topo_sort, lib.rs:107, and
   the levels of topo_sort_by_level rest on it). *)
Acyclic == \A e \in edges : ~Reaches(edges, e[2], e[1])

(* A handler is only spawned once every prerequisite of its task has
   returned Ok in the same process_tasks call. *)
DependencyOrder == \A e \in edges : st[e[2]] # "none" => st[e[1]] = "ok"

(* Whatever the order in which tasks and dependencies arrive, a declared
   dependency is either an edge or waits for its prerequisite, unless the
   declarations contradict each other (DD-0001). *)
DeclaredHonoured ==
    (\A e \in declared : ~Reaches(declared, e[2], e[1])) =>
        \A e \in declared : IF e[1] \in tasks THEN e \in edges ELSE e[2] \in pending[e[1]]

(* Never more handlers at work than the semaphore has permits, the ones that
   outlive a panicked call included. *)
BoundedConcurrency ==
    Cardinality({t \in Task : st[t] = "running"})
        + Cardinality({t \in Task : orphan[t] = "running"}) <= Permits

(* process_tasks returns Ok, and clears the network, only after the handler
   of every task of the network has returned Ok: no task is dropped by the
   levelling. *)
OkMeansAllRan ==
    [][(phase = "process" /\ phase' = "collect" /\ result' = "ok")
            => \A t \in tasks : st[t] = "ok"]_vars

(* Once a handler failed, the call spawns nothing more; and unless a handler
   panicked, a call that returns leaves no handler at work behind: the caller
   may roll storage back. *)
FailStop ==
    [][/\ (\E t \in Task : st[t] \in {"err", "panic"})
            => \A u \in Task : st'[u] = "queued" => st[u] = "queued"
       /\ (phase = "process" /\ phase' = "collect" /\ \A t \in Task : st[t] # "panic")
            => \A t \in Task : st[t] \notin {"queued", "running"}]_vars

(* Every call of process_tasks returns, and every detached handler ends. *)
Terminates ==
    /\ []<>(phase = "collect")
    /\ \A t \in Task : []<>(orphan[t] = "none")
=============================================================================
