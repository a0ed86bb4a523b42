---------------------------- MODULE Achievement -----------------------------
(***************************************************************************)
(* Achievements of one namespace (crates/sqlite/.../executor/              *)
(* achievement.rs): their definitions, the progress of players on their    *)
(* tasks, and the statistics derived from both.                            *)
(*                                                                         *)
(* Creations and progressions are event messages.  They reach the executor *)
(* through tasks: those of a batch with the same keys form one task, which *)
(* keeps them all when the model is historical and only the last one       *)
(* otherwise (event_message.rs), and different tasks run in any order.     *)
(***************************************************************************)
EXTENDS Integers, Sequences, FiniteSets, FiniteSetsExt, SequencesExt

CONSTANTS
    Ach, Task, Player,
    Definition,     \* Definition[a]: the definitions a may be created with
    Count,          \* the counts of a progression
    None,
    MaxCreations,   \* bound: creations
    MaxProgress     \* bound: progressions

Configuration ==
    /\ Count \subseteq Nat
    /\ \A a \in Ach : \A d \in Definition[a] :
          /\ DOMAIN d = {"tasks", "points"}
          /\ DOMAIN d.tasks \subseteq Task
          /\ \A t \in DOMAIN d.tasks : d.tasks[t] \in Nat \ {0}
          /\ d.points \in Nat

VARIABLES
    mode,                   \* whether the progression model is historical, and whether
                            \* creations are in a batch with progressions
    achievements,           \* table achievements
    achievement_tasks,      \* table achievement_tasks: a row of an achievement and a task
    progressions,           \* table achievement_progressions, of a player and a task
    player_achievements,    \* table player_achievements
    created,                \* the definition of each creation being processed
    queue,                  \* the progressions being processed, of a player and a task
    emitted,                \* ghost: the sum of the counts emitted for a task, and of those
                            \* emitted once it was registered
    creations, events       \* the number of creations and of progressions emitted

tables == <<achievements, achievement_tasks, progressions, player_achievements>>
vars == <<mode, tables, created, queue, emitted, creations, events>>

-----------------------------------------------------------------------------
(* Statistics.  The state of the tables is passed to the operators, since each
   query sees the writes before it. *)

Completed(prog, p, t) == prog[p][t] # None /\ prog[p][t].completed

(* Players with any progression in the namespace. *)
ActivePlayers(prog) == {p \in Player : \E t \in Task : prog[p][t] # None}

TaskRows(a) == {t \in Task : achievement_tasks[a][t] # None}

(* All tasks are completed: the rows are counted, and compared with the number
   of tasks of the definition. *)
calculate_achievement_status(prog, a, p) ==
    /\ achievements[a] # None
    /\ DOMAIN achievements[a].tasks # {}
    /\ Cardinality({t \in TaskRows(a) : Completed(prog, p, t)}) = Cardinality(DOMAIN achievements[a].tasks)

(* The number of completions and the number of players it is a rate of. *)
TaskStats(prog, t) ==
    [completions |-> Cardinality({p \in Player : Completed(prog, p, t)}),
     players |-> Cardinality(ActivePlayers(prog))]

AchievementStats(prog, a) ==
    [completions |-> Cardinality({p \in Player : \A t \in TaskRows(a) : Completed(prog, p, t)}),
     players |-> Cardinality(ActivePlayers(prog))]

PlayerStats(prog, p) ==
    LET done == {a \in Ach : calculate_achievement_status(prog, a, p)}
        times == {prog[p][t].at : t \in {u \in Task : Completed(prog, p, u)}}
    IN  [points |-> FoldSet(LAMBDA a, s : s + achievements[a].points, 0, done),
         completed |-> Cardinality(done),
         total |-> Cardinality({a \in Ach : achievements[a] # None}),
         last |-> IF times = {} THEN None ELSE Max(times)]

NoStats == [completions |-> 0, players |-> 0]

-----------------------------------------------------------------------------
(* Handlers *)

(* Tasks that the definition no longer has keep their rows. *)
register_achievement(a, d) ==
    /\ achievements' = [achievements EXCEPT
          ![a] = [tasks |-> d.tasks, points |-> d.points,
                  stats |-> IF @ = None THEN NoStats ELSE @.stats]]
    /\ achievement_tasks' = [achievement_tasks EXCEPT ![a] = [t \in Task |->
          IF t \in DOMAIN d.tasks
          THEN [total |-> d.tasks[t], stats |-> IF @[t] = None THEN NoStats ELSE @[t].stats]
          ELSE @[t]]]
    /\ UNCHANGED <<progressions, player_achievements>>

(* The row of a progression after a count is added, against the given target. *)
UpsertProgression(old, n, total) ==
    LET count == n + (IF old = None THEN 0 ELSE old.count)
    IN  [count |-> count,
         completed |-> count >= total,
         at |-> IF count >= total /\ (old = None \/ ~ old.completed) THEN events
                ELSE IF old = None THEN None ELSE old.at]

(* update_task_completion_stats and update_achievement_completion_stats: the
   first for a completed task, in every achievement that has it, the second for
   the achievement found, if it is completed. *)
CompletionStats(prog, p, t, a) ==
    /\ achievement_tasks' = [b \in Ach |-> [achievement_tasks[b] EXCEPT ![t] =
          IF @ # None /\ Completed(prog, p, t) THEN [@ EXCEPT !.stats = TaskStats(prog, t)] ELSE @]]
    /\ achievements' = IF calculate_achievement_status(prog, a, p)
                       THEN [achievements EXCEPT ![a].stats = AchievementStats(prog, a)]
                       ELSE achievements

(* Mutant: the player's statistics are those before the progression. *)
PlayerStatsAfter_before(prog, p) == PlayerStats(progressions, p)

PlayerStatsAfter(prog, p) == PlayerStats(prog, p)

(* The target is that of any achievement with the task: the query has no order. *)
update_achievement_progression(p, t, n) ==
    LET found == {a \in Ach : t \in TaskRows(a)}
    IN  IF found = {} THEN UNCHANGED tables
        ELSE \E a \in found :
                LET prog == [progressions EXCEPT
                                ![p][t] = UpsertProgression(@, n, achievement_tasks[a][t].total)]
                IN  /\ progressions' = prog
                    /\ CompletionStats(prog, p, t, a)
                    /\ player_achievements' =
                          [player_achievements EXCEPT ![p] = PlayerStatsAfter(prog, p)]

-----------------------------------------------------------------------------
(* Events of the chain, and their processing. *)

OnChain(t) ==
    \E a \in Ach : \/ t \in TaskRows(a)
                   \/ created[a] # None /\ t \in DOMAIN created[a].tasks

EmitCreation(a, d) ==
    /\ creations < MaxCreations
    /\ mode.same_batch \/ \A p \in Player, t \in Task : queue[p][t] = << >>
    /\ created' = [created EXCEPT ![a] = d]
    /\ creations' = creations + 1
    /\ UNCHANGED <<mode, tables, queue, emitted, events>>

EmitProgression(p, t, n) ==
    /\ events < MaxProgress
    /\ mode.same_batch \/ \A a \in Ach : created[a] = None
    /\ queue' = [queue EXCEPT ![p][t] = IF mode.historical THEN Append(@, n) ELSE <<n>>]
    /\ emitted' = [emitted EXCEPT ![p][t] =
          [all |-> @.all + n, registered |-> @.registered + (IF OnChain(t) THEN n ELSE 0)]]
    /\ events' = events + 1
    /\ UNCHANGED <<mode, tables, created, creations>>

ProcessCreation(a) ==
    /\ created[a] # None
    /\ register_achievement(a, created[a])
    /\ created' = [created EXCEPT ![a] = None]
    /\ UNCHANGED <<mode, queue, emitted, creations, events>>

ProcessProgression(p, t) ==
    /\ queue[p][t] # << >>
    /\ update_achievement_progression(p, t, Head(queue[p][t]))
    /\ queue' = [queue EXCEPT ![p][t] = Tail(@)]
    /\ UNCHANGED <<mode, created, emitted, creations, events>>

Init ==
    /\ mode \in [historical : BOOLEAN, same_batch : BOOLEAN]
    /\ achievements = [a \in Ach |-> None]
    /\ achievement_tasks = [a \in Ach |-> [t \in Task |-> None]]
    /\ progressions = [p \in Player |-> [t \in Task |-> None]]
    /\ player_achievements = [p \in Player |-> None]
    /\ created = [a \in Ach |-> None]
    /\ queue = [p \in Player |-> [t \in Task |-> << >>]]
    /\ emitted = [p \in Player |-> [t \in Task |-> [all |-> 0, registered |-> 0]]]
    /\ creations = 0
    /\ events = 0

Next ==
    \/ \E a \in Ach : (\E d \in Definition[a] : EmitCreation(a, d)) \/ ProcessCreation(a)
    \/ \E p \in Player, t \in Task :
          (\E n \in Count : EmitProgression(p, t, n)) \/ ProcessProgression(p, t)

Spec == Init /\ [][Next]_vars

-----------------------------------------------------------------------------
(* Properties *)

CountOf(p, t) == IF progressions[p][t] = None THEN 0 ELSE progressions[p][t].count

(* The player has reached the target of every task of the achievement as it is
   defined. *)
Earned(p, a) ==
    /\ achievements[a] # None
    /\ \A t \in DOMAIN achievements[a].tasks : CountOf(p, t) >= achievements[a].tasks[t]

(* "This is called when a player makes progress on a task": once nothing is left
   to process, the count of a task is the sum of what was emitted for it, when
   the model is historical and the achievement was created in an earlier batch.
   Otherwise progressions are lost, to the last one of their batch or to a
   creation that is processed after them, but none is ever counted twice. *)
ProgressCounted ==
    /\ mode.historical /\ ~ mode.same_batch /\ (\A a \in Ach : created[a] = None) =>
          \A p \in Player, t \in Task : queue[p][t] = << >> => CountOf(p, t) = emitted[p][t].registered
    /\ \A p \in Player, t \in Task :
          CountOf(p, t) + FoldSeq(LAMBDA n, s : n + s, 0, queue[p][t]) <= emitted[p][t].all

(* "How many players completed this achievement", and each of its tasks: the
   stored numbers, which only some of the progressions refresh, are those of the
   players who have earned it, and the points of a player are those of the
   achievements they have earned. *)
StatisticsAgree ==
    /\ \A a \in Ach : achievements[a] # None =>
          /\ achievements[a].stats.completions = Cardinality({p \in Player : Earned(p, a)})
          /\ \A t \in DOMAIN achievements[a].tasks :
                achievement_tasks[a][t].stats.completions =
                    Cardinality({p \in Player : CountOf(p, t) >= achievements[a].tasks[t]})
    /\ \A p \in ActivePlayers(progressions) :
          player_achievements[p].points =
              FoldSet(LAMBDA a, s : s + achievements[a].points, 0, {a \in Ach : Earned(p, a)})
=============================================================================
