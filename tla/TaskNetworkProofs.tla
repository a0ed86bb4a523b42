------------------------- MODULE TaskNetworkProofs -------------------------
(***************************************************************************)
(* Proofs about TaskNetwork and TaskManager, for any finite set of tasks   *)
(* and any number of permits: the order, the permits and the failures of   *)
(* the network, and that a task that succeeded has handled what was        *)
(* submitted to it, in order.                                              *)
(*                                                                         *)
(* Acyclicity is carried by a ranking: a graph with a ranking has no cycle *)
(* and every non-empty set of its nodes has one without a predecessor in   *)
(* the set, which is what makes the levels cover every task.               *)
(***************************************************************************)
EXTENDS TaskManager, FiniteSetTheorems, WellFoundedInduction, TLAPS

(* A bounded rank that every edge increases. *)
Ranks(E, r) == \A e \in E : r[e[1]] < r[e[2]]
Ranked(E) == \E n \in Nat : \E r \in [Task -> 0..n] : Ranks(E, r)

-----------------------------------------------------------------------------
(* Facts about Reaches and rankings *)

(* A path of length zero. *)
LEMMA ReachesSelf == \A E, a : Reaches(E, a, a)
  BY DEF Reaches

(* A path is prolonged by an edge. *)
LEMMA ReachesStep ==
  ASSUME NEW E, NEW a, NEW e \in E, Reaches(E, a, e[1])
  PROVE  Reaches(E, a, e[2])
  BY DEF Reaches

(* More edges, more paths. *)
LEMMA ReachesMonotone ==
  ASSUME NEW E, NEW F, E \subseteq F, NEW a, NEW b, Reaches(E, a, b)
  PROVE  Reaches(F, a, b)
  BY DEF Reaches

(* A node without outgoing edges reaches only itself. *)
LEMMA ReachesFromSink ==
  ASSUME NEW E, NEW a \in Task, NEW b, Reaches(E, a, b), \A e \in E : e[1] # a
  PROVE  b = a
  BY {a} \in SUBSET Task, Zenon DEF Reaches

(* A node without incoming edges is reached only from itself. *)
LEMMA ReachesToSource ==
  ASSUME NEW E \in SUBSET (Task \X Task), NEW a \in Task, NEW b \in Task,
         Reaches(E, a, b), \A e \in E : e[2] # b
  PROVE  a = b
  <1> SUFFICES ASSUME a # b PROVE FALSE
    OBVIOUS
  <1> DEFINE S == Task \ {b}
  <1>1. S \in SUBSET Task /\ a \in S /\ b \notin S
    OBVIOUS
  <1>2. \A e \in E : e[1] \in S => e[2] \in S
    OBVIOUS
  <1> QED
    BY <1>1, <1>2, Zenon DEF Reaches

(* The rank does not decrease along a path. *)
LEMMA RankAlongPath ==
  ASSUME NEW E \in SUBSET (Task \X Task), NEW n \in Nat, NEW r \in [Task -> 0..n],
         Ranks(E, r), NEW a \in Task, NEW b \in Task, Reaches(E, a, b)
  PROVE  r[a] <= r[b]
  <1> DEFINE S == {x \in Task : r[a] <= r[x]}
  <1>1. S \in SUBSET Task /\ a \in S
    OBVIOUS
  <1>2. ASSUME NEW e \in E, e[1] \in S PROVE e[2] \in S
    <2>1. e[1] \in Task /\ e[2] \in Task
      OBVIOUS
    <2>2. r[e[1]] < r[e[2]]
      BY DEF Ranks
    <2>3. r[e[1]] \in 0..n /\ r[e[2]] \in 0..n /\ r[a] \in 0..n
      BY <2>1
    <2>4. r[a] <= r[e[1]]
      BY <1>2
    <2> QED
      BY <2>1, <2>2, <2>3, <2>4
  <1>3. b \in S
    BY <1>1, <1>2, Zenon DEF Reaches
  <1> QED
    BY <1>3

(* A ranked graph has no cycle. *)
LEMMA RankedIsAcyclic ==
  ASSUME NEW E \in SUBSET (Task \X Task), Ranked(E), NEW e \in E
  PROVE  ~Reaches(E, e[2], e[1])
  <1>1. PICK n \in Nat : \E r \in [Task -> 0..n] : Ranks(E, r)
    BY DEF Ranked
  <1>2. PICK r \in [Task -> 0..n] : Ranks(E, r)
    BY <1>1
  <1>3. e[1] \in Task /\ e[2] \in Task
    OBVIOUS
  <1>4. r[e[1]] < r[e[2]] /\ r[e[1]] \in 0..n /\ r[e[2]] \in 0..n
    BY <1>2, <1>3 DEF Ranks
  <1>5. Reaches(E, e[2], e[1]) => r[e[2]] <= r[e[1]]
    BY <1>2, <1>3, RankAlongPath
  <1> QED
    BY <1>4, <1>5

(* Edges that enter a set closed under the edges keep the graph ranked: the
   members of the set are lifted above everything else. *)
LEMMA RankedAddEdges ==
  ASSUME NEW E \in SUBSET (Task \X Task), Ranked(E),
         NEW C \in SUBSET Task, \A e \in E : e[1] \in C => e[2] \in C,
         NEW F \in SUBSET (Task \X Task), \A e \in F : e[1] \notin C /\ e[2] \in C
  PROVE  Ranked(E \cup F)
  <1>1. PICK n \in Nat : \E r \in [Task -> 0..n] : Ranks(E, r)
    BY DEF Ranked
  <1>2. PICK r \in [Task -> 0..n] : Ranks(E, r)
    BY <1>1
  <1> DEFINE m == n + n + 1
             q == [x \in Task |-> IF x \in C THEN r[x] + n + 1 ELSE r[x]]
  <1>3. \A x \in Task : r[x] \in 0..n
    BY <1>2
  <1>4. m \in Nat /\ q \in [Task -> 0..m]
    BY <1>3
  <1>5. ASSUME NEW e \in E \cup F PROVE q[e[1]] < q[e[2]]
    <2>1. e[1] \in Task /\ e[2] \in Task
      OBVIOUS
    <2>2. r[e[1]] \in 0..n /\ r[e[2]] \in 0..n
      BY <2>1, <1>3
    <2>3. CASE e \in E
      <3>1. r[e[1]] < r[e[2]] /\ (e[1] \in C => e[2] \in C)
        BY <2>3, <1>2 DEF Ranks
      <3> QED
        BY <3>1, <2>1, <2>2
    <2>4. CASE e \in F
      <3>1. e[1] \notin C /\ e[2] \in C
        BY <2>4
      <3> QED
        BY <3>1, <2>1, <2>2
    <2> QED
      BY <2>3, <2>4
  <1>6. Ranks(E \cup F, q)
    BY <1>5 DEF Ranks
  <1>7. \E s \in [Task -> 0..m] : Ranks(E \cup F, s)
    BY <1>4, <1>6
  <1> QED
    BY <1>4, <1>7 DEF Ranked

(* Every non-empty set of nodes of a ranked graph has a node without a
   predecessor in the set. *)
LEMMA RankedHasSource ==
  ASSUME NEW E \in SUBSET (Task \X Task), Ranked(E),
         NEW S \in SUBSET Task, S # {}
  PROVE  \E t \in S : \A e \in E : e[2] = t => e[1] \notin S
  <1>1. PICK n \in Nat : \E r \in [Task -> 0..n] : Ranks(E, r)
    BY DEF Ranked
  <1>2. PICK r \in [Task -> 0..n] : Ranks(E, r)
    BY <1>1
  <1>3. \A x \in Task : r[x] \in Nat
    BY <1>2
  <1> DEFINE T == {r[x] : x \in S}
  <1>4. T \subseteq Nat /\ T # {}
    BY <1>3
  <1>5. PICK k \in T : \A y \in T : ~(<<y, k>> \in OpToRel(<, Nat))
    <2> HIDE DEF T
    <2> QED
      BY <1>4, NatLessThanWellFounded, WFMin, Zenon
  <1>6. \A y \in T : ~(y < k)
    BY <1>4, <1>5, Zenon DEF OpToRel
  <1>7. PICK t \in S : k = r[t]
    OBVIOUS
  <1>8. \A e \in E : e[2] = t => e[1] \notin S
    BY <1>2, <1>6, <1>7 DEF Ranks
  <1> QED
    BY <1>7, <1>8

-----------------------------------------------------------------------------
(* The inductive invariant *)

(* Only tasks that are not in the network are waited for, and only by tasks
   that are. *)
PendingShape ==
    /\ \A d \in tasks : pending[d] = {}
    /\ \A d \in Task : pending[d] \subseteq tasks
    /\ \A d \in Task : \A t \in pending[d] : <<d, t>> \in declared

EdgesShape ==
    /\ edges \in SUBSET (tasks \X tasks)
    /\ edges \subseteq declared
    /\ Ranked(edges)

GraphInv == PendingShape /\ EdgesShape /\ DeclaredHonoured

(* Outside the current level a task has either succeeded or not started. *)
LevelInv ==
    /\ phase = "collect" => level = {} /\ st = Idle
    /\ level \subseteq tasks
    /\ \A t \in Task \ level : st[t] = "none" \/ (st[t] = "ok" /\ t \in tasks)
    /\ \A t \in level : st[t] # "none"
    /\ (\E t \in Task : st[t] = "panic") => \A t \in Task : orphan[t] = "none"

PermitsInv ==
    permits + Cardinality({t \in Task : st[t] = "running"})
            + Cardinality({t \in Task : orphan[t] = "running"}) = Permits

IInv == TypeOK /\ GraphInv /\ LevelInv /\ DependencyOrder /\ PermitsInv

-----------------------------------------------------------------------------
(* Building the graph *)

(* A refusal exhibits a cycle in what was declared. *)
LEMMA RefusalIsCycle ==
  ASSUME NEW T, NEW E, NEW D, E \subseteq D, NEW t, NEW d, <<d, t>> \in D,
         \A e \in D : ~Reaches(D, e[2], e[1])
  PROVE  ~Refused(T, E, t, d)
  BY ReachesMonotone DEF Refused, would_create_cycle

(* What add_dependencies accepts does not reach back to the task. *)
LEMMA AcceptedAreFine ==
  ASSUME NEW T, NEW E, NEW t, NEW deps \in DepLists, NEW d \in Accepted(T, E, t, deps)
  PROVE  /\ d \in Task
         /\ d \in T => ~Reaches(E, t, d)
         /\ \E i \in DOMAIN deps : d = deps[i]
  <1>1. PICK n \in 0..MaxDeps : deps \in [1..n -> Task]
    BY DEF DepLists
  <1>2. PICK i \in DOMAIN deps : d = deps[i] /\ \A k \in 1..i : ~Refused(T, E, t, deps[k])
    BY DEF Accepted
  <1>3. i \in 1..n /\ i \in 1..i
    BY <1>1, <1>2, MaxDepsNat
  <1> QED
    BY <1>1, <1>2, <1>3 DEF Refused, would_create_cycle

(* Nothing refused, everything accepted. *)
LEMMA AllAccepted ==
  ASSUME NEW T, NEW E, NEW t, NEW deps \in DepLists,
         \A i \in DOMAIN deps : ~Refused(T, E, t, deps[i])
  PROVE  Accepted(T, E, t, deps) = {deps[i] : i \in DOMAIN deps}
  <1>1. PICK n \in 0..MaxDeps : deps \in [1..n -> Task]
    BY DEF DepLists
  <1>2. \A j \in DOMAIN deps : \A k \in 1..j : k \in DOMAIN deps
    BY <1>1, MaxDepsNat
  <1> QED
    BY <1>2 DEF Accepted

(* add_dependencies, from a graph (T, E, P, D) of the right shape, leaves a
   graph of the right shape. *)
LEMMA AddDependencies ==
  ASSUME NEW T \in SUBSET Task, NEW E \in SUBSET (T \X T), NEW P \in [Task -> SUBSET Task],
         NEW D \in SUBSET (Task \X Task), NEW t \in T, NEW deps \in DepLists,
         Ranked(E), E \subseteq D,
         \A d \in T : P[d] = {},
         \A d \in Task : P[d] \subseteq T,
         \A d \in Task : \A u \in P[d] : <<d, u>> \in D,
         (\A e \in D : ~Reaches(D, e[2], e[1])) =>
             \A e \in D : IF e[1] \in T THEN e \in E ELSE e[2] \in P[e[1]],
         tasks' = T,
         declared' = D \cup {<<deps[i], t>> : i \in DOMAIN deps},
         add_dependencies(T, E, P, t, deps)
  PROVE  /\ GraphInv'
         /\ edges' \in SUBSET (Task \X Task)
         /\ pending' \in [Task -> SUBSET Task]
         /\ declared' \in SUBSET (Task \X Task)
  <1> DEFINE acc == Accepted(T, E, t, deps)
             F == {<<d, t>> : d \in acc \cap T}
  <1>1. PICK n \in 0..MaxDeps : deps \in [1..n -> Task]
    BY DEF DepLists
  <1>2. declared' \in SUBSET (Task \X Task) /\ D \subseteq declared'
    BY <1>1
  <1>3. acc \subseteq Task /\ \A d \in acc : <<d, t>> \in declared'
    BY AcceptedAreFine
  <1>4. edges' = E \cup F
    BY DEF add_dependencies
  <1>5. pending' = [d \in Task |-> IF d \in acc \ T THEN P[d] \cup {t} ELSE P[d]]
    BY DEF add_dependencies
  <1> HIDE DEF acc
  <1>6. F \in SUBSET (T \X T)
    OBVIOUS
  <1>7. edges' \in SUBSET (T \X T) /\ edges' \subseteq declared'
    BY <1>2, <1>3, <1>4, <1>6
  <1>8. pending' \in [Task -> SUBSET Task]
    BY <1>5
  <1>9. PendingShape'
    <2>1. \A d \in T : pending'[d] = {}
      BY <1>5
    <2>2. \A d \in Task : pending'[d] \subseteq T
      BY <1>5
    <2>3. \A d \in Task : \A u \in pending'[d] : <<d, u>> \in declared'
      BY <1>2, <1>3, <1>5, Zenon
    <2> QED
      BY <2>1, <2>2, <2>3 DEF PendingShape
  <1>10. Ranked(edges')
    <2> DEFINE C == {x \in Task : Reaches(E, t, x)}
    <2>1. C \in SUBSET Task /\ t \in C
      BY ReachesSelf
    <2>2. \A e \in E : e[1] \in C => e[2] \in C
      BY ReachesStep
    <2>3. \A d \in acc \cap T : d \notin C
      BY AcceptedAreFine DEF acc
    <2> HIDE DEF C
    <2>4. \A e \in F : e[1] \notin C /\ e[2] \in C
      BY <2>1, <2>3
    <2>5. E \in SUBSET (Task \X Task) /\ F \in SUBSET (Task \X Task)
      BY <1>6
    <2> HIDE DEF F
    <2> QED
      BY <1>4, <2>1, <2>2, <2>4, <2>5, RankedAddEdges, Zenon
  <1>11. DeclaredHonoured'
    <2> SUFFICES ASSUME \A e \in declared' : ~Reaches(declared', e[2], e[1]),
                        NEW e \in declared'
                 PROVE  IF e[1] \in T THEN e \in edges' ELSE e[2] \in pending'[e[1]]
      BY Zenon DEF DeclaredHonoured
    <2>1. ASSUME NEW f \in D PROVE ~Reaches(D, f[2], f[1])
      <3>1. Reaches(D, f[2], f[1]) => Reaches(declared', f[2], f[1])
        BY <1>2, ReachesMonotone
      <3> QED
        BY <3>1, <1>2, Zenon
    <2>2. CASE e \in D
      <3>1. IF e[1] \in T THEN e \in E ELSE e[2] \in P[e[1]]
        BY <2>1, <2>2
      <3> QED
        BY <3>1, <2>2, <1>4, <1>5
    <2>3. CASE e \in {<<deps[i], t>> : i \in DOMAIN deps}
      <3>1. \A i \in DOMAIN deps : <<deps[i], t>> \in declared'
        OBVIOUS
      <3>2. \A i \in DOMAIN deps : ~Refused(T, E, t, deps[i])
        BY <3>1, <1>2, RefusalIsCycle, Zenon
      <3>3. acc = {deps[i] : i \in DOMAIN deps}
        BY <3>2, AllAccepted DEF acc
      <3>4. PICK i \in DOMAIN deps : e = <<deps[i], t>>
        BY <2>3
      <3>5. e[1] \in acc /\ e[1] \in Task /\ e[2] = t /\ e = <<e[1], t>>
        BY <3>3, <3>4, <1>1
      <3> QED
        BY <3>5, <1>4, <1>5
    <2> QED
      BY <2>2, <2>3
  <1>12. EdgesShape'
    BY <1>7, <1>10 DEF EdgesShape
  <1> QED
    BY <1>2, <1>7, <1>8, <1>9, <1>11, <1>12 DEF GraphInv

(* A new task inherits the dependents that waited for it, and none of these
   edges can be refused. *)
LEMMA AddTaskGraph ==
  ASSUME TypeOK, GraphInv, NEW t \in Task, NEW deps \in DepLists,
         add_task_with_dependencies(t, deps)
  PROVE  /\ GraphInv'
         /\ edges' \in SUBSET (Task \X Task)
         /\ pending' \in [Task -> SUBSET Task]
         /\ declared' \in SUBSET (Task \X Task)
  <1> DEFINE T == tasks \cup {t}
             F == {<<t, d>> : d \in pending[t]}
             E == edges \cup F
             P == Forget(t)
  <1>1. /\ t \notin tasks
        /\ tasks' = T
        /\ declared' = declared \cup {<<deps[i], t>> : i \in DOMAIN deps}
    BY DEF add_task_with_dependencies, Declare
  <1>2. /\ tasks \in SUBSET Task /\ edges \in SUBSET (tasks \X tasks)
        /\ pending \in [Task -> SUBSET Task] /\ declared \in SUBSET (Task \X Task)
        /\ edges \subseteq declared /\ Ranked(edges)
        /\ pending[t] \subseteq tasks
        /\ \A d \in pending[t] : <<t, d>> \in declared
    BY DEF TypeOK, GraphInv, EdgesShape, PendingShape
  <1>3. Resolvable(T, edges, t) = pending[t] /\ pending[t] \cap T = pending[t]
    <2>1. ASSUME NEW d \in pending[t] PROVE ~Reaches(edges, d, t)
      <3>1. d \in Task /\ d # t /\ edges \in SUBSET (Task \X Task)
        BY <1>1, <1>2
      <3>2. \A e \in edges : e[2] # t
        BY <1>1, <1>2
      <3> QED
        BY <3>1, <3>2, ReachesToSource
    <2> QED
      BY <1>2, <2>1 DEF Resolvable, would_create_cycle
  <1>4. add_dependencies(T, E, P, t, deps)
    <2>1. PICK resolved \in Resolutions(tasks', edges, t) :
            IF resolved = pending[t] \cap tasks'
            THEN add_dependencies(tasks', edges \cup {<<t, d>> : d \in resolved}, Forget(t), t, deps)
            ELSE edges' = edges \cup {<<t, d>> : d \in resolved} /\ pending' = Forget(t)
      BY Zenon DEF add_task_with_dependencies
    <2>2. resolved = pending[t]
      BY <1>1, <1>3, <2>1, Zenon DEF Resolutions
    <2> QED
      BY <1>1, <1>3, <2>1, <2>2
  <1>5. E \in SUBSET (T \X T) /\ E \subseteq declared
    BY <1>2
  <1>6. Ranked(E)
    <2>1. edges \in SUBSET (Task \X Task) /\ F \in SUBSET (Task \X Task)
      BY <1>2
    <2>2. \A e \in edges : e[1] \in tasks => e[2] \in tasks
      BY <1>2
    <2>3. \A e \in F : e[1] \notin tasks /\ e[2] \in tasks
      BY <1>1, <1>2
    <2> HIDE DEF F
    <2> QED
      BY <1>2, <2>1, <2>2, <2>3, RankedAddEdges, Zenon
  <1>7. /\ P \in [Task -> SUBSET Task]
        /\ \A d \in T : P[d] = {}
        /\ \A d \in Task : P[d] \subseteq T
        /\ \A d \in Task : \A u \in P[d] : <<d, u>> \in declared
    BY <1>2 DEF Forget, GraphInv, PendingShape
  <1>8. (\A e \in declared : ~Reaches(declared, e[2], e[1])) =>
            \A e \in declared : IF e[1] \in T THEN e \in E ELSE e[2] \in P[e[1]]
    <2> SUFFICES ASSUME \A e \in declared : ~Reaches(declared, e[2], e[1]),
                        NEW e \in declared
                 PROVE  IF e[1] \in T THEN e \in E ELSE e[2] \in P[e[1]]
      OBVIOUS
    <2>1. IF e[1] \in tasks THEN e \in edges ELSE e[2] \in pending[e[1]]
      BY DEF GraphInv, DeclaredHonoured
    <2>2. e \in Task \X Task /\ e = <<e[1], e[2]>>
      BY <1>2
    <2>3. CASE e[1] = t
      BY <2>1, <2>2, <2>3, <1>1
    <2>4. CASE e[1] # t
      BY <2>1, <2>2, <2>4, <1>2 DEF Forget
    <2> QED
      BY <2>3, <2>4
  <1>9. T \in SUBSET Task /\ t \in T
    BY <1>2
  <1>10. declared \in SUBSET (Task \X Task)
    BY <1>2
  <1>11. tasks' = T /\ declared' = declared \cup {<<deps[i], t>> : i \in DOMAIN deps}
    BY <1>1
  <1> HIDE DEF T, E, P, F
  <1> QED
    BY <1>4, <1>5, <1>6, <1>7, <1>8, <1>9, <1>10, <1>11, AddDependencies, Zenon

(* Adding the dependencies of a task keeps what holds of the graph. *)
LEMMA AddDependenciesGraph ==
  ASSUME TypeOK, GraphInv, NEW t \in Task, NEW deps \in DepLists,
         add_dependencies_to_existing(t, deps)
  PROVE  /\ GraphInv'
         /\ edges' \in SUBSET (Task \X Task)
         /\ pending' \in [Task -> SUBSET Task]
         /\ declared' \in SUBSET (Task \X Task)
  <1>1. /\ t \in tasks /\ tasks' = tasks
        /\ add_dependencies(tasks, edges, pending, t, deps)
        /\ declared' = declared \cup {<<deps[i], t>> : i \in DOMAIN deps}
    BY DEF add_dependencies_to_existing, Declare
  <1>2. /\ tasks \in SUBSET Task /\ pending \in [Task -> SUBSET Task]
        /\ declared \in SUBSET (Task \X Task)
    BY DEF TypeOK
  <1>3. edges \in SUBSET (tasks \X tasks) /\ edges \subseteq declared /\ Ranked(edges)
    BY DEF GraphInv, EdgesShape
  <1>4. /\ \A d \in tasks : pending[d] = {}
        /\ \A d \in Task : pending[d] \subseteq tasks
        /\ \A d \in Task : \A u \in pending[d] : <<d, u>> \in declared
    BY DEF GraphInv, PendingShape
  <1>5. (\A e \in declared : ~Reaches(declared, e[2], e[1])) =>
            \A e \in declared : IF e[1] \in tasks THEN e \in edges ELSE e[2] \in pending[e[1]]
    BY DEF GraphInv, DeclaredHonoured
  <1> QED
    BY <1>1, <1>2, <1>3, <1>4, <1>5, AddDependencies, Zenon

(* The empty graph. *)
LEMMA EmptyRanked == Ranked({})
  <1> DEFINE r == [t \in Task |-> 0]
  <1>1. r \in [Task -> 0..0] /\ Ranks({}, r) /\ 0 \in Nat
    BY DEF Ranks
  <1> QED
    BY <1>1 DEF Ranked

(* An emptied network has what holds of every graph. *)
LEMMA ClearedGraph ==
  ASSUME tasks' = {}, edges' = {}, pending' = [d \in Task |-> {}], declared' = {}
  PROVE  GraphInv'
  <1>1. Ranked(edges')
    BY EmptyRanked
  <1> QED
    BY <1>1 DEF GraphInv, PendingShape, EdgesShape, DeclaredHonoured

-----------------------------------------------------------------------------
(* The semaphore *)

Running(s) == {t \in Task : s[t] = "running"}

(* Finitely many handlers run. *)
LEMMA RunningFinite ==
  ASSUME NEW s PROVE IsFiniteSet(Running(s)) /\ Cardinality(Running(s)) \in Nat
  <1>1. Running(s) \in SUBSET Task
    BY DEF Running
  <1>2. IsFiniteSet(Running(s))
    BY <1>1, TaskFinite, FS_Subset
  <1> QED
    BY <1>2, FS_CardinalityType

(* A handler that starts is one more that runs. *)
LEMMA StartsRunning ==
  ASSUME NEW V, NEW s \in [Task -> V], NEW t \in Task, s[t] # "running"
  PROVE  Cardinality(Running([s EXCEPT ![t] = "running"])) = Cardinality(Running(s)) + 1
  <1>1. Running([s EXCEPT ![t] = "running"]) = Running(s) \cup {t} /\ t \notin Running(s)
    BY DEF Running
  <1> QED
    BY <1>1, RunningFinite, FS_AddElement, Zenon

(* A handler that ends is one less that runs. *)
LEMMA StopsRunning ==
  ASSUME NEW V, NEW s \in [Task -> V], NEW t \in Task, s[t] = "running", NEW v, v # "running"
  PROVE  Cardinality(Running([s EXCEPT ![t] = v])) = Cardinality(Running(s)) - 1
  <1>1. Running([s EXCEPT ![t] = v]) = Running(s) \ {t} /\ t \in Running(s)
    BY DEF Running
  <1> QED
    BY <1>1, RunningFinite, FS_RemoveElement, Zenon

(* Permits free and permits of handlers that run add up. *)
LEMMA PermitsInvRunning ==
  PermitsInv <=> permits + Cardinality(Running(st)) + Cardinality(Running(orphan)) = Permits
  BY DEF PermitsInv, Running

(* Moving one permit between the semaphore and the handlers. *)
LEMMA PermitMoves ==
  ASSUME TypeOK, PermitsInv, NEW k \in {1, -1},
         permits' = permits - k, permits - k >= 0,
         Cardinality(Running(st')) + Cardinality(Running(orphan'))
            = Cardinality(Running(st)) + Cardinality(Running(orphan)) + k
  PROVE  PermitsInv' /\ permits' \in 0..Permits
  <1> DEFINE a == Cardinality(Running(st))
             b == Cardinality(Running(orphan))
             c == Cardinality(Running(st'))
             d == Cardinality(Running(orphan'))
  <1>1. a \in Nat /\ b \in Nat /\ c \in Nat /\ d \in Nat
    BY RunningFinite
  <1>2. permits + a + b = Permits
    BY PermitsInvRunning
  <1>3. permits \in Nat /\ Permits \in Nat
    BY PermitsPositive DEF TypeOK
  <1>4. PermitsInv' <=> permits' + c + d = Permits
    BY DEF PermitsInv, Running
  <1>5. c + d = a + b + k
    OBVIOUS
  <1> HIDE DEF a, b, c, d
  <1>6. permits' + c + d = Permits /\ permits' \in 0..Permits
    BY <1>1, <1>2, <1>3, <1>5
  <1> QED
    BY <1>4, <1>6

-----------------------------------------------------------------------------
(* The invariant is inductive *)

(* The invariant holds of an empty network. *)
LEMMA InitInv == Init => IInv
  <1> SUFFICES ASSUME Init PROVE IInv
    OBVIOUS
  <1> USE DEF Init, Idle
  <1>1. TypeOK
    BY PermitsPositive DEF TypeOK, Finished
  <1>2. GraphInv
    BY EmptyRanked DEF GraphInv, PendingShape, EdgesShape, DeclaredHonoured
  <1>3. LevelInv /\ DependencyOrder
    BY DEF LevelInv, DependencyOrder
  <1>4. PermitsInv
    <2>1. Running(st) = {} /\ Running(orphan) = {}
      BY DEF Running
    <2> QED
      BY <2>1, FS_EmptySet, PermitsInvRunning, PermitsPositive
  <1> QED
    BY <1>1, <1>2, <1>3, <1>4 DEF IInv

(* A step that leaves the semaphore alone keeps the count of permits. *)
LEMMA PermitsUnchanged ==
  ASSUME IInv, permits' = permits, Running(st') = Running(st),
         Running(orphan') = Running(orphan)
  PROVE  PermitsInv' /\ permits' \in 0..Permits
  BY Zenon DEF IInv, PermitsInv, TypeOK, Running

(* Adding tasks and dependencies keeps the invariant. *)
LEMMA BuildStep == IInv /\ Build => IInv'
  <1> SUFFICES ASSUME IInv, Build PROVE IInv'
    OBVIOUS
  <1>1. TypeOK /\ GraphInv /\ LevelInv
    BY DEF IInv
  <1>2. /\ UNCHANGED execVars /\ phase = "collect" /\ GraphInv' /\ tasks' \in SUBSET Task
        /\ edges' \in SUBSET (Task \X Task) /\ pending' \in [Task -> SUBSET Task]
        /\ declared' \in SUBSET (Task \X Task)
    <2>1. CASE \E t \in Task, deps \in DepLists : add_task_with_dependencies(t, deps)
      <3>1. PICK t \in Task, deps \in DepLists : add_task_with_dependencies(t, deps)
        BY <2>1
      <3>2. UNCHANGED execVars /\ phase = "collect" /\ tasks' \in SUBSET Task
        BY <3>1, <1>1 DEF add_task_with_dependencies, TypeOK
      <3> QED
        BY <3>1, <3>2, <1>1, AddTaskGraph
    <2>2. CASE \E t \in Task, deps \in DepLists : add_dependencies_to_existing(t, deps)
      <3>1. PICK t \in Task, deps \in DepLists : add_dependencies_to_existing(t, deps)
        BY <2>2
      <3>2. UNCHANGED execVars /\ phase = "collect" /\ tasks' \in SUBSET Task
        BY <3>1, <1>1 DEF add_dependencies_to_existing, TypeOK
      <3> QED
        BY <3>1, <3>2, <1>1, AddDependenciesGraph
    <2>3. CASE clear
      BY <2>3, ClearedGraph DEF clear
    <2> QED
      BY <2>1, <2>2, <2>3 DEF Build
  <1>3. TypeOK'
    BY <1>1, <1>2 DEF TypeOK, execVars
  <1>4. LevelInv' /\ DependencyOrder'
    BY <1>1, <1>2, <1>3 DEF LevelInv, DependencyOrder, execVars, Idle, TypeOK
  <1>5. PermitsInv'
    BY <1>2, PermitsUnchanged DEF execVars
  <1> QED
    BY <1>2, <1>3, <1>4, <1>5 DEF IInv

(* The graph does not change while it is processed. *)
LEMMA GraphUnchanged ==
  ASSUME IInv, UNCHANGED graphVars
  PROVE  /\ GraphInv'
         /\ tasks' \in SUBSET Task /\ edges' \in SUBSET (Task \X Task)
         /\ pending' \in [Task -> SUBSET Task] /\ declared' \in SUBSET (Task \X Task)
  BY DEF IInv, TypeOK, GraphInv, PendingShape, EdgesShape, DeclaredHonoured, graphVars

(* The start of the processing keeps the invariant. *)
LEMMA StartStep == IInv /\ process_tasks => IInv'
  <1> SUFFICES ASSUME IInv, process_tasks PROVE IInv'
    OBVIOUS
  <1> USE DEF process_tasks
  <1>1. GraphInv' /\ TypeOK'
    BY GraphUnchanged DEF IInv, TypeOK, NextLevel, Spawn, Idle, Finished
  <1>2. LevelInv' /\ DependencyOrder'
    BY DEF IInv, LevelInv, DependencyOrder, TypeOK, GraphInv, EdgesShape, graphVars,
           NextLevel, Spawn, Idle
  <1>3. PermitsInv'
    <2>1. Running(st') = Running(st) /\ Running(orphan') = Running(orphan)
      BY DEF IInv, LevelInv, Spawn, Idle, Running
    <2> QED
      BY <2>1, PermitsUnchanged
  <1> QED
    BY <1>1, <1>2, <1>3 DEF IInv

(* A permit that is acquired keeps the invariant. *)
LEMMA AcquireStep == \A t \in Task : IInv /\ AcquirePermit(t) => IInv'
  <1> SUFFICES ASSUME NEW t \in Task, IInv, AcquirePermit(t) PROVE IInv'
    OBVIOUS
  <1> USE DEF AcquirePermit
  <1>1. GraphInv' /\ TypeOK'
    BY GraphUnchanged, PermitsPositive DEF IInv, TypeOK
  <1>2. LevelInv' /\ DependencyOrder'
    BY DEF IInv, LevelInv, DependencyOrder, TypeOK, graphVars
  <1>3. PermitsInv'
    <2>1. Cardinality(Running(st')) = Cardinality(Running(st)) + 1
      BY StartsRunning, Zenon DEF IInv, TypeOK
    <2>2. Running(orphan') = Running(orphan) /\ permits' = permits - 1 /\ permits - 1 >= 0
      BY DEF Running, IInv, TypeOK
    <2>3. Cardinality(Running(st)) \in Nat /\ Cardinality(Running(orphan)) \in Nat
      BY RunningFinite
    <2> QED
      BY <2>1, <2>2, <2>3, PermitMoves DEF IInv
  <1> QED
    BY <1>1, <1>2, <1>3 DEF IInv

(* A handler that ends, fails or panics keeps the invariant. *)
LEMMA HandlerEndsStep ==
  \A t \in Task, outcome \in Finished : IInv /\ HandlerEnds(t, outcome) => IInv'
  <1> SUFFICES ASSUME NEW t \in Task, NEW outcome \in Finished, IInv, HandlerEnds(t, outcome)
               PROVE  IInv'
    OBVIOUS
  <1> USE DEF HandlerEnds
  <1>0. outcome # "running" /\ outcome # "none"
    BY DEF Finished
  <1>2. Cardinality(Running(st')) = Cardinality(Running(st)) - 1
    <2> DEFINE V == {"none", "queued", "running"} \cup Finished
    <2>1. st \in [Task -> V] /\ st[t] = "running" /\ st' = [st EXCEPT ![t] = outcome]
      BY DEF IInv, TypeOK
    <2> HIDE DEF V
    <2>2. outcome # "running"
      BY <1>0
    <2>3. Cardinality(Running([st EXCEPT ![t] = outcome])) = Cardinality(Running(st)) - 1
      BY ONLY <2>1, <2>2, t \in Task, StopsRunning, Zenon
    <2> QED
      BY <2>1, <2>3
  <1>3. PermitsInv' /\ permits' \in 0..Permits
    <2>1. Running(orphan') = Running(orphan) /\ permits' = permits - (-1) /\ permits - (-1) >= 0
      BY DEF Running, IInv, TypeOK
    <2>2. Cardinality(Running(st)) \in Nat /\ Cardinality(Running(orphan)) \in Nat
      BY RunningFinite
    <2> QED
      BY <1>2, <2>1, <2>2, PermitMoves DEF IInv
  <1>4. GraphInv' /\ TypeOK'
    BY <1>3, GraphUnchanged DEF IInv, TypeOK
  <1>5. LevelInv' /\ DependencyOrder'
    BY <1>0 DEF IInv, LevelInv, DependencyOrder, TypeOK, graphVars
  <1> QED
    BY <1>3, <1>4, <1>5 DEF IInv

(* A return with the error of a panic keeps the invariant. *)
LEMMA JoinErrorStep == IInv /\ ReturnJoinError => IInv'
  <1> SUFFICES ASSUME IInv, ReturnJoinError PROVE IInv'
    OBVIOUS
  <1> USE DEF ReturnJoinError
  <1>1. GraphInv' /\ TypeOK'
    BY GraphUnchanged DEF IInv, TypeOK, Idle
  <1>2. LevelInv' /\ DependencyOrder'
    BY DEF IInv, LevelInv, DependencyOrder, TypeOK, Idle, EdgesShape, GraphInv, graphVars
  <1>3. PermitsInv'
    <2>1. \A t \in Task : orphan[t] = "none"
      BY DEF IInv, LevelInv, TypeOK
    <2>2. Running(orphan') = Running(st) /\ Running(orphan) = {} /\ Running(st') = {}
      BY <2>1 DEF Running, Idle
    <2>3. permits + Cardinality(Running(st)) + Cardinality({}) = Permits
      BY <2>2, PermitsInvRunning DEF IInv
    <2>4. permits' + Cardinality({}) + Cardinality(Running(st)) = Permits
      BY <2>3, RunningFinite, FS_EmptySet DEF IInv, TypeOK
    <2> QED
      BY <2>2, <2>4 DEF PermitsInv, Running
  <1> QED
    BY <1>1, <1>2, <1>3 DEF IInv

(* The two steps that end a call with no handler left at work. *)
LEMMA QuietPermits ==
  ASSUME IInv, \A t \in level : st[t] \in {"ok", "err"}, st' = Idle,
         UNCHANGED <<orphan, permits>>
  PROVE  PermitsInv'
  <1>1. Running(st') = Running(st) /\ Running(orphan') = Running(orphan)
    BY DEF IInv, LevelInv, Idle, Running
  <1> QED
    BY <1>1, PermitsUnchanged

(* A return with the error of a task keeps the invariant. *)
LEMMA TaskErrorStep == IInv /\ ReturnTaskError => IInv'
  <1> SUFFICES ASSUME IInv, ReturnTaskError PROVE IInv'
    OBVIOUS
  <1> USE DEF ReturnTaskError
  <1>1. GraphInv' /\ TypeOK'
    BY GraphUnchanged DEF IInv, TypeOK, Idle
  <1>2. LevelInv' /\ DependencyOrder'
    BY DEF IInv, LevelInv, DependencyOrder, TypeOK, Idle, EdgesShape, GraphInv, graphVars
  <1>3. PermitsInv'
    BY QuietPermits
  <1> QED
    BY <1>1, <1>2, <1>3 DEF IInv

(* The step to the next level keeps the invariant. *)
LEMMA NextLevelStep == IInv /\ StartNextLevel => IInv'
  <1> SUFFICES ASSUME IInv, StartNextLevel PROVE IInv'
    OBVIOUS
  <1> USE DEF StartNextLevel, LevelSucceeded
  <1>1. GraphInv' /\ TypeOK'
    BY GraphUnchanged DEF IInv, TypeOK, Spawn, NextLevel, Finished
  <1>2. \A t \in level' : t \in tasks /\ t \in Task /\ st[t] = "none"
    BY DEF IInv, LevelInv, TypeOK, NextLevel, Succeeded
  <1>3. LevelInv'
    BY <1>1, <1>2 DEF IInv, LevelInv, TypeOK, Spawn, graphVars
  <1>4. DependencyOrder'
    BY <1>2 DEF IInv, LevelInv, TypeOK, DependencyOrder, Spawn, NextLevel, Succeeded, graphVars
  <1>5. PermitsInv'
    <2>1. Running(st') = Running(st) /\ Running(orphan') = Running(orphan)
      BY <1>2 DEF IInv, Spawn, Running
    <2> QED
      BY <2>1, PermitsUnchanged
  <1> QED
    BY <1>1, <1>3, <1>4, <1>5 DEF IInv

(* A return without an error keeps the invariant. *)
LEMMA ReturnOkStep == IInv /\ ReturnOk => IInv'
  <1> SUFFICES ASSUME IInv, ReturnOk PROVE IInv'
    OBVIOUS
  <1> USE DEF ReturnOk, LevelSucceeded
  <1>1. GraphInv'
    BY ClearedGraph
  <1>2. TypeOK' /\ LevelInv' /\ DependencyOrder'
    BY DEF IInv, TypeOK, Idle, LevelInv, DependencyOrder
  <1>3. PermitsInv'
    BY QuietPermits
  <1> QED
    BY <1>1, <1>2, <1>3 DEF IInv

(* Handlers that outlive a return keep the invariant. *)
LEMMA OrphansStep == IInv /\ Orphans => IInv'
  <1> SUFFICES ASSUME IInv, Orphans PROVE IInv'
    OBVIOUS
  <1>0. Cardinality(Running(st)) \in Nat /\ Cardinality(Running(orphan)) \in Nat
    BY RunningFinite
  <1>1. UNCHANGED <<graphVars, phase, level, st, result>>
    BY DEF Orphans, OrphanAcquires, OrphanEnds
  <1>2. /\ orphan' \in [Task -> {"none", "queued", "running"}]
        /\ \A t \in Task : orphan[t] = "none" => orphan'[t] = "none"
    BY DEF Orphans, OrphanAcquires, OrphanEnds, IInv, TypeOK
  <1>3. PermitsInv' /\ permits' \in 0..Permits
    <2>1. CASE \E t \in Task : OrphanAcquires(t)
      <3>1. PICK t \in Task : OrphanAcquires(t)
        BY <2>1
      <3>2. Cardinality(Running(orphan')) = Cardinality(Running(orphan)) + 1
        BY <3>1, StartsRunning, Zenon DEF IInv, TypeOK, OrphanAcquires
      <3>3. permits' = permits - 1 /\ permits - 1 >= 0 /\ Running(st') = Running(st)
        BY <3>1, <1>1 DEF OrphanAcquires, IInv, TypeOK
      <3> QED
        BY <1>0, <3>2, <3>3, PermitMoves DEF IInv
    <2>2. CASE \E t \in Task : OrphanEnds(t)
      <3>1. PICK t \in Task : OrphanEnds(t)
        BY <2>2
      <3>2. Cardinality(Running(orphan')) = Cardinality(Running(orphan)) - 1
        BY <3>1, StopsRunning, Zenon DEF IInv, TypeOK, OrphanEnds
      <3>3. permits' = permits - (-1) /\ permits - (-1) >= 0 /\ Running(st') = Running(st)
        BY <3>1, <1>1 DEF OrphanEnds, IInv, TypeOK
      <3> QED
        BY <1>0, <3>2, <3>3, PermitMoves DEF IInv
    <2> QED
      BY <2>1, <2>2 DEF Orphans
  <1>4. GraphInv' /\ TypeOK'
    BY <1>1, <1>2, <1>3, GraphUnchanged DEF IInv, TypeOK
  <1>5. LevelInv' /\ DependencyOrder'
    BY <1>1, <1>2 DEF IInv, LevelInv, DependencyOrder, TypeOK, graphVars, Idle
  <1> QED
    BY <1>3, <1>4, <1>5 DEF IInv

(* Every step keeps the invariant. *)
LEMMA NextInv == IInv /\ [Next]_vars => IInv'
  <1> SUFFICES ASSUME IInv, [Next]_vars PROVE IInv'
    OBVIOUS
  <1>1. CASE UNCHANGED vars
    BY <1>1, GraphUnchanged
       DEF vars, graphVars, IInv, TypeOK, LevelInv, DependencyOrder, PermitsInv
  <1>2. CASE Build
    BY <1>2, BuildStep
  <1>3. CASE process_tasks
    BY <1>3, StartStep
  <1>4. CASE Process
    BY <1>4, AcquireStep, HandlerEndsStep, JoinErrorStep, TaskErrorStep, NextLevelStep,
       ReturnOkStep DEF Process
  <1>5. CASE Orphans
    BY <1>5, OrphansStep
  <1> QED
    BY <1>1, <1>2, <1>3, <1>4, <1>5 DEF Next

-----------------------------------------------------------------------------
(* Theorems *)

(* The invariant holds in every reachable state of the network. *)
THEOREM Invariance == Spec => []IInv
  BY InitInv, NextInv, PTL DEF Spec

(* Types, for any set of tasks and any number of permits. *)
THEOREM TypeCorrect == Spec => []TypeOK
  <1>1. IInv => TypeOK
    BY DEF IInv
  <1> QED
    BY <1>1, Invariance, PTL

(* add_dependency keeps the graph acyclic in every call order. *)
THEOREM AlwaysAcyclic == Spec => []Acyclic
  <1>1. IInv => Acyclic
    BY RankedIsAcyclic DEF IInv, TypeOK, GraphInv, EdgesShape, Acyclic
  <1> QED
    BY <1>1, Invariance, PTL

(* process_tasks never starts a handler before its prerequisites succeeded. *)
THEOREM PrerequisitesFirst == Spec => []DependencyOrder
  <1>1. IInv => DependencyOrder
    BY DEF IInv
  <1> QED
    BY <1>1, Invariance, PTL

(* Consistent dependency declarations are honoured whatever the order in
   which they and their prerequisites arrive. *)
THEOREM NoDependencyLost == Spec => []DeclaredHonoured
  <1>1. IInv => DeclaredHonoured
    BY DEF IInv, GraphInv
  <1> QED
    BY <1>1, Invariance, PTL

(* The semaphore bounds the handlers at work. *)
THEOREM ConcurrencyBounded == Spec => []BoundedConcurrency
  <1>1. IInv => BoundedConcurrency
    <2> SUFFICES ASSUME IInv PROVE BoundedConcurrency
      OBVIOUS
    <2>1. Cardinality(Running(st)) \in Nat /\ Cardinality(Running(orphan)) \in Nat
      BY RunningFinite
    <2>2. permits + Cardinality(Running(st)) + Cardinality(Running(orphan)) = Permits
      BY PermitsInvRunning DEF IInv
    <2>3. permits \in Nat
      BY PermitsPositive DEF IInv, TypeOK
    <2>4. Cardinality(Running(st)) + Cardinality(Running(orphan)) <= Permits
      BY <2>1, <2>2, <2>3
    <2> QED
      BY <2>4 DEF BoundedConcurrency, Running
  <1> QED
    BY <1>1, Invariance, PTL

(* When no level is left, every task has run: acyclicity leaves no task
   without a level. *)
LEMMA LevelsCover ==
  ASSUME IInv, LevelSucceeded, NextLevel(tasks, edges, Succeeded) = {}
  PROVE  \A t \in tasks : st[t] = "ok"
  <1> SUFFICES ASSUME tasks \ Succeeded # {} PROVE FALSE
    BY DEF Succeeded
  <1> DEFINE S == tasks \ Succeeded
  <1>1. S \in SUBSET Task /\ edges \in SUBSET (Task \X Task) /\ Ranked(edges)
    BY DEF IInv, TypeOK, GraphInv, EdgesShape
  <1>2. PICK t \in S : \A e \in edges : e[2] = t => e[1] \notin S
    BY <1>1, RankedHasSource, Zenon
  <1>3. \A e \in edges : e[1] \in tasks
    BY DEF IInv, GraphInv, EdgesShape
  <1>4. t \in NextLevel(tasks, edges, Succeeded)
    BY <1>2, <1>3 DEF NextLevel
  <1> QED
    BY <1>4

(* process_tasks returns Ok only after every handler returned Ok. *)
THEOREM OkIsComplete == Spec => OkMeansAllRan
  <1>1. IInv /\ [Next]_vars =>
          [(phase = "process" /\ phase' = "collect" /\ result' = "ok")
              => \A t \in tasks : st[t] = "ok"]_vars
    <2> SUFFICES ASSUME IInv, Next, phase = "process", phase' = "collect", result' = "ok"
                 PROVE  \A t \in tasks : st[t] = "ok"
      OBVIOUS
    <2>1. CASE ReturnOk
      BY <2>1, LevelsCover DEF ReturnOk
    <2>2. CASE ~ReturnOk
      BY <2>2, Zenon DEF Next, Build, process_tasks, Process, Orphans, add_task_with_dependencies,
         add_dependencies_to_existing, clear, AcquirePermit, HandlerEnds, ReturnJoinError,
         ReturnTaskError, StartNextLevel, LevelSucceeded, OrphanAcquires, OrphanEnds
    <2> QED
      BY <2>1, <2>2
  <1> QED
    BY <1>1, Invariance, PTL DEF Spec, OkMeansAllRan

(* Once a handler has failed the call spawns nothing more, and a call that
   returns without a panic leaves no handler at work. *)
THEOREM FailuresStop == Spec => FailStop
  <1>1. IInv /\ [Next]_vars =>
          [/\ (\E t \in Task : st[t] \in {"err", "panic"})
                => \A u \in Task : st'[u] = "queued" => st[u] = "queued"
           /\ (phase = "process" /\ phase' = "collect" /\ \A t \in Task : st[t] # "panic")
                => \A t \in Task : st[t] \notin {"queued", "running"}]_vars
    <2> SUFFICES ASSUME IInv, Next
                 PROVE  /\ (\E t \in Task : st[t] \in {"err", "panic"})
                             => \A u \in Task : st'[u] = "queued" => st[u] = "queued"
                        /\ (phase = "process" /\ phase' = "collect" /\ \A t \in Task : st[t] # "panic")
                             => \A t \in Task : st[t] \notin {"queued", "running"}
      OBVIOUS
    <2>0. TypeOK /\ LevelInv
      BY DEF IInv
    <2>1. ASSUME NEW t \in Task, st[t] \in {"err", "panic"}, NEW u \in Task, st'[u] = "queued"
          PROVE  st[u] = "queued"
      <3>1. phase = "process" /\ t \in level
        BY <2>0, <2>1 DEF LevelInv, TypeOK, Idle
      <3>2. ~process_tasks /\ ~StartNextLevel
        BY <2>1, <3>1, Zenon DEF process_tasks, StartNextLevel, LevelSucceeded
      <3>3. CASE UNCHANGED st
        BY <2>1, <3>3
      <3>4. CASE \E v \in Task : AcquirePermit(v)
        BY <2>0, <2>1, <3>4 DEF AcquirePermit, TypeOK
      <3>5. CASE \E v \in Task, outcome \in Finished : HandlerEnds(v, outcome)
        BY <2>0, <2>1, <3>5 DEF HandlerEnds, TypeOK, Finished
      <3>6. CASE st' = Idle
        BY <2>1, <3>6 DEF Idle
      <3> QED
        BY <3>1, <3>2, <3>3, <3>4, <3>5, <3>6, Zenon DEF Next, Build, Process, Orphans, add_task_with_dependencies, add_dependencies_to_existing, clear,
            ReturnJoinError, ReturnTaskError, ReturnOk, OrphanAcquires, OrphanEnds, execVars
    <2>2. ASSUME phase = "process", phase' = "collect", \A t \in Task : st[t] # "panic", NEW t \in Task
          PROVE  st[t] \notin {"queued", "running"}
      <3>1. ReturnTaskError \/ ReturnOk
        BY <2>0, <2>2, Zenon DEF Next, Build, process_tasks, Process, Orphans, add_task_with_dependencies,
           add_dependencies_to_existing, clear, AcquirePermit, HandlerEnds, ReturnJoinError,
           StartNextLevel, LevelSucceeded, OrphanAcquires, OrphanEnds, TypeOK
      <3>2. \A u \in level : st[u] \in {"ok", "err"}
        BY <3>1 DEF ReturnTaskError, ReturnOk, LevelSucceeded
      <3> QED
        BY <2>0, <2>2, <3>2 DEF LevelInv, TypeOK
    <2> QED
      BY <2>1, <2>2
  <1> QED
    BY <1>1, Invariance, PTL DEF Spec, FailStop

-----------------------------------------------------------------------------
(* The manager: an event, and the agenda of a task *)

Event == [task : Task, mode : Modes, id : Nat]

(* Sequences whose numbers increase. *)
Increasing(s) == \A i, j \in DOMAIN s : i < j => s[i].id < s[j].id

(* What is filed for a task whose log is s. *)
Filed(d, s) ==
    /\ d \in [events : Seq(Event), latest : Seq(Event)]
    /\ s \in Seq(Event) /\ \A i \in DOMAIN s : s[i].id = i
    /\ Increasing(d.events) /\ Increasing(d.latest)
    /\ Range(d.events) = {s[i] : i \in {j \in DOMAIN s : s[j].mode = HISTORICAL}}
    /\ Range(d.latest) = {s[i] : i \in {j \in DOMAIN s : s[j].mode # HISTORICAL /\ LastOfItsKey(s, j)}}

States == {"none", "queued", "running"} \cup Finished

(* A handler has processed a part of its agenda, all of it when it succeeded. *)
TMInv ==
    /\ phase \in {"collect", "process"} /\ st \in [Task -> States]
    /\ phase = "collect" => st = Idle
    /\ data \in [Task -> [events : Seq(Event), latest : Seq(Event)]]
    /\ log \in [Task -> Seq(Event)]
    /\ handled \in [Task -> Seq(Event)]
    /\ \A t \in Task : Filed(data[t], log[t])
    /\ phase = "collect" => handled = Nothing
    /\ \A t \in Task : /\ Len(handled[t]) <= Len(Agenda(data[t]))
                       /\ \A i \in DOMAIN handled[t] : handled[t][i] = Agenda(data[t])[i]
    /\ \A t \in Task : phase = "process" /\ st[t] = "ok" => Len(handled[t]) = Len(Agenda(data[t]))

-----------------------------------------------------------------------------
(* Filing events *)

(* The entries of a concatenation. *)
LEMMA ConcatEntries ==
    ASSUME NEW p \in Seq(Event), NEW l \in Seq(Event)
    PROVE  /\ p \o l \in Seq(Event) /\ DOMAIN (p \o l) = 1..(Len(p) + Len(l))
           /\ \A i \in 1..Len(p) : (p \o l)[i] = p[i]
           /\ \A i \in DOMAIN (p \o l) : i > Len(p) => i - Len(p) \in 1..Len(l) /\ (p \o l)[i] = l[i - Len(p)]
           /\ \A i \in 1..Len(l) : Len(p) + i \in DOMAIN (p \o l) /\ (p \o l)[Len(p) + i] = l[i]
<1>1. Len(p) \in Nat /\ Len(l) \in Nat /\ p \o l \in Seq(Event) /\ Len(p \o l) = Len(p) + Len(l)
  OBVIOUS
<1>2. DOMAIN (p \o l) = 1..(Len(p) + Len(l))
  BY <1>1
<1>3. \A i \in 1..(Len(p) + Len(l)) : (p \o l)[i] = IF i <= Len(p) THEN p[i] ELSE l[i - Len(p)]
  OBVIOUS
<1>4. \A i \in 1..Len(p) : (p \o l)[i] = p[i]
  BY <1>1, <1>3
<1>5. ASSUME NEW i \in 1..(Len(p) + Len(l)), i > Len(p)
      PROVE  i - Len(p) \in 1..Len(l) /\ (p \o l)[i] = l[i - Len(p)]
  BY <1>1, <1>3, <1>5
<1>6. ASSUME NEW i \in 1..Len(l)
      PROVE  Len(p) + i \in 1..(Len(p) + Len(l)) /\ (p \o l)[Len(p) + i] = l[i]
  <2>1. Len(p) + i \in 1..(Len(p) + Len(l)) /\ ~(Len(p) + i <= Len(p)) /\ Len(p) + i - Len(p) = i
    BY <1>1
  <2> QED BY <1>3, <2>1
<1> QED BY <1>1, <1>2, <1>4, <1>5, <1>6, Zenon

(* One entry less. *)
LEMMA WithoutEntry ==
    ASSUME NEW s \in Seq(Event), NEW i \in DOMAIN s
    PROVE  /\ Without(s, i) \in Seq(Event)
           /\ Len(Without(s, i)) = Len(s) - 1
           /\ \A k \in 1..(Len(s) - 1) : Without(s, i)[k] = IF k < i THEN s[k] ELSE s[k + 1]
<1> DEFINE a == SubSeq(s, 1, i - 1)
           b == SubSeq(s, i + 1, Len(s))
<1>1. Len(s) \in Nat /\ i \in 1..Len(s)
  OBVIOUS
<1>2. a \in Seq(Event) /\ Len(a) = i - 1 /\ \A k \in 1..(i - 1) : a[k] = s[k]
  BY <1>1
<1>3. b \in Seq(Event) /\ Len(b) = Len(s) - i /\ \A k \in 1..(Len(s) - i) : b[k] = s[i + k]
  BY <1>1
<1> HIDE DEF a, b
<1>4. a \o b \in Seq(Event) /\ Len(a \o b) = Len(s) - 1
  BY <1>1, <1>2, <1>3
<1>5. ASSUME NEW k \in 1..(Len(s) - 1) PROVE (a \o b)[k] = IF k < i THEN s[k] ELSE s[k + 1]
  <2>1. CASE k < i
    BY <2>1, <1>1, <1>2, <1>3, SMTT(30)
  <2>2. CASE ~(k < i)
    <3>1. k - (i - 1) \in 1..(Len(s) - i) /\ i + (k - (i - 1)) = k + 1
      BY <2>2, <1>1
    <3>2. k \in 1..(Len(a) + Len(b)) /\ k > Len(a) /\ k - Len(a) = k - (i - 1)
      BY <2>2, <1>1, <1>2, <1>3
    <3>3. (a \o b)[k] = b[k - Len(a)]
      <4>1. /\ DOMAIN (a \o b) = 1..(Len(a) + Len(b))
            /\ \A j \in DOMAIN (a \o b) : j > Len(a) => j - Len(a) \in 1..Len(b) /\ (a \o b)[j] = b[j - Len(a)]
        BY <1>2, <1>3, ConcatEntries, Zenon
      <4> QED BY <3>2, <4>1, Zenon
    <3> QED BY <2>2, <3>1, <3>2, <3>3, <1>3, Zenon
  <2> QED BY <2>1, <2>2, Zenon
<1> QED BY <1>4, <1>5, Zenon DEF a, b, Without

(* The entries of an agenda, before and after one is appended. *)
LEMMA RangeAppend ==
    ASSUME NEW s \in Seq(Event), NEW e \in Event
    PROVE  Range(Append(s, e)) = Range(s) \cup {e}
<1>1. Len(s) \in Nat /\ Append(s, e) \in Seq(Event) /\ Len(Append(s, e)) = Len(s) + 1
      /\ DOMAIN s = 1..Len(s) /\ DOMAIN Append(s, e) = 1..(Len(s) + 1)
  OBVIOUS
<1>2. (\A i \in 1..Len(s) : Append(s, e)[i] = s[i]) /\ Append(s, e)[Len(s) + 1] = e
  OBVIOUS
<1>3. 1..(Len(s) + 1) = (1..Len(s)) \cup {Len(s) + 1}
  BY <1>1
<1> QED BY <1>1, <1>2, <1>3 DEF Range

(* A number that is beyond all numbers of an increasing sequence goes last. *)
LEMMA IncreasingAppend ==
    ASSUME NEW s \in Seq(Event), NEW e \in Event, Increasing(s), \A i \in DOMAIN s : s[i].id < e.id
    PROVE  Increasing(Append(s, e))
<1>1. Len(s) \in Nat /\ DOMAIN s = 1..Len(s) /\ DOMAIN Append(s, e) = 1..(Len(s) + 1)
  OBVIOUS
<1>2. (\A i \in 1..Len(s) : Append(s, e)[i] = s[i]) /\ Append(s, e)[Len(s) + 1] = e
  OBVIOUS
<1> QED BY <1>1, <1>2 DEF Increasing

(* The newest event of a key takes the place of the one before it, at the end. *)
LEMMA InsertKeepsOrder ==
    ASSUME NEW s \in Seq(Event), NEW e \in Event, Increasing(s), \A i \in DOMAIN s : s[i].id < e.id,
           \A i, j \in DOMAIN s : s[i].mode = s[j].mode => i = j
    PROVE  /\ InsertLatest(s, e) \in Seq(Event)
           /\ Increasing(InsertLatest(s, e))
           /\ Range(InsertLatest(s, e)) = {x \in Range(s) : x.mode # e.mode} \cup {e}
<1>0. Len(s) \in Nat /\ DOMAIN s = 1..Len(s)
  BY SMTT(30)
<1>1. CASE \E i \in DOMAIN s : s[i].mode = e.mode
  <2> DEFINE h == CHOOSE i \in DOMAIN s : s[i].mode = e.mode
             r == Without(s, h)
  <2>1. h \in DOMAIN s /\ s[h].mode = e.mode
    BY <1>1
  <2>2. InsertLatest(s, e) = Append(r, e)
    BY <1>1 DEF InsertLatest
  <2> HIDE DEF h
  <2>3. /\ r \in Seq(Event) /\ Len(r) = Len(s) - 1
        /\ \A k \in 1..(Len(s) - 1) : r[k] = IF k < h THEN s[k] ELSE s[k + 1]
    BY <2>1, WithoutEntry
  <2>4. Len(r) \in Nat /\ DOMAIN r = 1..(Len(s) - 1) /\ h \in 1..Len(s)
    BY <1>0, <2>1, <2>3
  <2> HIDE DEF r
  <2>5. Increasing(r)
    <3> SUFFICES ASSUME NEW i \in 1..(Len(s) - 1), NEW j \in 1..(Len(s) - 1), i < j PROVE r[i].id < r[j].id
      BY <2>4 DEF Increasing
    <3>1. \A k, l \in 1..Len(s) : k < l => s[k].id < s[l].id
      BY <1>0 DEF Increasing
    <3>2. i \in 1..Len(s) /\ j \in 1..Len(s) /\ i + 1 \in 1..Len(s) /\ j + 1 \in 1..Len(s)
      BY <1>0
    <3> QED BY <1>0, <2>3, <2>4, <3>1, <3>2
  <2>6. \A i \in DOMAIN r : r[i].id < e.id
    <3> SUFFICES ASSUME NEW i \in 1..(Len(s) - 1) PROVE r[i].id < e.id
      BY <2>4
    <3>1. i \in DOMAIN s /\ i + 1 \in DOMAIN s
      BY <1>0
    <3> QED BY <2>3, <3>1, Zenon
  <2>7. Range(r) = {x \in Range(s) : x.mode # e.mode}
    <3>1. ASSUME NEW i \in 1..(Len(s) - 1) PROVE r[i] \in Range(s) /\ r[i].mode # e.mode
      <4>1. PICK k \in DOMAIN s : k # h /\ r[i] = s[k]
        <5>1. CASE i < h
          <6>1. i \in DOMAIN s /\ i # h /\ r[i] = s[i]
            BY <1>0, <2>3, <2>4, <5>1
          <6> QED BY <6>1
        <5>2. CASE ~(i < h)
          <6>1. i + 1 \in DOMAIN s /\ i + 1 # h /\ r[i] = s[i + 1]
            BY <1>0, <2>3, <2>4, <5>2
          <6> QED BY <6>1
        <5> QED BY <5>1, <5>2
      <4> QED BY <2>1, <4>1 DEF Range
    <3>2. ASSUME NEW k \in DOMAIN s, s[k].mode # e.mode PROVE \E i \in DOMAIN r : r[i] = s[k]
      <4>1. k # h /\ k \in 1..Len(s)
        BY <2>1, <3>2, <1>0
      <4>2. CASE k < h
        <5>1. k \in 1..(Len(s) - 1) /\ r[k] = s[k]
          BY <1>0, <2>3, <2>4, <4>1, <4>2
        <5> QED BY <2>4, <5>1
      <4>3. CASE ~(k < h)
        <5>1. k - 1 \in 1..(Len(s) - 1) /\ ~(k - 1 < h) /\ (k - 1) + 1 = k
          BY <1>0, <2>4, <4>1, <4>3
        <5>2. r[k - 1] = s[k]
          BY <2>3, <5>1
        <5> QED BY <2>4, <5>1, <5>2
      <4> QED BY <4>2, <4>3
    <3>3. \A i \in DOMAIN r : r[i] \in Range(s) /\ r[i].mode # e.mode
      BY <2>4, <3>1
    <3>4. \A x \in Range(r) : x \in Range(s) /\ x.mode # e.mode
      BY <3>3 DEF Range
    <3>5. \A x \in Range(s) : x.mode # e.mode => x \in Range(r)
      BY <3>2 DEF Range
    <3> QED BY <3>4, <3>5
  <2> QED BY <2>2, <2>3, <2>5, <2>6, <2>7, RangeAppend, IncreasingAppend
<1>2. CASE ~ \E i \in DOMAIN s : s[i].mode = e.mode
  <2>1. InsertLatest(s, e) = Append(s, e)
    BY <1>2 DEF InsertLatest
  <2>2. Range(s) = {x \in Range(s) : x.mode # e.mode}
    BY <1>2 DEF Range
  <2> QED BY <2>1, <2>2, RangeAppend, IncreasingAppend
<1> QED BY <1>1, <1>2

(* A filed event has its number in the log. *)
LEMMA FiledInLog ==
    ASSUME NEW d, NEW s, Filed(d, s)
    PROVE  /\ \A i \in DOMAIN d.events : \E j \in DOMAIN s : d.events[i] = s[j] /\ s[j].mode = HISTORICAL
           /\ \A i \in DOMAIN d.latest : \E j \in DOMAIN s :
                  d.latest[i] = s[j] /\ s[j].mode # HISTORICAL /\ LastOfItsKey(s, j)
<1>1. Range(d.events) = {s[i] : i \in {j \in DOMAIN s : s[j].mode = HISTORICAL}}
  BY DEF Filed
<1>2. Range(d.latest) = {s[i] : i \in {j \in DOMAIN s : s[j].mode # HISTORICAL /\ LastOfItsKey(s, j)}}
  BY DEF Filed
<1>3. (\A i \in DOMAIN d.events : d.events[i] \in Range(d.events))
      /\ \A i \in DOMAIN d.latest : d.latest[i] \in Range(d.latest)
  BY DEF Range
<1> HIDE DEF Range
<1> QED BY <1>1, <1>2, <1>3, Zenon

(* To file an event and to log it go together. *)
LEMMA FileKeeps ==
    ASSUME NEW d, NEW s, Filed(d, s), NEW e \in Event, e.id = Len(s) + 1
    PROVE  Filed(File(d, e), Append(s, e))
<1> DEFINE n == Len(s) + 1
           q == Append(s, e)
<1>0. s \in Seq(Event) /\ Len(s) \in Nat /\ DOMAIN s = 1..Len(s)
  BY DEF Filed
<1>1. q \in Seq(Event) /\ Len(q) = n /\ DOMAIN q = DOMAIN s \cup {n} /\ q[n] = e /\ n \notin DOMAIN s
  BY <1>0
<1>2. \A i \in DOMAIN s : q[i] = s[i] /\ i < n
  BY <1>0
<1> HIDE DEF q
<1>3. \A i \in DOMAIN q : q[i].id = i
  BY <1>1, <1>2 DEF Filed
<1>4. \A i \in DOMAIN s : LastOfItsKey(q, i) <=> LastOfItsKey(s, i) /\ s[i].mode # e.mode
  <2> SUFFICES ASSUME NEW i \in DOMAIN s PROVE LastOfItsKey(q, i) <=> LastOfItsKey(s, i) /\ s[i].mode # e.mode
    OBVIOUS
  <2>1. (i + 1)..Len(q) = ((i + 1)..Len(s)) \cup {n} /\ (i + 1)..Len(s) \subseteq DOMAIN s
    BY <1>0, <1>1
  <2> QED BY <1>1, <1>2, <2>1, Zenon DEF LastOfItsKey
<1>5. LastOfItsKey(q, n)
  BY <1>0, <1>1 DEF LastOfItsKey
<1>6. d \in [events : Seq(Event), latest : Seq(Event)] /\ Increasing(d.events) /\ Increasing(d.latest)
  BY DEF Filed
<1>a. \A j \in DOMAIN s : s[j].id < e.id
  BY <1>0 DEF Filed
<1>7. \A i \in DOMAIN d.events : d.events[i].id < e.id
  BY <1>a, FiledInLog
<1>8. \A i \in DOMAIN d.latest : d.latest[i].id < e.id
  BY <1>a, FiledInLog
<1>9. CASE e.mode = HISTORICAL
  <2>1. File(d, e) = [events |-> Append(d.events, e), latest |-> d.latest]
    BY <1>6, <1>9, Zenon DEF File
  <2>2. Increasing(Append(d.events, e)) /\ Append(d.events, e) \in Seq(Event)
        /\ Range(Append(d.events, e)) = Range(d.events) \cup {e}
    BY <1>6, <1>7, IncreasingAppend, RangeAppend
  <2>3. {q[i] : i \in {j \in DOMAIN q : q[j].mode = HISTORICAL}} = Range(d.events) \cup {e}
    <3>1. Range(d.events) = {s[i] : i \in {j \in DOMAIN s : s[j].mode = HISTORICAL}}
      BY DEF Filed
    <3> QED BY <1>1, <1>2, <1>9, <3>1
  <2>4. {q[i] : i \in {j \in DOMAIN q : q[j].mode # HISTORICAL /\ LastOfItsKey(q, j)}} = Range(d.latest)
    <3>1. Range(d.latest) = {s[i] : i \in {j \in DOMAIN s : s[j].mode # HISTORICAL /\ LastOfItsKey(s, j)}}
      BY DEF Filed
    <3> QED BY <1>1, <1>2, <1>4, <1>9, <3>1
  <2> DEFINE f == File(d, e)
  <2>7. f.events = Append(d.events, e) /\ f.latest = d.latest
    BY <2>1, SMTT(30)
  <2>8. f \in [events : Seq(Event), latest : Seq(Event)] /\ Increasing(f.events) /\ Increasing(f.latest)
    BY <1>6, <2>1, <2>7, <2>2, <2>3, <2>4
  <2> HIDE DEF f
  <2>9. Filed(f, q)
    BY <1>1, <1>3, <2>7, <2>8, <2>2, <2>3, <2>4, Zenon DEF Filed
  <2> QED BY <2>9 DEF f, q
<1>10. CASE e.mode # HISTORICAL
  <2>1. File(d, e) = [events |-> d.events, latest |-> InsertLatest(d.latest, e)]
    BY <1>6, <1>10 DEF File
  <2>2. \A i, j \in DOMAIN d.latest : d.latest[i].mode = d.latest[j].mode => i = j
    <3> SUFFICES ASSUME NEW i \in DOMAIN d.latest, NEW j \in DOMAIN d.latest,
                        d.latest[i].mode = d.latest[j].mode, i # j
                 PROVE  FALSE
      OBVIOUS
    <3>1. PICK k \in DOMAIN s : d.latest[i] = s[k] /\ LastOfItsKey(s, k)
      BY FiledInLog
    <3>2. PICK l \in DOMAIN s : d.latest[j] = s[l] /\ LastOfItsKey(s, l)
      BY FiledInLog
    <3>3. k = l
      BY <1>0, <3>1, <3>2, SMTT(30) DEF LastOfItsKey
    <3>4. i \in Nat /\ j \in Nat /\ d.latest[i].id = d.latest[j].id /\ s[k].id = k /\ k \in Nat
      BY <1>0, <1>6, <3>1, <3>2, <3>3, SMTT(30) DEF Filed
    <3> QED BY <1>6, <3>1, <3>4 DEF Increasing
  <2>3. /\ InsertLatest(d.latest, e) \in Seq(Event) /\ Increasing(InsertLatest(d.latest, e))
        /\ Range(InsertLatest(d.latest, e)) = {x \in Range(d.latest) : x.mode # e.mode} \cup {e}
    BY <1>6, <1>8, <2>2, InsertKeepsOrder
  <2>4. {q[i] : i \in {j \in DOMAIN q : q[j].mode = HISTORICAL}} = Range(d.events)
    <3>1. Range(d.events) = {s[i] : i \in {j \in DOMAIN s : s[j].mode = HISTORICAL}}
      BY DEF Filed
    <3> QED BY <1>1, <1>2, <1>10, <3>1
  <2>5. {q[i] : i \in {j \in DOMAIN q : q[j].mode # HISTORICAL /\ LastOfItsKey(q, j)}}
            = {x \in Range(d.latest) : x.mode # e.mode} \cup {e}
    <3>1. Range(d.latest) = {s[i] : i \in {j \in DOMAIN s : s[j].mode # HISTORICAL /\ LastOfItsKey(s, j)}}
      BY DEF Filed
    <3> QED BY <1>1, <1>2, <1>4, <1>5, <1>10, <3>1, SMTT(30)
  <2> DEFINE f == File(d, e)
  <2>7. f.events = d.events /\ f.latest = InsertLatest(d.latest, e)
    BY <2>1, SMTT(30)
  <2>8. f \in [events : Seq(Event), latest : Seq(Event)] /\ Increasing(f.events) /\ Increasing(f.latest)
    BY <1>6, <2>1, <2>7, <2>3, <2>4, <2>5
  <2> HIDE DEF f
  <2>9. Filed(f, q)
    BY <1>1, <1>3, <2>7, <2>8, <2>3, <2>4, <2>5, Zenon DEF Filed
  <2> QED BY <2>9 DEF f, q
<1> QED BY <1>9, <1>10

-----------------------------------------------------------------------------
(* The inductive invariant *)

(* A task with nothing filed. *)
LEMMA NothingFiled ==
    /\ Filed(NoData, << >>)
    /\ NoData \in [events : Seq(Event), latest : Seq(Event)]
    /\ Nothing \in [Task -> Seq(Event)]
    /\ Len(Agenda(NoData)) = 0
<1>1. NoData.events = << >> /\ NoData.latest = << >> /\ DOMAIN << >> = {} /\ << >> \in Seq(Event)
  BY DEF NoData
<1>2. Range(<< >>) = {}
  BY DEF Range
<1>3. NoData \in [events : Seq(Event), latest : Seq(Event)]
  BY DEF NoData
<1>4. Increasing(<< >>)
  BY DEF Increasing
<1>5. Filed(NoData, << >>)
  BY <1>1, <1>2, <1>3, <1>4, Zenon DEF Filed
<1> QED BY <1>1, <1>3, <1>5 DEF Nothing, Agenda

(* The invariant holds before anything is submitted. *)
LEMMA TMInitInv == TMInit => TMInv
<1> SUFFICES ASSUME TMInit PROVE TMInv
  OBVIOUS
<1>1. st \in [Task -> States] /\ st = Idle /\ phase = "collect"
  BY DEF TMInit, Init, Idle, States
<1>2. \A t \in Task : data[t] = NoData /\ log[t] = << >> /\ handled[t] = << >>
  BY DEF TMInit, Nothing
<1>3. /\ data \in [Task -> [events : Seq(Event), latest : Seq(Event)]]
      /\ log \in [Task -> Seq(Event)] /\ handled \in [Task -> Seq(Event)] /\ handled = Nothing
  BY NothingFiled DEF TMInit
<1>4. \A t \in Task : Filed(data[t], log[t])
  BY <1>2, NothingFiled
<1>5. \A t \in Task : /\ Len(handled[t]) <= Len(Agenda(data[t]))
                      /\ \A i \in DOMAIN handled[t] : handled[t][i] = Agenda(data[t])[i]
  BY <1>2, NothingFiled
<1> QED BY <1>1, <1>3, <1>4, <1>5 DEF TMInv

(* The events of a task are one sequence. *)
LEMMA AgendaType ==
    ASSUME NEW d \in [events : Seq(Event), latest : Seq(Event)]
    PROVE  Agenda(d) \in Seq(Event) /\ Len(Agenda(d)) \in Nat
BY DEF Agenda

(* A step that leaves the filed events alone, starts no handler's success and
   processes nothing. *)
LEMMA QuietStep ==
    ASSUME TMInv, st' \in [Task -> States], phase' \in {"collect", "process"}, phase' = "collect" => st' = Idle,
           UNCHANGED tmVars, phase' = "collect" => handled = Nothing,
           \A t \in Task : phase' = "process" /\ st'[t] = "ok" => Len(handled[t]) = Len(Agenda(data[t]))
    PROVE  TMInv'
BY Zenon DEF TMInv, tmVars

(* A step after which the manager collects, and nothing is handled. *)
LEMMA CollectStep ==
    ASSUME phase' = "collect", st' = Idle, handled' = Nothing,
           data' \in [Task -> [events : Seq(Event), latest : Seq(Event)]], log' \in [Task -> Seq(Event)],
           \A t \in Task : Filed(data'[t], log'[t])
    PROVE  TMInv'
<1>1. st' \in [Task -> States] /\ handled' \in [Task -> Seq(Event)]
  BY NothingFiled DEF States, Idle
<1>2. ASSUME NEW t \in Task
      PROVE  /\ Len(handled'[t]) <= Len(Agenda(data'[t]))
             /\ \A i \in DOMAIN handled'[t] : handled'[t][i] = Agenda(data'[t])[i]
  <2>1. handled'[t] = << >>
    BY DEF Nothing
  <2>2. data'[t] \in [events : Seq(Event), latest : Seq(Event)]
    BY Zenon
  <2>3. Len(Agenda(data'[t])) \in Nat
    BY <2>2, AgendaType, Zenon
  <2>4. Len(<< >>) = 0 /\ DOMAIN << >> = {}
    OBVIOUS
  <2>5. Len(<< >>) <= Len(Agenda(data'[t]))
    BY <2>3, <2>4
  <2> QED BY <2>1, <2>4, <2>5, Zenon
<1> QED BY <1>1, <1>2, Zenon DEF TMInv

(* Files an event. *)
LEMMA AddStep ==
    ASSUME TMInv, NEW t \in Task, NEW deps \in DepLists, NEW mode \in Modes,
           add_parallelized_event_with_dependencies(t, deps, mode)
    PROVE  TMInv'
<1> DEFINE e == NewEvent(t, mode)
<1>1. UNCHANGED <<phase, st, handled>> /\ phase = "collect" /\ handled = Nothing
  BY Zenon DEF add_parallelized_event_with_dependencies, add_dependencies_to_existing,
         add_task_with_dependencies, execVars, TMInv
<1>2. data' = [data EXCEPT ![t] = File(@, e)] /\ log' = [log EXCEPT ![t] = Append(@, e)]
  BY DEF add_parallelized_event_with_dependencies
<1>3. e \in Event /\ e.id = Len(log[t]) + 1
  <2>1. log[t] \in Seq(Event)
    BY Zenon DEF TMInv
  <2>2. Len(log[t]) \in Nat
    BY <2>1
  <2> QED BY <2>2 DEF NewEvent, Event
<1> HIDE DEF e
<1>4. Filed(File(data[t], e), Append(log[t], e))
  BY <1>3, FileKeeps, Zenon DEF TMInv
<1>5. File(data[t], e) \in [events : Seq(Event), latest : Seq(Event)] /\ Append(log[t], e) \in Seq(Event)
  BY <1>4, Zenon DEF Filed
<1>6. data' \in [Task -> [events : Seq(Event), latest : Seq(Event)]] /\ log' \in [Task -> Seq(Event)]
  BY <1>2, <1>5, Zenon DEF TMInv
<1>7. \A u \in Task : Filed(data'[u], log'[u])
  BY <1>2, <1>4 DEF TMInv
<1>8. st = Idle
  BY <1>1, Zenon DEF TMInv
<1> QED BY <1>1, <1>6, <1>7, <1>8, CollectStep, Zenon

(* The filed events go, and with them what was handled. *)
LEMMA EmptyStep ==
    ASSUME st' = Idle, phase' = "collect", data' = [t \in Task |-> NoData],
           log' = Nothing, handled' = Nothing
    PROVE  TMInv'
<1>2. \A t \in Task : data'[t] = NoData /\ log'[t] = << >> /\ handled'[t] = << >>
  BY DEF Nothing
<1>3. /\ data' \in [Task -> [events : Seq(Event), latest : Seq(Event)]]
      /\ log' \in [Task -> Seq(Event)] /\ handled' \in [Task -> Seq(Event)]
  BY NothingFiled
<1>4. \A t \in Task : Filed(data'[t], log'[t])
  BY <1>2, NothingFiled
<1>5. \A t \in Task : /\ Len(handled'[t]) <= Len(Agenda(data'[t]))
                      /\ \A i \in DOMAIN handled'[t] : handled'[t][i] = Agenda(data'[t])[i]
  BY <1>2, NothingFiled
<1>6. st' \in [Task -> States]
  BY DEF Idle, States
<1> QED BY <1>3, <1>4, <1>5, <1>6 DEF TMInv

(* Processes the next event of a task. *)
LEMMA ProcessStep ==
    ASSUME TMInv, NEW t \in Task, ProcessEvent(t)
    PROVE  TMInv'
<1> DEFINE a == Agenda(data[t])
           h == handled[t]
           n == Len(h) + 1
<1>1. UNCHANGED <<phase, st, data, log>> /\ st[t] = "running" /\ phase # "collect"
  BY Zenon DEF ProcessEvent, vars, TMInv, Idle
<1>2. a \in Seq(Event) /\ Len(a) \in Nat /\ h \in Seq(Event) /\ Len(h) \in Nat /\ Len(h) < Len(a)
  BY AgendaType DEF TMInv, ProcessEvent
<1>3. handled' = [handled EXCEPT ![t] = Append(h, a[n])]
  BY SMTT(30) DEF ProcessEvent, TMInv
<1>4. \A i \in DOMAIN h : h[i] = a[i]
  BY DEF TMInv
<1> HIDE DEF a, h
<1>5. a[n] \in Event
  BY <1>2
<1>6. Append(h, a[n]) \in Seq(Event) /\ Len(Append(h, a[n])) <= Len(a)
      /\ \A i \in DOMAIN Append(h, a[n]) : Append(h, a[n])[i] = a[i]
  BY <1>2, <1>4, <1>5
<1>7. handled' \in [Task -> Seq(Event)]
  BY <1>3, <1>6 DEF TMInv
<1>8. \A u \in Task : /\ Len(handled'[u]) <= Len(Agenda(data[u]))
                      /\ \A i \in DOMAIN handled'[u] : handled'[u][i] = Agenda(data[u])[i]
  <2> SUFFICES ASSUME NEW u \in Task
               PROVE  /\ Len(handled'[u]) <= Len(Agenda(data[u]))
                      /\ \A i \in DOMAIN handled'[u] : handled'[u][i] = Agenda(data[u])[i]
    BY SMTT(30)
  <2>1. CASE u = t
    BY <1>3, <1>6, <2>1, SMTT(30) DEF a, TMInv
  <2>2. CASE u # t
    BY <1>3, <2>2, SMTT(30) DEF TMInv
  <2> QED BY <2>1, <2>2
<1>9. \A u \in Task : st[u] = "ok" /\ phase = "process" => Len(handled'[u]) = Len(Agenda(data[u]))
  BY <1>1, <1>3 DEF TMInv
<1> QED BY <1>1, <1>7, <1>8, <1>9, Zenon DEF TMInv

(* Every step of the manager keeps the invariant. *)
LEMMA TMStep == TMInv /\ [TMNext]_allVars => TMInv'
<1> SUFFICES ASSUME TMInv, [TMNext]_allVars PROVE TMInv'
  OBVIOUS
<1>t. /\ phase \in {"collect", "process"} /\ st \in [Task -> States] /\ (phase = "collect" => st = Idle)
      /\ (phase = "collect" => handled = Nothing)
      /\ \A t \in Task : phase = "process" /\ st[t] = "ok" => Len(handled[t]) = Len(Agenda(data[t]))
  BY DEF TMInv
<1>1. ASSUME NEW t \in Task, NEW deps \in DepLists, NEW mode \in Modes,
             add_parallelized_event_with_dependencies(t, deps, mode)
      PROVE  TMInv'
  BY <1>1, AddStep
<1>2. CASE clear_tasks
  <2>1. phase' = "collect" /\ st' = Idle /\ handled' = Nothing /\ data' = [t \in Task |-> NoData] /\ log' = Nothing
    BY <1>2, <1>t DEF clear_tasks, clear, execVars
  <2> QED BY <2>1, EmptyStep
<1>3. CASE process_all
  <2>1. phase' = "process" /\ handled = Nothing /\ st' = Spawn(level', Idle) /\ UNCHANGED tmVars
    BY <1>3, <1>t DEF process_all, process_tasks
  <2>2. st' \in [Task -> States] /\ \A t \in Task : st'[t] # "ok"
    BY <2>1 DEF Spawn, Idle, States
  <2> QED BY <2>1, <2>2, QuietStep
<1>4. ASSUME NEW t \in Task, ProcessEvent(t) PROVE TMInv'
  BY <1>4, ProcessStep
<1>5. ASSUME NEW t \in Task, AcquirePermit(t), UNCHANGED tmVars PROVE TMInv'
  <2>1. phase = "process" /\ phase' = "process" /\ st' = [st EXCEPT ![t] = "running"]
    BY <1>5 DEF AcquirePermit
  <2>2. st' \in [Task -> States] /\ \A u \in Task : st'[u] = "ok" => st[u] = "ok"
    BY <1>t, <2>1 DEF States
  <2> QED BY <1>5, <1>t, <2>1, <2>2, QuietStep
<1>6. ASSUME NEW t \in Task, NEW outcome \in Finished, HandlerReturns(t, outcome) PROVE TMInv'
  <2>1. phase = "process" /\ phase' = "process" /\ st' = [st EXCEPT ![t] = outcome] /\ UNCHANGED tmVars
        /\ (outcome = "ok" => Len(handled[t]) = Len(Agenda(data[t])))
    BY <1>6 DEF HandlerReturns, HandlerEnds
  <2>2. st' \in [Task -> States]
    BY <1>t, <2>1 DEF States
  <2>3. \A u \in Task : st'[u] = "ok" => Len(handled[u]) = Len(Agenda(data[u]))
    BY <1>t, <2>1
  <2> QED BY <2>1, <2>2, <2>3, QuietStep
<1>7. CASE StartNextLevel /\ UNCHANGED tmVars
  <2>1. phase = "process" /\ phase' = "process" /\ st' = Spawn(level', st)
    BY <1>7 DEF StartNextLevel, LevelSucceeded
  <2>2. st' \in [Task -> States] /\ \A u \in Task : st'[u] = "ok" => st[u] = "ok"
    BY <1>t, <2>1 DEF States, Spawn
  <2> QED BY <1>7, <1>t, <2>1, <2>2, QuietStep
<1>8. CASE ReturnsError
  <2>1. phase' = "collect" /\ st' = Idle /\ handled' = Nothing /\ UNCHANGED <<data, log>>
    BY <1>8 DEF ReturnsError, ReturnJoinError, ReturnTaskError
  <2>2. /\ data' \in [Task -> [events : Seq(Event), latest : Seq(Event)]] /\ log' \in [Task -> Seq(Event)]
        /\ \A t \in Task : Filed(data'[t], log'[t])
    BY <2>1, Zenon DEF TMInv
  <2> QED BY <2>1, <2>2, CollectStep, Zenon
<1>9. CASE ReturnsOk
  <2>1. phase' = "collect" /\ st' = Idle /\ handled' = Nothing /\ data' = [t \in Task |-> NoData] /\ log' = Nothing
    BY <1>9 DEF ReturnsOk, ReturnOk
  <2> QED BY <2>1, EmptyStep
<1>10. CASE Orphans /\ UNCHANGED tmVars
  <2>1. UNCHANGED <<phase, st>>
    BY <1>10 DEF Orphans, OrphanAcquires, OrphanEnds
  <2> QED BY <1>10, <1>t, <2>1, QuietStep
<1>11. CASE UNCHANGED allVars
  <2>1. UNCHANGED <<phase, st>> /\ UNCHANGED tmVars
    BY <1>11 DEF allVars, vars
  <2> QED BY <1>t, <2>1, QuietStep
<1>12. CASE TMProcess
  BY <1>4, <1>5, <1>6, <1>7, <1>8, <1>9, <1>12, SMTT(30) DEF TMProcess
<1> QED BY <1>1, <1>2, <1>3, <1>10, <1>11, <1>12 DEF TMNext

(* An agenda holds what is to be processed, in the order of Precedes. *)
LEMMA AgendaOrdered ==
    ASSUME NEW d, NEW s, Filed(d, s)
    PROVE  /\ Range(Agenda(d)) = ToProcess(s)
           /\ \A i, j \in DOMAIN Agenda(d) : i < j => Precedes(Agenda(d)[i], Agenda(d)[j])
           /\ Range(Agenda(d)) \subseteq Range(s)
<1> DEFINE a == Agenda(d)
           m == Len(d.events)
<1>1. d.events \in Seq(Event) /\ d.latest \in Seq(Event) /\ m \in Nat /\ Len(d.latest) \in Nat
      /\ Increasing(d.events) /\ Increasing(d.latest)
  BY DEF Filed
<1>2. /\ a \in Seq(Event) /\ DOMAIN a = 1..(m + Len(d.latest))
      /\ \A i \in 1..m : a[i] = d.events[i]
      /\ \A i \in DOMAIN a : i > m => i - m \in 1..Len(d.latest) /\ a[i] = d.latest[i - m]
  BY <1>1, ConcatEntries, Zenon DEF Agenda
<1>3. \A i \in 1..Len(d.latest) : m + i \in DOMAIN a /\ a[m + i] = d.latest[i]
  BY <1>1, ConcatEntries, Zenon DEF Agenda
<1> HIDE DEF a
<1>4. DOMAIN d.events = 1..m /\ DOMAIN d.latest = 1..Len(d.latest)
  BY <1>1
<1> HIDE DEF m
<1>5. Range(a) = Range(d.events) \cup Range(d.latest)
  <2>1. \A i \in DOMAIN a : a[i] \in Range(d.events) \cup Range(d.latest)
    <3> SUFFICES ASSUME NEW i \in DOMAIN a PROVE a[i] \in Range(d.events) \cup Range(d.latest)
      OBVIOUS
    <3>1. CASE i > m
      BY <1>2, <1>4, <3>1 DEF Range
    <3>2. CASE ~(i > m)
      <4>1. i \in 1..m
        BY <1>1, <1>2, <3>2
      <4> QED BY <1>2, <1>4, <4>1 DEF Range
    <3> QED BY <3>1, <3>2
  <2>2. \A i \in DOMAIN d.events : i \in DOMAIN a /\ a[i] = d.events[i]
    BY <1>1, <1>2, <1>4
  <2>3. \A i \in DOMAIN d.latest : m + i \in DOMAIN a /\ a[m + i] = d.latest[i]
    BY <1>3, <1>4
  <2>4. \A x \in Range(a) : x \in Range(d.events) \cup Range(d.latest)
    BY <2>1 DEF Range
  <2>5. \A x \in Range(d.events) : x \in Range(a)
    BY <2>2 DEF Range
  <2>6. \A x \in Range(d.latest) : x \in Range(a)
    BY <2>3 DEF Range
  <2> QED BY <2>4, <2>5, <2>6
<1>6. Range(a) = ToProcess(s) /\ Range(a) \subseteq Range(s)
  <2>1. Range(d.events) = {s[i] : i \in {j \in DOMAIN s : s[j].mode = HISTORICAL}}
    BY DEF Filed
  <2>2. Range(d.latest) = {s[i] : i \in {j \in DOMAIN s : s[j].mode # HISTORICAL /\ LastOfItsKey(s, j)}}
    BY DEF Filed
  <2>3. Range(a) = ToProcess(s)
    BY <1>5, <2>1, <2>2 DEF ToProcess
  <2> QED BY <2>3 DEF ToProcess, Range
<1>7. \A i, j \in DOMAIN a : i < j => Precedes(a[i], a[j])
  <2> SUFFICES ASSUME NEW i \in DOMAIN a, NEW j \in DOMAIN a, i < j PROVE Precedes(a[i], a[j])
    OBVIOUS
  <2>1. (\A k \in DOMAIN d.events : d.events[k].mode = HISTORICAL)
        /\ \A k \in DOMAIN d.latest : d.latest[k].mode # HISTORICAL
    BY FiledInLog
  <2>2. i \in Nat /\ j \in Nat
    BY <1>1, <1>2
  <2>3. CASE j <= m
    <3>1. i \in 1..m /\ j \in 1..m
      BY <1>1, <1>2, <2>2, <2>3, SMTT(30)
    <3>2. a[i] = d.events[i] /\ a[j] = d.events[j] /\ d.events[i].id < d.events[j].id
      BY <1>1, <1>2, <1>4, <3>1, SMTT(30) DEF Increasing
    <3> QED BY <1>4, <2>1, <3>1, <3>2 DEF Precedes
  <2>4. CASE i > m
    <3>1. i - m \in 1..Len(d.latest) /\ j - m \in 1..Len(d.latest) /\ i - m < j - m
          /\ a[i] = d.latest[i - m] /\ a[j] = d.latest[j - m]
      BY <1>1, <1>2, <2>2, <2>4, SMTT(30)
    <3>2. d.latest[i - m].id < d.latest[j - m].id
      BY <1>1, <1>4, <3>1, SMTT(30) DEF Increasing
    <3> QED BY <1>4, <2>1, <3>1, <3>2, SMTT(30) DEF Precedes
  <2>5. CASE j > m /\ ~(i > m)
    <3>1. i \in 1..m /\ j - m \in 1..Len(d.latest) /\ a[i] = d.events[i] /\ a[j] = d.latest[j - m]
      BY <1>1, <1>2, <2>2, <2>5
    <3> QED BY <1>4, <2>1, <3>1 DEF Precedes
  <2> QED BY <1>1, <2>2, <2>3, <2>4, <2>5
<1> QED BY <1>6, <1>7, SMTT(30) DEF a

(* The invariant says that what succeeded was handled as submitted. *)
LEMMA TMInvImplies == TMInv => HandledAsSubmitted
<1> SUFFICES ASSUME TMInv, NEW t \in Task
             PROVE  /\ phase = "process" /\ st[t] = "ok" =>
                         /\ Range(handled[t]) = ToProcess(log[t])
                         /\ \A i, j \in DOMAIN handled[t] : i < j => Precedes(handled[t][i], handled[t][j])
                    /\ Range(Agenda(data[t])) \subseteq Range(log[t])
  BY DEF HandledAsSubmitted
<1>1. Filed(data[t], log[t]) /\ handled[t] \in Seq(Event) /\ Agenda(data[t]) \in Seq(Event)
  BY AgendaType, Zenon DEF TMInv
<1>2. ASSUME phase = "process", st[t] = "ok" PROVE handled[t] = Agenda(data[t])
  <2>1. Len(handled[t]) = Len(Agenda(data[t])) /\ \A i \in DOMAIN handled[t] : handled[t][i] = Agenda(data[t])[i]
    BY <1>2 DEF TMInv
  <2>2. DOMAIN handled[t] = DOMAIN Agenda(data[t])
    BY <1>1, <2>1
  <2> QED BY <1>1, <2>1, <2>2, SMTT(30)
<1> QED BY <1>1, <1>2, AgendaOrdered, Zenon

(* When a handler has returned Ok it has processed the historical events of
   its task and the last event of each key, once each and in the order of
   submission, whatever the batch, the network and the failures before. *)
THEOREM HandlersProcessAll == TMSpec => []HandledAsSubmitted
<1>1. TMInit => TMInv
  BY TMInitInv
<1>2. TMInv /\ [TMNext]_allVars => TMInv'
  BY TMStep
<1>3. TMInv => HandledAsSubmitted
  BY TMInvImplies
<1> QED BY <1>1, <1>2, <1>3, PTL DEF TMSpec
=============================================================================
