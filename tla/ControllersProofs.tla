-------------------------- MODULE ControllersProofs --------------------------
(***************************************************************************)
(* For any synchronisations, controllers and restarts: as long as no round *)
(* is rolled back, no controller before the cursor is missing              *)
(* (NothingSkipped).                                                       *)
(***************************************************************************)
EXTENDS Controllers, TLAPS

TypeOK ==
    /\ api \in Nat /\ cursor \in Nat
    /\ sync \in [Slot -> {"idle", "started", "writing"}]
    /\ left \in [Slot -> Seq(Nat)]

(* The controllers up to some time, all of them. *)
Full(S) == \E k \in Nat : S = 1 .. k

(* A run of consecutive times, of which the first comes at the latest after those
   in S. *)
Follows(run, S) ==
    /\ run # << >>
    /\ \A i \in DOMAIN run : run[i] = run[1] + i - 1
    /\ run[1] > 0
    /\ 1 .. run[1] - 1 \subseteq S

(* Everything before what a synchronisation has left was written: by this one, by
   one before it, or by one that runs beside it. *)
LeftInv == \A s \in Slot : sync[s] = "writing" => Follows(left[s], db \cup tx)

(* Both what is committed and what will be is full: a commit takes the whole
   transaction, and a restart drops the whole of it. *)
StoreInv ==
    /\ Full(db) /\ Full(db \cup tx)
    /\ 1 .. cursor \subseteq db \cup tx
    /\ phase # "rollback"

IInv == TypeOK /\ LeftInv /\ StoreInv

-----------------------------------------------------------------------------
(* The cursor of a full table is its last controller. *)
LEMMA CursorOfFull ==
    ASSUME NEW k \in Nat
    PROVE  CursorOf(1 .. k) = k
<1>1. k \in (1 .. k) \cup {0} /\ \A y \in (1 .. k) \cup {0} : k >= y
  OBVIOUS
<1>2. ASSUME NEW x \in (1 .. k) \cup {0}, \A y \in (1 .. k) \cup {0} : x >= y
      PROVE  x = k
  BY <1>2
<1>. QED
  BY <1>1, <1>2 DEF CursorOf, Max

(* What is fetched follows what was written. *)
LEMMA FetchFollows ==
    ASSUME TypeOK, StoreInv, fetch_controllers # << >>
    PROVE  Follows(fetch_controllers, db \cup tx)
<1>1. DOMAIN fetch_controllers = 1 .. api - cursor
      /\ \A i \in 1 .. api - cursor : fetch_controllers[i] = cursor + i
  BY DEF fetch_controllers
<1>2. fetch_controllers \in Seq(Nat) /\ 1 \in DOMAIN fetch_controllers
  <2>1. fetch_controllers \in Seq(Nat)
    <3>1. CASE api - cursor \in Nat
      BY <3>1 DEF fetch_controllers, TypeOK
    <3>2. CASE api - cursor \notin Nat
      <4>1. 1 .. api - cursor = {} /\ 1 .. 0 = {}
        BY <3>2 DEF TypeOK
      <4>. QED
        BY <4>1 DEF fetch_controllers
    <3>. QED
      BY <3>1, <3>2
  <2>2. Len(fetch_controllers) \in Nat /\ DOMAIN fetch_controllers = 1 .. Len(fetch_controllers)
        /\ Len(fetch_controllers) # 0
    BY <2>1
  <2>. QED
    BY <2>1, <2>2
<1>3. fetch_controllers[1] = cursor + 1
  BY <1>1, <1>2
<1>. QED
  BY <1>1, <1>2, <1>3 DEF Follows, TypeOK, StoreInv

(* Writing the first of a run leaves a full set, and the rest of the run follows it. *)
LEMMA WriteFirst ==
    ASSUME NEW run \in Seq(Nat), NEW S, Follows(run, S), Full(S)
    PROVE  /\ Head(run) \in Nat
           /\ Full(S \cup {Head(run)})
           /\ 1 .. Head(run) \subseteq S \cup {Head(run)}
           /\ Len(run) # 1 => Follows(Tail(run), S \cup {Head(run)})
<1>1. Len(run) \in Nat /\ Len(run) > 0 /\ DOMAIN run = 1 .. Len(run) /\ Head(run) = run[1]
  BY DEF Follows
<1>2. run[1] \in Nat
  BY <1>1
<1>3. 1 .. run[1] - 1 \subseteq S /\ run[1] > 0 /\ \A i \in 1 .. Len(run) : run[i] = run[1] + i - 1
  BY <1>1 DEF Follows
<1>4. 1 .. run[1] \subseteq S \cup {run[1]}
  BY <1>2, <1>3
<1>5. Full(S \cup {run[1]})
  <2>1. PICK k \in Nat : S = 1 .. k
    BY DEF Full
  <2>2. CASE run[1] <= k
    <3>1. S \cup {run[1]} = 1 .. k
      BY <1>2, <1>3, <2>1, <2>2
    <3>. QED
      BY <3>1 DEF Full
  <2>3. CASE run[1] > k
    <3>1. run[1] = k + 1
      <4>1. ASSUME run[1] # k + 1
            PROVE  FALSE
        <5>1. k + 1 \in 1 .. run[1] - 1
          BY <1>2, <2>1, <2>3, <4>1
        <5>2. k + 1 \in 1 .. k
          BY <1>3, <2>1, <5>1
        <5>. QED
          BY <5>2
      <4>. QED
        BY <4>1
    <3>2. S \cup {run[1]} = 1 .. k + 1
      BY <2>1, <3>1
    <3>. QED
      BY <2>1, <3>2 DEF Full
  <2>. QED
    BY <1>2, <2>1, <2>2, <2>3
<1>6. ASSUME Len(run) # 1
      PROVE  Follows(Tail(run), S \cup {run[1]})
  <2>. DEFINE rest == Tail(run)
  <2>1. /\ rest \in Seq(Nat) /\ Len(rest) = Len(run) - 1 /\ DOMAIN rest = 1 .. Len(run) - 1
        /\ \A i \in 1 .. Len(run) - 1 : rest[i] = run[i + 1]
    BY <1>1, <1>6
  <2>. HIDE DEF rest
  <2>2. 1 \in DOMAIN rest
    BY <1>1, <1>6, <2>1
  <2>3. \A i \in DOMAIN rest : rest[i] = run[1] + i
    <3>. SUFFICES ASSUME NEW i \in DOMAIN rest
                  PROVE  rest[i] = run[1] + i
      OBVIOUS
    <3>1. i \in Nat /\ i + 1 \in 1 .. Len(run) /\ rest[i] = run[i + 1]
      BY <1>1, <2>1
    <3>2. run[i + 1] = run[1] + (i + 1) - 1
      BY <1>3, <3>1
    <3>. QED
      BY <1>2, <3>1, <3>2
  <2>4. rest[1] = run[1] + 1
    BY <2>2, <2>3
  <2>5. \A i \in DOMAIN rest : rest[i] = rest[1] + i - 1
    BY <1>1, <1>2, <2>1, <2>3, <2>4
  <2>6. rest[1] > 0 /\ 1 .. rest[1] - 1 \subseteq S \cup {run[1]}
    BY <1>2, <1>4, <2>4
  <2>7. rest # << >>
    BY <2>2
  <2>8. Follows(rest, S \cup {run[1]})
    BY <2>5, <2>6, <2>7 DEF Follows
  <2>. QED
    BY <2>8 DEF rest
<1>. QED
  BY <1>1, <1>2, <1>4, <1>5, <1>6

(* A run that follows a set follows a larger one. *)
LEMMA FollowsLarger ==
    ASSUME NEW run, NEW S, NEW T, Follows(run, S), S \subseteq T
    PROVE  Follows(run, T)
  BY DEF Follows

-----------------------------------------------------------------------------
(* Every action keeps the invariant as long as no round is rolled back. *)
LEMMA IInvStep ==
    ASSUME IInv, ~failing, [Next]_vars
    PROVE  IInv'
<1>. USE DEF IInv
<1>2. ASSUME NEW s \in Slot, Fetch(s)
      PROVE  IInv'
  <2>1. CASE fetch_controllers = << >>
    <3>1. TypeOK'
      BY <1>2, <2>1 DEF Fetch, TypeOK
    <3>2. \A r \in Slot : sync'[r] = "writing" => r # s /\ sync[r] = "writing" /\ left'[r] = left[r]
      BY <1>2, <2>1 DEF Fetch, TypeOK
    <3>. QED
      BY <1>2, <3>1, <3>2 DEF Fetch, LeftInv, StoreInv
  <2>2. CASE fetch_controllers # << >>
    <3>1. Follows(fetch_controllers, db \cup tx)
      BY <2>2, FetchFollows
    <3>2. fetch_controllers \in Seq(Nat)
      BY <2>2, FetchFollows DEF fetch_controllers, TypeOK
    <3>3. TypeOK'
      BY <1>2, <2>2, <3>2 DEF Fetch, TypeOK
    <3>4. \A r \in Slot : r # s => sync'[r] = sync[r] /\ left'[r] = left[r]
      BY <1>2 DEF Fetch, TypeOK
    <3>5. left'[s] = fetch_controllers
      BY <1>2 DEF Fetch, TypeOK
    <3>. QED
      BY <1>2, <3>1, <3>3, <3>4, <3>5 DEF Fetch, LeftInv, StoreInv
  <2>. QED
    BY <2>1, <2>2
<1>3. ASSUME NEW s \in Slot, FetchFails(s)
      PROVE  IInv'
  BY <1>3 DEF FetchFails, TypeOK, LeftInv, StoreInv
<1>4. ASSUME NEW s \in Slot, AddController(s)
      PROVE  IInv'
  <2>1. left[s] \in Seq(Nat) /\ Follows(left[s], db \cup tx) /\ Full(db \cup tx)
    BY <1>4 DEF AddController, TypeOK, LeftInv, StoreInv
  <2>2. db' \cup tx' = (db \cup tx) \cup {Head(left[s])}
    BY <1>4 DEF AddController
  <2>3. cursor' = Head(left[s]) /\ cursor' \in Nat
    BY <1>4, <2>1, WriteFirst DEF AddController, CursorAfter
  <2>4. Tail(left[s]) \in Seq(Nat)
    BY <2>1 DEF Follows
  <2>5. TypeOK'
    BY <1>4, <2>3, <2>4 DEF AddController, TypeOK
  <2>6. StoreInv'
    BY <1>4, <2>1, <2>2, <2>3, WriteFirst DEF AddController, StoreInv
  <2>7. ASSUME NEW r \in Slot, sync'[r] = "writing"
        PROVE  Follows(left'[r], db' \cup tx')
    <3>1. CASE r = s
      <4>1. Len(left[s]) # 1 /\ left'[r] = Tail(left[s])
        BY <1>4, <2>7, <3>1 DEF AddController, TypeOK
      <4>2. Follows(Tail(left[s]), (db \cup tx) \cup {Head(left[s])})
        BY <2>1, <4>1, WriteFirst
      <4>. QED
        BY <2>2, <4>1, <4>2
    <3>2. CASE r # s
      <4>1. sync[r] = "writing" /\ left'[r] = left[r]
        BY <1>4, <2>7, <3>2 DEF AddController, TypeOK
      <4>2. Follows(left[r], db \cup tx)
        BY <4>1 DEF LeftInv
      <4>. QED
        BY <2>2, <4>1, <4>2, FollowsLarger
    <3>. QED
      BY <3>1, <3>2
  <2>. QED
    BY <2>5, <2>6, <2>7 DEF LeftInv
<1>5. ASSUME NEW s \in Slot, Abort(s)
      PROVE  IInv'
  <2>1. TypeOK'
    BY <1>5 DEF Abort, TypeOK
  <2>2. \A r \in Slot : sync'[r] = "writing" => sync[r] = "writing" /\ left'[r] = left[r]
    BY <1>5 DEF Abort, TypeOK
  <2>. QED
    BY <1>5, <2>1, <2>2 DEF Abort, LeftInv, StoreInv
<1>6. ASSUME NEW s \in Slot, StartRound(s)
      PROVE  IInv'
  BY <1>6 DEF StartRound, TypeOK, LeftInv, StoreInv
<1>7. ASSUME NEW ok \in BOOLEAN, FetchEvents(ok)
      PROVE  IInv'
  BY <1>7 DEF FetchEvents, TypeOK, LeftInv, StoreInv
<1>8. ASSUME NEW ok \in BOOLEAN, Process(ok)
      PROVE  IInv'
  BY <1>8 DEF Process, TypeOK, LeftInv, StoreInv
<1>9. CASE Execute
  <2>1. db' \cup tx' = db \cup tx /\ db' = db \cup tx
    BY <1>9 DEF Execute
  <2>2. UNCHANGED <<api, cursor, sync, left>> /\ phase' = "idle"
    BY <1>9 DEF Execute
  <2>3. LeftInv'
    BY <2>1, <2>2 DEF LeftInv
  <2>4. StoreInv'
    BY <2>1, <2>2 DEF StoreInv
  <2>. QED
    BY <2>2, <2>3, <2>4 DEF TypeOK
<1>10. CASE Rollback
  BY <1>10 DEF Rollback, StoreInv
<1>11. CASE Restart
  <2>1. PICK k \in Nat : db = 1 .. k
    BY DEF StoreInv, Full
  <2>2. cursor' = k
    BY <1>11, <2>1, CursorOfFull DEF Restart
  <2>3. db' = 1 .. k /\ db' \cup tx' = 1 .. k
    BY <1>11, <2>1 DEF Restart
  <2>4. TypeOK'
    BY <1>11, <2>2 DEF Restart, TypeOK
  <2>5. StoreInv'
    BY <1>11, <2>2, <2>3 DEF Restart, StoreInv, Full
  <2>6. LeftInv'
    BY <1>11 DEF Restart, LeftInv
  <2>. QED
    BY <2>4, <2>5, <2>6
<1>12. CASE Create
  <2>1. TypeOK'
    BY <1>12 DEF Create, TypeOK
  <2>2. UNCHANGED <<cursor, db, tx, sync, left, phase>>
    BY <1>12 DEF Create
  <2>. QED
    BY <2>1, <2>2 DEF LeftInv, StoreInv
<1>13. CASE UNCHANGED vars
  BY <1>13 DEF vars, TypeOK, LeftInv, StoreInv
<1>. QED
  BY <1>2, <1>3, <1>4, <1>5, <1>6, <1>7, <1>8, <1>9, <1>10, <1>11, <1>12, <1>13 DEF Next, Engine

(* The invariant holds at the start. *)
LEMMA InitIInv == Init => IInv
<1>. SUFFICES ASSUME Init PROVE IInv
  OBVIOUS
<1>1. TypeOK /\ LeftInv
  BY DEF Init, TypeOK, LeftInv
<1>2. db = 1 .. 0 /\ db \cup tx = 1 .. 0 /\ 1 .. cursor = {}
  BY DEF Init
<1>. QED
  BY <1>1, <1>2 DEF Init, IInv, StoreInv, Full

(* Whatever is fetched is written in order: synchronisations that run beside each
   other, fail, are aborted or are lost by a restart skip no controller, as long
   as no round is rolled back (ControllersSync::sync, Engine::start). *)
THEOREM NoControllerSkipped == Spec => []NothingSkipped
<1>. DEFINE I == failing \/ IInv
<1>1. Init => I
  BY InitIInv
<1>2. I /\ [Next]_vars => I'
  <2>1. [Next]_vars => failing' = failing
    BY DEF Next, vars, Engine, StartRound, FetchEvents, Process, Execute, Rollback, Fetch, FetchFails,
           AddController, Abort, Restart, Create
  <2>. QED
    BY <2>1, IInvStep
<1>3. I => NothingSkipped
  BY DEF IInv, StoreInv, NothingSkipped
<1>. QED
  BY <1>1, <1>2, <1>3, PTL DEF Spec
=============================================================================
