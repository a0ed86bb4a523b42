---------------------------- MODULE Controllers -----------------------------
(***************************************************************************)
(* The synchronisation of controllers (crates/controllers/src/sync.rs) as  *)
(* the engine runs it (crates/indexer/engine/src/engine.rs): each round of *)
(* the engine starts a synchronisation beside the fetching and processing  *)
(* of events; both write to the executor's transaction, which the end of   *)
(* the round commits or rolls back.                                        *)
(*                                                                         *)
(* A controller is the time of its creation, 1..MaxTime: the service       *)
(* creates them one after the other.  0 stands for no cursor.              *)
(***************************************************************************)
EXTENDS Integers, Sequences, FiniteSets, FiniteSetsExt

CONSTANTS
    Slot,           \* the synchronisations that may run at the same time
    None,
    MaxTime,        \* bound: controllers created
    MaxRestarts     \* bound: restarts

VARIABLES
    failing,        \* whether the processing of events ever fails
    api,            \* external: the number of controllers created
    cursor,         \* ControllersSync.cursor
    db,             \* the committed controllers
    tx,             \* the controllers written in the open transaction
    sync,           \* of each slot: "idle", "started" or "writing"
    left,           \* the controllers each slot has yet to write
    aborted,        \* the slots whose task was aborted, and may still run
    phase,          \* "idle", "fetch", "process", "join", "rollback"
    handle,         \* the slot the engine holds the handle of
    restarts

vars == <<failing, api, cursor, db, tx, sync, left, aborted, phase, handle, restarts>>

Stopped(s) == sync[s] = "idle"

-----------------------------------------------------------------------------
(* The synchronisation *)

(* Mutant: the newest controller is left out. *)
fetch_controllers_before == [i \in 1 .. api - cursor - 1 |-> cursor + i]

(* The controllers created after the cursor, in the order of their creation. *)
fetch_controllers == [i \in 1 .. api - cursor |-> cursor + i]

Fetch(s) ==
    /\ sync[s] = "started"
    /\ left' = [left EXCEPT ![s] = fetch_controllers]
    /\ sync' = [sync EXCEPT ![s] = IF fetch_controllers = << >> THEN "idle" ELSE "writing"]
    /\ UNCHANGED <<failing, api, cursor, db, tx, aborted, phase, handle, restarts>>

(* Mutant: a request that has failed is repeated for ever. *)
FetchFails_retries(s) ==
    /\ sync[s] \in {"started", "wait", "retry"}
    /\ sync' = [sync EXCEPT ![s] = IF @ = "wait" THEN "retry" ELSE "wait"]
    /\ UNCHANGED <<failing, api, cursor, db, tx, left, aborted, phase, handle, restarts>>

(* The service fails three times, or its answer cannot be read. *)
FetchFails(s) ==
    /\ sync[s] = "started"
    /\ sync' = [sync EXCEPT ![s] = "idle"]
    /\ UNCHANGED <<failing, api, cursor, db, tx, left, aborted, phase, handle, restarts>>

(* Mutant: the cursor moves to the end of the answer with its first controller. *)
CursorAfter_ahead(s) == left[s][Len(left[s])]

CursorAfter(s) == Head(left[s])

(* The next controller is sent to the executor and the cursor follows it. *)
AddController(s) ==
    /\ sync[s] = "writing"
    /\ tx' = tx \cup {Head(left[s])}
    /\ cursor' = CursorAfter(s)
    /\ left' = [left EXCEPT ![s] = Tail(@)]
    /\ sync' = [sync EXCEPT ![s] = IF Len(left[s]) = 1 THEN "idle" ELSE @]
    /\ UNCHANGED <<failing, api, db, aborted, phase, handle, restarts>>

(* An aborted task stops at one of its awaits. *)
Abort(s) ==
    /\ s \in aborted
    /\ sync' = [sync EXCEPT ![s] = "idle"]
    /\ left' = [left EXCEPT ![s] = << >>]
    /\ aborted' = aborted \ {s}
    /\ UNCHANGED <<failing, api, cursor, db, tx, phase, handle, restarts>>

-----------------------------------------------------------------------------
(* The engine *)

StartRound(s) ==
    /\ phase = "idle"
    /\ Stopped(s)
    /\ sync' = [sync EXCEPT ![s] = "started"]
    /\ aborted' = aborted \ {s}
    /\ handle' = s
    /\ phase' = "fetch"
    /\ UNCHANGED <<failing, api, cursor, db, tx, left, restarts>>

(* An error of the fetcher drops the handle: the task is neither joined nor
   aborted. *)
FetchEvents(ok) ==
    /\ phase = "fetch"
    /\ phase' = IF ok THEN "process" ELSE "idle"
    /\ handle' = IF ok THEN handle ELSE None
    /\ UNCHANGED <<failing, api, cursor, db, tx, sync, left, aborted, restarts>>

Process(ok) ==
    /\ phase = "process"
    /\ ok \/ failing
    /\ phase' = IF ok THEN "join" ELSE "rollback"
    /\ aborted' = IF ok \/ Stopped(handle) THEN aborted ELSE aborted \cup {handle}
    /\ UNCHANGED <<failing, api, cursor, db, tx, sync, left, handle, restarts>>

(* The task is joined, whatever its result, and the transaction committed. *)
Execute ==
    /\ phase = "join"
    /\ Stopped(handle)
    /\ db' = db \cup tx
    /\ tx' = {}
    /\ phase' = "idle"
    /\ handle' = None
    /\ UNCHANGED <<failing, api, cursor, sync, left, aborted, restarts>>

Rollback ==
    /\ phase = "rollback"
    /\ tx' = {}
    /\ phase' = "idle"
    /\ handle' = None
    /\ UNCHANGED <<failing, api, cursor, db, sync, left, aborted, restarts>>

(* ControllersSync::new: the cursor is that of the last stored controller. *)
CursorOf(table) == Max(table \cup {0})

Restart ==
    /\ restarts < MaxRestarts
    /\ restarts' = restarts + 1
    /\ tx' = {}
    /\ cursor' = CursorOf(db)
    /\ sync' = [s \in Slot |-> "idle"]
    /\ left' = [s \in Slot |-> << >>]
    /\ aborted' = {}
    /\ phase' = "idle"
    /\ handle' = None
    /\ UNCHANGED <<failing, api, db>>

(* External: the service creates a controller. *)
Create ==
    /\ api < MaxTime
    /\ api' = api + 1
    /\ UNCHANGED <<failing, cursor, db, tx, sync, left, aborted, phase, handle, restarts>>

Init ==
    /\ failing \in BOOLEAN
    /\ api = 0
    /\ cursor = 0
    /\ db = {}
    /\ tx = {}
    /\ sync = [s \in Slot |-> "idle"]
    /\ left = [s \in Slot |-> << >>]
    /\ aborted = {}
    /\ phase = "idle"
    /\ handle = None
    /\ restarts = 0

Engine ==
    \/ \E s \in Slot : StartRound(s)
    \/ \E ok \in BOOLEAN : FetchEvents(ok) \/ Process(ok)
    \/ Execute
    \/ Rollback

Next ==
    \/ Engine
    \/ \E s \in Slot : Fetch(s) \/ FetchFails(s) \/ AddController(s) \/ Abort(s)
    \/ Restart
    \/ Create

Spec == Init /\ [][Next]_vars

(* The engine and the tasks keep running, and neither the service nor the
   fetcher fails for ever. *)
Fairness ==
    /\ WF_vars(Engine)
    /\ \A s \in Slot : WF_vars(Fetch(s) \/ FetchFails(s)) /\ WF_vars(AddController(s)) /\ SF_vars(Fetch(s))
    /\ SF_vars(FetchEvents(TRUE))
    /\ SF_vars(Process(TRUE))

FairSpec == Spec /\ Fairness

-----------------------------------------------------------------------------
(* Properties *)

(* Whatever is fetched is written in order, so that no controller before the
   cursor is missing from the database and the open transaction: those that
   run beside each other, fail, or are lost by a restart skip nothing, as long
   as no round is rolled back. *)
NothingSkipped == ~ failing => 1 .. cursor \subseteq db \cup tx

(* "Syncs the controllers from the Cartridge API to the database": every
   controller is stored in the end. *)
EventuallyStored == \A c \in 1 .. MaxTime : (api >= c) ~> (c \in db)

(* That holds as long as no round is rolled back. *)
StoredUnlessRolledBack == ~ failing => EventuallyStored

(* "Controller sync failures are logged but don't block processing commit": as
   long as the service answers or fails, every round ends. *)
RoundEnds == phase # "idle" ~> phase = "idle"
=============================================================================
