------------------------------- MODULE Runner -------------------------------
(***************************************************************************)
(* The life of the process: the start, with a snapshot of the database if  *)
(* one is asked for, the services and the way they end (Runner::run); and  *)
(* the GraphQL server, built anew after each change of the models while    *)
(* the proxy goes on routing requests (spawn_rebuilding_graphql_server,    *)
(* Proxy).                                                                 *)
(*                                                                         *)
(* A model stands for anything the schema of the API shows: a model that   *)
(* was registered, or the fields an upgrade gave it.                       *)
(***************************************************************************)
EXTENDS Integers, Sequences

CONSTANTS
    Nothing,
    Model, Snapshot,    \* the models, and those a snapshot has
    Client, Kind,       \* clients, and what each asks for: "graphql" or "other"
    Chunks,             \* the parts in which a snapshot is received
    MaxStarts, MaxRequests

File == [whole : BOOLEAN, models : SUBSET Model]

(* Nothing is neither a file nor the number of a server. *)
RunnerConfiguration ==
    /\ Nothing \notin File /\ Nothing \notin Nat
    /\ Snapshot \subseteq Model
    /\ Chunks \in Nat

ASSUME RunnerConfigured == RunnerConfiguration

VARIABLES
    dir,                \* a directory of the database is configured
    file,               \* the database file: Nothing or [whole, models]
    phase, url,         \* of the process, and its snapshot option
    received, pending,  \* chunks received; the last one is still being written
    told,               \* the shutdown was broadcast
    rebuild, servers, route, current,
    unpublished, updates,
    request,            \* what a client waits for: [at, server, floor]
    starts, requests,
    committed, partial, late, seen

fileVars == <<dir, file, starts, committed, partial>>
startup == <<phase, url, received, pending, late, told>>
serving == <<rebuild, servers, route, current, unpublished, updates>>
asked == <<request, requests, seen>>
runnerVars == <<fileVars, startup, serving, asked>>

-----------------------------------------------------------------------------
NewFile == [whole |-> TRUE, models |-> {}]
Idle == [at |-> "idle", server |-> Nothing, floor |-> {}]

(* The process is gone, and with it all but the file: a file of its own
   (NamedTempFile) is gone as well. *)
Reset ==
    /\ phase' = "off" /\ url' = FALSE /\ received' = 0 /\ pending' = FALSE /\ late' = FALSE
    /\ told' = FALSE /\ rebuild' = "start" /\ servers' = << >> /\ route' = Nothing /\ current' = Nothing
    /\ unpublished' = 0 /\ updates' = 0
    /\ request' = [c \in Client |-> Idle] /\ seen' = {}

RunnerInit ==
    /\ dir \in BOOLEAN
    /\ file = Nothing /\ starts = 0 /\ committed = {} /\ partial = FALSE
    /\ phase = "off" /\ url = FALSE /\ received = 0 /\ pending = FALSE /\ late = FALSE
    /\ told = FALSE /\ rebuild = "start" /\ servers = << >> /\ route = Nothing /\ current = Nothing
    /\ unpublished = 0 /\ updates = 0
    /\ request = [c \in Client |-> Idle] /\ seen = {} /\ requests = 0

-----------------------------------------------------------------------------
(* A start, with or without the URL of a snapshot.  Without a directory the
   database is a file of this process, which exists and is empty. *)
Start ==
    /\ phase = "off" /\ starts < MaxStarts
    /\ starts' = starts + 1
    /\ url' \in BOOLEAN
    /\ phase' = IF url' THEN "snapshot" ELSE "open"
    /\ IF dir THEN UNCHANGED <<file, committed, partial>>
       ELSE file' = NewFile /\ committed' = {} /\ partial' = FALSE
    /\ UNCHANGED <<dir, received, pending, late, told, serving, asked>>

(* Mutant: the check for a database that exists is left out. *)
CreateFile_unchecked ==
    /\ phase = "snapshot"
    /\ phase' = "download"
    /\ file' = NewFile
    /\ UNCHANGED <<dir, starts, committed, partial, url, received, pending, late, told,
                   serving, asked>>

(* A snapshot is not downloaded into a database that exists: the process ends
   (Stop).  Otherwise the file is created once the server has answered. *)
CreateFile ==
    /\ phase = "snapshot"
    /\ ~dir \/ file = Nothing
    /\ phase' = "download"
    /\ file' = NewFile
    /\ UNCHANGED <<dir, starts, committed, partial, url, received, pending, late, told,
                   serving, asked>>

(* write_all hands the chunk to a thread, and waits for the one before it. *)
Receive ==
    /\ phase = "download" /\ received < Chunks /\ ~pending
    /\ received' = received + 1 /\ pending' = TRUE
    /\ UNCHANGED <<fileVars, phase, url, late, told, serving, asked>>

Written == [whole |-> received = Chunks, models |-> IF received = Chunks THEN Snapshot ELSE {}]

(* The thread writes the chunk: perhaps into a database that is open. *)
Land ==
    /\ pending
    /\ pending' = FALSE
    /\ IF ~late THEN file' = Written
       ELSE file' \in {file, [whole |-> TRUE, models |-> file.models \cup Snapshot]}
    /\ UNCHANGED <<dir, starts, committed, partial, phase, url, received, late, told,
                   serving, asked>>

(* The stream has ended; the file is not flushed. *)
Downloaded ==
    /\ phase = "download" /\ received = Chunks
    /\ phase' = "open"
    /\ UNCHANGED <<fileVars, url, received, pending, late, told, serving, asked>>

(* The pools are opened and the migrations run: on a file that is not whole they
   may fail (Stop). *)
Open ==
    /\ phase = "open"
    /\ phase' = "opened"
    /\ file' = IF file = Nothing THEN NewFile ELSE file
    /\ late' = pending
    /\ UNCHANGED <<dir, starts, committed, partial, url, received, pending, told,
                   serving, asked>>

(* The executor listens to the shutdown from here on: a signal that came before
   has found no one.  Then the services are started. *)
SpawnExecutor ==
    /\ phase = "opened"
    /\ phase' = "executor"
    /\ UNCHANGED <<fileVars, url, received, pending, late, told, serving, asked>>

Spawn ==
    /\ phase = "executor"
    /\ phase' = "serving"
    /\ UNCHANGED <<fileVars, url, received, pending, late, told, serving, asked>>

Signal ==
    /\ phase \in {"executor", "serving"} /\ ~told
    /\ told' = TRUE
    /\ UNCHANGED <<fileVars, phase, url, received, pending, late, serving, asked>>

(* An error on the way, the first task to end or to panic, a signal that is
   waited for, or a kill.  The chunk that is being written may still land. *)
Stop ==
    /\ phase # "off"
    /\ IF dir THEN file' \in {file} \cup (IF pending /\ ~late THEN {Written} ELSE {}) ELSE file' = Nothing
    /\ partial' = (file' # Nothing /\ ~file'.whole)
    /\ committed' = IF dir THEN committed ELSE {}
    /\ Reset
    /\ UNCHANGED <<dir, starts, requests>>

(* The operator deletes the database. *)
Remove ==
    /\ phase = "off" /\ file # Nothing
    /\ file' = Nothing /\ committed' = {} /\ partial' = FALSE
    /\ UNCHANGED <<dir, starts, startup, serving, asked>>

-----------------------------------------------------------------------------
(* The engine's batch is committed, and its updates are published after that. *)
CommitModel(m) ==
    /\ phase = "serving" /\ m \notin file.models
    /\ file' = [file EXCEPT !.models = @ \cup {m}]
    /\ committed' = committed \cup {m}
    /\ unpublished' = unpublished + 1
    /\ UNCHANGED <<dir, starts, partial, startup, rebuild, servers, route, current,
                   updates, asked>>

PublishUpdate ==
    /\ unpublished > 0
    /\ unpublished' = unpublished - 1
    /\ updates' = IF rebuild = "start" THEN updates ELSE updates + 1
    /\ UNCHANGED <<fileVars, startup, rebuild, servers, route, current, asked>>

Subscribe ==
    /\ phase = "serving" /\ rebuild = "start"
    /\ rebuild' = "build"
    /\ UNCHANGED <<fileVars, startup, servers, route, current, unpublished, updates, asked>>

(* The models in the database that the schema is built from. *)
build_objects == file.models

build_schema == [models |-> build_objects, up |-> TRUE]

(* Mutant: the server that is replaced is stopped first. *)
Build_stops_previous ==
    /\ rebuild = "build"
    /\ rebuild' = "lock"
    /\ servers' = Append([s \in DOMAIN servers |-> [servers[s] EXCEPT !.up = FALSE]], build_schema)
    /\ UNCHANGED <<fileVars, startup, route, current, unpublished, updates, asked>>

(* The sender of a server's shutdown channel is used or dropped: either way the
   server stops accepting requests, and answers those it has. *)
StopServer(s) == IF s = Nothing THEN servers ELSE [servers EXCEPT ![s].up = FALSE]

(* A server of the schema is bound and spawned.  An error is a panic that ends
   the task, which drops the sender of the current server: it stops, although
   the proxy routes to it until the process has ended (Stop). *)
Build ==
    /\ rebuild = "build"
    /\ \/ rebuild' = "panicked" /\ servers' = StopServer(current)
       \/ rebuild' = "lock" /\ servers' = Append(servers, build_schema)
    /\ UNCHANGED <<fileVars, startup, route, current, unpublished, updates, asked>>

(* A request keeps the read lock until it is answered. *)
Holds(c) == request[c].at \in {"holding", "forwarded", "refused"}

(* The write lock is granted when no request holds the read lock; those that came
   after it was asked for have waited, and are let in. *)
set_graphql_addr ==
    /\ rebuild = "lock"
    /\ \A c \in Client : ~Holds(c)
    /\ route' = Len(servers)
    /\ request' = [c \in Client |->
                      IF request[c].at = "waiting" THEN [request[c] EXCEPT !.at = "holding"]
                      ELSE request[c]]
    /\ rebuild' = "routed"
    /\ UNCHANGED <<fileVars, startup, servers, current, unpublished, updates, requests, seen>>

StopPrevious ==
    /\ rebuild = "routed"
    /\ servers' = StopServer(current)
    /\ current' = Len(servers)
    /\ rebuild' = "wait"
    /\ UNCHANGED <<fileVars, startup, route, unpublished, updates, asked>>

(* An update, and a second of sleep; or the shutdown. *)
Update ==
    /\ rebuild = "wait" /\ updates > 0
    /\ updates' = updates - 1
    /\ rebuild' = "build"
    /\ UNCHANGED <<fileVars, startup, servers, route, current, unpublished, asked>>

Shutdown ==
    /\ rebuild = "wait" /\ told
    /\ servers' = StopServer(current)
    /\ rebuild' = "ended"
    /\ UNCHANGED <<fileVars, startup, route, current, unpublished, updates, asked>>

-----------------------------------------------------------------------------
(* A request takes the read lock, or waits behind the writer that waits for it. *)
Arrive(c) ==
    /\ phase = "serving" /\ request[c].at = "idle" /\ requests < MaxRequests
    /\ requests' = requests + 1
    /\ request' = [request EXCEPT ![c] =
          [at |-> IF rebuild = "lock" THEN "waiting" ELSE "holding",
           server |-> Nothing, floor |-> seen]]
    /\ UNCHANGED <<fileVars, startup, serving, seen>>

(* The first handler for the request: GraphQL is not there before the first server
   is, and a server that was stopped refuses the connection. *)
Forward(c) ==
    /\ request[c].at = "holding" /\ Kind[c] = "graphql"
    /\ request' = [request EXCEPT
          ![c] = IF route = Nothing THEN Idle
                 ELSE [@ EXCEPT !.server = route,
                                !.at = IF servers[route].up THEN "forwarded" ELSE "refused"]]
    /\ UNCHANGED <<fileVars, startup, serving, requests, seen>>

AnswerClient(c) ==
    /\ request[c].at \in {"forwarded", "refused"}
    /\ seen' = IF request[c].at = "refused" THEN seen
               ELSE seen \cup servers[request[c].server].models
    /\ request' = [request EXCEPT ![c] = Idle]
    /\ UNCHANGED <<fileVars, startup, serving, requests>>

AnswerOther(c) ==
    /\ request[c].at = "holding" /\ Kind[c] = "other"
    /\ request' = [request EXCEPT ![c] = Idle]
    /\ UNCHANGED <<fileVars, startup, serving, requests, seen>>

(* The time is over, or the client has left: the lock is released. *)
Abandon(c) ==
    /\ request[c].at \in {"waiting", "holding", "forwarded"}
    /\ request' = [request EXCEPT ![c] = Idle]
    /\ UNCHANGED <<fileVars, startup, serving, requests, seen>>

RunnerNext ==
    \/ Start \/ CreateFile \/ Receive \/ Land \/ Downloaded \/ Open
    \/ SpawnExecutor \/ Spawn \/ Signal \/ Stop \/ Remove
    \/ \E m \in Model : CommitModel(m)
    \/ PublishUpdate \/ Subscribe \/ Build \/ set_graphql_addr \/ StopPrevious \/ Update \/ Shutdown
    \/ \E c \in Client : Arrive(c) \/ Forward(c) \/ AnswerClient(c) \/ AnswerOther(c) \/ Abandon(c)

RunnerSpec == RunnerInit /\ [][RunnerNext]_runnerVars

-----------------------------------------------------------------------------
(* The servers that run. *)
Up == {s \in DOMAIN servers : servers[s].up}

(* A request is not sent to a server that was stopped, unless it was stopped by
   the shutdown or by a build that panicked, after which the process ends; nor to
   one with fewer models than an answer that was given before it came; at most
   two servers run; and once there is nothing left to do, one: with
   every model that is committed, unless a snapshot was read before it was written
   (spawn_rebuilding_graphql_server). *)
SchemaCurrent ==
    /\ \A c \in Client :
          /\ request[c].at = "refused" => told \/ rebuild = "panicked"
          /\ request[c].at = "forwarded" => request[c].floor \subseteq servers[request[c].server].models
    /\ \A r, s, t \in Up : r = s \/ s = t \/ r = t
    /\ rebuild = "wait" =>
          /\ Up = {route}
          /\ unpublished + updates = 0 => servers[route].models = file.models \/ late

(* What was committed stays in the database until it is deleted; and the database
   that is open is whole, unless the last chunk of the snapshot is still being
   written, or the file was left by a download that did not end and is opened
   without asking for a snapshot (Runner::run, stream_snapshot_into_file). *)
DatabaseKept ==
    /\ file # Nothing => committed \subseteq file.models
    /\ phase \in {"opened", "executor", "serving"} /\ ~file.whole =>
          late \/ (~url /\ partial)
=============================================================================
