--------------------------- MODULE Subscriptions ---------------------------
(***************************************************************************)
(* One entity from the executor to a gRPC client: the writes of a model's  *)
(* row, their publication, the broker, the EntityManager with its bounded  *)
(* channels, and a client that subscribes and then retrieves the entity.   *)
(*                                                                         *)
(* A model is a function from the members that are present to their        *)
(* values; a missing row, and the empty struct that announces a deletion,  *)
(* have no members.  A client stands for one subscription id.  The         *)
(* dispatch of an update is one step: it runs in one task, and what it     *)
(* does to a subscriber does not depend on the others.                     *)
(***************************************************************************)
EXTENDS Integers, Sequences, SequencesExt, FiniteSets, TLC

CONSTANTS
    Client,
    Member,                     \* members of the model
    Clause,                     \* clauses a client may subscribe with
    subscription_buffer_size,
    MaxWrites,                  \* bound: writes of the row
    MaxRequests                 \* bound: changes of a subscription

VARIABLES
    optimistic,     \* GrpcConfig: optimistic
    partial,        \* whether the world writes single members
    work, disk,     \* the row, in the open transaction and committed
    publish_queue,  \* the executor's queue of final updates
    executing,      \* between the commit and the announcement
    unannounced,    \* history: a commit, or an optimistic subscriber's rollback, was not announced
    stream,         \* the broker's unbounded channel to the Service
    subscribers,    \* EntityManager.subscribers: the clause of each
    chan,           \* the channel of each subscriber
    conn,           \* the client's end: idle, open or dropped
    view, synced,   \* what the client believes, and whether it has retrieved since it asked
    writes, requests

writerVars == <<optimistic, partial, work, disk, publish_queue, executing, unannounced, writes>>
clientVars == <<conn, view, synced, requests>>
subscriptionVars == <<writerVars, stream, subscribers, chan, clientVars>>

Configuration ==
    /\ subscription_buffer_size \in Nat \ {0}
    /\ \A c \in Clause : c.op \in {"keys", "and", "or"} /\ c.on \subseteq Member

Absent == [m \in {} |-> 0]
Hello == [hello |-> TRUE, model |-> Absent]
Response(msg) == [hello |-> FALSE, model |-> msg.new]

-----------------------------------------------------------------------------
(* A clause on hashed keys or keys takes the entity whatever its model, a
   composite one compares members, each with 1 here; a member that the model
   does not have never matches. *)
match_entity(model, c) ==
    LET holds(m) == m \in DOMAIN model /\ model[m] = 1
    IN  CASE c.op = "keys" -> TRUE
          [] c.op = "and"  -> \A m \in c.on : holds(m)
          [] c.op = "or"   -> \E m \in c.on : holds(m)

(* Mutant: the update is only compared as it was before the write. *)
Interested_old(c, msg) == match_entity(msg.old, c)

Interested(c, msg) == match_entity(msg.old, c) \/ match_entity(msg.new, c)

-----------------------------------------------------------------------------
(* The optimistic update goes out at once, the final one waits. *)
publish_optimistic_and_queue(msg) ==
    /\ stream' = IF optimistic THEN Append(stream, msg) ELSE stream
    /\ publish_queue' = Append(publish_queue, msg)

(* SetEntity reads the row before the columns are written, and announces the
   members of the event only. *)
SetEntity(new) ==
    /\ ~executing /\ writes < MaxWrites
    /\ DOMAIN new # Member => partial /\ work # Absent
    /\ writes' = writes + 1
    /\ work' = new @@ work
    /\ publish_optimistic_and_queue([old |-> work, new |-> new])
    /\ UNCHANGED <<optimistic, partial, executing, unannounced, disk, subscribers, chan,
                   clientVars>>

DeleteEntity ==
    /\ ~executing /\ writes < MaxWrites
    /\ work # Absent
    /\ writes' = writes + 1
    /\ work' = Absent
    /\ publish_optimistic_and_queue([old |-> work, new |-> Absent])
    /\ UNCHANGED <<optimistic, partial, executing, unannounced, disk, subscribers, chan,
                   clientVars>>

commit ==
    /\ ~executing /\ publish_queue # << >>
    /\ executing' = TRUE
    /\ disk' = work
    /\ UNCHANGED <<optimistic, partial, work, publish_queue, unannounced, stream, subscribers,
                   chan, writes, clientVars>>

(* A stream of subscribe() skips optimistic updates, one of
   subscribe_optimistic() the others. *)
publish ==
    /\ executing
    /\ executing' = FALSE
    /\ stream' = IF optimistic THEN stream ELSE stream \o publish_queue
    /\ publish_queue' = << >>
    /\ UNCHANGED <<optimistic, partial, work, disk, unannounced, subscribers, chan, writes,
                   clientVars>>

(* The engine rolls back after any error: of the batch, of the commit, or of
   the truncation of the WAL or the BEGIN that follow the commit.  Nobody is
   told. *)
rollback ==
    /\ publish_queue # << >>
    /\ work' = disk
    /\ publish_queue' = << >>
    /\ unannounced' = (unannounced \/ IF optimistic THEN work # disk ELSE executing)
    /\ executing' = FALSE
    /\ UNCHANGED <<optimistic, partial, disk, stream, subscribers, chan, writes, clientVars>>

-----------------------------------------------------------------------------
Registered == DOMAIN subscribers
Without(S) == [c \in Registered \ S |-> subscribers[c]]
Full(c) == Len(chan[c]) = subscription_buffer_size

(* try_send to every subscriber the update interests; one whose client has
   hung up or whose channel is full is removed, which ends its stream. *)
process_entity_update ==
    /\ stream # << >>
    /\ LET msg == Head(stream)
           to == {c \in Registered : Interested(subscribers[c], msg)}
           closed == {c \in to : conn[c] # "open" \/ Full(c)}
       IN  /\ subscribers' = Without(closed)
           /\ chan' = [c \in Client |-> IF c \in to \ closed THEN Append(chan[c], Response(msg))
                                        ELSE chan[c]]
    /\ stream' = Tail(stream)
    /\ UNCHANGED <<writerVars, clientVars>>

(* The monitor's sweep. *)
prune_closed ==
    /\ \E c \in Registered : conn[c] # "open"
    /\ subscribers' = Without({c \in Registered : conn[c] # "open"})
    /\ UNCHANGED <<writerVars, stream, chan, clientVars>>

(* The response that carries the receiver follows the insertion, so that no
   client knows of a subscription which is not there yet. *)
add_subscriber(c, clause) ==
    /\ conn[c] = "idle"
    /\ conn' = [conn EXCEPT ![c] = "open"]
    /\ chan' = [chan EXCEPT ![c] = <<Hello>>]
    /\ subscribers' = c :> clause @@ subscribers
    /\ UNCHANGED <<writerVars, stream, view, synced, requests>>

(* A subscription that was removed is updated without effect. *)
update_subscriber(c, clause) ==
    /\ conn[c] = "open"
    /\ requests < MaxRequests
    /\ requests' = requests + 1
    /\ subscribers' = [d \in Registered |-> IF d = c THEN clause ELSE subscribers[d]]
    /\ synced' = [synced EXCEPT ![c] = "again"]
    /\ UNCHANGED <<writerVars, stream, chan, conn, view>>

(* The client's side: it retrieves what its clause selects of the committed
   rows, again after a change of the clause and once its channel is empty,
   merges what it receives, and may hang up.  What was announced before its
   commit may have been announced before the client subscribed. *)
retrieve_entities(c) ==
    /\ conn[c] = "open" /\ c \in Registered
    /\ synced[c] = "no" \/ (synced[c] = "again" /\ chan[c] = << >>)
    /\ view' = [view EXCEPT ![c] = IF match_entity(disk, subscribers[c]) THEN disk ELSE Absent]
    /\ synced' = [synced EXCEPT ![c] = IF optimistic /\ publish_queue # << >> THEN "again" ELSE "yes"]
    /\ UNCHANGED <<writerVars, stream, subscribers, chan, conn, requests>>

Receive(c) ==
    /\ conn[c] = "open" /\ chan[c] # << >>
    /\ LET msg == Head(chan[c])
       IN  view' = [view EXCEPT ![c] = IF msg.hello THEN @
                                       ELSE IF msg.model = Absent THEN Absent
                                       ELSE msg.model @@ @]
    /\ chan' = [chan EXCEPT ![c] = Tail(@)]
    /\ UNCHANGED <<writerVars, stream, subscribers, conn, synced, requests>>

HangUp(c) ==
    /\ conn[c] = "open"
    /\ conn' = [conn EXCEPT ![c] = "dropped"]
    /\ chan' = [chan EXCEPT ![c] = << >>]
    /\ view' = [view EXCEPT ![c] = Absent]
    /\ UNCHANGED <<writerVars, stream, subscribers, synced, requests>>

-----------------------------------------------------------------------------
Init ==
    /\ optimistic \in BOOLEAN
    /\ partial \in BOOLEAN
    /\ work = Absent /\ disk = Absent
    /\ publish_queue = << >> /\ stream = << >>
    /\ executing = FALSE /\ unannounced = FALSE
    /\ subscribers = Absent
    /\ chan = [c \in Client |-> << >>]
    /\ conn = [c \in Client |-> "idle"]
    /\ view = [c \in Client |-> Absent]
    /\ synced = [c \in Client |-> "no"]
    /\ writes = 0 /\ requests = 0

Next ==
    \/ \E D \in SUBSET Member \ {{}} : \E new \in [D -> 0..1] : SetEntity(new)
    \/ DeleteEntity
    \/ commit
    \/ publish
    \/ rollback
    \/ process_entity_update
    \/ prune_closed
    \/ \E c \in Client :
         \/ \E clause \in Clause : add_subscriber(c, clause) \/ update_subscriber(c, clause)
         \/ retrieve_entities(c)
         \/ Receive(c)
         \/ HangUp(c)

Spec == Init /\ [][Next]_subscriptionVars

-----------------------------------------------------------------------------
(* Nothing is under way to the client, its stream has not ended, and it has
   retrieved the entity after it subscribed. *)
UpToDate(c) ==
    /\ executing => optimistic
    /\ c \in Registered /\ conn[c] = "open" /\ synced[c] = "yes"
    /\ stream = << >> /\ chan[c] = << >>

Agrees(c) ==
    LET clause == subscribers[c]
        row == IF optimistic THEN work ELSE disk
    IN  /\ match_entity(view[c], clause) <=> match_entity(row, clause)
        /\ clause.op = "keys" => view[c] = row

Conjunction(clause) == clause.op = "and" /\ Cardinality(clause.on) > 1

(* A client that subscribes and then retrieves the entity knows, whenever it
   has received all there is, whether the entity is one of those its clause
   selects, and the whole entity when it selects by keys: the committed entity
   for confirmed updates, the latest for optimistic ones.  Nothing is lost in
   the hand-over, in a full channel, after a change of the clause or when the
   entity leaves the clause (process_entity_update with match_model).
   Conjunctions need writes of whole models, and of what a failed execute() has
   committed or an optimistic writer rolls back nobody is told. *)
Mirrors ==
    ~unannounced =>
        \A c \in Client : UpToDate(c) /\ ~(partial /\ Conjunction(subscribers[c])) => Agrees(c)

(* The same of every clause, as the comment on match_model has it: "This
   ensures MemberClause filters work with partial updates (write_member)". *)
MirrorsPartialUpdates == ~unannounced => \A c \in Client : UpToDate(c) => Agrees(c)
=============================================================================
