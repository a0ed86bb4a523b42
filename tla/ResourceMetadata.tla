-------------------------- MODULE ResourceMetadata --------------------------
(***************************************************************************)
(* Metadata of the world and of its resources (metadata_update.rs and the  *)
(* statements of storage.rs): an event gives a resource a URI; for the     *)
(* world, the document of the URI and its images are retrieved by a task   *)
(* beside the engine, which the next event may overtake.                   *)
(*                                                                         *)
(* A document is named by its URI; whether a URI has a document, and the   *)
(* document an icon, is chosen once. A batch is one event.                 *)
(***************************************************************************)
EXTENDS Integers, Sequences

CONSTANTS
    World, Other,   \* resources
    Uri, None,
    MaxSets,        \* bound: MetadataUpdate events
    MaxFaults       \* bound: batches rolled back, crashes

VARIABLES
    has_icon,       \* the URIs whose document names an icon that can be fetched
    sets,           \* events of the chain
    pos,            \* events committed
    processed,      \* the event of this batch has been processed
    retrievals,     \* tasks: the URIs they are about, in the order of their start
    rows, saved,    \* table metadata: in the transaction, committed
    faults

vars == <<has_icon, sets, pos, processed, retrievals, rows, saved, faults>>

Resource == {World, Other}

Set(r, u) ==
    /\ Len(sets) < MaxSets
    /\ sets' = Append(sets, [resource |-> r, uri |-> u])
    /\ UNCHANGED <<has_icon, pos, processed, retrievals, rows, saved, faults>>

(* INSERT ... ON CONFLICT DO UPDATE: the URI of a row that exists is kept. *)
set_metadata(R, r, u) ==
    IF R[r] = None THEN [R EXCEPT ![r] = [uri |-> u, json |-> None, icon_img |-> None]] ELSE R

Process ==
    /\ pos < Len(sets)
    /\ ~processed
    /\ processed' = TRUE
    /\ LET e == sets[pos + 1]
       IN  /\ rows' = set_metadata(rows, e.resource, e.uri)
           /\ retrievals' = IF e.resource = World THEN Append(retrievals, e.uri) ELSE retrievals
    /\ UNCHANGED <<has_icon, sets, pos, saved, faults>>

(* UPDATE metadata: the URI with its document; images only when there are any. *)
update_metadata(R, r, u) ==
    IF R[r] = None THEN R
    ELSE [R EXCEPT ![r].uri = u, ![r].json = u, ![r].icon_img = IF u \in has_icon THEN u ELSE @]

Drop(seq, i) == SubSeq(seq, 1, i - 1) \o SubSeq(seq, i + 1, Len(seq))

(* try_retrieve ends, in any order. *)
Retrieve(i) ==
    /\ rows' = update_metadata(rows, World, retrievals[i])
    /\ retrievals' = Drop(retrievals, i)
    /\ UNCHANGED <<has_icon, sets, pos, processed, saved, faults>>

(* The document cannot be fetched or parsed: an error is logged. *)
RetrieveFails(i) ==
    /\ retrievals' = Drop(retrievals, i)
    /\ UNCHANGED <<has_icon, sets, pos, processed, rows, saved, faults>>

Commit ==
    /\ processed
    /\ processed' = FALSE
    /\ pos' = pos + 1
    /\ saved' = rows
    /\ UNCHANGED <<has_icon, sets, retrievals, rows, faults>>

Rollback ==
    /\ faults < MaxFaults
    /\ faults' = faults + 1
    /\ processed' = FALSE
    /\ rows' = saved
    /\ retrievals' \in {retrievals, << >>}      \* a failed batch, or a crash
    /\ UNCHANGED <<has_icon, sets, pos, saved>>

Init ==
    /\ has_icon \in SUBSET Uri
    /\ sets = << >>
    /\ pos = 0
    /\ processed = FALSE
    /\ retrievals = << >>
    /\ rows = [r \in Resource |-> None]
    /\ saved = rows
    /\ faults = 0

Next ==
    \/ \E r \in Resource, u \in Uri : Set(r, u)
    \/ Process
    \/ \E i \in DOMAIN retrievals : Retrieve(i) \/ RetrieveFails(i)
    \/ Commit
    \/ Rollback

Spec == Init /\ [][Next]_vars

-----------------------------------------------------------------------------
(* Properties *)

(* A row names one URI and holds the document of that URI, although retrievals end in
   any order and a rollback may undo the event that started them (update_metadata). An
   icon is that of this document or, if it has none, of an earlier one. *)
DocumentOfUri ==
    \A r \in Resource : \A R \in {rows, saved} :
        R[r] # None /\ R[r].json # None =>
            /\ R[r].json = R[r].uri
            /\ R[r].uri \in has_icon => R[r].icon_img = R[r].uri
=============================================================================
