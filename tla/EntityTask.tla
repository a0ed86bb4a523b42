----------------------------- MODULE EntityTask -----------------------------
(***************************************************************************)
(* The store events of one entity and one model, from the batch in which   *)
(* they are filed to the row they leave: the store_* processors of         *)
(* crates/processors, whose Latest indexing mode lets the TaskManager drop *)
(* all but the last event with the same key, and the storage that applies  *)
(* what is left column by column.                                          *)
(***************************************************************************)
EXTENDS ModelRow

CONSTANTS
    Schema,         \* the model's schema: a Struct, its first member the key
    MemberValues,   \* the values each member may be given, by name
    MaxPending      \* bound: events pending in one batch

VARIABLES
    historical,     \* EventProcessorConfig.is_historical of the model
    pending,        \* the task's events, as the TaskManager keeps them
    row,            \* the row of the model's table, or NULL
    onchain         \* history: the record in the world's storage, or NULL

vars == <<historical, pending, row, onchain>>

Names == {Schema.members[i].name : i \in DOMAIN Schema.members}
KeyName == Schema.members[1].name
BlankMember(n) == Blank(SelectSeq(Schema.members, LAMBDA m : m.name = n)[1].ty)
NoRecord == [n \in Names |-> BlankMember(n)]

(* A Ty with the given members, in the schema's order. *)
Wrap(values) ==
    LET ms == SelectSeq(Schema.members, LAMBDA m : m.name \in DOMAIN values)
    IN  Struct([i \in DOMAIN ms |-> Member(ms[i].name, values[ms[i].name])])

Event(name, member, values) == [values |-> values, member |-> member, event |-> name]

-----------------------------------------------------------------------------
(* Mutant: member updates of one record are all the same. *)
indexing_mode_no_member(ev) == <<ev.event, NULL>>

(* The key of IndexingMode::Latest; member updates add the member selector. *)
indexing_mode(ev) == <<ev.event, ev.member>>

File(events, ev) ==
    IF historical THEN Append(events, ev)
    ELSE Append(SelectSeq(events, LAMBDA x : indexing_mode(x) # indexing_mode(ev)), ev)

(* The world emits an event after it has changed its own storage. *)
Emit(ev, record) ==
    /\ Len(File(pending, ev)) <= MaxPending
    /\ pending' = File(pending, ev)
    /\ onchain' = record
    /\ UNCHANGED <<historical, row>>

Record == IF onchain = NULL THEN NoRecord ELSE onchain

(* The functions that give each member of S one of its values. *)
Values(S) ==
    FoldSet(LAMBDA n, fs : {n :> v @@ f : f \in fs, v \in MemberValues[n]}, {<< >>}, S)

StoreSetRecord(values) == Emit(Event("StoreSetRecord", NULL, values), values)
StoreUpdateRecord(values) ==
    Emit(Event("StoreUpdateRecord", NULL, values), values @@ Record)
StoreUpdateMember(n, v) ==
    Emit(Event("StoreUpdateMember", n, n :> v), [Record EXCEPT ![n] = v])
StoreDelRecord == onchain # NULL /\ Emit(Event("StoreDelRecord", NULL, << >>), NULL)

-----------------------------------------------------------------------------
(* INSERT ... ON CONFLICT DO UPDATE of the columns of the value. *)
set_entity_model(r, ty) ==
    collect_members(<< >>, ty) @@ (IF r = NULL THEN NoColumns ELSE r)

process(r, ev) ==
    IF ev.event = "StoreDelRecord" THEN NULL ELSE set_entity_model(r, Wrap(ev.values))

ProcessTask ==
    /\ pending # << >>
    /\ row' = FoldLeft(process, row, pending)
    /\ pending' = << >>
    /\ UNCHANGED <<historical, onchain>>

Init ==
    /\ historical \in BOOLEAN
    /\ pending = << >>
    /\ row = NULL
    /\ onchain = NULL

Next ==
    \/ \E values \in Values(Names) : StoreSetRecord(values)
    \/ \E values \in Values(Names \ {KeyName}) : onchain # NULL /\ StoreUpdateRecord(values)
    \/ \E n \in Names \ {KeyName} : \E v \in MemberValues[n] : StoreUpdateMember(n, v)
    \/ StoreDelRecord
    \/ ProcessTask

Spec == Init /\ [][Next]_vars

-----------------------------------------------------------------------------
(* Properties *)

(* Once its events are processed, the row reads back as the record the world
   holds: no event that mattered was dropped, and no column of an earlier
   value (another enum variant, a deleted record) shows through. *)
RowIsRecord ==
    pending = << >> =>
        IF onchain = NULL THEN row = NULL
        ELSE row # NULL /\ map_row_to_ty(<< >>, Blank(Schema), row) = Wrap(onchain)
=============================================================================
