--------------------------- MODULE ServicesProofs ---------------------------
(***************************************************************************)
(* For any publishers, identities, clocks, batches and faults: a publisher *)
(* is answered only when its message was stored or something happened to   *)
(* it (AnsweredIsStored), and a committed message is replaced by a newer   *)
(* one or by one that was checked before (TimestampsGrow).                 *)
(*                                                                         *)
(* For any models, clients, chunks, starts and requests: the schema that   *)
(* is served is current (SchemaCurrent), and the database is kept          *)
(* (DatabaseKept).                                                         *)
(***************************************************************************)
EXTENDS Messaging, Runner, TLAPS

-----------------------------------------------------------------------------
(* Messages *)

Row == [timestamp : Nat, identity : Identity \cup {None}, checked : Nat]
Db == [entity : BOOLEAN, row : Row, events : Nat, head : Nat, version : Nat]
Held == [timestamp : Nat, identity : Identity, checked : Nat, signer : Identity \cup {None}]

MessagingTypeOK ==
    /\ stage \in [Publisher -> {"idle", "signature", "entity", "row", "execute", "answered"}]
    /\ message \in [Publisher -> Held \cup {None}]
    /\ \A p \in Publisher : stage[p] # "idle" => message[p] \in Held
    /\ db \in Db /\ disk \in Db
    /\ fate \in [Publisher -> SUBSET {"landed", "overwritten", "rollback"}]

(* A message, or the row it left, was checked against the committed entity of some
   time: the one there is now, or one before it. *)
Checked(m) ==
    /\ m.checked <= disk.version
    /\ m.checked = disk.version /\ disk.row.timestamp # 0 => m.timestamp > disk.row.timestamp

CheckedInv ==
    /\ db.version = disk.version
    /\ db.row = disk.row \/ Checked(db.row)
    /\ \A p \in Publisher : stage[p] # "idle" => Checked(message[p])

(* A publisher nothing has happened to finds its writes in the transaction. *)
FateInv ==
    \A p \in Publisher : fate[p] = {} =>
        /\ stage[p] = "row" => db.entity
        /\ stage[p] = "execute" => db.row = RowOf(message[p])

MessagingInv == MessagingTypeOK /\ CheckedInv /\ FateInv /\ AnswerFollowsFate

-----------------------------------------------------------------------------
(* The row of a message has its time and what it was checked against. *)
LEMMA RowTyped ==
    ASSUME NEW m \in Held
    PROVE  RowOf(m) \in Row /\ RowOf(m).timestamp = m.timestamp /\ RowOf(m).checked = m.checked
  BY DEF Held, Row, RowOf

(* What the fields of a database are. *)
LEMMA DbTyped ==
    ASSUME NEW D \in Db
    PROVE  /\ D.entity \in BOOLEAN /\ D.row \in Row /\ D.version \in Nat
           /\ D.row.timestamp \in Nat /\ D.row.checked \in Nat
  BY DEF Db, Row

(* A commit: what is committed is what the transaction held, and publishers under
   way were checked against something older. *)
LEMMA CommitStep ==
    ASSUME MessagingTypeOK, CheckedInv, Commit
    PROVE  /\ db' \in Db /\ disk' = db'
           /\ db'.row = db.row /\ db'.entity = db.entity /\ db'.version = disk.version + 1
           /\ fate' \in [Publisher -> SUBSET {"landed", "overwritten", "rollback"}]
           /\ \A p \in Publisher :
                 /\ fate[p] \subseteq fate'[p]
                 /\ Writing(p) /\ db.row = RowOf(message[p]) => fate'[p] # {}
<1>1. db \in Db /\ disk \in Db /\ db.version = disk.version
  BY DEF MessagingTypeOK, CheckedInv
<1>2. db' = [db EXCEPT !.version = @ + 1] /\ disk' = db'
  BY DEF Commit
<1>3. db' \in Db /\ db'.row = db.row /\ db'.entity = db.entity /\ db'.version = db.version + 1
  BY <1>1, <1>2 DEF Db
<1>4. fate' = [p \in Publisher |-> IF Writing(p) /\ db.row = RowOf(message[p])
                                   THEN fate[p] \cup {"landed"} ELSE fate[p]]
  BY DEF Commit, Met
<1>5. fate' \in [Publisher -> SUBSET {"landed", "overwritten", "rollback"}]
  BY <1>4 DEF MessagingTypeOK
<1>6. \A p \in Publisher :
         /\ fate[p] \subseteq fate'[p]
         /\ Writing(p) /\ db.row = RowOf(message[p]) => fate'[p] # {}
  BY <1>4
<1>. QED
  BY <1>1, <1>2, <1>3, <1>5, <1>6

(* After a commit every message was checked against something older. *)
LEMMA CommitChecked ==
    ASSUME MessagingTypeOK, CheckedInv, Commit, UNCHANGED message,
           \A p \in Publisher : stage'[p] # "idle" => stage[p] # "idle"
    PROVE  CheckedInv'
<1>1. db' \in Db /\ disk' = db' /\ db'.version = disk.version + 1
  BY CommitStep
<1>2. disk.version \in Nat
  BY DbTyped DEF MessagingTypeOK
<1>3. ASSUME NEW p \in Publisher, stage'[p] # "idle"
      PROVE  Checked(message[p])'
  <2>1. message[p] \in Held /\ message[p].checked <= disk.version
    BY <1>3 DEF MessagingTypeOK, CheckedInv, Checked
  <2>2. message[p].checked \in Nat
    BY <2>1 DEF Held
  <2>. QED
    BY <1>1, <1>2, <2>1, <2>2 DEF Checked
<1>. QED
  BY <1>1, <1>3 DEF CheckedInv

-----------------------------------------------------------------------------
(* Every step of a publisher keeps the invariant. *)
LEMMA PublishStep ==
    ASSUME MessagingConfiguration, MessagingInv, NEW p \in Publisher, Publish(p)
    PROVE  MessagingInv'
<1>. USE DEF MessagingInv
<1>0. disk \in Db /\ db \in Db /\ disk.version \in Nat /\ disk.row.timestamp \in Nat
  BY DbTyped DEF MessagingTypeOK
<1>1. ASSUME NEW m \in Message, Validate(p, m)
      PROVE  MessagingInv'
  <2>. DEFINE held == [timestamp |-> m.timestamp, identity |-> m.identity, checked |-> disk.version,
                       signer |-> IdentityOf(m, disk.row)]
  <2>1. m.timestamp \in Nat /\ m.identity \in Identity
    BY DEF Message, MessagingConfiguration
  <2>2. IdentityOf(m, disk.row) \in Identity \cup {None}
    BY <1>0, <2>1 DEF IdentityOf, Db, Row
  <2>3. held \in Held /\ held.timestamp = m.timestamp /\ held.checked = disk.version
    BY <1>0, <2>1, <2>2 DEF Held
  <2>4. /\ stage' = [stage EXCEPT ![p] = "signature"] /\ message' = [message EXCEPT ![p] = held]
        /\ UNCHANGED <<db, disk, fate>>
    BY <1>1 DEF Validate, storeVars
  <2>5. NewerThan(m, disk.row)
    BY <1>1 DEF Validate, Acceptable
  <2>. HIDE DEF held
  <2>6. /\ message'[p] = held /\ stage'[p] = "signature"
        /\ \A q \in Publisher : q # p => message'[q] = message[q] /\ stage'[q] = stage[q]
    BY <2>4 DEF MessagingTypeOK
  <2>7. MessagingTypeOK'
    BY <2>3, <2>4 DEF MessagingTypeOK
  <2>8. Checked(held)
    BY <1>0, <2>1, <2>3, <2>5 DEF Checked, NewerThan
  <2>9. CheckedInv'
    BY <2>4, <2>6, <2>8 DEF CheckedInv, Checked
  <2>10. FateInv' /\ AnswerFollowsFate'
    BY <2>4, <2>6 DEF FateInv, AnswerFollowsFate
  <2>. QED
    BY <2>7, <2>9, <2>10
<1>2. CASE ValidSignature(p)
  <2>1. /\ stage' = [stage EXCEPT ![p] = "entity"] /\ stage[p] # "idle"
        /\ UNCHANGED <<message, db, disk, fate>>
    BY <1>2 DEF ValidSignature, storeVars
  <2>2. MessagingTypeOK'
    BY <2>1 DEF MessagingTypeOK
  <2>3. \A q \in Publisher : stage'[q] = stage[q] \/ (stage'[q] = "entity" /\ stage[q] # "idle")
    BY <2>1 DEF MessagingTypeOK
  <2>. QED
    BY <2>1, <2>2, <2>3 DEF CheckedInv, Checked, FateInv, AnswerFollowsFate
<1>3. CASE InvalidSignature(p) \/ Answer(p)
  <2>1. /\ stage' = [stage EXCEPT ![p] = "idle"] /\ message' = [message EXCEPT ![p] = None]
        /\ UNCHANGED <<db, disk>>
    BY <1>3 DEF InvalidSignature, Answer, Return, storeVars
  <2>2. fate' = fate \/ fate' = [fate EXCEPT ![p] = {}]
    BY <1>3 DEF InvalidSignature, Answer
  <2>3. /\ stage'[p] = "idle"
        /\ \A q \in Publisher : q # p => message'[q] = message[q] /\ stage'[q] = stage[q] /\ fate'[q] = fate[q]
    BY <2>1, <2>2 DEF MessagingTypeOK
  <2>4. fate' \in [Publisher -> SUBSET {"landed", "overwritten", "rollback"}]
    BY <2>2 DEF MessagingTypeOK
  <2>5. MessagingTypeOK'
    BY <2>1, <2>3, <2>4 DEF MessagingTypeOK
  <2>. QED
    BY <2>1, <2>3, <2>5 DEF CheckedInv, Checked, FateInv, AnswerFollowsFate
<1>4. CASE WriteEntity(p)
  <2>1. /\ stage' = [stage EXCEPT ![p] = "row"] /\ stage[p] = "entity"
        /\ db' = [db EXCEPT !.entity = TRUE] /\ UNCHANGED <<message, disk, fate>>
    BY <1>4 DEF WriteEntity
  <2>2. db' \in Db /\ db'.entity /\ db'.row = db.row /\ db'.version = db.version
    BY <1>0, <2>1 DEF Db
  <2>3. MessagingTypeOK'
    BY <2>1, <2>2 DEF MessagingTypeOK
  <2>4. \A q \in Publisher : stage'[q] = stage[q] \/ (stage'[q] = "row" /\ stage[q] # "idle")
    BY <2>1 DEF MessagingTypeOK
  <2>. QED
    BY <2>1, <2>2, <2>3, <2>4 DEF CheckedInv, Checked, FateInv, AnswerFollowsFate
<1>5. CASE WriteRow(p)
  <2>1. /\ stage' = [stage EXCEPT ![p] = "execute"] /\ stage[p] = "row"
        /\ db' = IF db.entity THEN [db EXCEPT !.row = RowOf(message[p])] ELSE db
        /\ UNCHANGED <<message, disk>>
    BY <1>5 DEF WriteRow
  <2>2. fate' = [q \in Publisher |-> IF Writing(q) /\ q # p THEN fate[q] \cup {"overwritten"} ELSE fate[q]]
    BY <1>5 DEF WriteRow, Met
  <2>3. message[p] \in Held /\ Checked(message[p])
    BY <2>1 DEF MessagingTypeOK, CheckedInv
  <2>4. RowOf(message[p]) \in Row /\ Checked(RowOf(message[p]))
    BY <2>3, RowTyped DEF Checked
  <2>5. /\ db' \in Db /\ db'.version = db.version /\ db'.entity = db.entity
        /\ db'.row = IF db.entity THEN RowOf(message[p]) ELSE db.row
    BY <1>0, <2>1, <2>4 DEF Db
  <2>6. stage'[p] = "execute" /\ fate'[p] = fate[p]
    BY <2>1, <2>2 DEF MessagingTypeOK
  <2>7. ASSUME NEW q \in Publisher, q # p
        PROVE  stage'[q] = stage[q] /\ fate[q] \subseteq fate'[q] /\ (Writing(q) => fate'[q] # {})
    BY <2>1, <2>2, <2>7 DEF MessagingTypeOK
  <2>8. MessagingTypeOK'
    BY <2>1, <2>2, <2>5 DEF MessagingTypeOK
  <2>9. CheckedInv'
    BY <2>1, <2>4, <2>5, <2>7 DEF CheckedInv, Checked
  <2>10. FateInv'
    BY <2>1, <2>5, <2>6, <2>7 DEF FateInv, Writing
  <2>11. AnswerFollowsFate'
    BY <2>6, <2>7 DEF AnswerFollowsFate
  <2>. QED
    BY <2>8, <2>9, <2>10, <2>11
<1>6. CASE Execute(p)
  <2>1. stage' = [stage EXCEPT ![p] = "answered"] /\ stage[p] = "execute" /\ Commit /\ UNCHANGED message
    BY <1>6 DEF Execute
  <2>2. stage'[p] = "answered" /\ \A q \in Publisher : q # p => stage'[q] = stage[q]
    BY <2>1 DEF MessagingTypeOK
  <2>3. CheckedInv'
    BY <2>1, <2>2, CommitChecked
  <2>4. MessagingTypeOK'
    BY <2>1, <2>2, CommitStep DEF MessagingTypeOK
  <2>5. fate'[p] # {}
    BY <2>1, CommitStep DEF FateInv, Writing
  <2>6. FateInv'
    BY <2>1, <2>2, <2>5, CommitStep DEF FateInv
  <2>7. AnswerFollowsFate'
    BY <2>1, <2>2, <2>5, CommitStep DEF AnswerFollowsFate
  <2>. QED
    BY <2>3, <2>4, <2>6, <2>7
<1>. QED
  BY <1>1, <1>2, <1>3, <1>4, <1>5, <1>6 DEF Publish

(* Every step of the engine keeps the invariant. *)
LEMMA IndexStep ==
    ASSUME MessagingInv, Index
    PROVE  MessagingInv'
<1>. USE DEF MessagingInv
<1>0. disk \in Db /\ db \in Db
  BY DEF MessagingTypeOK
<1>1. CASE ProcessEvent \/ UpdateCursors
  <2>1. UNCHANGED <<stage, message, disk, fate>>
    BY <1>1 DEF ProcessEvent, UpdateCursors, publishVars
  <2>2. db' \in Db /\ db'.row = db.row /\ db'.entity = db.entity /\ db'.version = db.version
    BY <1>0, <1>1 DEF ProcessEvent, UpdateCursors, Db
  <2>. QED
    BY <2>1, <2>2 DEF MessagingTypeOK, CheckedInv, Checked, FateInv, AnswerFollowsFate
<1>2. CASE CommitBatch
  <2>1. Commit /\ UNCHANGED <<stage, message>>
    BY <1>2 DEF CommitBatch, publishVars
  <2>2. CheckedInv'
    BY <2>1, CommitChecked
  <2>3. MessagingTypeOK'
    BY <2>1, CommitStep DEF MessagingTypeOK
  <2>4. FateInv' /\ AnswerFollowsFate'
    BY <2>1, CommitStep DEF FateInv, AnswerFollowsFate
  <2>. QED
    BY <2>2, <2>3, <2>4
<1>3. CASE RollbackBatch
  <2>1. db' = disk /\ UNCHANGED <<stage, message, disk>>
    BY <1>3 DEF RollbackBatch, Undo, publishVars
  <2>2. fate' = [q \in Publisher |-> IF Writing(q) THEN fate[q] \cup {"rollback"} ELSE fate[q]]
    BY <1>3 DEF RollbackBatch, Met
  <2>3. \A q \in Publisher : fate[q] \subseteq fate'[q] /\ (Writing(q) => fate'[q] # {})
    BY <2>2
  <2>4. MessagingTypeOK'
    BY <2>1, <2>2 DEF MessagingTypeOK
  <2>5. CheckedInv'
    BY <2>1 DEF CheckedInv, Checked
  <2>6. FateInv' /\ AnswerFollowsFate'
    BY <2>1, <2>3 DEF FateInv, AnswerFollowsFate, Writing
  <2>. QED
    BY <2>4, <2>5, <2>6
<1>. QED
  BY <1>1, <1>2, <1>3 DEF Index

(* The end of the process keeps the invariant. *)
LEMMA CrashStep ==
    ASSUME MessagingInv, Crash
    PROVE  MessagingInv'
<1>1. /\ db' = disk /\ disk' = disk
      /\ stage' = [q \in Publisher |-> "idle"] /\ message' = [q \in Publisher |-> None]
      /\ fate' = [q \in Publisher |-> {}]
  BY DEF Crash, Undo
<1>2. MessagingTypeOK'
  BY <1>1 DEF MessagingInv, MessagingTypeOK
<1>. QED
  BY <1>1, <1>2 DEF MessagingInv, CheckedInv, FateInv, AnswerFollowsFate

(* The invariant is inductive. *)
LEMMA MessagingInvStep ==
    ASSUME MessagingConfiguration, MessagingInv, [MessagingNext]_messagingVars
    PROVE  MessagingInv'
<1>1. CASE UNCHANGED messagingVars
  BY <1>1 DEF messagingVars, MessagingInv, MessagingTypeOK, CheckedInv, Checked, FateInv, AnswerFollowsFate
<1>. QED
  BY <1>1, PublishStep, IndexStep, CrashStep DEF MessagingNext

(* The invariant holds at the start. *)
LEMMA InitMessagingInv == MessagingInit => MessagingInv
<1>. SUFFICES ASSUME MessagingInit PROVE MessagingInv
  OBVIOUS
<1>1. EmptyDb \in Db
  BY DEF EmptyDb, NoEntity, Db, Row
<1>2. MessagingTypeOK
  BY <1>1 DEF MessagingInit, MessagingTypeOK
<1>. QED
  BY <1>2 DEF MessagingInit, MessagingInv, CheckedInv, FateInv, AnswerFollowsFate

(* Only a commit changes what is committed, and the row it brings was checked. *)
LEMMA CommittedStep ==
    ASSUME MessagingInv, [MessagingNext]_messagingVars
    PROVE  NewerReplaces
<1>1. CASE disk' = disk
  BY <1>1 DEF NewerReplaces
<1>2. CASE Commit
  <2>1. disk'.row = db.row /\ disk \in Db /\ db \in Db
    BY <1>2, CommitStep DEF MessagingInv, MessagingTypeOK
  <2>2. disk.version \in Nat /\ db.row.checked \in Nat
    BY <2>1, DbTyped
  <2>. QED
    BY <2>1, <2>2 DEF MessagingInv, CheckedInv, Checked, NewerReplaces
<1>3. \/ Commit
      \/ disk' = disk
  BY DEF MessagingNext, messagingVars, Publish, Index, Validate, ValidSignature, InvalidSignature, WriteEntity, WriteRow,
         Execute, Answer, ProcessEvent, UpdateCursors, CommitBatch, RollbackBatch, Crash, storeVars
<1>. QED
  BY <1>1, <1>2, <1>3

-----------------------------------------------------------------------------
(* A publisher is told Ok only when its message was on disk, another was written
   over it, or the engine rolled both back meanwhile (validate_and_set_entity). *)
LEMMA AnswersFollowFate == MessagingSpec => []AnswerFollowsFate
<1>. MessagingConfiguration
  BY MessagingConfigured
<1>1. MessagingInit => MessagingInv
  BY InitMessagingInv
<1>2. MessagingInv /\ [MessagingNext]_messagingVars => MessagingInv'
  BY MessagingInvStep
<1>3. MessagingInv => AnswerFollowsFate
  BY DEF MessagingInv
<1>. QED
  BY <1>1, <1>2, <1>3, PTL DEF MessagingSpec

(* A committed message gives way to a newer one, or to one that was checked before
   it was committed (validate_and_set_entity reads the committed timestamp before
   it awaits the signature). *)
THEOREM MessagesGrowNewer == MessagingSpec => TimestampsGrow
<1>. MessagingConfiguration
  BY MessagingConfigured
<1>1. MessagingInit => MessagingInv
  BY InitMessagingInv
<1>2. MessagingInv /\ [MessagingNext]_messagingVars => MessagingInv'
  BY MessagingInvStep
<1>3. MessagingInv /\ [MessagingNext]_messagingVars => [NewerReplaces]_messagingVars
  BY CommittedStep
<1>. QED
  BY <1>1, <1>2, <1>3, PTL DEF MessagingSpec, TimestampsGrow

-----------------------------------------------------------------------------
(* Unless a part of a batch was committed and the rest undone, the transaction holds
   whole batches and what was sent of the one under way. *)
BatchInv ==
    /\ engine \in {"process", "commit"} /\ applied \in Nat
    /\ split \in {"no", "yes", "undone"}
    /\ db.events \in Nat /\ db.head \in Nat
    /\ engine = "commit" => split = "undone" \/ db.events = Batch * db.head
    /\ engine = "process" => split = "undone" \/ db.events = Batch * db.head + applied
    /\ BatchesWhole

(* Everybody's commit takes what the engine has written so far. *)
LEMMA BatchCommit ==
    ASSUME MessagingTypeOK, BatchInv, Commit
    PROVE  /\ db'.events = db.events /\ db'.head = db.head
           /\ disk'.events = db.events /\ disk'.head = db.head
<1>1. db' = [db EXCEPT !.version = @ + 1] /\ disk' = db' /\ db \in Db
  BY DEF Commit, MessagingTypeOK
<1>. QED
  BY <1>1 DEF Db

(* A rollback or the end of the process goes back to what is committed. *)
LEMMA BatchUndo ==
    ASSUME MessagingConfiguration, MessagingTypeOK, BatchInv, Undo, UNCHANGED disk
    PROVE  BatchInv'
<1>1. disk.events \in Nat /\ disk.head \in Nat
  BY DEF MessagingTypeOK, Db
<1>2. db' = disk /\ applied' = 0 /\ engine' = "process" /\ split' = IF split = "no" THEN "no" ELSE "undone"
  BY DEF Undo
<1>3. split' # "undone" => split = "no" /\ disk.events = Batch * disk.head
  BY <1>2 DEF BatchInv, BatchesWhole
<1>4. Batch * disk.head \in Nat
  BY <1>1 DEF MessagingConfiguration
<1>. QED
  BY <1>1, <1>2, <1>3, <1>4 DEF BatchInv, BatchesWhole

(* Every step keeps the batches. *)
LEMMA BatchStep ==
    ASSUME MessagingConfiguration, MessagingTypeOK, BatchInv, [MessagingNext]_messagingVars
    PROVE  BatchInv'
<1>0. Batch \in Nat /\ db \in Db /\ db.events \in Nat /\ db.head \in Nat /\ Batch * db.head \in Nat
  BY DEF MessagingConfiguration, MessagingTypeOK, Db
<1>1. CASE UNCHANGED <<engine, applied, split, disk>> /\ db'.events = db.events /\ db'.head = db.head
  BY <1>1 DEF BatchInv, BatchesWhole
<1>2. ASSUME NEW p \in Publisher, Execute(p)
      PROVE  BatchInv'
  <2>1. /\ db'.events = db.events /\ db'.head = db.head /\ disk'.events = db.events /\ disk'.head = db.head
        /\ engine' = engine /\ applied' = applied
    BY <1>2, BatchCommit DEF Execute, engineVars
  <2>2. split' = IF split = "undone" THEN split ELSE IF engine = "process" /\ applied > 0 THEN "yes" ELSE "no"
    BY <1>2 DEF Execute
  <2>3. split' = "no" => db.events = Batch * db.head
    BY <1>0, <2>2 DEF BatchInv
  <2>. QED
    BY <2>1, <2>2, <2>3 DEF BatchInv, BatchesWhole
<1>3. CASE ProcessEvent
  <2>1. db' = [db EXCEPT !.events = @ + 1] /\ applied' = applied + 1 /\ engine = "process" /\ UNCHANGED <<engine, split, disk>>
    BY <1>3 DEF ProcessEvent
  <2>2. db'.events = db.events + 1 /\ db'.head = db.head
    BY <1>0, <2>1 DEF Db
  <2>. QED
    BY <1>0, <2>1, <2>2 DEF BatchInv, BatchesWhole
<1>4. CASE UpdateCursors
  <2>1. db' = [db EXCEPT !.head = @ + 1] /\ applied = Batch /\ engine = "process" /\ engine' = "commit"
        /\ UNCHANGED <<applied, split, disk>>
    BY <1>4 DEF UpdateCursors
  <2>2. db'.events = db.events /\ db'.head = db.head + 1
    BY <1>0, <2>1 DEF Db
  <2>3. Batch * (db.head + 1) = Batch * db.head + Batch
    BY <1>0
  <2>. QED
    BY <1>0, <2>1, <2>2, <2>3 DEF BatchInv, BatchesWhole
<1>5. CASE CommitBatch
  <2>1. /\ db'.events = db.events /\ db'.head = db.head /\ disk'.events = db.events /\ disk'.head = db.head
        /\ engine = "commit" /\ engine' = "process" /\ applied' = 0
    BY <1>5, BatchCommit DEF CommitBatch
  <2>2. split' = IF split = "undone" THEN split ELSE "no"
    BY <1>5 DEF CommitBatch
  <2>. QED
    BY <1>0, <2>1, <2>2 DEF BatchInv, BatchesWhole
<1>6. CASE RollbackBatch \/ Crash
  BY <1>6, BatchUndo DEF RollbackBatch, Crash
<1>7. ASSUME NEW p \in Publisher, Publish(p), ~ Execute(p)
      PROVE  BatchInv'
  <2>1. UNCHANGED <<engine, applied, split, disk>>
    BY <1>7 DEF Publish, Validate, ValidSignature, InvalidSignature, WriteEntity, WriteRow, Answer, engineVars, storeVars
  <2>2. \/ db' = db
        \/ db' = [db EXCEPT !.entity = TRUE]
        \/ db' = [db EXCEPT !.row = RowOf(message[p])]
    BY <1>7 DEF Publish, Validate, ValidSignature, InvalidSignature, WriteEntity, WriteRow, Answer, storeVars
  <2>3. db'.events = db.events /\ db'.head = db.head
    BY <1>0, <2>2 DEF Db
  <2>. QED
    BY <1>1, <2>1, <2>3
<1>8. CASE UNCHANGED messagingVars
  BY <1>1, <1>8 DEF messagingVars
<1>. QED
  BY <1>2, <1>3, <1>4, <1>5, <1>6, <1>7, <1>8 DEF MessagingNext, Index

(* What is on disk of the engine's batches are whole batches, each once, unless a
   message's commit took part of a batch and the rest was undone or is to come
   (validate_and_set_entity ends with a commit of the transaction it shares). *)
LEMMA BatchesAreWhole == MessagingSpec => []BatchesWhole
<1>. MessagingConfiguration
  BY MessagingConfigured
<1>1. MessagingInit => MessagingInv /\ BatchInv
  <2>1. MessagingInit => BatchInv
    <3>. SUFFICES ASSUME MessagingInit PROVE BatchInv
      OBVIOUS
    <3>1. db.events = 0 /\ db.head = 0 /\ disk.events = 0 /\ disk.head = 0 /\ Batch \in Nat
      BY DEF MessagingInit, EmptyDb, MessagingConfiguration
    <3>2. Batch * 0 = 0
      BY <3>1
    <3>. QED
      BY <3>1, <3>2 DEF MessagingInit, BatchInv, BatchesWhole
  <2>. QED
    BY <2>1, InitMessagingInv
<1>2. MessagingInv /\ BatchInv /\ [MessagingNext]_messagingVars => MessagingInv' /\ BatchInv'
  BY MessagingInvStep, BatchStep DEF MessagingInv
<1>3. BatchInv => BatchesWhole
  BY DEF BatchInv
<1>. QED
  BY <1>1, <1>2, <1>3, PTL DEF MessagingSpec

(* A publisher is answered when its message is stored, written over or rolled back
   with the batch it shares the transaction with; and batches are stored whole
   unless a message splits one (validate_and_set_entity, Engine::process). *)
THEOREM AnswersAreStored == MessagingSpec => []AnsweredIsStored
  BY AnswersFollowFate, BatchesAreWhole, PTL DEF AnsweredIsStored

-----------------------------------------------------------------------------
(* The process and its servers *)

Server == [models : SUBSET Model, up : BOOLEAN]
Asked == [at : {"idle", "waiting", "holding", "forwarded", "refused"},
          server : Nat \cup {Nothing}, floor : SUBSET Model]

RunnerTypeOK ==
    /\ dir \in BOOLEAN
    /\ file \in File \cup {Nothing}
    /\ starts \in Nat /\ committed \in SUBSET Model /\ partial \in BOOLEAN
    /\ phase \in {"off", "snapshot", "download", "open", "opened", "executor", "serving"}
    /\ url \in BOOLEAN /\ received \in Nat /\ pending \in BOOLEAN /\ late \in BOOLEAN /\ told \in BOOLEAN
    /\ rebuild \in {"start", "build", "panicked", "lock", "routed", "wait", "ended"}
    /\ servers \in Seq(Server)
    /\ route \in Nat \cup {Nothing} /\ current \in Nat \cup {Nothing}
    /\ unpublished \in Nat /\ updates \in Nat
    /\ request \in [Client -> Asked] /\ requests \in Nat /\ seen \in SUBSET Model

Downloading == phase = "download" \/ (phase = "open" /\ url)
Opened == phase \in {"opened", "executor", "serving"}

(* A chunk that is not written yet belongs to a download, or was overtaken by the
   opening of the database; nothing is served before the services are started. *)
PhaseInv ==
    /\ pending => Downloading \/ (Opened /\ late)
    /\ late => Opened
    /\ Downloading \/ Opened => file # Nothing
    /\ phase = "snapshot" => url
    /\ Downloading => url
    /\ phase = "open" /\ url => received = Chunks
    /\ phase # "serving" =>
          /\ rebuild = "start" /\ unpublished = 0
          /\ seen = {} /\ request = [c \in Client |-> Idle]
    /\ rebuild = "start" => servers = << >> /\ route = Nothing /\ current = Nothing

(* Nothing was committed to a file that a snapshot is written to. *)
FileInv ==
    /\ file = Nothing => committed = {}
    /\ Downloading => committed = {}
    /\ ~dir /\ phase = "snapshot" => committed = {}
    /\ Downloading /\ ~pending /\ received = Chunks => file.whole
    /\ phase = "off" \/ (phase = "open" /\ ~url) => file = Nothing \/ file.whole \/ partial

(* The server that is replaced last is the one before the newest. *)
Previous == IF Len(servers) = 1 THEN Nothing ELSE Len(servers) - 1

ServersInv ==
    /\ rebuild \in {"build", "panicked"} =>
          \/ servers = << >> /\ route = Nothing /\ current = Nothing
          \/ route = Len(servers) /\ current = Len(servers) /\ servers # << >>
    /\ rebuild \in {"lock", "routed", "wait", "ended"} => servers # << >>
    /\ rebuild = "lock" => route = Previous /\ current = Previous
    /\ rebuild = "routed" => route = Len(servers) /\ current = Previous
    /\ rebuild \in {"wait", "ended"} => route = Len(servers) /\ current = Len(servers)
    /\ \A s \in DOMAIN servers :
          servers[s].up <=> \/ s = Len(servers) /\ rebuild \notin {"ended", "panicked"}
                            \/ s = Len(servers) - 1 /\ rebuild \in {"lock", "routed"}
    /\ rebuild = "ended" => told

(* Schemas grow from server to server, and the newest is as new as the database
   when no update is on its way. *)
SchemaInv ==
    /\ \A s, t \in DOMAIN servers : s <= t => servers[s].models \subseteq servers[t].models
    /\ \A s \in DOMAIN servers : file # Nothing /\ servers[s].models \subseteq file.models
    /\ rebuild \in {"lock", "routed", "wait"} /\ unpublished + updates = 0 /\ ~late =>
          servers[Len(servers)].models = file.models

(* The route does not change while a request holds the lock. *)
RequestInv ==
    /\ seen # {} => route # Nothing /\ seen \subseteq servers[route].models
    /\ \A c \in Client :
          /\ request[c].floor \subseteq seen
          /\ request[c].at \in {"forwarded", "refused"} => request[c].server = route /\ route # Nothing
          /\ request[c].at = "refused" => told \/ rebuild = "panicked"

RunnerInv == RunnerTypeOK /\ PhaseInv /\ FileInv /\ DatabaseKept /\ ServersInv /\ SchemaInv /\ RequestInv

-----------------------------------------------------------------------------
(* What a list of servers holds. *)
LEMMA ServerTyped ==
    ASSUME RunnerTypeOK, NEW s \in DOMAIN servers
    PROVE  servers[s] \in Server /\ servers[s].models \in SUBSET Model /\ servers[s].up \in BOOLEAN
<1>1. servers[s] \in Server
  BY DEF RunnerTypeOK
<1>. QED
  BY <1>1 DEF Server

(* A list with one server stopped. *)
LEMMA StoppedTyped ==
    ASSUME RunnerTypeOK, NEW s \in DOMAIN servers
    PROVE  /\ [servers EXCEPT ![s].up = FALSE] \in Seq(Server)
           /\ Len([servers EXCEPT ![s].up = FALSE]) = Len(servers)
           /\ DOMAIN [servers EXCEPT ![s].up = FALSE] = DOMAIN servers
           /\ \A t \in DOMAIN servers :
                 /\ [servers EXCEPT ![s].up = FALSE][t].models = servers[t].models
                 /\ [servers EXCEPT ![s].up = FALSE][t].up <=> t # s /\ servers[t].up
<1>1. servers[s] \in Server
  BY ServerTyped
<1>2. [servers[s] EXCEPT !.up = FALSE] \in Server
  BY <1>1, Zenon DEF Server
<1>3. [servers EXCEPT ![s].up = FALSE] = [servers EXCEPT ![s] = [servers[s] EXCEPT !.up = FALSE]]
  OBVIOUS
<1>4. DOMAIN [servers EXCEPT ![s].up = FALSE] = DOMAIN servers
  OBVIOUS
<1>5. /\ [servers EXCEPT ![s].up = FALSE] \in Seq(Server)
      /\ Len([servers EXCEPT ![s].up = FALSE]) = Len(servers)
  BY <1>2 DEF RunnerTypeOK
<1>6. ASSUME NEW t \in DOMAIN servers
      PROVE  /\ [servers EXCEPT ![s].up = FALSE][t].models = servers[t].models
             /\ [servers EXCEPT ![s].up = FALSE][t].up <=> t # s /\ servers[t].up
  <2>1. CASE t = s
    <3>1. [servers EXCEPT ![s].up = FALSE][t] = [servers[s] EXCEPT !.up = FALSE]
      BY <2>1, <1>3
    <3>2. [servers[s] EXCEPT !.up = FALSE].models = servers[s].models
      BY <1>1 DEF Server
    <3>3. [servers[s] EXCEPT !.up = FALSE].up = FALSE
      BY <1>1 DEF Server
    <3>. QED
      BY <2>1, <3>1, <3>2, <3>3, Zenon
  <2>2. CASE t # s
    <3>1. [servers EXCEPT ![s].up = FALSE][t] = servers[t]
      BY <2>2, <1>3
    <3>. QED
      BY <2>2, <3>1
  <2>. QED
    BY <2>1, <2>2
<1>. QED
  BY <1>4, <1>5, <1>6

(* The proxy and the loop know servers of the list. *)
LEMMA RouteIsServer ==
    ASSUME RunnerConfiguration, RunnerTypeOK, PhaseInv, ServersInv
    PROVE  /\ route # Nothing => route \in DOMAIN servers
           /\ current # Nothing => current \in DOMAIN servers
<1>1. DOMAIN servers = 1..Len(servers) /\ Len(servers) \in Nat /\ (servers # << >> => Len(servers) > 0)
  BY DEF RunnerTypeOK
<1>2. CASE rebuild \in {"start", "build", "panicked"}
  BY <1>1, <1>2 DEF PhaseInv, ServersInv
<1>3. CASE rebuild \in {"lock", "routed"}
  BY <1>1, <1>3 DEF ServersInv, Previous
<1>4. CASE rebuild \in {"wait", "ended"}
  BY <1>1, <1>4 DEF ServersInv
<1>. QED
  BY <1>2, <1>3, <1>4 DEF RunnerTypeOK

(* The servers once the current one is stopped. *)
LEMMA CurrentStopped ==
    ASSUME RunnerConfiguration, RunnerTypeOK, PhaseInv, ServersInv, servers' = StopServer(current)
    PROVE  /\ servers' \in Seq(Server)
           /\ Len(servers') = Len(servers)
           /\ DOMAIN servers' = DOMAIN servers
           /\ \A t \in DOMAIN servers :
                 /\ servers'[t].models = servers[t].models
                 /\ servers'[t].up <=> t # current /\ servers[t].up
<1>1. CASE current = Nothing
  <2>1. servers' = servers
    BY <1>1 DEF StopServer
  <2>2. \A t \in DOMAIN servers : t # current
    BY <1>1 DEF RunnerTypeOK, RunnerConfiguration
  <2>. QED
    BY <2>1, <2>2 DEF RunnerTypeOK
<1>2. CASE current # Nothing
  <2>1. current \in DOMAIN servers
    BY <1>2, RouteIsServer
  <2>. DEFINE S == [servers EXCEPT ![current].up = FALSE]
  <2>2. servers' = S
    BY <1>2 DEF StopServer
  <2>3. /\ S \in Seq(Server) /\ Len(S) = Len(servers) /\ DOMAIN S = DOMAIN servers
        /\ \A t \in DOMAIN servers :
              /\ S[t].models = servers[t].models
              /\ S[t].up <=> t # current /\ servers[t].up
    BY <2>1, StoppedTyped
  <2>. HIDE DEF S
  <2>. QED
    BY <2>2, <2>3
<1>. QED
  BY <1>1, <1>2

(* The state that is left by a stop, and the initial one. *)
LEMMA IdleTyped == Idle \in Asked /\ [c \in Client |-> Idle] \in [Client -> Asked]
  BY DEF Idle, Asked

(* The files that a start and a download make. *)
LEMMA FileMade ==
    ASSUME RunnerConfiguration
    PROVE  /\ NewFile \in File /\ NewFile # Nothing /\ NewFile.whole /\ NewFile.models = {}
           /\ Written \in File /\ Written # Nothing /\ (Written.whole <=> received = Chunks)
<1>1. NewFile \in File /\ NewFile.whole /\ NewFile.models = {}
  BY DEF NewFile, File
<1>2. Written \in File
  BY DEF Written, File, RunnerConfiguration
<1>3. Written.whole <=> received = Chunks
  BY Zenon DEF Written
<1>. QED
  BY <1>1, <1>2, <1>3 DEF RunnerConfiguration

(* A chunk that lands after the database was opened takes nothing from it. *)
LEMMA LateLanding ==
    ASSUME RunnerConfiguration, RunnerTypeOK, PhaseInv, Land, late
    PROVE  /\ file \in File /\ file # Nothing
           /\ file' \in File /\ file' # Nothing /\ file.models \subseteq file'.models
<1>1. file \in File /\ file # Nothing
  BY DEF PhaseInv, RunnerTypeOK
<1>2. CASE file' = file
  BY <1>1, <1>2
<1>3. CASE file' = [whole |-> TRUE, models |-> file.models \cup Snapshot]
  <2>1. file' \in File /\ file.models \subseteq file'.models
    BY <1>1, <1>3 DEF File, RunnerConfiguration
  <2>. QED
    BY <1>1, <2>1 DEF RunnerConfiguration
<1>. QED
  BY <1>2, <1>3 DEF Land

(* Every action keeps the types. *)
LEMMA TypeStep ==
    ASSUME RunnerConfiguration, RunnerTypeOK, PhaseInv, ServersInv, RequestInv, [RunnerNext]_runnerVars
    PROVE  RunnerTypeOK'
<1>1. NewFile \in File /\ Written \in File
  BY FileMade
<1>2. CASE Start
  <2>1. phase' \in {"snapshot", "open"} /\ url' \in BOOLEAN
    BY <1>2 DEF Start
  <2>2. file' \in File \cup {Nothing} /\ committed' \in SUBSET Model /\ partial' \in BOOLEAN
    BY <1>1, <1>2, Zenon DEF Start, RunnerTypeOK
  <2>. QED
    BY <1>2, <2>1, <2>2 DEF RunnerTypeOK, Start, serving, asked
<1>3. CASE CreateFile
  BY <1>1, <1>3 DEF RunnerTypeOK, CreateFile, serving, asked
<1>4. CASE Receive
  BY <1>4 DEF RunnerTypeOK, Receive, fileVars, serving, asked
<1>5. CASE Land
  <2>1. file' \in File
    <3>1. CASE late
      BY <1>5, <3>1, LateLanding
    <3>2. CASE ~late
      BY <1>1, <1>5, <3>2 DEF Land
    <3>. QED
      BY <3>1, <3>2
  <2>2. pending' \in BOOLEAN
    BY <1>5, Zenon DEF Land
  <2>3. UNCHANGED <<dir, starts, committed, partial, phase, url, received, late, told, serving, asked>>
    BY <1>5 DEF Land
  <2>. QED
    BY <2>1, <2>2, <2>3 DEF RunnerTypeOK, serving, asked
<1>6. CASE Downloaded \/ SpawnExecutor \/ Spawn \/ Signal
  <2>1. phase' \in {"open", "executor", "serving"} \/ phase' = phase
    BY <1>6 DEF Downloaded, SpawnExecutor, Spawn, Signal
  <2>2. told' \in BOOLEAN
    BY <1>6, Zenon DEF Downloaded, SpawnExecutor, Spawn, Signal, RunnerTypeOK
  <2>3. UNCHANGED <<fileVars, url, received, pending, late, serving, asked>>
    BY <1>6 DEF Downloaded, SpawnExecutor, Spawn, Signal
  <2>. QED
    BY <2>1, <2>2, <2>3 DEF RunnerTypeOK, fileVars, serving, asked
<1>7. CASE Open
  BY <1>1, <1>7 DEF RunnerTypeOK, Open, serving, asked
<1>8. CASE Stop
  <2>1. file' \in File \cup {Nothing}
    BY <1>1, <1>8 DEF Stop, RunnerTypeOK
  <2>2. partial' \in BOOLEAN /\ committed' \in SUBSET Model
    BY <1>8 DEF Stop, RunnerTypeOK
  <2>3. servers' \in Seq(Server)
    BY <1>8 DEF Stop, Reset
  <2>. QED
    BY <1>8, <2>1, <2>2, <2>3, IdleTyped, Zenon DEF RunnerTypeOK, Stop, Reset
<1>9. CASE Remove
  BY <1>9, ZenonT(30) DEF RunnerTypeOK, Remove, startup, serving, asked
<1>10. ASSUME NEW m \in Model, CommitModel(m)
       PROVE  RunnerTypeOK'
  <2>1. file \in File
    BY <1>10 DEF CommitModel, PhaseInv, RunnerTypeOK, Opened
  <2>2. file' \in File
    BY <1>10, <2>1 DEF CommitModel, File
  <2>. QED
    BY <1>10, <2>2 DEF RunnerTypeOK, CommitModel, startup, asked
<1>11. CASE PublishUpdate \/ Subscribe \/ Update
  <2>1. CASE PublishUpdate
    BY <2>1 DEF RunnerTypeOK, PublishUpdate, fileVars, startup, asked
  <2>2. CASE Subscribe
    BY <2>2 DEF RunnerTypeOK, Subscribe, fileVars, startup, asked
  <2>3. CASE Update
    BY <2>3 DEF RunnerTypeOK, Update, fileVars, startup, asked
  <2>. QED
    BY <1>11, <2>1, <2>2, <2>3
<1>12. CASE Build
  <2>1. file \in File
    BY <1>12 DEF Build, PhaseInv, RunnerTypeOK, Opened
  <2>2. build_schema \in Server
    BY <2>1 DEF build_schema, build_objects, File, Server
  <2>3. servers' \in Seq(Server)
    <3>1. CASE servers' = StopServer(current)
      BY <3>1, CurrentStopped, Zenon
    <3>2. CASE servers' = Append(servers, build_schema)
      BY <2>2, <3>2 DEF RunnerTypeOK
    <3>. QED
      BY <1>12, <3>1, <3>2, Zenon DEF Build
  <2>. QED
    BY <1>12, <2>3 DEF RunnerTypeOK, Build, fileVars, startup, asked
<1>13. CASE set_graphql_addr
  <2>1. request' \in [Client -> Asked] /\ route' \in Nat
    BY <1>13 DEF set_graphql_addr, RunnerTypeOK, Asked
  <2>. QED
    BY <1>13, <2>1 DEF RunnerTypeOK, set_graphql_addr, fileVars, startup
<1>14. CASE StopPrevious
  <2>1. servers' \in Seq(Server)
    BY <1>14, CurrentStopped, Zenon DEF StopPrevious
  <2>2. current' \in Nat
    BY <1>14 DEF StopPrevious, RunnerTypeOK
  <2>. QED
    BY <1>14, <2>1, <2>2 DEF RunnerTypeOK, StopPrevious, fileVars, startup, asked
<1>15. CASE Shutdown
  <2>1. servers' \in Seq(Server)
    BY <1>15, CurrentStopped, Zenon DEF Shutdown
  <2>. QED
    BY <1>15, <2>1 DEF RunnerTypeOK, Shutdown, fileVars, startup, asked
<1>16. ASSUME NEW c \in Client, Arrive(c)
       PROVE  RunnerTypeOK'
  BY <1>16 DEF RunnerTypeOK, Arrive, Asked, fileVars, startup, serving
<1>17. ASSUME NEW c \in Client, Forward(c)
       PROVE  RunnerTypeOK'
  <2>1. [request[c] EXCEPT !.server = route,
                           !.at = IF servers[route].up THEN "forwarded" ELSE "refused"] \in Asked
    BY Zenon DEF RunnerTypeOK, Asked
  <2>2. request' \in [Client -> Asked]
    BY <1>17, <2>1, IdleTyped DEF Forward, RunnerTypeOK
  <2>. QED
    BY <1>17, <2>2 DEF RunnerTypeOK, Forward, fileVars, startup, serving
<1>18. ASSUME NEW c \in Client, AnswerClient(c)
       PROVE  RunnerTypeOK'
  <2>1. request' \in [Client -> Asked]
    BY <1>18, IdleTyped DEF AnswerClient, RunnerTypeOK
  <2>2. request[c].at = "forwarded" => servers[request[c].server].models \in SUBSET Model
    BY RouteIsServer, ServerTyped DEF RequestInv
  <2>3. seen' \in SUBSET Model
    BY <1>18, <2>2 DEF AnswerClient, RunnerTypeOK
  <2>4. UNCHANGED <<fileVars, startup, serving, requests>>
    BY <1>18, Zenon DEF AnswerClient
  <2>. QED
    BY <2>1, <2>3, <2>4, SMTT(30) DEF RunnerTypeOK, fileVars, startup, serving
<1>19. ASSUME NEW c \in Client, AnswerOther(c) \/ Abandon(c)
       PROVE  RunnerTypeOK'
  <2>1. request' \in [Client -> Asked]
    BY <1>19, IdleTyped DEF AnswerOther, Abandon, RunnerTypeOK
  <2>. QED
    BY <1>19, <2>1 DEF RunnerTypeOK, AnswerOther, Abandon, fileVars, startup, serving
<1>20. CASE UNCHANGED runnerVars
  BY <1>20 DEF RunnerTypeOK, runnerVars, fileVars, startup, serving, asked
<1>. QED
  BY <1>2, <1>3, <1>4, <1>5, <1>6, <1>7, <1>8, <1>9, <1>10, <1>11, <1>12, <1>13, <1>14, <1>15, <1>16,
     <1>17, <1>18, <1>19, <1>20 DEF RunnerNext

(* Every action keeps what holds of the phases. *)
LEMMA PhaseStep ==
    ASSUME RunnerConfiguration, RunnerTypeOK, PhaseInv, ServersInv, [RunnerNext]_runnerVars
    PROVE  PhaseInv'
<1>1. NewFile # Nothing /\ Written # Nothing
  BY FileMade
<1>. USE DEF Downloading, Opened
<1>2. CASE Start
  BY <1>2 DEF PhaseInv, RunnerTypeOK, Start, serving, asked
<1>3. CASE CreateFile
  BY <1>1, <1>3 DEF PhaseInv, RunnerTypeOK, CreateFile, serving, asked
<1>4. CASE Receive
  BY <1>4, SMTT(30) DEF PhaseInv, RunnerTypeOK, Receive, fileVars, serving, asked
<1>5. CASE Land
  <2>1. file' # Nothing
    BY <1>1, <1>5, LateLanding, Zenon DEF Land
  <2>. QED
    BY <1>5, <2>1 DEF PhaseInv, RunnerTypeOK, Land, serving, asked
<1>6. CASE Downloaded
  BY <1>6 DEF PhaseInv, RunnerTypeOK, Downloaded, fileVars, serving, asked
<1>7. CASE Open
  BY <1>1, <1>7 DEF PhaseInv, RunnerTypeOK, Open, serving, asked
<1>8. CASE SpawnExecutor
  BY <1>8 DEF PhaseInv, RunnerTypeOK, SpawnExecutor, fileVars, serving, asked
<1>9. CASE Spawn
  BY <1>9 DEF PhaseInv, RunnerTypeOK, Spawn, fileVars, serving, asked
<1>10. CASE Signal
  BY <1>10 DEF PhaseInv, RunnerTypeOK, Signal, fileVars, serving, asked
<1>11. CASE Stop
  BY <1>11 DEF PhaseInv, RunnerTypeOK, Stop, Reset
<1>12. CASE Remove
  BY <1>12 DEF PhaseInv, RunnerTypeOK, Remove, startup, serving, asked
<1>13. ASSUME NEW m \in Model, CommitModel(m)
       PROVE  PhaseInv'
  <2>1. file' # Nothing
    <3>1. file \in File
      BY <1>13 DEF CommitModel, PhaseInv, RunnerTypeOK
    <3>2. file' \in File
      BY <1>13, <3>1 DEF CommitModel, File
    <3>. QED
      BY <3>2 DEF RunnerConfiguration
  <2>. QED
    BY <1>13, <2>1 DEF PhaseInv, RunnerTypeOK, CommitModel, startup, asked
<1>14. CASE PublishUpdate \/ Update
  BY <1>14 DEF PhaseInv, RunnerTypeOK, PublishUpdate, Update, fileVars, startup, asked
<1>15. CASE Subscribe \/ Build
  BY <1>15 DEF PhaseInv, RunnerTypeOK, Subscribe, Build, fileVars, startup, asked
<1>16. CASE set_graphql_addr \/ StopPrevious \/ Shutdown
  BY <1>16 DEF PhaseInv, RunnerTypeOK, set_graphql_addr, StopPrevious, Shutdown, fileVars, startup, asked
<1>17. ASSUME NEW c \in Client, Arrive(c) \/ Forward(c) \/ AnswerClient(c) \/ AnswerOther(c) \/ Abandon(c)
       PROVE  PhaseInv'
  <2>1. phase = "serving"
    BY <1>17 DEF PhaseInv, Arrive, Forward, AnswerClient, AnswerOther, Abandon, Idle
  <2>2. UNCHANGED <<fileVars, startup, serving>>
    BY <1>17 DEF Arrive, Forward, AnswerClient, AnswerOther, Abandon
  <2>. QED
    BY <2>1, <2>2 DEF PhaseInv, fileVars, startup, serving
<1>18. CASE UNCHANGED runnerVars
  BY <1>18 DEF PhaseInv, runnerVars, fileVars, startup, serving, asked
<1>. QED
  BY <1>2, <1>3, <1>4, <1>5, <1>6, <1>7, <1>8, <1>9, <1>10, <1>11, <1>12, <1>13, <1>14, <1>15, <1>16,
     <1>17, <1>18, SMTT(30) DEF RunnerNext

(* Every action keeps the file. *)
LEMMA FileStep ==
    ASSUME RunnerConfiguration, RunnerTypeOK, PhaseInv, FileInv, DatabaseKept, [RunnerNext]_runnerVars
    PROVE  FileInv' /\ DatabaseKept'
<1>1. NewFile # Nothing /\ NewFile.whole /\ NewFile.models = {} /\ Written # Nothing
      /\ (Written.whole <=> received = Chunks)
  BY FileMade
<1>. USE DEF Downloading, Opened
<1>2. CASE Start
  BY <1>1, <1>2 DEF FileInv, DatabaseKept, PhaseInv, RunnerTypeOK, Start
<1>3. CASE CreateFile
  BY <1>1, <1>3 DEF FileInv, DatabaseKept, PhaseInv, RunnerTypeOK, CreateFile
<1>4. CASE Receive
  BY <1>4 DEF FileInv, DatabaseKept, PhaseInv, RunnerTypeOK, Receive, fileVars
<1>5. CASE Land
  <2>1. CASE late
    <3>1. file # Nothing /\ file' # Nothing /\ file.models \subseteq file'.models
      BY <1>5, <2>1, LateLanding
    <3>. QED
      BY <1>5, <2>1, <3>1 DEF FileInv, DatabaseKept, PhaseInv, RunnerTypeOK, Land
  <2>2. CASE ~late
    BY <1>1, <1>5, <2>2 DEF FileInv, DatabaseKept, PhaseInv, RunnerTypeOK, Land
  <2>. QED
    BY <2>1, <2>2
<1>6. CASE Downloaded
  BY <1>6 DEF FileInv, DatabaseKept, PhaseInv, RunnerTypeOK, Downloaded, fileVars
<1>7. CASE Open
  BY <1>1, <1>7 DEF FileInv, DatabaseKept, PhaseInv, RunnerTypeOK, Open
<1>8. CASE SpawnExecutor
  BY <1>8 DEF FileInv, DatabaseKept, PhaseInv, RunnerTypeOK, SpawnExecutor, fileVars
<1>9. CASE Spawn
  BY <1>9 DEF FileInv, DatabaseKept, PhaseInv, RunnerTypeOK, Spawn, fileVars
<1>10. CASE Signal
  BY <1>10 DEF FileInv, DatabaseKept, PhaseInv, RunnerTypeOK, Signal, fileVars
<1>11. CASE Stop
  BY <1>1, <1>11 DEF FileInv, DatabaseKept, PhaseInv, RunnerTypeOK, Stop, Reset
<1>12. CASE Remove
  BY <1>12 DEF FileInv, DatabaseKept, PhaseInv, RunnerTypeOK, Remove, startup
<1>13. ASSUME NEW m \in Model, CommitModel(m)
       PROVE  FileInv' /\ DatabaseKept'
  <2>1. file \in File
    BY <1>13 DEF CommitModel, PhaseInv, RunnerTypeOK
  <2>2. file' \in File /\ file'.whole = file.whole /\ file'.models = file.models \cup {m}
    BY <1>13, <2>1 DEF CommitModel, File
  <2>. QED
    BY <1>13, <2>1, <2>2, Zenon DEF FileInv, DatabaseKept, PhaseInv, RunnerTypeOK, CommitModel, startup, RunnerConfiguration
<1>14. CASE UNCHANGED <<fileVars, startup>>
  BY <1>14 DEF FileInv, DatabaseKept, fileVars, startup
<1>. QED
  BY <1>2, <1>3, <1>4, <1>5, <1>6, <1>7, <1>8, <1>9, <1>10, <1>11, <1>12, <1>13, <1>14, Zenon DEF RunnerNext, runnerVars, PublishUpdate, Subscribe, Build, set_graphql_addr, StopPrevious, Update, Shutdown,
         Arrive, Forward, AnswerClient, AnswerOther, Abandon

(* Every action keeps the order in which servers are replaced. *)
LEMMA ServersStep ==
    ASSUME RunnerConfiguration, RunnerTypeOK, PhaseInv, ServersInv, [RunnerNext]_runnerVars
    PROVE  ServersInv'
<1>1. DOMAIN servers = 1..Len(servers) /\ Len(servers) \in Nat /\ (servers # << >> <=> Len(servers) > 0)
  BY DEF RunnerTypeOK
<1>2. CASE UNCHANGED <<rebuild, servers, route, current>> /\ (told => told')
  BY <1>2 DEF ServersInv, Previous
<1>3. CASE Stop
  BY <1>3 DEF Stop, Reset, ServersInv
<1>4. CASE Subscribe
  BY <1>4 DEF Subscribe, ServersInv, PhaseInv
<1>5. CASE Build
  <2>1. CASE rebuild' = "panicked" /\ servers' = StopServer(current)
    <3>1. /\ Len(servers') = Len(servers) /\ DOMAIN servers' = DOMAIN servers
          /\ \A t \in DOMAIN servers : servers'[t].up <=> t # current /\ servers[t].up
      BY <2>1, CurrentStopped, Zenon
    <3>2. rebuild = "build" /\ UNCHANGED <<route, current>>
      BY <1>5 DEF Build
    <3>3. \A t \in DOMAIN servers : current = Len(servers) /\ (servers[t].up <=> t = Len(servers))
      BY <1>1, <3>2 DEF ServersInv
    <3>4. \A t \in DOMAIN servers' : ~servers'[t].up
      BY <3>1, <3>3
    <3>5. servers # << >> => servers' # << >>
      BY <1>1, <3>1
    <3>6. servers = << >> => servers' = << >>
      BY <2>1, <3>2 DEF ServersInv, StopServer, RunnerConfiguration, RunnerTypeOK
    <3>. QED
      BY <2>1, <3>1, <3>2, <3>4, <3>5, <3>6 DEF ServersInv
  <2>2. CASE rebuild' = "lock" /\ servers' = Append(servers, build_schema)
    <3>1. /\ Len(servers') = Len(servers) + 1 /\ DOMAIN servers' = 1..Len(servers) + 1
          /\ servers' # << >> /\ servers'[Len(servers) + 1] = build_schema
          /\ \A s \in DOMAIN servers : servers'[s] = servers[s]
      BY <1>1, <2>2 DEF RunnerTypeOK
    <3>2. route' = Previous' /\ current' = Previous'
      BY <1>1, <1>5, <3>1 DEF Build, ServersInv, Previous
    <3>3. build_schema.up
      BY DEF build_schema
    <3>4. ASSUME NEW s \in DOMAIN servers'
          PROVE  servers'[s].up <=> s = Len(servers') \/ s = Len(servers') - 1
      <4>1. CASE s = Len(servers) + 1
        BY <3>1, <3>3, <4>1
      <4>2. CASE s # Len(servers) + 1
        <5>1. s \in DOMAIN servers /\ servers'[s] = servers[s]
          BY <1>1, <3>1, <4>2
        <5>2. servers[s].up <=> s = Len(servers)
          BY <1>5, <5>1 DEF Build, ServersInv
        <5>. QED
          BY <1>1, <3>1, <4>2, <5>1, <5>2
      <4>. QED
        BY <4>1, <4>2
    <3>. QED
      BY <2>2, <3>1, <3>2, <3>4 DEF ServersInv
  <2>. QED
    BY <1>5, <2>1, <2>2 DEF Build
<1>6. CASE set_graphql_addr
  BY <1>1, <1>6 DEF set_graphql_addr, ServersInv, Previous
<1>7. CASE StopPrevious
  <2>1. /\ Len(servers') = Len(servers) /\ DOMAIN servers' = DOMAIN servers
        /\ \A t \in DOMAIN servers : servers'[t].up <=> t # current /\ servers[t].up
    BY <1>7, CurrentStopped, Zenon DEF StopPrevious
  <2>2. servers' # << >>
    BY <1>1, <1>7, <2>1 DEF StopPrevious, ServersInv
  <2>3. ASSUME NEW t \in DOMAIN servers
        PROVE  servers'[t].up <=> t = Len(servers)
    <3>1. servers[t].up <=> t = Len(servers) \/ t = Len(servers) - 1
      BY <1>7 DEF StopPrevious, ServersInv
    <3>2. current = Previous
      BY <1>7 DEF StopPrevious, ServersInv
    <3>. QED
      BY <1>1, <2>1, <3>1, <3>2 DEF Previous, RunnerConfiguration
  <2>. QED
    BY <1>7, <2>1, <2>2, <2>3 DEF StopPrevious, ServersInv
<1>8. CASE Update
  BY <1>8 DEF Update, ServersInv
<1>9. CASE Shutdown
  <2>1. current = Len(servers) /\ current \in DOMAIN servers
    BY <1>1, <1>9 DEF Shutdown, ServersInv
  <2>2. /\ Len(servers') = Len(servers) /\ DOMAIN servers' = DOMAIN servers
        /\ \A t \in DOMAIN servers : servers'[t].up <=> t # current /\ servers[t].up
    BY <1>9, CurrentStopped, Zenon DEF Shutdown
  <2>3. servers' # << >>
    BY <1>1, <2>1, <2>2
  <2>4. ASSUME NEW t \in DOMAIN servers
        PROVE  ~servers'[t].up
    BY <1>9, <2>1, <2>2, Zenon DEF Shutdown, ServersInv
  <2>. QED
    BY <1>9, <2>1, <2>2, <2>3, <2>4 DEF Shutdown, ServersInv, startup
<1>10. CASE Start \/ CreateFile \/ Receive \/ Land \/ Downloaded \/ Open
  BY <1>2, <1>10 DEF Start, CreateFile, Receive, Land, Downloaded, Open, serving
<1>11. CASE SpawnExecutor \/ Spawn \/ Signal
  BY <1>2, <1>11 DEF SpawnExecutor, Spawn, Signal, serving
<1>12. CASE Remove \/ PublishUpdate \/ \E m \in Model : CommitModel(m)
  BY <1>2, <1>12 DEF Remove, PublishUpdate, CommitModel, startup, serving
<1>13. ASSUME NEW c \in Client, Arrive(c) \/ Forward(c) \/ AnswerClient(c) \/ AnswerOther(c) \/ Abandon(c)
       PROVE  ServersInv'
  BY <1>2, <1>13 DEF Arrive, Forward, AnswerClient, AnswerOther, Abandon, startup, serving
<1>14. CASE UNCHANGED runnerVars
  BY <1>2, <1>14 DEF runnerVars, startup, serving
<1>. QED
  BY <1>3, <1>4, <1>5, <1>6, <1>7, <1>8, <1>9, <1>10, <1>11, <1>12, <1>13, <1>14 DEF RunnerNext

(* Every action keeps the schemas. *)
LEMMA SchemaStep ==
    ASSUME RunnerConfiguration, RunnerTypeOK, PhaseInv, ServersInv, SchemaInv, [RunnerNext]_runnerVars
    PROVE  SchemaInv'
<1>1. DOMAIN servers = 1..Len(servers) /\ Len(servers) \in Nat /\ (servers # << >> <=> Len(servers) > 0)
  BY DEF RunnerTypeOK
<1>. USE DEF Downloading, Opened
<1>2. CASE servers' = << >> /\ rebuild' \in {"start", "build", "panicked"}
  <2>1. DOMAIN servers' = {}
    BY <1>2, SMT
  <2>2. rebuild' \notin {"lock", "routed", "wait"}
    BY <1>2, Zenon
  <2>. QED
    BY <2>1, <2>2, Zenon DEF SchemaInv
<1>3. CASE UNCHANGED <<file, late, rebuild, servers, unpublished, updates>>
  BY <1>3, Zenon DEF SchemaInv
<1>4. CASE Start \/ CreateFile \/ Open \/ Remove
  BY <1>2, <1>4, Zenon DEF Start, CreateFile, Open, Remove, PhaseInv, serving
<1>5. CASE Receive \/ Downloaded \/ SpawnExecutor \/ Spawn \/ Signal
  BY <1>3, <1>5 DEF Receive, Downloaded, SpawnExecutor, Spawn, Signal, fileVars, serving
<1>6. CASE Land
  <2>1. CASE late
    BY <1>6, <2>1, LateLanding, Zenon DEF Land, SchemaInv, serving
  <2>2. CASE ~late
    BY <1>2, <1>6, <2>2 DEF Land, PhaseInv, serving
  <2>. QED
    BY <2>1, <2>2
<1>7. CASE Stop
  BY <1>2, <1>7 DEF Stop, Reset
<1>8. ASSUME NEW m \in Model, CommitModel(m)
      PROVE  SchemaInv'
  <2>1. file \in File
    BY <1>8 DEF CommitModel, PhaseInv, RunnerTypeOK
  <2>2. file' \in File /\ file'.models = file.models \cup {m}
    BY <1>8, <2>1 DEF CommitModel, File
  <2>3. file' # Nothing
    BY <2>2 DEF RunnerConfiguration
  <2>4. unpublished' + updates' # 0
    BY <1>8 DEF CommitModel, RunnerTypeOK
  <2>. QED
    BY <1>8, <2>2, <2>3, <2>4 DEF CommitModel, SchemaInv
<1>9. CASE PublishUpdate
  <2>1. rebuild = "start" \/ unpublished' + updates' = unpublished + updates
    BY <1>9 DEF PublishUpdate, RunnerTypeOK
  <2>. QED
    BY <1>9, <2>1 DEF PublishUpdate, SchemaInv, fileVars, startup
<1>10. CASE Subscribe \/ Update
  BY <1>10 DEF Subscribe, Update, SchemaInv, fileVars
<1>11. CASE Build
  <2>1. CASE rebuild' = "panicked" /\ servers' = StopServer(current)
    <3>1. DOMAIN servers' = DOMAIN servers /\ \A t \in DOMAIN servers : servers'[t].models = servers[t].models
      BY <2>1, CurrentStopped, Zenon
    <3>2. file' = file
      BY <1>11 DEF Build, fileVars
    <3>. QED
      BY <2>1, <3>1, <3>2 DEF SchemaInv
  <2>2. CASE rebuild' = "lock" /\ servers' = Append(servers, build_schema)
    <3>1. /\ Len(servers') = Len(servers) + 1 /\ DOMAIN servers' = 1..Len(servers) + 1
          /\ servers'[Len(servers) + 1] = build_schema
          /\ \A s \in DOMAIN servers : servers'[s] = servers[s]
      BY <1>1, <2>2 DEF RunnerTypeOK
    <3>2. build_schema.models = file.models /\ file' = file /\ file # Nothing
      BY <1>11 DEF Build, build_schema, build_objects, fileVars, PhaseInv
    <3>3. ASSUME NEW s \in DOMAIN servers'
          PROVE  s = Len(servers) + 1 \/ s \in DOMAIN servers
      BY <1>1, <3>1
    <3>4. \A s \in DOMAIN servers' : servers'[s].models \subseteq file.models
      BY <3>1, <3>2, <3>3 DEF SchemaInv
    <3>5. ASSUME NEW s \in DOMAIN servers', NEW t \in DOMAIN servers', s <= t
          PROVE  servers'[s].models \subseteq servers'[t].models
      <4>1. CASE t = Len(servers) + 1
        BY <3>1, <3>2, <3>4, <4>1
      <4>2. CASE t # Len(servers) + 1
        <5>1. t \in DOMAIN servers /\ s \in DOMAIN servers
          BY <1>1, <3>1, <3>5, <4>2
        <5>. QED
          BY <3>1, <3>5, <5>1 DEF SchemaInv
      <4>. QED
        BY <4>1, <4>2
    <3>. QED
      BY <3>1, <3>2, <3>4, <3>5 DEF SchemaInv
  <2>. QED
    BY <1>11, <2>1, <2>2 DEF Build
<1>12. CASE set_graphql_addr
  BY <1>12 DEF set_graphql_addr, SchemaInv, fileVars, startup
<1>13. CASE StopPrevious
  <2>1. /\ Len(servers') = Len(servers) /\ DOMAIN servers' = DOMAIN servers
        /\ \A t \in DOMAIN servers : servers'[t].models = servers[t].models
    BY <1>13, CurrentStopped, Zenon DEF StopPrevious
  <2>2. Len(servers) \in DOMAIN servers
    BY <1>1, <1>13 DEF StopPrevious, ServersInv
  <2>. QED
    BY <1>13, <2>1, <2>2 DEF StopPrevious, SchemaInv, fileVars, startup
<1>14. CASE Shutdown
  <2>1. /\ Len(servers') = Len(servers) /\ DOMAIN servers' = DOMAIN servers
        /\ \A t \in DOMAIN servers : servers'[t].models = servers[t].models
    BY <1>14, CurrentStopped, Zenon DEF Shutdown
  <2>. QED
    BY <1>14, <2>1 DEF Shutdown, SchemaInv, fileVars, startup
<1>15. ASSUME NEW c \in Client, Arrive(c) \/ Forward(c) \/ AnswerClient(c) \/ AnswerOther(c) \/ Abandon(c)
       PROVE  SchemaInv'
  BY <1>3, <1>15 DEF Arrive, Forward, AnswerClient, AnswerOther, Abandon, fileVars, startup, serving
<1>16. CASE UNCHANGED runnerVars
  BY <1>3, <1>16 DEF runnerVars, fileVars, startup, serving
<1>. QED
  BY <1>4, <1>5, <1>6, <1>7, <1>8, <1>9, <1>10, <1>11, <1>12, <1>13, <1>14, <1>15, <1>16, SMTT(30) DEF RunnerNext

(* A request is over: the others hold what they held. *)
LEMMA BackToIdle ==
    ASSUME RequestInv, NEW c \in Client, request'[c] = Idle,
           \A d \in Client \ {c} : request'[d] = request[d],
           UNCHANGED <<servers, route, told, rebuild>>, seen \subseteq seen',
           seen' # {} => route # Nothing /\ seen' \subseteq servers[route].models
    PROVE  RequestInv'
<1>1. Idle.floor = {} /\ Idle.at = "idle"
  BY DEF Idle
<1>2. ASSUME NEW d \in Client
      PROVE  /\ request'[d].floor \subseteq seen'
             /\ request'[d].at \in {"forwarded", "refused"} => request'[d].server = route /\ route # Nothing
             /\ request'[d].at = "refused" => told \/ rebuild = "panicked"
  <2>1. CASE d = c
    BY <1>1, <2>1, Zenon
  <2>2. CASE d # c
    BY <2>2, Zenon DEF RequestInv
  <2>. QED
    BY <2>1, <2>2
<1>. QED
  BY <1>2, Zenon DEF RequestInv

(* Every action keeps what holds of the requests. *)
LEMMA RequestStep ==
    ASSUME RunnerConfiguration, RunnerTypeOK, PhaseInv, ServersInv, SchemaInv, RequestInv, [RunnerNext]_runnerVars
    PROVE  RequestInv'
<1>1. DOMAIN servers = 1..Len(servers) /\ Len(servers) \in Nat /\ (servers # << >> <=> Len(servers) > 0)
  BY SMTT(30) DEF RunnerTypeOK
<1>2. ASSUME UNCHANGED <<request, seen, route>>, told => told', rebuild = "panicked" => rebuild' = "panicked",
             \A t \in DOMAIN servers : servers'[t].models = servers[t].models
      PROVE  RequestInv'
  <2>1. route # Nothing => servers'[route].models = servers[route].models
    BY <1>2, RouteIsServer, Zenon
  <2>2. seen' # {} => route' # Nothing /\ seen' \subseteq servers'[route'].models
    BY <1>2, <2>1, Zenon DEF RequestInv
  <2>3. ASSUME NEW c \in Client
        PROVE  /\ request'[c].floor \subseteq seen'
               /\ request'[c].at \in {"forwarded", "refused"} => request'[c].server = route' /\ route' # Nothing
               /\ request'[c].at = "refused" => told' \/ rebuild' = "panicked"
    BY <1>2, Zenon DEF RequestInv
  <2>. QED
    BY <2>2, <2>3, Zenon DEF RequestInv
<1>3. CASE Start \/ CreateFile \/ Receive \/ Land \/ Downloaded \/ Open
  BY <1>2, <1>3 DEF Start, CreateFile, Receive, Land, Downloaded, Open, serving, asked
<1>4. CASE SpawnExecutor \/ Spawn \/ Signal
  BY <1>2, <1>4, SMTT(30) DEF SpawnExecutor, Spawn, Signal, serving, asked
<1>5. CASE Stop
  BY <1>5 DEF Stop, Reset, Idle, RequestInv
<1>6. CASE Remove \/ PublishUpdate \/ Subscribe \/ Update \/ \E m \in Model : CommitModel(m)
  BY <1>2, <1>6 DEF Remove, PublishUpdate, Subscribe, Update, CommitModel, startup, serving, asked
<1>7. CASE Build
  <2>1. \A t \in DOMAIN servers : servers'[t].models = servers[t].models
    <3>1. CASE servers' = StopServer(current)
      BY <3>1, CurrentStopped, Zenon
    <3>2. CASE servers' = Append(servers, build_schema)
      BY <1>1, <3>2 DEF RunnerTypeOK
    <3>. QED
      BY <1>7, <3>1, <3>2, Zenon DEF Build
  <2>2. UNCHANGED <<request, seen, route, told>> /\ rebuild # "panicked"
    BY <1>7 DEF Build, startup, asked
  <2>. QED
    BY <1>2, <2>1, <2>2
<1>8. CASE set_graphql_addr
  <2>1. route' \in DOMAIN servers /\ route' = Len(servers) /\ route' # Nothing
    BY <1>1, <1>8 DEF set_graphql_addr, ServersInv, RunnerConfiguration
  <2>2. seen # {} => seen \subseteq servers[route'].models
    BY <1>1, <2>1, RouteIsServer DEF RequestInv, SchemaInv
  <2>3. ASSUME NEW c \in Client
        PROVE  request'[c].floor = request[c].floor /\ request'[c].at \notin {"forwarded", "refused"}
    <3>1. request[c] \in Asked
      BY DEF RunnerTypeOK
    <3>2. ~Holds(c)
      BY <1>8 DEF set_graphql_addr
    <3>3. request'[c] = IF request[c].at = "waiting" THEN [request[c] EXCEPT !.at = "holding"] ELSE request[c]
      BY <1>8 DEF set_graphql_addr
    <3>. QED
      BY <3>1, <3>2, <3>3 DEF Asked, Holds
  <2>. QED
    BY <1>8, <2>1, <2>2, <2>3 DEF set_graphql_addr, RequestInv
<1>9. CASE StopPrevious
  <2>1. \A t \in DOMAIN servers : servers'[t].models = servers[t].models
    BY <1>9, CurrentStopped, Zenon DEF StopPrevious
  <2>. QED
    BY <1>2, <1>9, <2>1 DEF StopPrevious, startup, asked
<1>10. CASE Shutdown
  <2>1. \A t \in DOMAIN servers : servers'[t].models = servers[t].models
    BY <1>10, CurrentStopped, Zenon DEF Shutdown
  <2>. QED
    BY <1>2, <1>10, <2>1 DEF Shutdown, startup, asked
<1>11. ASSUME NEW c \in Client, Arrive(c)
       PROVE  RequestInv'
  <2>1. request'[c].floor = seen /\ request'[c].at \in {"waiting", "holding"}
    BY <1>11 DEF Arrive, RunnerTypeOK
  <2>2. \A d \in Client \ {c} : request'[d] = request[d]
    BY <1>11 DEF Arrive, RunnerTypeOK
  <2>. QED
    BY <1>11, <2>1, <2>2 DEF Arrive, RequestInv, startup, serving
<1>12. ASSUME NEW c \in Client, Forward(c)
       PROVE  RequestInv'
  <2>1. \A d \in Client \ {c} : request'[d] = request[d]
    BY <1>12, SMTT(30) DEF Forward, RunnerTypeOK
  <2>2. CASE route = Nothing
    <3>1. request'[c] = Idle
      BY <1>12, <2>2 DEF Forward, RunnerTypeOK
    <3>2. UNCHANGED <<seen, route, servers, told, rebuild>>
      BY <1>12 DEF Forward, startup, serving
    <3>. QED
      BY <2>1, <3>1, <3>2, BackToIdle DEF RequestInv
  <2>3. CASE route # Nothing
    <3>1. request'[c] = [request[c] EXCEPT !.server = route,
                                           !.at = IF servers[route].up THEN "forwarded" ELSE "refused"]
      BY <1>12, <2>3 DEF Forward, RunnerTypeOK
    <3>2. request[c] \in Asked
      BY DEF RunnerTypeOK
    <3>3. /\ request'[c].server = route /\ request'[c].floor = request[c].floor
          /\ request'[c].at = "refused" => ~servers[route].up
      BY <3>1, <3>2 DEF Asked
    <3>4. ~servers[route].up => rebuild \in {"ended", "panicked"}
      <4>1. route \in DOMAIN servers
        BY <2>3, RouteIsServer
      <4>2. CASE rebuild = "lock"
        BY <2>3, <4>1, <4>2 DEF ServersInv, Previous
      <4>3. CASE rebuild \notin {"lock", "ended", "panicked", "start"}
        BY <2>3, <4>1, <4>3, SMTT(30) DEF ServersInv, RunnerTypeOK
      <4>. QED
        BY <2>3, <4>2, <4>3 DEF PhaseInv
    <3>. QED
      BY <1>12, <2>1, <2>3, <3>3, <3>4 DEF Forward, RequestInv, ServersInv, startup, serving
  <2>. QED
    BY <2>2, <2>3
<1>13. ASSUME NEW c \in Client, AnswerClient(c)
       PROVE  RequestInv'
  <2>1. request'[c] = Idle /\ \A d \in Client \ {c} : request'[d] = request[d]
    BY <1>13 DEF AnswerClient, RunnerTypeOK
  <2>2. route # Nothing /\ request[c].server = route
    BY <1>13, Zenon DEF AnswerClient, RequestInv
  <2>3. seen \subseteq seen' /\ seen' \subseteq servers[route].models
    BY <1>13, <2>2, Zenon DEF AnswerClient, RequestInv
  <2>4. UNCHANGED <<servers, route, told, rebuild>>
    BY <1>13, Zenon DEF AnswerClient, startup, serving
  <2>. QED
    BY <2>1, <2>2, <2>3, <2>4, BackToIdle
<1>14. ASSUME NEW c \in Client, AnswerOther(c) \/ Abandon(c)
       PROVE  RequestInv'
  <2>1. request'[c] = Idle /\ \A d \in Client \ {c} : request'[d] = request[d]
    BY <1>14 DEF AnswerOther, Abandon, RunnerTypeOK
  <2>2. UNCHANGED <<servers, route, seen, told, rebuild>>
    BY <1>14, Zenon DEF AnswerOther, Abandon, startup, serving
  <2>. QED
    BY <2>1, <2>2, BackToIdle DEF RequestInv
<1>15. CASE UNCHANGED runnerVars
  BY <1>2, <1>15 DEF runnerVars, startup, serving, asked
<1>. QED
  BY <1>3, <1>4, <1>5, <1>6, <1>7, <1>8, <1>9, <1>10, <1>11, <1>12, <1>13, <1>14, <1>15 DEF RunnerNext

-----------------------------------------------------------------------------
(* The invariant holds of a process that was never started. *)
LEMMA InitRunnerInv ==
    ASSUME RunnerConfiguration, RunnerInit
    PROVE  RunnerInv
<1>1. RunnerTypeOK
  <2>1. servers \in Seq(Server)
    BY DEF RunnerInit
  <2>. QED
    BY <2>1, IdleTyped, Zenon DEF RunnerInit, RunnerTypeOK
<1>2. PhaseInv /\ FileInv /\ DatabaseKept
  BY DEF RunnerInit, PhaseInv, FileInv, DatabaseKept, Downloading, Opened
<1>3. ServersInv /\ SchemaInv
  BY DEF RunnerInit, ServersInv, SchemaInv
<1>4. RequestInv
  BY DEF RunnerInit, RequestInv, Idle
<1>. QED
  BY <1>1, <1>2, <1>3, <1>4 DEF RunnerInv

(* At most the newest server and the one before it run. *)
LEMMA TwoServers ==
    ASSUME ServersInv
    PROVE  \A r, s, t \in Up : r = s \/ s = t \/ r = t
<1>1. Up \subseteq {Len(servers), Len(servers) - 1}
  BY DEF ServersInv, Up
<1>. QED
  BY <1>1, Zenon

(* The invariant is enough for the property. *)
LEMMA IInvCurrent ==
    ASSUME RunnerConfiguration, RunnerInv
    PROVE  SchemaCurrent
<1>. USE DEF RunnerInv
<1>1. ASSUME NEW c \in Client
      PROVE  /\ request[c].at = "refused" => told \/ rebuild = "panicked"
             /\ request[c].at = "forwarded" => request[c].floor \subseteq servers[request[c].server].models
  BY DEF RequestInv
<1>2. ASSUME rebuild = "wait"
      PROVE  /\ Up = {route}
             /\ unpublished + updates = 0 => servers[route].models = file.models \/ late
  <2>1. route = Len(servers) /\ route \in DOMAIN servers
    <3>1. route = Len(servers)
      BY <1>2, Zenon DEF ServersInv
    <3>2. Len(servers) \in Nat
      BY DEF RunnerTypeOK
    <3>3. route # Nothing
      BY <3>1, <3>2, Zenon DEF RunnerConfiguration
    <3>. QED
      BY <3>1, <3>3, RouteIsServer, Zenon
  <2>2. \A s \in DOMAIN servers : servers[s].up <=> s = route
    BY <1>2, <2>1 DEF ServersInv
  <2>3. Up = {route}
    BY <2>1, <2>2, Zenon DEF Up
  <2>4. unpublished + updates = 0 => servers[route].models = file.models \/ late
    BY <1>2, <2>1, Zenon DEF SchemaInv
  <2>. QED
    BY <2>3, <2>4
<1>. QED
  BY <1>1, <1>2, TwoServers DEF SchemaCurrent

(* The invariant is inductive. *)
LEMMA RunnerInvStep == RunnerConfiguration /\ RunnerInv /\ [RunnerNext]_runnerVars => RunnerInv'
  BY TypeStep, PhaseStep, FileStep, ServersStep, SchemaStep, RequestStep DEF RunnerInv

(* The invariant holds of every state of the process. *)
LEMMA Invariance == RunnerSpec => []RunnerInv
<1>. RunnerConfiguration
  BY RunnerConfigured
<1>1. RunnerInit => RunnerInv
  BY InitRunnerInv
<1>2. RunnerInv /\ [RunnerNext]_runnerVars => RunnerInv'
  BY RunnerInvStep
<1>. QED
  BY <1>1, <1>2, PTL DEF RunnerSpec

(* A request never meets a server that was stopped, unless the process is shutting
   down or the build of a schema has panicked, nor fewer models than an answer it
   may have seen; and the schema that is served at rest is that of the database
   (spawn_rebuilding_graphql_server, Proxy). *)
THEOREM SchemaIsCurrent == RunnerSpec => []SchemaCurrent
<1>1. RunnerSpec => []RunnerInv
  BY Invariance
<1>2. RunnerInv => SchemaCurrent
  BY RunnerConfigured, IInvCurrent
<1>. QED
  BY <1>1, <1>2, PTL

(* What was committed stays until the database is deleted, whatever is started,
   downloaded, stopped or killed; and a database that is open is whole but for the
   two cases the property names (Runner::run, stream_snapshot_into_file). *)
THEOREM DatabaseIsKept == RunnerSpec => []DatabaseKept
<1>1. RunnerSpec => []RunnerInv
  BY Invariance
<1>2. RunnerInv => DatabaseKept
  BY DEF RunnerInv
<1>. QED
  BY <1>1, <1>2, PTL
=============================================================================
