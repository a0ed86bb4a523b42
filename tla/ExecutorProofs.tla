--------------------------- MODULE ExecutorProofs ---------------------------
(***************************************************************************)
(* For any entities, models, values, operations, failures and crashes:     *)
(* what is stored is consistent (Consistent) and, without failures, what   *)
(* the writers wanted (CommittedAsWanted); and confirmed updates are those *)
(* of committed transactions (AnnouncedIffCommitted).                      *)
(*                                                                         *)
(* First what the statements do to the database, and the stream of         *)
(* messages that each writer has in the channel; then the invariant.       *)
(***************************************************************************)
EXTENDS Executor, TLAPS

(* The statements of a writer, and all messages. *)
Of(w) == {SetEntity(w), EntityModel(w), DeleteEntity(w)} \cup {ModelRow(w, v) : v \in Value}

Statement == UNION {Of(w) : w \in Writer}

Msg == Statement \cup {UpdateCursors, Execute, Rollback}

Db == [ent : SUBSET Entity, em : SUBSET Writer, row : [Writer -> Value \cup {None}], head : Nat]

(* Nothing refers to an entity that does not exist. *)
References(D) == \A w \in Writer : (w \in D.em \/ D.row[w] # None) => w[1] \in D.ent

-----------------------------------------------------------------------------
(* The kinds of messages. *)
LEMMA Kinds ==
    ASSUME NEW w \in Writer
    PROVE  /\ \A m \in Of(w) : m.w = w /\ m.type \in {"SetEntity", "EntityModel", "ModelRow", "DeleteEntity"}
           /\ \A m \in Of(w) : m.type = "ModelRow" => m.v \in Value
           /\ Of(w) \subseteq Statement
<1>1. Of(w) \subseteq Statement
  BY DEF Statement
<1>. QED
  BY <1>1 DEF Of, SetEntity, EntityModel, ModelRow, DeleteEntity

(* A statement has a writer. *)
LEMMA StatementOf ==
    ASSUME NEW m \in Statement
    PROVE  /\ m.w \in Writer /\ m \in Of(m.w) /\ IsStatement(m)
           /\ m.type \in {"SetEntity", "EntityModel", "ModelRow", "DeleteEntity"}
<1>1. PICK w \in Writer : m \in Of(w)
  BY DEF Statement
<1>2. m.w = w /\ m.type \in {"SetEntity", "EntityModel", "ModelRow", "DeleteEntity"}
  BY <1>1, Kinds
<1>. QED
  BY <1>1, <1>2 DEF IsStatement

(* The requests of the engine are not statements. *)
LEMMA RequestKinds ==
    /\ UpdateCursors.type = "UpdateCursors" /\ Execute.type = "Execute" /\ Rollback.type = "Rollback"
    /\ UpdateCursors \notin Statement /\ Execute \notin Statement /\ Rollback \notin Statement
<1>1. UpdateCursors.type = "UpdateCursors" /\ Execute.type = "Execute" /\ Rollback.type = "Rollback"
  BY DEF UpdateCursors, Execute, Rollback
<1>. QED
  BY <1>1, StatementOf

(* A database of the right type. *)
LEMMA DbTyped ==
    ASSUME NEW D \in Db
    PROVE  D.ent \in SUBSET Entity /\ D.em \in SUBSET Writer /\ D.row \in [Writer -> Value \cup {None}] /\ D.head \in Nat
  BY DEF Db

(* INSERT INTO entities and entity_model. *)
LEMMA RunSet ==
    ASSUME NEW D \in Db, References(D), NEW w \in Writer, NEW m \in Of(w), m.type = "SetEntity"
    PROVE  /\ Run(D, m) \in Db /\ References(Run(D, m))
           /\ Run(D, m).ent = D.ent \cup {w[1]} /\ Run(D, m).em = D.em \cup {w}
           /\ Run(D, m).row = D.row
<1>1. m.w = w /\ (m.type = "ModelRow" => m.v \in Value)
  BY Kinds
<1>2. D.ent \in SUBSET Entity /\ D.em \in SUBSET Writer /\ D.row \in [Writer -> Value \cup {None}] /\ D.head \in Nat
  BY DbTyped
<1>3. w[1] \in Entity
  BY DEF Writer
<1>4. Run(D, m) = [D EXCEPT !.ent = @ \cup {w[1]}, !.em = @ \cup {w}]
  BY <1>1 DEF Run, RunSetEntity
<1>. DEFINE D1 == [D EXCEPT !.ent = @ \cup {w[1]}]
            D2 == [D1 EXCEPT !.em = @ \cup {w}]
<1>5. Run(D, m) = D2
  BY <1>4
<1>6. D1 \in Db /\ D1.ent = D.ent \cup {w[1]} /\ D1.em = D.em /\ D1.row = D.row
  BY <1>2, <1>3 DEF Db
<1>. HIDE DEF D1
<1>7. D2 \in Db /\ D2.ent = D1.ent /\ D2.em = D1.em \cup {w} /\ D2.row = D1.row
  BY <1>2, <1>6 DEF Db
<1>. HIDE DEF D2
<1>8. References(D2)
  BY <1>6, <1>7 DEF References
<1>. QED
  BY <1>5, <1>6, <1>7, <1>8

(* INSERT INTO entity_model, of an entity that exists. *)
LEMMA RunLink ==
    ASSUME NEW D \in Db, References(D), NEW w \in Writer, NEW m \in Of(w), m.type = "EntityModel"
    PROVE  /\ Run(D, m) \in Db /\ References(Run(D, m))
           /\ Run(D, m).ent = D.ent /\ Run(D, m).row = D.row
           /\ Run(D, m).em = D.em \/ Run(D, m).em = D.em \cup {w}
<1>1. m.w = w /\ (m.type = "ModelRow" => m.v \in Value)
  BY Kinds
<1>2. D.ent \in SUBSET Entity /\ D.em \in SUBSET Writer /\ D.row \in [Writer -> Value \cup {None}] /\ D.head \in Nat
  BY DbTyped
<1>3. w[1] \in Entity
  BY DEF Writer
<1>4. Run(D, m) = IF w[1] \in D.ent THEN [D EXCEPT !.em = @ \cup {w}] ELSE D
  BY <1>1 DEF Run, RunEntityModel
<1>5. CASE w[1] \in D.ent
  <2>1. /\ Run(D, m) \in Db /\ Run(D, m).ent = D.ent /\ Run(D, m).em = D.em \cup {w}
        /\ Run(D, m).row = D.row
    BY <1>2, <1>3, <1>4, <1>5 DEF Db
  <2>2. References(Run(D, m))
    BY <1>5, <2>1 DEF References
  <2>. QED
    BY <2>1, <2>2
<1>6. CASE w[1] \notin D.ent
  BY <1>4, <1>6
<1>. QED
  BY <1>5, <1>6

(* The row of a model, of an entity that exists. *)
LEMMA RunRow ==
    ASSUME NEW D \in Db, References(D), NEW w \in Writer, NEW m \in Of(w), m.type = "ModelRow"
    PROVE  /\ Run(D, m) \in Db /\ References(Run(D, m))
           /\ Run(D, m).ent = D.ent /\ Run(D, m).em = D.em
           /\ \A x \in Writer : x # w => Run(D, m).row[x] = D.row[x]
           /\ w[1] \in D.ent => Run(D, m).row[w] = m.v
<1>1. m.w = w /\ (m.type = "ModelRow" => m.v \in Value)
  BY Kinds
<1>2. D.ent \in SUBSET Entity /\ D.em \in SUBSET Writer /\ D.row \in [Writer -> Value \cup {None}] /\ D.head \in Nat
  BY DbTyped
<1>3. w[1] \in Entity
  BY DEF Writer
<1>4. Run(D, m) = IF w[1] \in D.ent THEN [D EXCEPT !.row[w] = m.v] ELSE D
  BY <1>1 DEF Run, RunModelRow
<1>5. CASE w[1] \in D.ent
  <2>1. /\ Run(D, m) \in Db /\ Run(D, m).ent = D.ent /\ Run(D, m).em = D.em
        /\ Run(D, m).row = [D.row EXCEPT ![w] = m.v]
    BY <1>1, <1>2, <1>4, <1>5 DEF Db
  <2>2. Run(D, m).row[w] = m.v /\ \A x \in Writer : x # w => Run(D, m).row[x] = D.row[x]
    BY <1>2, <2>1
  <2>3. References(Run(D, m))
    BY <1>5, <2>1, <2>2 DEF References
  <2>. QED
    BY <2>1, <2>2, <2>3
<1>6. CASE w[1] \notin D.ent
  BY <1>4, <1>6
<1>. QED
  BY <1>5, <1>6

(* A row that is not there is not deleted. *)
LEMMA RunDeleteNone ==
    ASSUME NEW D, NEW w \in Writer, NEW m \in Of(w), m.type = "DeleteEntity", D.row[w] = None
    PROVE  Run(D, m) = D
<1>1. m.w = w
  BY Kinds
<1>. QED
  BY <1>1 DEF Run, RunDeleteEntity

(* The row and, with the last model, the entity. *)
LEMMA RunDelete ==
    ASSUME NEW D \in Db, References(D), NEW w \in Writer, NEW m \in Of(w), m.type = "DeleteEntity",
           D.row[w] # None
    PROVE  /\ Run(D, m) \in Db /\ References(Run(D, m))
           /\ Run(D, m).em = D.em \ {w} /\ Run(D, m).row[w] = None
           /\ \A x \in Writer : x # w => Run(D, m).row[x] = D.row[x]
           /\ Run(D, m).ent = D.ent \/ (Run(D, m).ent = D.ent \ {w[1]} /\ ModelsOf(Run(D, m), w[1]) = {})
           /\ Run(D, m).ent = D.ent => ModelsOf(Run(D, m), w[1]) # {} \/ HasRow(Run(D, m), w[1]) \/ w[1] \notin D.ent
<1>1. m.w = w /\ (m.type = "ModelRow" => m.v \in Value)
  BY Kinds
<1>2. D.ent \in SUBSET Entity /\ D.em \in SUBSET Writer /\ D.row \in [Writer -> Value \cup {None}] /\ D.head \in Nat
  BY DbTyped
<1>3. w[1] \in Entity
  BY DEF Writer
<1>. DEFINE D2 == [D EXCEPT !.row[w] = None, !.em = @ \ {w}]
            D3 == [D2 EXCEPT !.ent = IF ModelsOf(D2, w[1]) = {} /\ ~HasRow(D2, w[1])
                                     THEN @ \ {w[1]} ELSE @]
<1>4. Run(D, m) = D3
  BY <1>1 DEF Run, RunDeleteEntity
<1>5. D2 \in Db /\ D2.ent = D.ent /\ D2.em = D.em \ {w} /\ D2.row = [D.row EXCEPT ![w] = None]
  BY <1>2, Zenon DEF Db
<1>. HIDE DEF D2
<1>6. /\ D3 \in Db /\ D3.em = D2.em /\ D3.row = D2.row
      /\ D3.ent = IF ModelsOf(D2, w[1]) = {} /\ ~HasRow(D2, w[1]) THEN D2.ent \ {w[1]} ELSE D2.ent
  BY <1>3, <1>5 DEF Db
<1>. HIDE DEF D3
<1>7. ModelsOf(D3, w[1]) = ModelsOf(D2, w[1]) /\ (HasRow(D3, w[1]) <=> HasRow(D2, w[1]))
  BY <1>6 DEF ModelsOf, HasRow
<1>8. D3.row[w] = None /\ \A x \in Writer : x # w => D3.row[x] = D.row[x]
  BY <1>2, <1>5, <1>6
<1>9. D3.ent = D.ent \/ (D3.ent = D.ent \ {w[1]} /\ ModelsOf(D3, w[1]) = {})
  BY <1>5, <1>6, <1>7
<1>10. D3.ent = D.ent => ModelsOf(D3, w[1]) # {} \/ HasRow(D3, w[1]) \/ w[1] \notin D.ent
  BY <1>5, <1>6, <1>7
<1>11. ASSUME NEW x \in Writer, x \in D3.em \/ D3.row[x] # None
       PROVE  x[1] \in D3.ent
  <2>1. x # w /\ (x \in D.em \/ D.row[x] # None)
    BY <1>5, <1>6, <1>8, <1>11
  <2>2. x[1] \in D.ent
    BY <2>1 DEF References
  <2>3. ASSUME x[1] = w[1], ModelsOf(D3, w[1]) = {}, ~HasRow(D3, w[1])
        PROVE  FALSE
    <3>1. x[2] \in Model /\ x = <<w[1], x[2]>>
      BY <2>3 DEF Writer
    <3>. QED
      BY <1>11, <2>3, <3>1 DEF ModelsOf, HasRow
  <2>. QED
    BY <1>5, <1>6, <1>7, <2>2, <2>3
<1>12. References(D3)
  BY <1>11 DEF References
<1>13. D3 \in Db /\ D3.em = D.em \ {w}
  BY <1>5, <1>6
<1>. QED
  BY <1>4, <1>8, <1>9, <1>10, <1>12, <1>13

(* Every statement keeps the references. *)
LEMMA RunTyped ==
    ASSUME NEW D \in Db, References(D), NEW w \in Writer, NEW m \in Of(w)
    PROVE  Run(D, m) \in Db /\ References(Run(D, m))
<1>1. CASE m.type = "SetEntity"
  BY <1>1, RunSet
<1>2. CASE m.type = "EntityModel"
  BY <1>2, RunLink
<1>3. CASE m.type = "ModelRow"
  BY <1>3, RunRow
<1>4. CASE m.type = "DeleteEntity" /\ D.row[w] = None
  BY <1>4, RunDeleteNone
<1>5. CASE m.type = "DeleteEntity" /\ D.row[w] # None
  BY <1>5, RunDelete
<1>. QED
  BY <1>1, <1>2, <1>3, <1>4, <1>5, Kinds

(* The statements of a writer do not disturb another one. *)
LEMMA RunFrame ==
    ASSUME NEW D \in Db, References(D), NEW w \in Writer, NEW m \in Of(w), NEW x \in Writer, x # w
    PROVE  (x \in Run(D, m).em <=> x \in D.em) /\ Run(D, m).row[x] = D.row[x]
<1>1. CASE m.type = "SetEntity"
  BY <1>1, RunSet
<1>2. CASE m.type = "EntityModel"
  BY <1>2, RunLink
<1>3. CASE m.type = "ModelRow"
  BY <1>3, RunRow
<1>4. CASE m.type = "DeleteEntity" /\ D.row[w] = None
  BY <1>4, RunDeleteNone
<1>5. CASE m.type = "DeleteEntity" /\ D.row[w] # None
  BY <1>5, RunDelete
<1>. QED
  BY <1>1, <1>2, <1>3, <1>4, <1>5, Kinds

(* What a statement that fails leaves. *)
LEMMA PartialEffect ==
    ASSUME NEW D \in Db, References(D), NEW m \in Msg, NEW D2 \in Partial(D, m)
    PROVE  D2 \in Db /\ References(D2)
<1>1. D.ent \in SUBSET Entity /\ D.em \in SUBSET Writer /\ D.row \in [Writer -> Value \cup {None}] /\ D.head \in Nat
  BY DbTyped
<1>2. CASE D2 = D
  BY <1>2
<1>3. ASSUME m.type = "SetEntity", D2 = [D EXCEPT !.ent = @ \cup {m.w[1]}]
      PROVE  D2 \in Db /\ References(D2)
  <2>1. m.w[1] \in Entity
    BY <1>3, StatementOf, RequestKinds DEF Msg, Writer
  <2>2. D2 \in Db /\ D2.ent = D.ent \cup {m.w[1]} /\ D2.em = D.em /\ D2.row = D.row
    BY <1>1, <1>3, <2>1 DEF Db
  <2>. QED
    BY <2>2 DEF References
<1>4. ASSUME m.type = "DeleteEntity", D2 = [D EXCEPT !.row[m.w] = None]
      PROVE  D2 \in Db /\ References(D2)
  <2>1. D2 \in Db /\ D2.ent = D.ent /\ D2.em = D.em /\ D2.row = [D.row EXCEPT ![m.w] = None]
    BY <1>1, <1>4 DEF Db
  <2>2. \A x \in Writer : D2.row[x] # None => D.row[x] # None
    BY <1>1, <2>1
  <2>. QED
    BY <2>1, <2>2 DEF References
<1>5. ASSUME m.type = "DeleteEntity", D2 = [D EXCEPT !.row[m.w] = None, !.em = @ \ {m.w}]
      PROVE  D2 \in Db /\ References(D2)
  <2>1. D2 \in Db /\ D2.ent = D.ent /\ D2.em = D.em \ {m.w} /\ D2.row = [D.row EXCEPT ![m.w] = None]
    BY <1>1, <1>5, Zenon DEF Db
  <2>2. \A x \in Writer : D2.row[x] # None => D.row[x] # None
    BY <1>1, <2>1
  <2>. QED
    BY <2>1, <2>2 DEF References
<1>. QED
  BY <1>2, <1>3, <1>4, <1>5 DEF Partial

-----------------------------------------------------------------------------
(* The messages of a writer, in the channel and still to be sent, are whole
   operations one after the other, but for the first of them. *)

(* What comes next: "clean" stands for the start of an operation. *)
Pre(m) == IF m.type \in {"SetEntity", "DeleteEntity"} THEN "clean" ELSE m.type
Post(m) ==
    IF m.type = "SetEntity" THEN "EntityModel" ELSE IF m.type = "EntityModel" THEN "ModelRow" ELSE "clean"
Rest(td) == IF td = << >> THEN "clean" ELSE Pre(Head(td))

(* The last message of an operation that leaves v. *)
Writes(m, w, v) == (v # None /\ m = ModelRow(w, v)) \/ (v = None /\ m = DeleteEntity(w))

(* What is left of an operation that leaves v. *)
Todo(w, v) ==
    IF v = None THEN {<<DeleteEntity(w)>>}
    ELSE {<<SetEntity(w), EntityModel(w), ModelRow(w, v)>>, <<EntityModel(w), ModelRow(w, v)>>, <<ModelRow(w, v)>>}

(* What the database knows of a writer before its next message. *)
DbIs(state, D, w) == IF state = "clean" THEN w \in D.em <=> D.row[w] # None ELSE w \in D.em

Mine(ch, w) == {i \in DOMAIN ch : ch[i] \in Of(w)}

Stream(w, ch, td, D, v) ==
    /\ td = << >> \/ td \in Todo(w, v)
    /\ \A i \in Mine(ch, w) : (\A j \in Mine(ch, w) : i <= j) => DbIs(Pre(ch[i]), D, w)
    /\ \A i, j \in Mine(ch, w) :
          i < j /\ (\A k \in Mine(ch, w) : k <= i \/ j <= k) => Post(ch[i]) = Pre(ch[j])
    /\ \A i \in Mine(ch, w) : (\A j \in Mine(ch, w) : j <= i) =>
          Post(ch[i]) = Rest(td) /\ (td = << >> => Writes(ch[i], w, v))
    /\ Mine(ch, w) = {} => DbIs(Rest(td), D, w) /\ (td = << >> => D.row[w] = v)

(* Sending the next message of an operation. *)
LEMMA TodoStep ==
    ASSUME NEW w \in Writer, NEW v \in Value \cup {None}, NEW td \in Todo(w, v)
    PROVE  /\ Head(td) \in Of(w) /\ td # << >> /\ td \in Seq(Statement)
           /\ Tail(td) = << >> \/ Tail(td) \in Todo(w, v)
           /\ Post(Head(td)) = Rest(Tail(td)) /\ Rest(td) = Pre(Head(td))
           /\ Tail(td) = << >> => Writes(Head(td), w, v)
<1>1. SetEntity(w).type = "SetEntity" /\ EntityModel(w).type = "EntityModel" /\ DeleteEntity(w).type = "DeleteEntity"
      /\ ModelRow(w, v).type = "ModelRow"
  BY DEF SetEntity, EntityModel, DeleteEntity, ModelRow
<1>2. SetEntity(w) \in Of(w) /\ EntityModel(w) \in Of(w) /\ DeleteEntity(w) \in Of(w) /\ (v # None => ModelRow(w, v) \in Of(w))
  BY DEF Of
<1>3. Of(w) \subseteq Statement
  BY Kinds
<1>4. CASE v = None
  <2>0. td = <<DeleteEntity(w)>>
    BY <1>4 DEF Todo
  <2>1. Head(td) = DeleteEntity(w) /\ Tail(td) = << >> /\ td # << >>
    BY <2>0
  <2>2. td \in Seq(Statement)
    BY <1>2, <1>3, <2>0
  <2>. QED
    BY <1>1, <1>2, <1>4, <2>1, <2>2 DEF Post, Rest, Pre, Writes
<1>5. CASE v # None /\ td = <<ModelRow(w, v)>>
  <2>1. Head(td) = ModelRow(w, v) /\ Tail(td) = << >> /\ td # << >>
    BY <1>5
  <2>2. td \in Seq(Statement)
    BY <1>2, <1>3, <1>5
  <2>. QED
    BY <1>1, <1>2, <1>5, <2>1, <2>2 DEF Post, Rest, Pre, Writes
<1>6. CASE v # None /\ td = <<EntityModel(w), ModelRow(w, v)>>
  <2>1. Head(td) = EntityModel(w) /\ Tail(td) = <<ModelRow(w, v)>> /\ td # << >>
        /\ Tail(td) # << >> /\ Head(Tail(td)) = ModelRow(w, v)
    BY <1>6
  <2>2. td \in Seq(Statement)
    BY <1>2, <1>3, <1>6
  <2>. QED
    BY <1>1, <1>2, <1>6, <2>1, <2>2 DEF Post, Rest, Pre, Todo
<1>7. CASE v # None /\ td = <<SetEntity(w), EntityModel(w), ModelRow(w, v)>>
  <2>1. Head(td) = SetEntity(w) /\ Tail(td) = <<EntityModel(w), ModelRow(w, v)>> /\ td # << >>
        /\ Tail(td) # << >> /\ Head(Tail(td)) = EntityModel(w)
    BY <1>7
  <2>2. td \in Seq(Statement)
    BY <1>2, <1>3, <1>7
  <2>. QED
    BY <1>1, <1>2, <1>7, <2>1, <2>2 DEF Post, Rest, Pre, Todo
<1>. QED
  BY <1>4, <1>5, <1>6, <1>7 DEF Todo

(* The positions of a writer when a message is appended. *)
LEMMA MineAppend ==
    ASSUME NEW w, NEW ch \in Seq(Msg), NEW m \in Msg
    PROVE  /\ Len(ch) \in Nat /\ \A i \in Mine(ch, w) : i \in 1 .. Len(ch) /\ Append(ch, m)[i] = ch[i]
           /\ Append(ch, m)[Len(ch) + 1] = m
           /\ m \notin Of(w) => Mine(Append(ch, m), w) = Mine(ch, w)
           /\ m \in Of(w) => Mine(Append(ch, m), w) = Mine(ch, w) \cup {Len(ch) + 1}
<1>. DEFINE c2 == Append(ch, m)
<1>1. /\ Len(ch) \in Nat /\ DOMAIN ch = 1 .. Len(ch) /\ DOMAIN c2 = 1 .. Len(ch) + 1
      /\ c2[Len(ch) + 1] = m /\ \A i \in 1 .. Len(ch) : c2[i] = ch[i]
  OBVIOUS
<1>. HIDE DEF c2
<1>2. DOMAIN c2 = DOMAIN ch \cup {Len(ch) + 1}
  BY <1>1
<1>3. /\ m \notin Of(w) => Mine(c2, w) = Mine(ch, w)
      /\ m \in Of(w) => Mine(c2, w) = Mine(ch, w) \cup {Len(ch) + 1}
  BY <1>1, <1>2 DEF Mine
<1>. QED
  BY <1>1, <1>3 DEF Mine, c2

(* The positions of a writer when the first message is taken. *)
LEMMA MineTail ==
    ASSUME NEW w, NEW ch \in Seq(Msg), ch # << >>
    PROVE  /\ Mine(Tail(ch), w) \subseteq Nat /\ Mine(ch, w) \subseteq Nat \ {0}
           /\ \A i \in Nat \ {0} : i \in Mine(Tail(ch), w) <=> i + 1 \in Mine(ch, w)
           /\ \A i \in Mine(Tail(ch), w) : i > 0 /\ Tail(ch)[i] = ch[i + 1]
           /\ 1 \in Mine(ch, w) <=> Head(ch) \in Of(w)
           /\ Head(ch) = ch[1]
<1>. DEFINE c2 == Tail(ch)
<1>1. /\ Len(ch) \in Nat /\ Len(ch) > 0 /\ DOMAIN ch = 1 .. Len(ch) /\ DOMAIN c2 = 1 .. Len(ch) - 1
      /\ Head(ch) = ch[1] /\ \A i \in 1 .. Len(ch) - 1 : c2[i] = ch[i + 1]
  OBVIOUS
<1>. HIDE DEF c2
<1>2. \A i \in Nat \ {0} : i \in Mine(c2, w) <=> i + 1 \in Mine(ch, w)
  <2>. SUFFICES ASSUME NEW i \in Nat \ {0}
                PROVE  i \in Mine(c2, w) <=> i + 1 \in Mine(ch, w)
    OBVIOUS
  <2>1. i \in DOMAIN c2 <=> i + 1 \in DOMAIN ch
    BY <1>1
  <2>2. i \in DOMAIN c2 => c2[i] = ch[i + 1]
    BY <1>1
  <2>. QED
    BY <2>1, <2>2 DEF Mine
<1>3. Mine(c2, w) \subseteq DOMAIN c2 /\ Mine(ch, w) \subseteq DOMAIN ch
  BY DEF Mine
<1>4. 1 \in Mine(ch, w) <=> Head(ch) \in Of(w)
  BY <1>1 DEF Mine
<1>5. \A i \in Mine(c2, w) : i \in Nat /\ i > 0 /\ c2[i] = ch[i + 1]
  BY <1>1, <1>3
<1>6. Mine(ch, w) \subseteq Nat \ {0} /\ Mine(c2, w) \subseteq Nat
  BY <1>1, <1>3
<1>. QED
  BY <1>1, <1>2, <1>4, <1>5, <1>6, Zenon DEF c2

(* A new operation of a writer that has sent the one before. *)
LEMMA StreamIssue ==
    ASSUME NEW w \in Writer, NEW ch, NEW D, NEW v, Stream(w, ch, << >>, D, v),
           NEW v2 \in Value \cup {None}, NEW td \in Todo(w, v2), Rest(td) = "clean"
    PROVE  Stream(w, ch, td, D, v2)
<1>1. td # << >> /\ Rest(<< >>) = "clean"
  BY TodoStep DEF Rest
<1>. QED
  BY <1>1 DEF Stream

(* A message of another writer, or of the engine, is appended. *)
LEMMA StreamAppendOther ==
    ASSUME NEW w \in Writer, NEW ch \in Seq(Msg), NEW td, NEW D, NEW v, Stream(w, ch, td, D, v),
           NEW m \in Msg, m \notin Of(w)
    PROVE  Stream(w, Append(ch, m), td, D, v)
<1>1. Mine(Append(ch, m), w) = Mine(ch, w) /\ \A i \in Mine(ch, w) : Append(ch, m)[i] = ch[i]
  BY MineAppend
<1>. QED
  BY <1>1, Zenon DEF Stream

(* The writer sends the next message of its operation. *)
LEMMA StreamSend ==
    ASSUME NEW w \in Writer, NEW ch \in Seq(Msg), NEW D, NEW v \in Value \cup {None},
           NEW td \in Todo(w, v), Stream(w, ch, td, D, v)
    PROVE  Stream(w, Append(ch, Head(td)), Tail(td), D, v)
<1>. DEFINE m == Head(td)
            rest == Tail(td)
            c2 == Append(ch, m)
            n == Len(ch) + 1
<1>1. /\ m \in Of(w) /\ (rest = << >> \/ rest \in Todo(w, v))
      /\ Post(m) = Rest(rest) /\ Rest(td) = Pre(m) /\ (rest = << >> => Writes(m, w, v)) /\ td # << >>
  BY TodoStep
<1>. HIDE DEF m, rest
<1>2. m \in Msg
  BY <1>1, Kinds DEF Msg
<1>3. /\ Len(ch) \in Nat /\ (\A i \in Mine(ch, w) : i \in 1 .. Len(ch) /\ c2[i] = ch[i])
      /\ c2[n] = m /\ Mine(c2, w) = Mine(ch, w) \cup {n}
  <2>1. Len(ch) \in Nat /\ \A i \in Mine(ch, w) : i \in 1 .. Len(ch) /\ Append(ch, m)[i] = ch[i]
    BY <1>2, MineAppend
  <2>2. Append(ch, m)[Len(ch) + 1] = m
    BY <1>2, MineAppend
  <2>3. Mine(Append(ch, m), w) = Mine(ch, w) \cup {Len(ch) + 1}
    BY <1>1, <1>2, MineAppend
  <2>. QED
    BY <2>1, <2>2, <2>3
<1>. HIDE DEF c2
<1>4. n \in Nat /\ \A i \in Mine(ch, w) : i \in Nat /\ i < n
  <2>1. n \in Nat
    BY <1>3
  <2>2. ASSUME NEW i \in Mine(ch, w)
        PROVE  i \in Nat /\ i < n
    <3>1. i \in 1 .. Len(ch)
      BY <1>3
    <3>. QED
      BY <1>3, <3>1
  <2>. QED
    BY <2>1, <2>2
<1>. HIDE DEF n
<1>5. ASSUME NEW i \in Mine(c2, w), \A j \in Mine(c2, w) : i <= j
      PROVE  DbIs(Pre(c2[i]), D, w)
  <2>1. CASE i \in Mine(ch, w)
    BY <1>3, <1>5, <2>1 DEF Stream
  <2>2. CASE i = n
    <3>1. Mine(ch, w) = {}
      <4>. SUFFICES ASSUME NEW k \in Mine(ch, w) PROVE FALSE
        OBVIOUS
      <4>1. n <= k
        BY <1>3, <1>5, <2>2
      <4>. QED
        BY <1>4, <4>1
    <3>. QED
      BY <1>1, <1>3, <2>2, <3>1 DEF Stream
  <2>. QED
    BY <1>3, <2>1, <2>2
<1>6. ASSUME NEW i \in Mine(c2, w), NEW j \in Mine(c2, w), i < j, \A k \in Mine(c2, w) : k <= i \/ j <= k
      PROVE  Post(c2[i]) = Pre(c2[j])
  <2>1. i \in Mine(ch, w)
    BY <1>3, <1>4, <1>6
  <2>2. CASE j \in Mine(ch, w)
    BY <1>3, <1>6, <2>1, <2>2 DEF Stream
  <2>3. CASE j = n
    <3>1. \A k \in Mine(ch, w) : k <= i
      BY <1>3, <1>4, <1>6, <2>3
    <3>2. Post(ch[i]) = Rest(td)
      BY <2>1, <3>1 DEF Stream
    <3>. QED
      BY <1>1, <1>3, <2>1, <2>3, <3>2
  <2>. QED
    BY <1>3, <2>2, <2>3
<1>7. ASSUME NEW i \in Mine(c2, w), \A j \in Mine(c2, w) : j <= i
      PROVE  Post(c2[i]) = Rest(rest) /\ (rest = << >> => Writes(c2[i], w, v))
  <2>1. i = n
    BY <1>3, <1>4, <1>7
  <2>. QED
    BY <1>1, <1>3, <2>1
<1>8. Stream(w, c2, rest, D, v)
  BY <1>1, <1>3, <1>5, <1>6, <1>7 DEF Stream
<1>. QED
  BY <1>8 DEF m, rest, c2

(* The executor takes a message of another writer, or of the engine. *)
LEMMA StreamTakeOther ==
    ASSUME NEW w \in Writer, NEW ch \in Seq(Msg), ch # << >>, NEW td, NEW D, NEW v, Stream(w, ch, td, D, v),
           Head(ch) \notin Of(w), NEW D2, w \in D2.em <=> w \in D.em, D2.row[w] = D.row[w]
    PROVE  Stream(w, Tail(ch), td, D2, v)
<1>. DEFINE c2 == Tail(ch)
<1>1. /\ Mine(c2, w) \subseteq Nat /\ Mine(ch, w) \subseteq Nat \ {0}
      /\ \A i \in Nat \ {0} : i \in Mine(c2, w) <=> i + 1 \in Mine(ch, w)
      /\ \A i \in Mine(c2, w) : i > 0 /\ c2[i] = ch[i + 1]
      /\ 1 \notin Mine(ch, w)
  BY MineTail, Zenon
<1>. HIDE DEF c2
<1>2. ASSUME NEW k \in Mine(ch, w)
      PROVE  k - 1 \in Mine(c2, w) /\ k \in Nat /\ k > 1
  <2>1. k \in Nat /\ k > 1
    BY <1>1
  <2>2. k - 1 \in Nat \ {0} /\ (k - 1) + 1 = k
    BY <2>1
  <2>. QED
    BY <1>1, <2>1, <2>2
<1>3. ASSUME NEW i \in Mine(c2, w)
      PROVE  i \in Nat /\ i + 1 \in Mine(ch, w) /\ c2[i] = ch[i + 1]
  BY <1>1
<1>4. \A state : DbIs(state, D2, w) <=> DbIs(state, D, w)
  BY DEF DbIs
<1>5. ASSUME NEW i \in Mine(c2, w), \A j \in Mine(c2, w) : i <= j
      PROVE  DbIs(Pre(c2[i]), D2, w)
  <2>1. \A j \in Mine(ch, w) : i + 1 <= j
    BY <1>2, <1>3, <1>5
  <2>. QED
    BY <1>3, <1>4, <2>1 DEF Stream
<1>6. ASSUME NEW i \in Mine(c2, w), NEW j \in Mine(c2, w), i < j, \A k \in Mine(c2, w) : k <= i \/ j <= k
      PROVE  Post(c2[i]) = Pre(c2[j])
  <2>1. ASSUME NEW k \in Mine(ch, w)
        PROVE  k <= i + 1 \/ j + 1 <= k
    <3>1. k - 1 <= i \/ j <= k - 1
      BY <1>2, <1>6
    <3>. QED
      BY <1>2, <1>3, <3>1
  <2>2. i + 1 < j + 1
    BY <1>3, <1>6
  <2>. QED
    BY <1>3, <2>1, <2>2 DEF Stream
<1>7. ASSUME NEW i \in Mine(c2, w), \A j \in Mine(c2, w) : j <= i
      PROVE  Post(c2[i]) = Rest(td) /\ (td = << >> => Writes(c2[i], w, v))
  <2>1. \A j \in Mine(ch, w) : j <= i + 1
    BY <1>2, <1>3, <1>7
  <2>. QED
    BY <1>3, <2>1 DEF Stream
<1>8. ASSUME Mine(c2, w) = {}
      PROVE  DbIs(Rest(td), D2, w) /\ (td = << >> => D2.row[w] = v)
  <2>1. Mine(ch, w) = {}
    BY <1>2, <1>8
  <2>. QED
    BY <1>4, <2>1 DEF Stream
<1>9. td = << >> \/ td \in Todo(w, v)
  BY DEF Stream
<1>10. Stream(w, c2, td, D2, v)
  BY <1>5, <1>6, <1>7, <1>8, <1>9 DEF Stream
<1>. QED
  BY <1>10 DEF c2

(* The executor takes a message of the writer. *)
LEMMA StreamTakeOwn ==
    ASSUME NEW w \in Writer, NEW ch \in Seq(Msg), ch # << >>, NEW td, NEW D \in Db, References(D),
           NEW v \in Value \cup {None}, Stream(w, ch, td, D, v), Head(ch) \in Of(w)
    PROVE  /\ DbIs(Pre(Head(ch)), D, w)
           /\ Stream(w, Tail(ch), td, Run(D, Head(ch)), v)
<1>. DEFINE c2 == Tail(ch)
            m == Head(ch)
            D2 == Run(D, m)
<1>1. /\ Mine(c2, w) \subseteq Nat /\ Mine(ch, w) \subseteq Nat \ {0}
      /\ \A i \in Nat \ {0} : i \in Mine(c2, w) <=> i + 1 \in Mine(ch, w)
      /\ \A i \in Mine(c2, w) : i > 0 /\ c2[i] = ch[i + 1]
      /\ 1 \in Mine(ch, w) /\ ch[1] = m
  BY MineTail, ZenonT(30)
<1>2. m \in Of(w)
  OBVIOUS
<1>. HIDE DEF c2, m
<1>21. ASSUME m.type = "ModelRow", w \in D.em
       PROVE  D2.em = D.em /\ D2.row[w] = m.v
  <2>1. w[1] \in D.ent
    BY <1>21 DEF References
  <2>. QED
    BY <1>2, <1>21, <2>1, RunRow
<1>22. m.type = "DeleteEntity" => D2.row[w] = None
  BY <1>2, RunDelete, RunDeleteNone
<1>23. m.type = "DeleteEntity" => (D.row[w] = None => D2 = D) /\ (D.row[w] # None => w \notin D2.em)
  BY <1>2, RunDelete, RunDeleteNone
<1>24. m.type = "SetEntity" => w \in D2.em
  BY <1>2, RunSet
<1>25. m.type = "EntityModel" /\ w \in D.em => w \in D2.em
  BY <1>2, RunLink
<1>. HIDE DEF D2
<1>3. ASSUME NEW k \in Mine(ch, w), k # 1
      PROVE  k - 1 \in Mine(c2, w) /\ k \in Nat /\ k > 1
  <2>1. k \in Nat /\ k > 1
    BY <1>1, <1>3, SMTT(30)
  <2>2. k - 1 \in Nat \ {0} /\ (k - 1) + 1 = k
    BY <2>1
  <2>. QED
    BY <1>1, <2>1, <2>2
<1>4. ASSUME NEW i \in Mine(c2, w)
      PROVE  i \in Nat /\ i > 0 /\ i + 1 \in Mine(ch, w) /\ c2[i] = ch[i + 1]
  BY <1>1
<1>5. DbIs(Pre(m), D, w)
  <2>1. \A j \in Mine(ch, w) : 1 <= j
    BY <1>1
  <2>. QED
    BY <1>1, <2>1, Zenon DEF Stream
<1>6. DbIs(Post(m), D2, w)
  <2>1. m.type \in {"SetEntity", "EntityModel", "ModelRow", "DeleteEntity"} /\ (m.type = "ModelRow" => m.v \in Value)
    BY <1>2, Kinds
  <2>2. CASE m.type = "SetEntity"
    BY <1>24, <2>2 DEF DbIs, Post
  <2>3. CASE m.type = "EntityModel"
    <3>1. w \in D.em
      BY <1>5, <2>3 DEF DbIs, Pre
    <3>. QED
      BY <1>25, <2>3, <3>1 DEF DbIs, Post
  <2>4. CASE m.type = "ModelRow"
    <3>1. w \in D.em
      BY <1>5, <2>4 DEF DbIs, Pre
    <3>2. D2.em = D.em /\ D2.row[w] = m.v /\ m.v # None
      BY <1>21, <2>1, <2>4, <3>1, NoneIsNoValue
    <3>. QED
      BY <2>4, <3>1, <3>2 DEF DbIs, Post
  <2>5. CASE m.type = "DeleteEntity"
    <3>1. w \in D.em <=> D.row[w] # None
      BY <1>5, <2>5 DEF DbIs, Pre
    <3>2. D2.row[w] = None /\ w \notin D2.em
      BY <1>22, <1>23, <2>5, <3>1
    <3>. QED
      BY <2>5, <3>2 DEF DbIs, Post
  <2>. QED
    BY <2>1, <2>2, <2>3, <2>4, <2>5
<1>7. ASSUME Writes(m, w, v)
      PROVE  D2.row[w] = v
  <2>1. CASE v # None /\ m = ModelRow(w, v)
    <3>1. m.type = "ModelRow" /\ m.v = v
      BY <2>1 DEF ModelRow
    <3>2. w \in D.em
      BY <1>5, <3>1 DEF DbIs, Pre
    <3>. QED
      BY <1>21, <3>1, <3>2
  <2>2. CASE v = None /\ m = DeleteEntity(w)
    <3>1. m.type = "DeleteEntity"
      BY <2>2 DEF DeleteEntity
    <3>. QED
      BY <1>22, <2>2, <3>1
  <2>. QED
    BY <1>7, <2>1, <2>2 DEF Writes
<1>8. ASSUME NEW i \in Mine(c2, w), \A j \in Mine(c2, w) : i <= j
      PROVE  DbIs(Pre(c2[i]), D2, w)
  <2>1. ASSUME NEW k \in Mine(ch, w)
        PROVE  k <= 1 \/ i + 1 <= k
    <3>1. k = 1 \/ i <= k - 1
      BY <1>3, <1>8
    <3>. QED
      BY <1>3, <1>4, <3>1
  <2>2. 1 < i + 1
    BY <1>4
  <2>3. Post(ch[1]) = Pre(ch[i + 1])
    BY <1>1, <1>4, <2>1, <2>2, Zenon DEF Stream
  <2>. QED
    BY <1>1, <1>4, <1>6, <2>3
<1>9. ASSUME NEW i \in Mine(c2, w), NEW j \in Mine(c2, w), i < j, \A k \in Mine(c2, w) : k <= i \/ j <= k
      PROVE  Post(c2[i]) = Pre(c2[j])
  <2>1. ASSUME NEW k \in Mine(ch, w)
        PROVE  k <= i + 1 \/ j + 1 <= k
    <3>1. k = 1 \/ k - 1 <= i \/ j <= k - 1
      BY <1>3, <1>9
    <3>. QED
      BY <1>3, <1>4, <3>1
  <2>2. i + 1 < j + 1
    BY <1>4, <1>9
  <2>. QED
    BY <1>4, <2>1, <2>2 DEF Stream
<1>10. ASSUME NEW i \in Mine(c2, w), \A j \in Mine(c2, w) : j <= i
       PROVE  Post(c2[i]) = Rest(td) /\ (td = << >> => Writes(c2[i], w, v))
  <2>1. ASSUME NEW j \in Mine(ch, w)
        PROVE  j <= i + 1
    <3>1. j = 1 \/ j - 1 <= i
      BY <1>3, <1>10
    <3>. QED
      BY <1>3, <1>4, <3>1
  <2>. QED
    BY <1>4, <2>1 DEF Stream
<1>11. ASSUME Mine(c2, w) = {}
       PROVE  DbIs(Rest(td), D2, w) /\ (td = << >> => D2.row[w] = v)
  <2>1. \A j \in Mine(ch, w) : j <= 1
    BY <1>3, <1>11
  <2>2. Post(m) = Rest(td) /\ (td = << >> => Writes(m, w, v))
    BY <1>1, <2>1, SMTT(30) DEF Stream
  <2>. QED
    BY <1>6, <1>7, <2>2
<1>12. td = << >> \/ td \in Todo(w, v)
  BY DEF Stream
<1>13. Stream(w, c2, td, D2, v)
  BY <1>8, <1>9, <1>10, <1>11, <1>12 DEF Stream
<1>. QED
  BY <1>5, <1>13 DEF c2, m, D2

-----------------------------------------------------------------------------
(* The invariant of the executor *)


TypeOK ==
    /\ todo \in [Writer -> Seq(Statement)]
    /\ channel \in Seq(Msg)
    /\ db \in Db /\ disk \in Db
    /\ tx \in {"open", "none"}
    /\ engine \in {"process", "cursors", "commit", "execute", "failed", "rollback", "stopped"}
    /\ attempt \in Nat /\ ops \in Nat /\ errors \in Nat
    /\ want \in [Writer -> Value \cup {None}]
    /\ goal \in [Writer -> Value \cup {None}]

-----------------------------------------------------------------------------
(* The engine asks when every operation is sent, and waits for the answer: its
   request is the last message. *)

RequestOf(e) == IF e = "cursors" THEN UpdateCursors ELSE IF e = "execute" THEN Execute ELSE Rollback

ChannelOk(e, ch, td) ==
    /\ e = "process" => ch \in Seq(Statement)
    /\ e \in {"cursors", "execute", "rollback"} =>
          /\ ch # << >> /\ ch[Len(ch)] = RequestOf(e)
          /\ \A i \in 1 .. Len(ch) - 1 : ch[i] \in Statement
    /\ e = "execute" => Len(ch) = 1
    /\ e \in {"commit", "failed", "stopped"} => ch = << >>
    /\ e # "process" => \A w \in Writer : td[w] = << >>

(* The executor takes a statement. *)
LEMMA TakeStatement ==
    ASSUME NEW e \in {"process", "cursors", "commit", "execute", "failed", "rollback", "stopped"},
           NEW ch \in Seq(Msg), NEW td, ChannelOk(e, ch, td), ch # << >>, IsStatement(Head(ch))
    PROVE  \/ Head(ch) \in Statement /\ ChannelOk(e, Tail(ch), td)
           \/ Head(ch) = UpdateCursors /\ Tail(ch) = << >> /\ \A w \in Writer : td[w] = << >>
<1>1. CASE e = "process"
  <2>1. ch \in Seq(Statement)
    BY <1>1 DEF ChannelOk
  <2>2. Head(ch) \in Statement /\ Tail(ch) \in Seq(Statement)
    BY <2>1
  <2>. QED
    BY <1>1, <2>2 DEF ChannelOk
<1>2. CASE e \in {"cursors", "execute", "rollback"}
  <2>. DEFINE c2 == Tail(ch)
  <2>1. /\ ch[Len(ch)] = RequestOf(e) /\ (\A i \in 1 .. Len(ch) - 1 : ch[i] \in Statement)
        /\ (e = "execute" => Len(ch) = 1) /\ \A w \in Writer : td[w] = << >>
    BY <1>2 DEF ChannelOk
  <2>2. /\ Len(ch) \in Nat /\ Len(ch) > 0 /\ Head(ch) = ch[1] /\ Len(c2) = Len(ch) - 1
        /\ \A i \in 1 .. Len(ch) - 1 : c2[i] = ch[i + 1]
    OBVIOUS
  <2>3. CASE Len(ch) = 1
    <3>1. c2 = << >>
      BY <2>3
    <3>2. Head(ch) = RequestOf(e)
      BY <2>1, <2>2, <2>3
    <3>3. e = "cursors"
      BY <1>2, <3>2, RequestKinds DEF RequestOf, IsStatement
    <3>. QED
      BY <2>1, <3>1, <3>2, <3>3 DEF RequestOf
  <2>4. CASE Len(ch) # 1
    <3>. HIDE DEF c2
    <3>1. Len(c2) \in Nat /\ Len(c2) > 0 /\ Len(c2) = Len(ch) - 1
      BY <2>2, <2>4
    <3>2. c2[Len(c2)] = RequestOf(e)
      <4>1. Len(c2) \in 1 .. Len(ch) - 1 /\ Len(c2) + 1 = Len(ch)
        BY <2>2, <3>1
      <4>2. c2[Len(c2)] = ch[Len(c2) + 1]
        BY <2>2, <4>1
      <4>. QED
        BY <2>1, <4>1, <4>2
    <3>3. ASSUME NEW i \in 1 .. Len(c2) - 1
          PROVE  c2[i] \in Statement
      <4>1. i \in 1 .. Len(ch) - 1 /\ i + 1 \in 1 .. Len(ch) - 1
        BY <2>2, <3>1
      <4>. QED
        BY <2>1, <2>2, <4>1
    <3>4. Head(ch) \in Statement
      <4>1. 1 \in 1 .. Len(ch) - 1
        BY <2>2, <2>4
      <4>. QED
        BY <2>1, <2>2, <4>1
    <3>5. c2 # << >> /\ e # "execute"
      BY <2>1, <2>4, <3>1
    <3>6. ChannelOk(e, c2, td)
      BY <1>2, <2>1, <3>2, <3>3, <3>5 DEF ChannelOk
    <3>. QED
      BY <3>4, <3>6 DEF c2
  <2>. QED
    BY <2>3, <2>4
<1>3. CASE e \in {"commit", "failed", "stopped"}
  BY <1>3 DEF ChannelOk
<1>. QED
  BY <1>1, <1>2, <1>3

(* Nothing follows a message that is alone in the channel. *)
LEMMA SingleTail ==
    ASSUME NEW S, NEW c \in Seq(S), c # << >>
    PROVE  Len(c) \in Nat /\ Len(c) > 0 /\ Head(c) = c[1] /\ (Len(c) = 1 => Tail(c) = << >>)
<1>1. Len(c) \in Nat /\ Len(c) > 0 /\ Head(c) = c[1]
  OBVIOUS
<1>2. ASSUME Len(c) = 1
      PROVE  Tail(c) = << >>
  <2>1. Tail(c) \in Seq(S) /\ Len(Tail(c)) = 0
    BY <1>2
  <2>2. \A t \in Seq(S) : Len(t) = 0 => t = << >>
    OBVIOUS
  <2>. QED
    BY <2>1, <2>2, Zenon
<1>. QED
  BY <1>1, <1>2

(* The executor takes a request to commit or to roll back. *)
LEMMA TakeRequest ==
    ASSUME NEW e \in {"process", "cursors", "commit", "execute", "failed", "rollback", "stopped"},
           NEW ch \in Seq(Msg), NEW td, ChannelOk(e, ch, td), ch # << >>, Head(ch) = Execute \/ Head(ch) = Rollback
    PROVE  Len(ch) = 1 /\ Tail(ch) = << >> /\ \A w \in Writer : td[w] = << >>
<1>1. Head(ch) \notin Statement /\ Head(ch) # UpdateCursors
  BY RequestKinds
<1>2. Len(ch) \in Nat /\ Len(ch) > 0 /\ Head(ch) = ch[1] /\ (Len(ch) = 1 => Tail(ch) = << >>)
  BY SingleTail
<1>3. CASE e = "process"
  <2>1. ch \in Seq(Statement)
    BY <1>3 DEF ChannelOk
  <2>2. Head(ch) \in Statement
    BY <2>1
  <2>. QED
    BY <1>1, <2>2
<1>4. CASE e \in {"cursors", "execute", "rollback"}
  <2>1. (\A i \in 1 .. Len(ch) - 1 : ch[i] \in Statement) /\ \A w \in Writer : td[w] = << >>
    BY <1>4 DEF ChannelOk
  <2>2. Len(ch) = 1
    <3>1. 1 \notin 1 .. Len(ch) - 1
      BY <1>1, <1>2, <2>1
    <3>2. \A n \in Nat : n > 0 /\ 1 \notin 1 .. n - 1 => n = 1
      OBVIOUS
    <3>. QED
      BY <1>2, <3>1, <3>2, Zenon
  <2>3. Tail(ch) = << >>
    BY <1>2, <2>2
  <2>. QED
    BY <2>1, <2>2, <2>3
<1>5. CASE e \in {"commit", "failed", "stopped"}
  BY <1>5 DEF ChannelOk
<1>. QED
  BY <1>3, <1>4, <1>5

(* The engine asks. *)
LEMMA AskOk ==
    ASSUME NEW from, NEW e \in {"cursors", "execute", "rollback"}, NEW ch \in Seq(Msg), NEW td, ChannelOk(from, ch, td),
           \/ from = "process" /\ e # "execute" /\ \A w \in Writer : td[w] = << >>
           \/ from \in {"commit", "failed"}
    PROVE  ChannelOk(e, Append(ch, RequestOf(e)), td)
<1>. DEFINE m == RequestOf(e)
            c2 == Append(ch, m)
<1>1. /\ Len(ch) \in Nat /\ Len(c2) = Len(ch) + 1 /\ c2[Len(ch) + 1] = m
      /\ (\A i \in 1 .. Len(ch) : c2[i] = ch[i]) /\ c2 # << >>
  OBVIOUS
<1>2. \A w \in Writer : td[w] = << >>
  BY DEF ChannelOk
<1>3. \A i \in 1 .. Len(ch) : ch[i] \in Statement
  <2>1. CASE from = "process"
    <3>1. ch \in Seq(Statement)
      BY <2>1 DEF ChannelOk
    <3>. QED
      BY <3>1
  <2>2. CASE from \in {"commit", "failed"}
    <3>1. ch = << >>
      BY <2>2 DEF ChannelOk
    <3>. QED
      BY <3>1
  <2>. QED
    BY <2>1, <2>2
<1>4. e = "execute" => Len(c2) = 1
  <2>1. e = "execute" => ch = << >>
    BY DEF ChannelOk
  <2>. QED
    BY <1>1, <2>1
<1>. HIDE DEF c2
<1>5. \A i \in 1 .. Len(c2) - 1 : c2[i] \in Statement
  <2>1. 1 .. Len(c2) - 1 = 1 .. Len(ch)
    BY <1>1
  <2>. QED
    BY <1>1, <1>3, <2>1
<1>6. ChannelOk(e, c2, td)
  BY <1>1, <1>2, <1>4, <1>5 DEF ChannelOk
<1>. QED
  BY <1>6 DEF c2

-----------------------------------------------------------------------------
(* Types, the protocol of the engine, and the references of both databases. *)
Base == TypeOK /\ ChannelOk(engine, channel, todo) /\ References(db) /\ References(disk)

(* What a step has to show. *)
LEMMA BaseKept ==
    ASSUME todo' \in [Writer -> Seq(Statement)], channel' \in Seq(Msg), db' \in Db, disk' \in Db,
           tx' \in {"open", "none"},
           engine' \in {"process", "cursors", "commit", "execute", "failed", "rollback", "stopped"},
           attempt' \in Nat, ops' \in Nat, errors' \in Nat,
           want' \in [Writer -> Value \cup {None}], goal' \in [Writer -> Value \cup {None}],
           ChannelOk(engine', channel', todo'), References(db'), References(disk')
    PROVE  Base'
  BY DEF Base, TypeOK, ChannelOk, References

(* An operation is put together. *)
LEMMA BaseOperation ==
    ASSUME Base, NEW w \in Writer, NEW v \in Value \cup {None}, NEW td \in Todo(w, v), Operation(w, td, v)
    PROVE  Base'
<1>1. td \in Seq(Statement)
  BY TodoStep
<1>2. todo' \in [Writer -> Seq(Statement)] /\ want' \in [Writer -> Value \cup {None}] /\ ops' \in Nat
  BY <1>1 DEF Base, TypeOK, Operation
<1>3. ChannelOk(engine', channel', todo')
  BY DEF Base, Operation, ChannelOk
<1>. QED
  BY <1>2, <1>3, BaseKept DEF Base, TypeOK, Operation

(* A handler sends. *)
LEMMA BaseSend ==
    ASSUME Base, NEW w \in Writer, Send(w)
    PROVE  Base'
<1>1. todo[w] \in Seq(Statement) /\ todo[w] # << >>
  BY DEF Base, TypeOK, Send
<1>2. Head(todo[w]) \in Statement /\ Tail(todo[w]) \in Seq(Statement)
  BY <1>1
<1>3. engine = "process" /\ channel \in Seq(Statement)
  BY <1>1 DEF Base, ChannelOk
<1>4. channel' \in Seq(Statement)
  BY <1>2, <1>3 DEF Send
<1>5. todo' \in [Writer -> Seq(Statement)] /\ channel' \in Seq(Msg)
  <2>1. todo' \in [Writer -> Seq(Statement)]
    BY <1>2 DEF Base, TypeOK, Send
  <2>2. Head(todo[w]) \in Msg
    BY <1>2 DEF Msg
  <2>3. channel' \in Seq(Msg)
    BY <2>2 DEF Base, TypeOK, Send
  <2>. QED
    BY <2>1, <2>3
<1>6. ChannelOk(engine', channel', todo')
  BY <1>3, <1>4 DEF Send, ChannelOk
<1>. QED
  BY <1>5, <1>6, BaseKept DEF Base, TypeOK, Send

(* The engine asks. *)
LEMMA BaseAsk ==
    ASSUME Base, update_cursors \/ execute \/ rollback \/ ProcessFailed
    PROVE  /\ Base'
           /\ \E m \in {UpdateCursors, Execute, Rollback} : channel' = Append(channel, m)
<1>1. PICK from \in {"process", "commit", "failed"}, e \in {"cursors", "execute", "rollback"} :
         /\ Ask(from, e, RequestOf(e))
         /\ \/ from = "process" /\ e # "execute" /\ \A w \in Writer : todo[w] = << >>
            \/ from \in {"commit", "failed"}
  BY DEF update_cursors, execute, rollback, ProcessFailed, RequestOf, Idle
<1>2. channel \in Seq(Msg) /\ ChannelOk(from, channel, todo)
  BY <1>1 DEF Base, TypeOK, Ask
<1>3. ChannelOk(e, Append(channel, RequestOf(e)), todo)
  BY <1>1, <1>2, AskOk
<1>4. RequestOf(e) \in {UpdateCursors, Execute, Rollback}
  BY DEF RequestOf
<1>5. Append(channel, RequestOf(e)) \in Seq(Msg)
  BY <1>2, <1>4 DEF Msg
<1>6. Base'
  BY <1>1, <1>3, <1>5, BaseKept DEF Base, TypeOK, Ask
<1>. QED
  BY <1>1, <1>4, <1>6 DEF Ask

(* The cursors are not part of what is related. *)
LEMMA RunCursors ==
    ASSUME NEW D \in Db, References(D)
    PROVE  /\ Run(D, UpdateCursors) \in Db /\ References(Run(D, UpdateCursors))
           /\ Run(D, UpdateCursors).ent = D.ent /\ Run(D, UpdateCursors).em = D.em
           /\ Run(D, UpdateCursors).row = D.row
<1>. DEFINE D2 == [D EXCEPT !.head = @ + 1]
<1>1. Run(D, UpdateCursors) = D2
  BY RequestKinds DEF Run, RunUpdateCursors
<1>2. D2 \in Db /\ D2.ent = D.ent /\ D2.em = D.em /\ D2.row = D.row
  BY DbTyped DEF Db
<1>. HIDE DEF D2
<1>3. References(D2)
  BY <1>2 DEF References
<1>. QED
  BY <1>1, <1>2, <1>3

(* What the executor takes from the channel. *)
LEMMA Taken ==
    ASSUME Base, channel # << >>
    PROVE  Head(channel) \in Msg /\ Tail(channel) \in Seq(Msg)
<1>1. channel \in Seq(Msg)
  BY DEF Base, TypeOK
<1>. QED
  BY <1>1

(* A statement leaves the engine as it is; the cursors are the last message. *)
LEMMA BaseTake ==
    ASSUME Base, channel # << >>, IsStatement(Head(channel)), NEW ok \in BOOLEAN, Reply(Head(channel), ok),
           channel' = Tail(channel), UNCHANGED todo
    PROVE  /\ engine' \in {"process", "cursors", "commit", "execute", "failed", "rollback", "stopped"}
           /\ ChannelOk(engine', channel', todo')
           /\ \/ Head(channel) \in Statement
              \/ Head(channel) = UpdateCursors /\ channel' = << >> /\ \A w \in Writer : todo[w] = << >>
<1>1. /\ channel \in Seq(Msg) /\ ChannelOk(engine, channel, todo)
      /\ engine \in {"process", "cursors", "commit", "execute", "failed", "rollback", "stopped"}
  BY DEF Base, TypeOK
<1>2. \/ Head(channel) \in Statement /\ ChannelOk(engine, Tail(channel), todo)
      \/ Head(channel) = UpdateCursors /\ Tail(channel) = << >> /\ \A w \in Writer : todo[w] = << >>
  BY <1>1, TakeStatement
<1>3. CASE Head(channel) \in Statement /\ ChannelOk(engine, Tail(channel), todo)
  <2>1. engine' = engine
    BY <1>3, StatementOf DEF Reply
  <2>. QED
    BY <1>1, <1>3, <2>1
<1>4. CASE Head(channel) = UpdateCursors /\ Tail(channel) = << >> /\ \A w \in Writer : todo[w] = << >>
  <2>1. engine' \in {"commit", "failed"}
    BY <1>4, RequestKinds DEF Reply
  <2>2. ChannelOk(engine', channel', todo')
    BY <1>4, <2>1 DEF ChannelOk
  <2>. QED
    BY <1>4, <2>1, <2>2
<1>. QED
  BY <1>2, <1>3, <1>4

(* A statement runs. *)
LEMMA BaseStatement ==
    ASSUME Base, HandleStatement
    PROVE  Base'
<1>1. /\ channel' \in Seq(Msg) /\ channel # << >> /\ IsStatement(Head(channel)) /\ Reply(Head(channel), TRUE)
      /\ channel' = Tail(channel) /\ UNCHANGED todo /\ db' = Run(db, Head(channel))
  BY Taken, Zenon DEF HandleStatement
<1>2. /\ engine' \in {"process", "cursors", "commit", "execute", "failed", "rollback", "stopped"}
      /\ ChannelOk(engine', channel', todo')
      /\ Head(channel) \in Statement \/ Head(channel) = UpdateCursors
  BY <1>1, BaseTake, Zenon
<1>3. db \in Db /\ References(db)
  BY DEF Base, TypeOK
<1>4. db' \in Db /\ References(db')
  BY <1>1, <1>2, <1>3, StatementOf, RunTyped, RunCursors, SMTT(30)
<1>. QED
  BY <1>1, <1>2, <1>4, BaseKept DEF Base, TypeOK, HandleStatement

(* A statement fails. *)
LEMMA BaseFailure ==
    ASSUME Base, HandleFailure
    PROVE  Base'
<1>1. /\ channel' \in Seq(Msg) /\ channel # << >> /\ IsStatement(Head(channel)) /\ Reply(Head(channel), FALSE)
      /\ channel' = Tail(channel) /\ UNCHANGED todo /\ db' \in Partial(db, Head(channel)) /\ Head(channel) \in Msg
  BY Taken, Zenon DEF HandleFailure
<1>2. /\ engine' \in {"process", "cursors", "commit", "execute", "failed", "rollback", "stopped"}
      /\ ChannelOk(engine', channel', todo')
  BY <1>1, BaseTake, Zenon
<1>3. db \in Db /\ References(db)
  BY DEF Base, TypeOK
<1>4. db' \in Db /\ References(db')
  BY <1>1, <1>3, PartialEffect
<1>5. errors' \in Nat
  BY DEF Base, TypeOK, HandleFailure
<1>. QED
  BY <1>1, <1>2, <1>4, <1>5, BaseKept DEF Base, TypeOK, HandleFailure

(* A request is alone in the channel, and every writer is idle. *)
LEMMA RequestTaken ==
    ASSUME Base, channel # << >>, Head(channel) = Execute \/ Head(channel) = Rollback
    PROVE  Len(channel) = 1 /\ Tail(channel) = << >> /\ \A w \in Writer : todo[w] = << >>
<1>1. /\ channel \in Seq(Msg) /\ ChannelOk(engine, channel, todo)
      /\ engine \in {"process", "cursors", "commit", "execute", "failed", "rollback", "stopped"}
  BY DEF Base, TypeOK
<1>. QED
  BY <1>1, TakeRequest

(* The channel of an engine that starts an attempt, or has stopped. *)
LEMMA Emptied ==
    ASSUME NEW e \in {"process", "stopped"}, NEW td, \A w \in Writer : td[w] = << >>
    PROVE  ChannelOk(e, << >>, td) /\ << >> \in Seq(Msg)
  BY DEF ChannelOk

(* A transaction ends, or fails to. *)
LEMMA BaseRequest ==
    ASSUME Base, HandleExecute \/ HandleExecuteFails \/ HandleRollback \/ HandleRollbackFails
    PROVE  Base'
<1>1. /\ channel # << >> /\ (Head(channel) = Execute \/ Head(channel) = Rollback)
      /\ channel' = Tail(channel) /\ UNCHANGED todo /\ engine' \in {"process", "stopped"}
  BY DEF HandleExecute, HandleExecuteFails, HandleRollback, HandleRollbackFails, NewAttempt
<1>2. channel' = << >> /\ \A w \in Writer : todo[w] = << >>
  BY <1>1, RequestTaken
<1>3. ChannelOk(engine', channel', todo') /\ channel' \in Seq(Msg)
  BY <1>1, <1>2, Emptied, Zenon
<1>4. /\ db' \in {db, disk} /\ disk' \in {db, disk} /\ tx' \in {"open", "none"}
      /\ attempt' \in {attempt, attempt + 1} /\ ops' \in {ops, 0} /\ errors' \in {errors, errors + 1}
      /\ want' \in {want, goal} /\ goal' \in {want, goal}
  BY DEF HandleExecute, HandleExecuteFails, HandleRollback, HandleRollbackFails, NewAttempt, Base, TypeOK
<1>5. db' \in Db /\ disk' \in Db /\ References(db') /\ References(disk')
  BY <1>4 DEF Base, TypeOK
<1>6. attempt' \in Nat /\ ops' \in Nat /\ errors' \in Nat
  BY <1>4 DEF Base, TypeOK
<1>7. want' \in [Writer -> Value \cup {None}] /\ goal' \in [Writer -> Value \cup {None}]
  BY <1>4 DEF Base, TypeOK
<1>8. todo' \in [Writer -> Seq(Statement)]
  BY <1>1 DEF Base, TypeOK
<1>9. engine' \in {"process", "cursors", "commit", "execute", "failed", "rollback", "stopped"}
  BY <1>1
<1>. QED
  BY <1>3, <1>4, <1>5, <1>6, <1>7, <1>8, <1>9, BaseKept

(* The process ends and starts again. *)
LEMMA BaseCrash ==
    ASSUME Base, Crash
    PROVE  Base'
<1>1. /\ todo' = [w \in Writer |-> << >>] /\ channel' = << >> /\ db' = disk /\ disk' = disk /\ tx' = "open"
      /\ want' = goal /\ goal' = goal /\ attempt' = attempt + 1 /\ ops' = 0 /\ engine' = "process" /\ errors' = errors
  BY DEF Crash, Restart, NewAttempt
<1>2. \A w \in Writer : todo'[w] = << >>
  BY <1>1
<1>3. ChannelOk(engine', channel', todo') /\ channel' \in Seq(Msg)
  BY <1>1, <1>2, Emptied
<1>4. todo' \in [Writer -> Seq(Statement)]
  BY <1>1
<1>5. db' \in Db /\ disk' \in Db /\ References(db') /\ References(disk')
  BY <1>1 DEF Base, TypeOK
<1>6. attempt' \in Nat /\ ops' \in Nat /\ errors' \in Nat
  BY <1>1 DEF Base, TypeOK
<1>7. want' \in [Writer -> Value \cup {None}] /\ goal' \in [Writer -> Value \cup {None}]
  BY <1>1 DEF Base, TypeOK
<1>8. /\ tx' \in {"open", "none"}
      /\ engine' \in {"process", "cursors", "commit", "execute", "failed", "rollback", "stopped"}
  BY <1>1
<1>. QED
  BY <1>3, <1>4, <1>5, <1>6, <1>7, <1>8, BaseKept

(* Every step keeps them. *)
LEMMA BaseStep ==
    ASSUME Base, [Next]_vars
    PROVE  Base'
<1>1. ASSUME NEW w \in Writer, NEW v \in Value, set_entity(w, v)
      PROVE  Base'
  <2>1. <<SetEntity(w), EntityModel(w), ModelRow(w, v)>> \in Todo(w, v)
    BY NoneIsNoValue DEF Todo
  <2>. QED
    BY <1>1, <2>1, BaseOperation DEF set_entity
<1>2. ASSUME NEW w \in Writer, delete_entity(w)
      PROVE  Base'
  <2>1. <<DeleteEntity(w)>> \in Todo(w, None)
    BY DEF Todo
  <2>. QED
    BY <1>2, <2>1, BaseOperation DEF delete_entity
<1>3. ASSUME NEW w \in Writer, Send(w)
      PROVE  Base'
  BY <1>3, BaseSend, SMTT(30)
<1>4. CASE UNCHANGED vars
  BY <1>4 DEF vars, Base, TypeOK, ChannelOk, References
<1>. QED
  BY <1>1, <1>2, <1>3, <1>4, BaseAsk, BaseStatement, BaseFailure, BaseRequest, BaseCrash
     DEF Next, Sends, Handle

(* No message, no entity and no row at first. *)
LEMMA BaseInit ==
    ASSUME Init
    PROVE  Base
<1>1. EmptyDb \in Db /\ EmptyDb.row = [w \in Writer |-> None] /\ EmptyDb.em = {} /\ EmptyDb.ent = {}
  BY DEF EmptyDb, Db
<1>2. References(EmptyDb)
  BY <1>1 DEF References
<1>3. todo \in [Writer -> Seq(Statement)] /\ \A w \in Writer : todo[w] = << >>
  BY DEF Init
<1>4. ChannelOk(engine, channel, todo) /\ channel \in Seq(Msg)
  BY <1>3, Emptied DEF Init
<1>5. want \in [Writer -> Value \cup {None}] /\ goal \in [Writer -> Value \cup {None}]
  BY <1>1, SMTT(30) DEF Init
<1>. QED
  BY <1>1, <1>2, <1>3, <1>4, <1>5, SMTT(30) DEF Init, Base, TypeOK

-----------------------------------------------------------------------------
(* As long as no statement failed: every writer's messages lead from what the
   database has to what the writer wants, and an entity exists exactly when it has
   a model. *)
Linked(D) == (\A w \in Writer : D.row[w] # None => w \in D.em) /\ D.ent = {w[1] : w \in D.em}

Clean ==
    errors = 0 =>
       /\ \A w \in Writer : Stream(w, channel, todo[w], db, want[w])
       /\ Linked(db) /\ Linked(disk)
       /\ \A w \in Writer : w \in disk.em => disk.row[w] # None
       /\ disk.row = goal

(* Nothing is on its way: the database has what is wanted. *)
LEMMA StreamRest ==
    ASSUME NEW w \in Writer, NEW ch, Mine(ch, w) = {}, NEW D, NEW v, Stream(w, ch, << >>, D, v)
    PROVE  (w \in D.em <=> D.row[w] # None) /\ D.row[w] = v
  BY SMTT(30) DEF Stream, DbIs, Rest

(* A writer with nothing on its way. *)
LEMMA StreamStart ==
    ASSUME NEW w \in Writer, NEW ch, Mine(ch, w) = {}, NEW D, w \in D.em <=> D.row[w] # None, NEW v, D.row[w] = v
    PROVE  Stream(w, ch, << >>, D, v)
  BY DEF Stream, DbIs, Rest

(* The empty channel, and one that holds a request. *)
LEMMA NoneOfMine ==
    ASSUME NEW w \in Writer
    PROVE  /\ Mine(<< >>, w) = {}
           /\ \A ch \in Seq(Msg) : Len(ch) = 1 /\ (Head(ch) = Execute \/ Head(ch) = Rollback) => Mine(ch, w) = {}
<1>1. Mine(<< >>, w) = {}
  BY DEF Mine
<1>2. ASSUME NEW ch \in Seq(Msg), Len(ch) = 1, Head(ch) = Execute \/ Head(ch) = Rollback
      PROVE  Mine(ch, w) = {}
  <2>1. DOMAIN ch = {1} /\ Head(ch) = ch[1]
    BY <1>2
  <2>2. Head(ch) \notin Of(w)
    BY <1>2, RequestKinds, Kinds, SMTT(30)
  <2>. QED
    BY <2>1, <2>2 DEF Mine
<1>. QED
  BY <1>1, <1>2

(* A statement that finds what its writer left keeps entities and models linked. *)
LEMMA LinkedRun ==
    ASSUME NEW D \in Db, References(D), Linked(D), NEW w \in Writer, NEW m \in Of(w), DbIs(Pre(m), D, w)
    PROVE  Linked(Run(D, m))
<1>. DEFINE D2 == Run(D, m)
<1>1. (\A x \in Writer : D.row[x] # None => x \in D.em) /\ D.ent = {x[1] : x \in D.em} /\ D.em \subseteq Writer
  BY DbTyped DEF Linked
<1>2. CASE m.type = "SetEntity"
  <2>1. D2.ent = D.ent \cup {w[1]} /\ D2.em = D.em \cup {w} /\ D2.row = D.row
    BY <1>2, RunSet, SMTT(30)
  <2>. HIDE DEF D2
  <2>2. D2.ent = {x[1] : x \in D2.em}
    BY <1>1, <2>1, SMTT(30)
  <2>3. Linked(D2)
    BY <1>1, <2>1, <2>2 DEF Linked
  <2>. QED
    BY <2>3, SMTT(30) DEF D2
<1>3. CASE m.type = "EntityModel"
  <2>1. D2.ent = D.ent /\ D2.row = D.row /\ (D2.em = D.em \/ D2.em = D.em \cup {w})
    BY <1>3, RunLink
  <2>. HIDE DEF D2
  <2>2. w \in D.em
    BY <1>3 DEF DbIs, Pre
  <2>3. D2.em = D.em
    BY <2>1, <2>2
  <2>4. Linked(D2)
    BY <1>1, <2>1, <2>3 DEF Linked
  <2>. QED
    BY <2>4, SMTT(30) DEF D2
<1>4. CASE m.type = "ModelRow"
  <2>1. D2.ent = D.ent /\ D2.em = D.em /\ \A x \in Writer : x # w => D2.row[x] = D.row[x]
    BY <1>4, RunRow
  <2>. HIDE DEF D2
  <2>2. w \in D.em
    BY <1>4, SMTT(30) DEF DbIs, Pre
  <2>3. Linked(D2)
    BY <1>1, <2>1, <2>2 DEF Linked
  <2>. QED
    BY <2>3, SMTT(30) DEF D2
<1>5. CASE m.type = "DeleteEntity" /\ D.row[w] = None
  BY <1>5, RunDeleteNone, SMTT(30)
<1>6. CASE m.type = "DeleteEntity" /\ D.row[w] # None
  <2>0. /\ Run(D, m) \in Db /\ References(Run(D, m))
        /\ Run(D, m).em = D.em \ {w} /\ Run(D, m).row[w] = None
        /\ \A x \in Writer : x # w => Run(D, m).row[x] = D.row[x]
        /\ Run(D, m).ent = D.ent \/ (Run(D, m).ent = D.ent \ {w[1]} /\ ModelsOf(Run(D, m), w[1]) = {})
        /\ Run(D, m).ent = D.ent => ModelsOf(Run(D, m), w[1]) # {} \/ HasRow(Run(D, m), w[1]) \/ w[1] \notin D.ent
    BY <1>6, RunDelete, Zenon
  <2>. HIDE DEF D2
  <2>1. D2.em = D.em \ {w} /\ D2.row[w] = None /\ \A x \in Writer : x # w => D2.row[x] = D.row[x]
    BY <2>0, Zenon DEF D2
  <2>2. D2.ent = D.ent \/ (D2.ent = D.ent \ {w[1]} /\ ModelsOf(D2, w[1]) = {})
    BY <2>0, Zenon DEF D2
  <2>3. D2.ent = D.ent => ModelsOf(D2, w[1]) # {} \/ HasRow(D2, w[1]) \/ w[1] \notin D.ent
    BY <2>0, Zenon DEF D2
  <2>4. \A x \in Writer : D2.row[x] # None => x \in D2.em
    BY <1>1, <2>1
  <2>5. w[1] \in D.ent
    BY <1>6, SMTT(30) DEF References
  <2>6. CASE D2.ent = D.ent
    <3>1. PICK x \in D2.em : x[1] = w[1]
      <4>1. CASE ModelsOf(D2, w[1]) # {}
        <5>1. PICK k \in Model : <<w[1], k>> \in D2.em
          BY <4>1 DEF ModelsOf
        <5>. QED
          BY <5>1
      <4>2. CASE HasRow(D2, w[1])
        <5>1. PICK k \in Model : D2.row[<<w[1], k>>] # None
          BY <4>2 DEF HasRow
        <5>2. <<w[1], k>> \in Writer
          BY SMTT(30) DEF Writer
        <5>. QED
          BY <2>4, <5>1, <5>2
      <4>. QED
        BY <2>3, <2>5, <2>6, <4>1, <4>2
    <3>2. D2.ent = {y[1] : y \in D2.em}
      <4>1. ASSUME NEW y \in D.em
            PROVE  \E z \in D2.em : z[1] = y[1]
        BY <2>1, <3>1
      <4>. QED
        BY <1>1, <2>1, <2>6, <4>1, SMTT(30)
    <3>. QED
      BY <2>4, <3>2, SMTT(30) DEF Linked, D2
  <2>7. CASE D2.ent = D.ent \ {w[1]} /\ ModelsOf(D2, w[1]) = {}
    <3>1. ASSUME NEW y \in D2.em
          PROVE  y[1] # w[1]
      <4>1. y[2] \in Model /\ y = <<y[1], y[2]>>
        BY <1>1, <2>1 DEF Writer
      <4>. QED
        BY <2>7, <4>1 DEF ModelsOf
    <3>2. D2.ent = {y[1] : y \in D2.em}
      <4>1. \A y \in D.em : y[1] # w[1] => y \in D2.em
        BY <2>1
      <4>. QED
        BY <1>1, <2>1, <2>7, <3>1, <4>1
    <3>. QED
      BY <2>4, <3>2 DEF Linked, D2
  <2>. QED
    BY <2>2, <2>6, <2>7
<1>. QED
  BY <1>2, <1>3, <1>4, <1>5, <1>6, Kinds, SMTT(30)

(* What a step has to show. *)
LEMMA CleanKept ==
    ASSUME errors' = 0 => /\ \A w \in Writer : Stream(w, channel', todo'[w], db', want'[w])
                          /\ Linked(db') /\ Linked(disk')
                          /\ \A w \in Writer : w \in disk'.em => disk'.row[w] # None
                          /\ disk'.row = goal'
    PROVE  Clean'
  BY Zenon DEF Clean, Stream, Linked, Mine, DbIs

(* An operation starts. *)
LEMMA CleanOperation ==
    ASSUME Base, Clean, NEW w \in Writer, NEW v \in Value \cup {None}, NEW td \in Todo(w, v), Rest(td) = "clean",
           Operation(w, td, v)
    PROVE  Clean'
<1>. SUFFICES ASSUME errors = 0 PROVE Clean'
  BY CleanKept DEF Operation
<1>1. /\ todo \in [Writer -> Seq(Statement)] /\ want \in [Writer -> Value \cup {None}]
      /\ todo[w] = << >> /\ todo' = [todo EXCEPT ![w] = td] /\ want' = [want EXCEPT ![w] = v]
      /\ UNCHANGED <<channel, db, disk, goal, errors>>
  BY DEF Base, TypeOK, Operation, Idle
<1>2. ASSUME NEW x \in Writer
      PROVE  Stream(x, channel', todo'[x], db', want'[x])
  <2>1. Stream(x, channel, todo[x], db, want[x])
    BY Zenon DEF Clean
  <2>2. CASE x = w
    <3>1. todo'[x] = td /\ want'[x] = v /\ todo[x] = << >> /\ channel' = channel /\ db' = db
      BY <1>1, <2>2, SMTT(30)
    <3>2. Stream(w, channel, << >>, db, want[w])
      BY <2>1, <2>2, <3>1, Zenon
    <3>3. Stream(w, channel, td, db, v)
      BY <3>2, StreamIssue, SMTT(30)
    <3>. QED
      BY <2>2, <3>1, <3>3
  <2>3. CASE x # w
    <3>1. todo'[x] = todo[x] /\ want'[x] = want[x] /\ channel' = channel /\ db' = db
      BY <1>1, <2>3
    <3>. QED
      BY <2>1, <3>1
  <2>. QED
    BY <2>2, <2>3, Zenon
<1>3. Linked(db') /\ Linked(disk') /\ disk'.row = goal' /\ \A x \in Writer : x \in disk'.em => disk'.row[x] # None
  BY <1>1 DEF Clean
<1>. QED
  BY <1>2, <1>3, CleanKept

(* A statement has one writer. *)
LEMMA OneWriter ==
    ASSUME NEW w \in Writer, NEW x \in Writer, x # w, NEW m \in Of(w)
    PROVE  m \notin Of(x)
  BY Kinds, SMTT(30)

(* A handler sends. *)
LEMMA CleanSend ==
    ASSUME Base, Clean, NEW w \in Writer, Send(w)
    PROVE  Clean'
<1>. SUFFICES ASSUME errors = 0 PROVE Clean'
  BY CleanKept DEF Send
<1>. DEFINE td == todo[w]
            m == Head(todo[w])
<1>1. /\ channel \in Seq(Msg) /\ todo \in [Writer -> Seq(Statement)] /\ want[w] \in Value \cup {None}
      /\ td # << >> /\ todo' = [todo EXCEPT ![w] = Tail(td)] /\ channel' = Append(channel, m)
      /\ UNCHANGED <<want, db, disk, goal, errors>>
  BY DEF Base, TypeOK, Send
<1>2. Stream(w, channel, td, db, want[w])
  BY DEF Clean
<1>3. td \in Todo(w, want[w])
  BY <1>1, <1>2, Zenon DEF Stream
<1>4. m \in Of(w)
  BY <1>1, <1>3, TodoStep
<1>5. m \in Msg
  BY <1>4, Kinds DEF Msg
<1>6. Stream(w, Append(channel, m), Tail(td), db, want[w])
  BY <1>1, <1>2, <1>3, StreamSend, SMTT(30)
<1>. HIDE DEF td, m
<1>7. ASSUME NEW x \in Writer
      PROVE  Stream(x, channel', todo'[x], db', want'[x])
  <2>1. CASE x = w
    <3>1. todo'[x] = Tail(td) /\ want'[x] = want[w] /\ channel' = Append(channel, m) /\ db' = db
      BY <1>1, <2>1
    <3>. QED
      BY <1>6, <2>1, <3>1
  <2>2. CASE x # w
    <3>1. todo'[x] = todo[x] /\ want'[x] = want[x] /\ channel' = Append(channel, m) /\ db' = db
      BY <1>1, <2>2, SMTT(30)
    <3>2. Stream(x, channel, todo[x], db, want[x])
      BY DEF Clean
    <3>3. m \notin Of(x)
      BY <1>4, <2>2, OneWriter
    <3>4. Stream(x, Append(channel, m), todo[x], db, want[x])
      BY <1>1, <1>5, <3>2, <3>3, StreamAppendOther, SMTT(30)
    <3>. QED
      BY <3>1, <3>4
  <2>. QED
    BY <2>1, <2>2
<1>8. Linked(db') /\ Linked(disk') /\ disk'.row = goal' /\ \A x \in Writer : x \in disk'.em => disk'.row[x] # None
  BY <1>1, SMTT(30) DEF Clean
<1>. QED
  BY <1>7, <1>8, CleanKept

(* The engine asks. *)
LEMMA CleanAsk ==
    ASSUME Base, Clean, update_cursors \/ execute \/ rollback \/ ProcessFailed
    PROVE  Clean'
<1>1. PICK m \in {UpdateCursors, Execute, Rollback} : channel' = Append(channel, m)
  BY BaseAsk
<1>2. UNCHANGED <<todo, db, disk, errors, want, goal>>
  BY DEF update_cursors, execute, rollback, ProcessFailed, Ask
<1>3. m \in Msg /\ channel \in Seq(Msg)
  BY DEF Msg, Base, TypeOK
<1>4. ASSUME errors = 0, NEW x \in Writer
      PROVE  Stream(x, channel', todo'[x], db', want'[x])
  <2>1. Stream(x, channel, todo[x], db, want[x])
    BY <1>4 DEF Clean
  <2>2. m \notin Of(x)
    BY RequestKinds, Kinds, SMTT(30)
  <2>3. Stream(x, Append(channel, m), todo[x], db, want[x])
    BY <1>3, <2>1, <2>2, StreamAppendOther, SMTT(30)
  <2>. QED
    BY <1>1, <1>2, <2>3, SMTT(30)
<1>5. ASSUME errors = 0
      PROVE  Linked(db') /\ Linked(disk') /\ disk'.row = goal' /\ \A x \in Writer : x \in disk'.em => disk'.row[x] # None
  BY <1>2, <1>5 DEF Clean
<1>. QED
  BY <1>2, <1>4, <1>5, CleanKept, Zenon

(* A statement runs. *)
LEMMA CleanStatement ==
    ASSUME Base, Clean, HandleStatement
    PROVE  Clean'
<1>. SUFFICES ASSUME errors = 0 PROVE Clean'
  BY CleanKept, SMTT(30) DEF HandleStatement
<1>. DEFINE m == Head(channel)
<1>1. /\ channel \in Seq(Msg) /\ channel # << >> /\ db \in Db /\ References(db) /\ Linked(db)
      /\ channel' = Tail(channel) /\ db' = Run(db, m) /\ UNCHANGED <<todo, want, disk, goal, errors>>
  BY Zenon DEF Base, TypeOK, HandleStatement, Clean
<1>2. m \in Statement \/ m = UpdateCursors
  <2>1. Reply(m, TRUE) /\ IsStatement(m) /\ UNCHANGED todo
    BY Zenon DEF HandleStatement
  <2>. QED
    BY <1>1, <2>1, BaseTake, Zenon
<1>3. Linked(disk') /\ disk'.row = goal' /\ \A x \in Writer : x \in disk'.em => disk'.row[x] # None
  BY <1>1, ZenonT(30) DEF Clean
<1>4. CASE m = UpdateCursors
  <2>1. Run(db, m).ent = db.ent /\ Run(db, m).em = db.em /\ Run(db, m).row = db.row
    BY <1>1, <1>4, RunCursors, SMTT(30)
  <2>. DEFINE D2 == Run(db, m)
  <2>. HIDE DEF D2
  <2>2. D2.ent = db.ent /\ D2.em = db.em /\ D2.row = db.row /\ db' = D2
    BY <1>1, <2>1, SMTT(30) DEF D2
  <2>3. Linked(D2)
    BY <1>1, <2>2, SMTT(30) DEF Linked
  <2>4. ASSUME NEW x \in Writer
        PROVE  Stream(x, channel', todo'[x], db', want'[x])
    <3>1. Stream(x, channel, todo[x], db, want[x])
      BY DEF Clean
    <3>2. m \notin Of(x)
      BY <1>4, RequestKinds, Kinds
    <3>3. Stream(x, Tail(channel), todo[x], D2, want[x])
      BY <1>1, <2>2, <3>1, <3>2, StreamTakeOther, Zenon
    <3>. QED
      BY <1>1, <2>2, <3>3, SMTT(30)
  <2>. QED
    BY <1>3, <2>2, <2>3, <2>4, CleanKept, Zenon
<1>5. CASE m \in Statement
  <2>1. PICK w \in Writer : m \in Of(w)
    BY <1>5, StatementOf
  <2>. DEFINE D2 == Run(db, m)
  <2>2. ASSUME NEW x \in Writer
        PROVE  Stream(x, channel', todo'[x], db', want'[x])
    <3>1. Stream(x, channel, todo[x], db, want[x]) /\ want[x] \in Value \cup {None}
      BY DEF Clean, Base, TypeOK
    <3>2. CASE x = w
      <4>1. Stream(x, Tail(channel), todo[x], Run(db, m), want[x])
        BY <1>1, <2>1, <3>1, <3>2, StreamTakeOwn, ZenonT(30)
      <4>. QED
        BY <1>1, <4>1, Zenon
    <3>3. CASE x # w
      <4>1. (x \in D2.em <=> x \in db.em) /\ D2.row[x] = db.row[x]
        BY <1>1, <2>1, <3>3, RunFrame, Zenon
      <4>2. m \notin Of(x)
        BY <2>1, <3>3, OneWriter
      <4>. HIDE DEF D2
      <4>3. Stream(x, Tail(channel), todo[x], D2, want[x])
        BY <1>1, <3>1, <4>1, <4>2, StreamTakeOther, Zenon
      <4>. QED
        BY <1>1, <4>3, ZenonT(30) DEF D2
    <3>. QED
      BY <3>2, <3>3, SMTT(30)
  <2>3. Linked(Run(db, m))
    <3>1. Stream(w, channel, todo[w], db, want[w]) /\ want[w] \in Value \cup {None}
      BY DEF Clean, Base, TypeOK
    <3>2. DbIs(Pre(m), db, w)
      BY <1>1, <2>1, <3>1, StreamTakeOwn, Zenon
    <3>. QED
      BY <1>1, <2>1, <3>2, LinkedRun, SMTT(30)
  <2>4. Linked(db')
    BY <1>1, <2>3, SMTT(30)
  <2>. QED
    BY <1>3, <2>2, <2>4, CleanKept, Zenon
<1>. QED
  BY <1>2, <1>4, <1>5, SMTT(30)

(* A commit, or a rollback. *)
LEMMA CleanRequest ==
    ASSUME Base, Clean, HandleExecute \/ HandleRollback
    PROVE  Clean'
<1>. SUFFICES ASSUME errors = 0 PROVE Clean'
  BY CleanKept DEF HandleExecute, HandleRollback
<1>1. /\ channel \in Seq(Msg) /\ channel # << >> /\ (Head(channel) = Execute \/ Head(channel) = Rollback)
      /\ channel' = Tail(channel) /\ todo' = todo
  BY DEF Base, TypeOK, HandleExecute, HandleRollback
<1>2. Len(channel) = 1 /\ channel' = << >> /\ \A w \in Writer : todo[w] = << >>
  BY <1>1, RequestTaken
<1>3. \A w \in Writer : Mine(channel, w) = {} /\ Mine(channel', w) = {}
  BY <1>1, <1>2, NoneOfMine, Zenon
<1>4. ASSUME NEW w \in Writer
      PROVE  (w \in db.em <=> db.row[w] # None) /\ db.row[w] = want[w]
  <2>1. Stream(w, channel, << >>, db, want[w])
    BY <1>2 DEF Clean
  <2>. QED
    BY <1>3, <2>1, StreamRest
<1>5. ASSUME NEW w \in Writer
      PROVE  (w \in disk.em <=> disk.row[w] # None) /\ disk.row[w] = goal[w]
  BY DEF Clean, Linked
<1>6. Linked(db) /\ Linked(disk) /\ disk.row = goal
  BY DEF Clean
<1>7. db.row = want
  <2>1. db.row \in [Writer -> Value \cup {None}] /\ want \in [Writer -> Value \cup {None}]
    BY DbTyped DEF Base, TypeOK
  <2>. QED
    BY <1>4, <2>1, SMTT(30)
<1>8. \/ db' = db /\ want' = want /\ disk' = db /\ goal' = want
      \/ db' = disk /\ want' = goal /\ disk' = disk /\ goal' = goal
  BY DEF HandleExecute, HandleRollback
<1>9. ASSUME NEW w \in Writer
      PROVE  (w \in db'.em <=> db'.row[w] # None) /\ db'.row[w] = want'[w] /\ (w \in disk'.em => disk'.row[w] # None)
  BY <1>4, <1>5, <1>8
<1>10. ASSUME NEW w \in Writer
       PROVE  Stream(w, channel', todo'[w], db', want'[w])
  <2>1. todo'[w] = << >>
    BY <1>1, <1>2, SMTT(30)
  <2>2. Stream(w, channel', << >>, db', want'[w])
    BY <1>3, <1>9, StreamStart
  <2>. QED
    BY <2>1, <2>2
<1>11. Linked(db') /\ Linked(disk') /\ disk'.row = goal'
  BY <1>6, <1>7, <1>8, SMTT(30)
<1>. QED
  BY <1>9, <1>10, <1>11, CleanKept, SMTT(30)

(* The process ends and starts again. *)
LEMMA CleanCrash ==
    ASSUME Base, Clean, Crash
    PROVE  Clean'
<1>. SUFFICES ASSUME errors = 0 PROVE Clean'
  BY CleanKept DEF Crash, Restart
<1>1. /\ todo' = [w \in Writer |-> << >>] /\ channel' = << >> /\ db' = disk /\ disk' = disk
      /\ want' = goal /\ goal' = goal
  BY DEF Crash, Restart
<1>2. ASSUME NEW w \in Writer
      PROVE  (w \in disk.em <=> disk.row[w] # None) /\ disk.row[w] = goal[w]
  BY DEF Clean, Linked
<1>3. ASSUME NEW w \in Writer
      PROVE  Stream(w, channel', todo'[w], db', want'[w])
  <2>1. todo'[w] = << >>
    BY <1>1
  <2>2. Mine(channel', w) = {}
    BY <1>1, NoneOfMine
  <2>3. Stream(w, channel', << >>, db', want'[w])
    BY <1>1, <1>2, <2>2, StreamStart
  <2>. QED
    BY <2>1, <2>3
<1>4. Linked(db') /\ Linked(disk') /\ disk'.row = goal' /\ \A x \in Writer : x \in disk'.em => disk'.row[x] # None
  BY <1>1 DEF Clean
<1>. QED
  BY <1>3, <1>4, CleanKept

(* Every step keeps the streams. *)
LEMMA CleanStep ==
    ASSUME Base, Clean, [Next]_vars
    PROVE  Clean'
<1>1. ASSUME NEW w \in Writer, NEW v \in Value, set_entity(w, v)
      PROVE  Clean'
  <2>. DEFINE td == <<SetEntity(w), EntityModel(w), ModelRow(w, v)>>
  <2>1. td \in Todo(w, v)
    BY NoneIsNoValue DEF Todo
  <2>2. td # << >> /\ Head(td) = SetEntity(w)
    OBVIOUS
  <2>. HIDE DEF td
  <2>3. Rest(td) = "clean"
    BY <2>2 DEF Rest, Pre, SetEntity
  <2>4. Operation(w, td, v)
    BY <1>1 DEF set_entity, td
  <2>. QED
    BY <2>1, <2>3, <2>4, CleanOperation
<1>2. ASSUME NEW w \in Writer, delete_entity(w)
      PROVE  Clean'
  <2>. DEFINE td == <<DeleteEntity(w)>>
  <2>1. td \in Todo(w, None)
    BY DEF Todo
  <2>2. td # << >> /\ Head(td) = DeleteEntity(w)
    OBVIOUS
  <2>. HIDE DEF td
  <2>3. Rest(td) = "clean"
    BY <2>2 DEF Rest, Pre, DeleteEntity
  <2>4. Operation(w, td, None)
    BY <1>2 DEF delete_entity, td
  <2>. QED
    BY <2>1, <2>3, <2>4, CleanOperation
<1>3. ASSUME NEW w \in Writer, Send(w)
      PROVE  Clean'
  BY <1>3, CleanSend
<1>4. CASE UNCHANGED vars
  BY <1>4, CleanKept, Zenon DEF vars, Clean
<1>5. CASE HandleFailure \/ HandleExecuteFails \/ HandleRollbackFails
  <2>1. errors \in Nat
    BY DEF Base, TypeOK
  <2>2. errors' = errors + 1
    BY <1>5, Zenon DEF HandleFailure, HandleExecuteFails, HandleRollbackFails
  <2>3. errors' # 0
    BY <2>1, <2>2
  <2>. QED
    BY <2>3, CleanKept
<1>. QED
  BY <1>1, <1>2, <1>3, <1>4, <1>5, CleanAsk, CleanStatement, CleanRequest, CleanCrash
     DEF Next, Sends, Handle

(* Nothing is wanted at first, and nothing is stored. *)
LEMMA CleanInit ==
    ASSUME Init
    PROVE  Clean
<1>1. EmptyDb.row = [w \in Writer |-> None] /\ EmptyDb.em = {} /\ EmptyDb.ent = {}
  BY DEF EmptyDb
<1>2. Linked(EmptyDb) /\ \A w \in Writer : w \in EmptyDb.em => EmptyDb.row[w] # None
  BY <1>1 DEF Linked
<1>3. ASSUME NEW w \in Writer
      PROVE  Stream(w, channel, todo[w], db, want[w])
  <2>1. todo[w] = << >> /\ Mine(channel, w) = {} /\ want[w] = None
    BY <1>1, NoneOfMine DEF Init
  <2>2. (w \in EmptyDb.em <=> EmptyDb.row[w] # None) /\ EmptyDb.row[w] = None
    BY <1>1
  <2>3. Stream(w, channel, << >>, EmptyDb, None)
    BY <2>1, <2>2, StreamStart
  <2>. QED
    BY <2>1, <2>3 DEF Init
<1>. QED
  BY <1>2, <1>3 DEF Init, Clean

(* What is stored is consistent: no row refers to an entity that does not exist,
   and without failures an entity exists exactly when it has a model, and a model
   exactly when its table has the row (set_entity and delete_entity of several
   writers, interleaved). *)
THEOREM StoreIsConsistent == Spec => []Consistent
<1>1. Init => Base /\ Clean
  BY BaseInit, CleanInit
<1>2. Base /\ Clean /\ [Next]_vars => Base' /\ Clean'
  BY BaseStep, CleanStep
<1>3. Base /\ Clean => Consistent
  <2>. SUFFICES ASSUME Base, Clean PROVE Consistent
    OBVIOUS
  <2>1. \A D \in {db, disk} : \A w \in Writer : (w \in D.em \/ D.row[w] # None) => w[1] \in D.ent
    BY SMTT(30) DEF Base, References
  <2>2. ASSUME errors = 0, channel = << >>, \A w \in Writer : Idle(w)
        PROVE  db.em = {w \in Writer : db.row[w] # None} /\ db.ent = {w[1] : w \in db.em}
    <3>1. ASSUME NEW w \in Writer
          PROVE  w \in db.em <=> db.row[w] # None
      <4>1. Stream(w, channel, << >>, db, want[w]) /\ Mine(channel, w) = {}
        BY <2>2, NoneOfMine DEF Clean, Idle
      <4>. QED
        BY <4>1, StreamRest, SMTT(30)
    <3>2. db.em \subseteq Writer
      BY DbTyped, SMTT(30) DEF Base, TypeOK
    <3>3. db.ent = {w[1] : w \in db.em}
      BY <2>2 DEF Clean, Linked
    <3>. QED
      BY <3>1, <3>2, <3>3
  <2>. QED
    BY <2>1, <2>2 DEF Consistent
<1>. QED
  BY <1>1, <1>2, <1>3, PTL DEF Spec

(* Without failures the committed rows are those the writers wanted at the commit,
   in the order in which they asked, across rollbacks and crashes. *)
THEOREM CommitsAreWanted == Spec => []CommittedAsWanted
<1>1. Init => Base /\ Clean
  BY BaseInit, CleanInit
<1>2. Base /\ Clean /\ [Next]_vars => Base' /\ Clean'
  BY BaseStep, CleanStep
<1>3. Base /\ Clean => CommittedAsWanted
  BY DEF Clean, CommittedAsWanted
<1>. QED
  BY <1>1, <1>2, <1>3, PTL DEF Spec

-----------------------------------------------------------------------------
Queued == {attempt} \X Writer \X {"set", "delete"}

(* What waits to be announced is of the attempt that is under way, and what was
   announced is of one that was committed. *)
QueueInv == queue \in Seq(Queued) /\ \A u \in final : u[1] \in committed

(* A statement announces an update of its attempt, or nothing. *)
LEMMA AnnouncesQueued ==
    ASSUME NEW msg \in Msg, NEW D
    PROVE  Announces(D, msg) \in Seq(Queued)
<1>1. CASE msg.type = "SetEntity"
  <2>1. msg.w \in Writer
    BY <1>1, StatementOf, RequestKinds DEF Msg
  <2>2. Announces(D, msg) = << <<attempt, msg.w, "set">> >>
    BY <1>1 DEF Announces
  <2>3. <<attempt, msg.w, "set">> \in Queued
    BY <2>1 DEF Queued
  <2>. QED
    BY <2>2, <2>3
<1>2. CASE msg.type = "DeleteEntity"
  <2>1. msg.w \in Writer
    BY <1>2, StatementOf, RequestKinds DEF Msg
  <2>2. Announces(D, msg) \in {<< >>, << <<attempt, msg.w, "delete">> >>}
    BY <1>2 DEF Announces
  <2>3. <<attempt, msg.w, "delete">> \in Queued
    BY <2>1 DEF Queued
  <2>4. << <<attempt, msg.w, "delete">> >> \in Seq(Queued) /\ << >> \in Seq(Queued)
    BY <2>3
  <2>. QED
    BY <2>2, <2>4, Zenon
<1>3. CASE msg.type \notin {"SetEntity", "DeleteEntity"}
  <2>1. Announces(D, msg) = << >>
    BY <1>3 DEF Announces
  <2>. QED
    BY <2>1
<1>. QED
  BY <1>1, <1>2, <1>3

(* The steps that neither announce nor commit keep the queue and its attempt. *)
LEMMA QuietStep ==
    ASSUME QueueInv, UNCHANGED <<queue, attempt, final>>, committed \subseteq committed'
    PROVE  QueueInv'
  BY DEF QueueInv, Queued

(* Every step keeps the queue. *)
LEMMA QueueStep ==
    ASSUME Base, QueueInv, [Next]_vars
    PROVE  QueueInv'
<1>1. queue \in Seq(Queued) /\ \A u \in final : u[1] \in committed
  BY DEF QueueInv
<1>2. CASE UNCHANGED <<queue, attempt, final>> /\ committed \subseteq committed'
  BY <1>2, QuietStep
<1>3. CASE HandleStatement
  <2>1. Announces(db, Head(channel)) \in Seq(Queued)
    BY <1>3, Taken, AnnouncesQueued DEF HandleStatement
  <2>2. queue' \in Seq(Queued)
    BY <1>1, <1>3, <2>1 DEF HandleStatement
  <2>. QED
    BY <1>1, <1>3, <2>2 DEF HandleStatement, QueueInv, Queued
<1>4. CASE HandleExecute
  <2>1. \A u \in Range(queue) : u[1] = attempt
    BY <1>1 DEF Range, Queued
  <2>2. \A u \in final' : u[1] \in committed'
    BY <1>1, <1>4, <2>1 DEF HandleExecute
  <2>. QED
    BY <1>4, <2>2 DEF HandleExecute, QueueInv
<1>5. CASE HandleRollback
  BY <1>1, <1>5 DEF HandleRollback, QueueInv
<1>6. CASE Crash
  BY <1>1, <1>6 DEF Crash, Restart, QueueInv
<1>. QED
  BY <1>2, <1>3, <1>4, <1>5, <1>6, Zenon
     DEF Next, set_entity, delete_entity, Operation, Sends, Send, update_cursors, execute, rollback,
         ProcessFailed, Ask, Handle, HandleFailure, HandleExecuteFails, HandleRollbackFails, vars

(* Confirmed updates are announced of committed transactions only, and all of them
   before the next transaction (publish_queue in execute and rollback). *)
THEOREM Announced == Spec => AnnouncedIffCommitted
<1>1. Init => Base /\ QueueInv
  BY BaseInit DEF Init, QueueInv
<1>2. Base /\ QueueInv /\ [Next]_vars => Base' /\ QueueInv'
  BY BaseStep, QueueStep
<1>. DEFINE Step == /\ \A u \in final' : u[1] \in committed'
                    /\ (committed' # committed /\ tx' = "open")
                          => queue' = << >> /\ Range(queue) \subseteq final'
<1>3. QueueInv /\ QueueInv' /\ [Next]_vars => [Step]_vars
  <2>. SUFFICES ASSUME QueueInv, QueueInv', Next
                PROVE  Step
    OBVIOUS
  <2>1. \A u \in final' : u[1] \in committed'
    BY DEF QueueInv
  <2>2. CASE HandleExecute
    BY <2>1, <2>2 DEF HandleExecute
  <2>3. CASE HandleExecuteFails
    BY <2>1, <2>3 DEF HandleExecuteFails
  <2>4. CASE UNCHANGED committed
    BY <2>1, <2>4
  <2>. QED
    BY <2>2, <2>3, <2>4, Zenon
       DEF Next, set_entity, delete_entity, Operation, Sends, Send, update_cursors, execute, rollback,
           ProcessFailed, Ask, Handle, HandleStatement, HandleFailure, HandleRollback,
           HandleRollbackFails, Crash, Restart
<1>. QED
  BY <1>1, <1>2, <1>3, PTL DEF Spec, AnnouncedIffCommitted
=============================================================================
