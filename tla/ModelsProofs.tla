---------------------------- MODULE ModelsProofs ----------------------------
(***************************************************************************)
(* Proofs about Models: the tables always have the columns of the schemas  *)
(* they are described by and that the cache holds, and, without API        *)
(* requests, every store event is stored with all of its members.          *)
(***************************************************************************)
EXTENDS Models, TLAPS

(* Every model has a table of its own, as within one world. *)
OneTableEach == \A m, n \in Model : TableOf[m] = TableOf[n] => m = n

-----------------------------------------------------------------------------
(* The inductive invariant *)

Event == [type : {"register", "upgrade", "store"}, model : Model, version : Nat]
Store == [models : [Model -> Nat], columns : [Table -> SUBSET Nat]]

TypeOK ==
    /\ config \in [strict_model_reader : BOOLEAN, readers : BOOLEAN,
                  namespaces : SUBSET Namespace, models : SUBSET Model]
    /\ onchain \in [Model -> Nat]
    /\ events \in Seq(Event) /\ Len(events) <= MaxEvents
    /\ pos \in Nat /\ last \in Nat /\ pos <= last /\ last <= Len(events)
    /\ done \subseteq Batch /\ (pc = "idle" => done = {})
    /\ cache \in [Model -> Nat]
    /\ work \in Store /\ disk \in Store
    /\ stored \in [1..MaxEvents -> Nat]
    /\ reader = NoReader \/ reader \in [model : Model, version : Nat]
    /\ pc \in {"idle", "process", "rollback"}

Index == 1..Len(events)

(* Event j of a world registers model m, or defines it: the first time or in a
   new version. *)
Registers(E, j, m) == E[j].type = "register" /\ E[j].model = m
Defines(E, j, m) == E[j].type \in {"register", "upgrade"} /\ E[j].model = m

(* A world registers a model once, before anything else happens to it, and
   emits records with the version of its last definition. *)
History(E, versions) ==
    /\ \A i \in 1..Len(E) : 0 < E[i].version /\ E[i].version <= versions[E[i].model]
    /\ \A i, j \in 1..Len(E) : \A m \in Model : Registers(E, i, m) /\ Registers(E, j, m) => i = j
    /\ \A i \in 1..Len(E) : E[i].type # "register" => \E j \in 1..(i - 1) : Registers(E, j, E[i].model)
    /\ \A i \in 1..Len(E) : E[i].type = "store" =>
           \E j \in 1..(i - 1) : Defines(E, j, E[i].model) /\ E[j].version = E[i].version
    /\ \A m \in Model : versions[m] > 0 => \E j \in 1..Len(E) : Registers(E, j, m)
    /\ \A m \in Model : versions[m] > 0 =>
           \E j \in 1..Len(E) : Defines(E, j, m) /\ E[j].version = versions[m]

ChainInv == History(events, onchain)

Columns(D, m) == D.columns[TableOf[m]]

(* The columns of the committed tables are never lost, and a table without a
   processed registration has none. *)
SchemaInv ==
    /\ \A m \in Model : 1..work.models[m] \subseteq Columns(work, m)
    /\ \A m \in Model : 1..disk.models[m] \subseteq Columns(disk, m)
    /\ \A m \in Model : Columns(disk, m) \subseteq Columns(work, m)
    /\ pc # "rollback" => \A m \in Model : 1..cache[m] \subseteq Columns(work, m)
    /\ reader # NoReader => 1..reader.version \subseteq Columns(disk, reader.model)
    /\ \A m \in Model : Columns(work, m) # {} => \E j \in (1..pos) \cup done : Registers(events, j, m)
    /\ \A m \in Model : Columns(disk, m) # {} => \E j \in 1..pos : Registers(events, j, m)

(* Without API requests what a processor resolves is what the open transaction
   has, and that is as new as the definitions that were processed, which are
   processed in their order. *)
VersionInv ==
    /\ reader = NoReader
    /\ pc # "rollback" => \A m \in Model : Resolve(m) = work.models[m]
    /\ \A m \in Indexed : \A j \in (1..pos) \cup done :
           Defines(events, j, m) => events[j].version <= work.models[m]
    /\ \A m \in Indexed : \A j \in 1..pos :
           Defines(events, j, m) => events[j].version <= disk.models[m]
    /\ \A m \in Model : \A j \in done, i \in Batch :
           Defines(events, j, m) /\ Defines(events, i, m) /\ i < j => i \in done
    /\ StoredInFull

IInv == TypeOK /\ ChainInv /\ SchemaInv /\ (~config.readers => VersionInv)

-----------------------------------------------------------------------------
(* Types *)

(* Constants, and the table a model has. *)
LEMMA TableFact == \A m \in Model : TableOf[m] \in Table
BY DEF Table

(* The versions a store has. *)
LEMMA StoredModels == \A s \in Store : s.models \in [Model -> Nat]
BY DEF Store

(* What did not change is not less than it was. *)
LEMMA AtMostItself == \A n \in Nat : n <= n
OBVIOUS

(* What register_model writes: one version and some columns of one table. *)
LEMMA RegisterEffect ==
    ASSUME TypeOK, NEW m \in Model, NEW v \in Nat, NEW C \in SUBSET Nat, register_model(m, v, C)
    PROVE  /\ work' \in Store
           /\ work'.models = [work.models EXCEPT ![m] = v]
           /\ work'.columns = [work.columns EXCEPT ![TableOf[m]] = @ \cup C]
           /\ cache' \in [Model -> Nat]
           /\ cache' = [cache EXCEPT ![m] = v]
<1>1. TableOf[m] \in Table
  BY TableFact
<1>2. work \in [models : [Model -> Nat], columns : [Table -> SUBSET Nat]] /\ cache \in [Model -> Nat]
  BY DEF TypeOK, Store
<1> DEFINE M == [work.models EXCEPT ![m] = v]
           K == [work.columns EXCEPT ![TableOf[m]] = @ \cup C]
<1>3. M \in [Model -> Nat] /\ K \in [Table -> SUBSET Nat]
  BY <1>1, <1>2, Zenon
<1>4. work' = [models |-> M, columns |-> K] /\ cache' = [cache EXCEPT ![m] = v]
  BY <1>2, Zenon DEF register_model
<1> HIDE DEF M, K
<1>5. work'.models = M /\ work'.columns = K /\ work' \in Store
  BY <1>3, <1>4 DEF Store
<1> QED BY <1>2, <1>4, <1>5 DEF M, K

(* An event the chain has. *)
LEMMA EventFact ==
    ASSUME TypeOK, NEW i \in Index
    PROVE  /\ events[i] \in Event
           /\ events[i].model \in Model
           /\ events[i].version \in Nat
           /\ events[i].type \in {"register", "upgrade", "store"}
           /\ ReadSchema(i) \in Nat
<1>1. events[i] \in Event
  BY DEF TypeOK, Index
<1> QED BY <1>1 DEF Event, ReadSchema, TypeOK

(* What is indexed is fixed with the configuration. *)
LEMMA IndexedFact == Indexed \subseteq Model /\ (config' = config => Indexed' = Indexed)
BY DEF Indexed, should_index

(* What is resolved is a version. *)
LEMMA ResolveFact ==
    ASSUME TypeOK, NEW m \in Model
    PROVE  Resolve(m) \in Nat /\ CacheAfterResolve(m) \in [Model -> Nat]
BY DEF TypeOK, Store, Resolve, CacheAfterResolve

(* The events of a batch are on chain. *)
LEMMA BatchFact ==
    ASSUME TypeOK
    PROVE  Batch \subseteq Index /\ Batch \subseteq 1..MaxEvents /\ (1..pos) \subseteq Index
           /\ (1..pos) \cup done \subseteq Index /\ Batch \cap (1..pos) = {}
BY Bounds DEF TypeOK, Batch, Index

(* What comes before an event of the batch is an event. *)
LEMMA EarlierEvent ==
    ASSUME TypeOK, NEW i \in Batch, NEW j \in 1..(i - 1)
    PROVE  j \in Index /\ j < i
<1>1. Len(events) \in Nat
  BY DEF TypeOK
<1>2. i \in 1..Len(events)
  BY BatchFact DEF Index
<1> QED BY <1>1, <1>2 DEF Index

(* A step of the world appends one event. *)
LEMMA EmitEffect ==
    ASSUME TypeOK, NEW type \in {"register", "upgrade", "store"}, NEW m \in Model, NEW v \in Nat,
           Emit(type, m, v)
    PROVE  /\ events' \in Seq(Event) /\ Len(events') = Len(events) + 1 /\ Len(events') <= MaxEvents
           /\ \A i \in Index : events'[i] = events[i]
           /\ events'[Len(events')] = [type |-> type, model |-> m, version |-> v]
           /\ onchain' \in [Model -> Nat] /\ onchain' = [onchain EXCEPT ![m] = v]
           /\ Index \subseteq Index' /\ Index' = Index \cup {Len(events')}
<1> DEFINE e == [type |-> type, model |-> m, version |-> v]
<1>1. e \in Event /\ events \in Seq(Event) /\ Len(events) \in Nat /\ Len(events) < MaxEvents
  BY DEF Event, TypeOK, Emit
<1>2. events' = Append(events, e) /\ onchain' = [onchain EXCEPT ![m] = v]
  BY DEF Emit
<1> HIDE DEF e
<1>3. events' \in Seq(Event) /\ Len(events') = Len(events) + 1
  BY <1>1, <1>2
<1>4. (\A i \in 1..Len(events) : events'[i] = events[i]) /\ events'[Len(events')] = e
  BY <1>1, <1>2, <1>3
<1> QED BY <1>1, <1>2, <1>3, <1>4, Bounds DEF e, TypeOK, Index

(* Every step keeps the types. *)
LEMMA TypeStep == TypeOK /\ [Next]_vars => TypeOK'
<1> SUFFICES ASSUME TypeOK, [Next]_vars PROVE TypeOK'
  OBVIOUS
<1> USE BatchFact
<1>1. ASSUME NEW m \in Model, ModelRegistered(m) \/ ModelUpgraded(m) \/ StoreSetRecord(m) PROVE TypeOK'
  <2>1. PICK type \in {"register", "upgrade", "store"}, v \in Nat : Emit(type, m, v)
    BY <1>1 DEF ModelRegistered, ModelUpgraded, StoreSetRecord, TypeOK
  <2>2. UNCHANGED <<config, pos, last, done, cache, work, disk, stored, reader, pc, faults>>
    BY <2>1 DEF Emit
  <2>3. /\ events' \in Seq(Event) /\ Len(events') = Len(events) + 1 /\ Len(events') <= MaxEvents
        /\ onchain' \in [Model -> Nat]
    BY <2>1, EmitEffect, Zenon
  <2> QED BY <2>2, <2>3, SMTT(30) DEF TypeOK, Batch
<1>2. CASE StartBatch
  BY <1>2 DEF StartBatch, TypeOK, Batch, chainVars
<1>3. ASSUME NEW i \in Batch, RegisterModel(i) \/ UpgradeModel(i) \/ StoreRecord(i) PROVE TypeOK'
  <2> DEFINE m == events[i].model
  <2>1. Process(i)
    BY <1>3 DEF RegisterModel, UpgradeModel, StoreRecord
  <2>2. /\ config' = config /\ onchain' = onchain /\ events' = events /\ pos' = pos /\ last' = last
        /\ disk' = disk /\ reader' = reader /\ pc' = pc /\ pc = "process" /\ done' = done \cup {i}
    BY <2>1 DEF Process, chainVars
  <2>3. m \in Model /\ ReadSchema(i) \in Nat /\ i \in 1..MaxEvents
    BY EventFact, BatchFact
  <2>4. work' \in Store /\ cache' \in [Model -> Nat]
    <3>1. CASE RegisterModel(i)
      <4>1. CASE m \in Indexed
        <5>1. PICK C \in SUBSET Nat : register_model(m, ReadSchema(i), C)
          BY <3>1, <4>1, <2>3 DEF RegisterModel
        <5> QED BY <5>1, <2>3, RegisterEffect, Zenon
      <4>2. CASE m \notin Indexed
        BY <3>1, <4>2 DEF RegisterModel, TypeOK
      <4> QED BY <4>1, <4>2
    <3>2. CASE UpgradeModel(i)
      <4>1. CASE Skips(m) \/ ReadSchema(i) <= Resolve(m)
        BY <3>2, <4>1, <2>3, ResolveFact DEF UpgradeModel, TypeOK
      <4>2. CASE ~(Skips(m) \/ ReadSchema(i) <= Resolve(m))
        <5>1. register_model(m, ReadSchema(i), NewColumns(Resolve(m), ReadSchema(i)))
          BY <3>2, <4>2 DEF UpgradeModel
        <5>2. NewColumns(Resolve(m), ReadSchema(i)) \in SUBSET Nat
          BY <2>3, ResolveFact DEF NewColumns
        <5> QED BY <5>1, <5>2, <2>3, RegisterEffect, Zenon
      <4> QED BY <4>1, <4>2
    <3>3. CASE StoreRecord(i)
      BY <3>3, <2>3, ResolveFact, SMTT(30) DEF StoreRecord, TypeOK
    <3> QED BY <1>3, <3>1, <3>2, <3>3
  <2>5. stored' \in [1..MaxEvents -> Nat]
    <3>1. CASE StoreRecord(i)
      <4>1. Resolve(m) \in Nat
        BY <2>3, ResolveFact
      <4> QED BY <3>1, <4>1, <2>3 DEF StoreRecord, TypeOK
    <3>2. CASE ~StoreRecord(i)
      BY <1>3, <3>2 DEF RegisterModel, UpgradeModel, TypeOK
    <3> QED BY <3>1, <3>2
  <2> QED BY <2>2, <2>4, <2>5 DEF TypeOK, Batch
<1>4. CASE Execute
  BY <1>4 DEF Execute, TypeOK, Batch, chainVars
<1>5. Forget \in [1..MaxEvents -> Nat]
  BY DEF Forget, TypeOK
<1>6. CASE RollbackAndReset
  BY <1>6, <1>5 DEF RollbackAndReset, TypeOK, Batch, chainVars, NoModels
<1>7. ASSUME ProcessFails \/ \E i \in Batch : ResolveFails(i) PROVE TypeOK'
  BY <1>7 DEF ProcessFails, ResolveFails, TypeOK, Batch, chainVars
<1>8. CASE Crash
  BY <1>8, <1>5 DEF Crash, TypeOK, Batch, chainVars, Store
<1>9. ASSUME NEW m \in Model, ReadMiss(m) PROVE TypeOK'
  <2>1. reader' \in [model : Model, version : Nat]
    BY <1>9 DEF ReadMiss, TypeOK, Store
  <2> QED BY <1>9, <2>1 DEF ReadMiss, TypeOK, Batch, chainVars
<1>10. CASE ReadFill
  BY <1>10, SMTT(30) DEF ReadFill, TypeOK, Batch, chainVars
<1>11. CASE UNCHANGED vars
  BY <1>11 DEF vars, TypeOK, Batch
<1> QED
  BY <1>1, <1>2, <1>3, <1>4, <1>6, <1>7, <1>8, <1>9, <1>10, <1>11
  DEF Next, World, Indexing, Faults, Requests

-----------------------------------------------------------------------------
(* The world *)

(* The steps of the process do not touch the world. *)
LEMMA ProcessFrame ==
    ASSUME [Next]_vars
    PROVE  \/ UNCHANGED chainVars
           \/ \E m \in Model : ModelRegistered(m) \/ ModelUpgraded(m) \/ StoreSetRecord(m)
BY DEF Next, World, Indexing, Faults, Requests, StartBatch, RegisterModel, UpgradeModel, StoreRecord,
       ResolveFails, Process, Execute, RollbackAndReset, ProcessFails, Crash, ReadMiss, ReadFill, vars,
       chainVars

(* A definition or a record that is emitted continues the history of its model. *)
LEMMA EmitKeepsHistory ==
    ASSUME NEW E \in Seq(Event), NEW V \in [Model -> Nat], History(E, V),
           NEW m \in Model, NEW type \in {"register", "upgrade", "store"}, NEW v \in Nat,
           v > 0, v >= V[m],
           type = "register" => V[m] = 0,
           type # "register" => V[m] > 0,
           type = "store" => v = V[m]
    PROVE  History(Append(E, [type |-> type, model |-> m, version |-> v]), [V EXCEPT ![m] = v])
<1> DEFINE n == Len(E) + 1
           e == [type |-> type, model |-> m, version |-> v]
           F == Append(E, e)
           W == [V EXCEPT ![m] = v]
<1>0. e \in Event /\ e.type = type /\ e.model = m /\ e.version = v
  BY DEF Event
<1> HIDE DEF e
<1>1. Len(E) \in Nat /\ n \in Nat /\ n = Len(E) + 1 /\ Len(F) = n /\ 1..n = (1..Len(E)) \cup {n}
      /\ n \notin 1..Len(E)
  BY <1>0
<1>2. F[n] = e /\ \A i \in 1..Len(E) : F[i] = E[i]
  BY <1>0
<1>3. \A i \in 1..Len(E) : E[i] \in Event /\ E[i].model \in Model /\ E[i].version \in Nat
  <2> SUFFICES ASSUME NEW i \in 1..Len(E) PROVE E[i] \in Event /\ E[i].model \in Model /\ E[i].version \in Nat
    OBVIOUS
  <2>1. E[i] \in Event
    OBVIOUS
  <2> QED BY <2>1 DEF Event
<1>4. W[m] = v /\ \A k \in Model : V[k] \in Nat /\ V[k] <= W[k] /\ W[k] \in Nat /\ (k # m => W[k] = V[k])
  OBVIOUS
<1> HIDE DEF n, F, W
<1>5. \A i \in 1..Len(E) : \A k : (Registers(F, i, k) <=> Registers(E, i, k)) /\ (Defines(F, i, k) <=> Defines(E, i, k))
  BY <1>2 DEF Registers, Defines
<1>6. \A k : (Registers(F, n, k) <=> type = "register" /\ k = m) /\ (Defines(F, n, k) <=> type # "store" /\ k = m)
  BY <1>0, <1>2 DEF Registers, Defines
<1>7. \A i \in 1..Len(F) : 0 < F[i].version /\ F[i].version <= W[F[i].model]
  <2>1. \A i \in 1..Len(E) : 0 < F[i].version /\ F[i].version <= W[F[i].model]
    BY <1>2, <1>3, <1>4 DEF History
  <2> QED BY <1>0, <1>1, <1>2, <1>4, <2>1
<1>8. \A i, j \in 1..Len(F) : \A k \in Model : Registers(F, i, k) /\ Registers(F, j, k) => i = j
  <2>1. type = "register" => \A j \in 1..Len(E) : ~Registers(E, j, m)
    <3> SUFFICES ASSUME type = "register", NEW j \in 1..Len(E), Registers(E, j, m) PROVE FALSE
      OBVIOUS
    <3>1. 0 < E[j].version /\ E[j].version <= V[m]
      BY DEF History, Registers
    <3> QED BY <1>3, <3>1
  <2>2. \A i, j \in 1..Len(E) : \A k \in Model : Registers(F, i, k) /\ Registers(F, j, k) => i = j
    BY <1>5 DEF History
  <2> QED BY <1>1, <1>5, <1>6, <2>1, <2>2
<1>9. \A i \in 1..Len(F) : F[i].type # "register" => \E j \in 1..(i - 1) : Registers(F, j, F[i].model)
  <2> SUFFICES ASSUME NEW i \in 1..n, F[i].type # "register" PROVE \E j \in 1..(i - 1) : Registers(F, j, F[i].model)
    BY <1>1, SMTT(30)
  <2>1. CASE i \in 1..Len(E)
    <3>1. PICK j \in 1..(i - 1) : Registers(E, j, E[i].model)
      BY <1>2, <2>1 DEF History
    <3>2. j \in 1..Len(E)
      BY <1>1, <2>1
    <3> QED BY <1>2, <1>5, <2>1, <3>1, <3>2
  <2>2. CASE i = n
    <3>1. PICK j \in 1..Len(E) : Registers(E, j, m)
      BY <1>0, <1>2, <2>2 DEF History
    <3>2. j \in 1..(i - 1)
      BY <1>1, <2>2
    <3> QED BY <1>0, <1>2, <1>5, <2>2, <3>1, <3>2
  <2> QED BY <1>1, <2>1, <2>2
<1>10. \A i \in 1..Len(F) : F[i].type = "store" =>
           \E j \in 1..(i - 1) : Defines(F, j, F[i].model) /\ F[j].version = F[i].version
  <2> SUFFICES ASSUME NEW i \in 1..n, F[i].type = "store"
               PROVE  \E j \in 1..(i - 1) : Defines(F, j, F[i].model) /\ F[j].version = F[i].version
    BY <1>1, Zenon
  <2>1. CASE i \in 1..Len(E)
    <3>1. PICK j \in 1..(i - 1) : Defines(E, j, E[i].model) /\ E[j].version = E[i].version
      BY <1>2, <2>1 DEF History
    <3>2. j \in 1..Len(E)
      BY <1>1, <2>1
    <3> QED BY <1>2, <1>5, <2>1, <3>1, <3>2
  <2>2. CASE i = n
    <3>1. type = "store"
      BY <1>0, <1>2, <2>2
    <3>2. PICK j \in 1..Len(E) : Defines(E, j, m) /\ E[j].version = V[m]
      BY <3>1 DEF History
    <3>3. j \in 1..(i - 1)
      BY <1>1, <2>2
    <3> QED BY <1>0, <1>2, <1>5, <2>2, <3>1, <3>2, <3>3
  <2> QED BY <1>1, <2>1, <2>2
<1>11. \A k \in Model : W[k] > 0 => \E j \in 1..Len(F) : Registers(F, j, k)
  <2> SUFFICES ASSUME NEW k \in Model, W[k] > 0 PROVE \E j \in 1..Len(F) : Registers(F, j, k)
    OBVIOUS
  <2>1. CASE V[k] > 0
    <3>1. PICK j \in 1..Len(E) : Registers(E, j, k)
      BY <2>1 DEF History
    <3> QED BY <1>1, <1>5, <3>1
  <2>2. CASE ~(V[k] > 0)
    <3>1. k = m /\ type = "register"
      BY <1>4, <2>2
    <3> QED BY <1>1, <1>6, <3>1
  <2> QED BY <2>1, <2>2
<1>12. \A k \in Model : W[k] > 0 => \E j \in 1..Len(F) : Defines(F, j, k) /\ F[j].version = W[k]
  <2> SUFFICES ASSUME NEW k \in Model, W[k] > 0
               PROVE  \E j \in 1..Len(F) : Defines(F, j, k) /\ F[j].version = W[k]
    OBVIOUS
  <2>1. CASE V[k] > 0 /\ W[k] = V[k]
    <3>1. PICK j \in 1..Len(E) : Defines(E, j, k) /\ E[j].version = V[k]
      BY <2>1 DEF History
    <3> QED BY <1>1, <1>2, <1>5, <2>1, <3>1
  <2>2. CASE ~(V[k] > 0 /\ W[k] = V[k])
    <3>1. k = m /\ type # "store"
      BY <1>4, <2>2, SMTT(30)
    <3> QED BY <1>0, <1>1, <1>2, <1>4, <1>6, <3>1
  <2> QED BY <2>1, <2>2
<1>13. History(F, W)
  BY <1>7, <1>8, <1>9, <1>10, <1>11, <1>12 DEF History
<1> QED BY <1>13 DEF F, W, e

(* So does a step that emits it. *)
LEMMA EmitKeepsChain ==
    ASSUME TypeOK, ChainInv, NEW m \in Model, NEW type \in {"register", "upgrade", "store"}, NEW v \in Nat,
           Emit(type, m, v), v > 0, v >= onchain[m],
           type = "register" => onchain[m] = 0,
           type # "register" => onchain[m] > 0,
           type = "store" => v = onchain[m]
    PROVE  ChainInv'
<1>1. /\ events \in Seq(Event) /\ onchain \in [Model -> Nat]
      /\ events' = Append(events, [type |-> type, model |-> m, version |-> v])
      /\ onchain' = [onchain EXCEPT ![m] = v]
  BY DEF Emit, TypeOK
<1>2. History(Append(events, [type |-> type, model |-> m, version |-> v]), [onchain EXCEPT ![m] = v])
  BY <1>1, EmitKeepsHistory, Zenon DEF ChainInv
<1> QED BY <1>1, <1>2 DEF ChainInv

(* Every step continues the history of each model. *)
LEMMA ChainStep == TypeOK /\ ChainInv /\ [Next]_vars => ChainInv'
<1> SUFFICES ASSUME TypeOK, ChainInv, [Next]_vars PROVE ChainInv'
  OBVIOUS
<1>1. CASE UNCHANGED chainVars
  BY <1>1 DEF ChainInv, chainVars
<1>2. ASSUME NEW m \in Model, ModelRegistered(m) PROVE ChainInv'
  BY <1>2, EmitKeepsChain DEF ModelRegistered, TypeOK
<1>3. ASSUME NEW m \in Model, ModelUpgraded(m) PROVE ChainInv'
  <2>1. onchain[m] \in Nat /\ onchain[m] > 0
    BY <1>3 DEF ModelUpgraded, TypeOK
  <2>2. Emit("upgrade", m, onchain[m] + 1)
    BY <1>3 DEF ModelUpgraded
  <2> QED BY <2>1, <2>2, EmitKeepsChain
<1>4. ASSUME NEW m \in Model, StoreSetRecord(m) PROVE ChainInv'
  <2>1. onchain[m] \in Nat /\ onchain[m] > 0
    BY <1>4 DEF StoreSetRecord, TypeOK
  <2>2. Emit("store", m, onchain[m])
    BY <1>4 DEF StoreSetRecord
  <2> QED BY <2>1, <2>2, EmitKeepsChain
<1> QED BY ProcessFrame, <1>1, <1>2, <1>3, <1>4

-----------------------------------------------------------------------------
(* Tables and schemas *)

(* The table has the columns of what a processor resolves. *)
LEMMA ResolvedColumns ==
    ASSUME TypeOK, SchemaInv, pc # "rollback", NEW m \in Model
    PROVE  1..Resolve(m) \subseteq Columns(work, m)
BY DEF SchemaInv, Resolve, Columns

(* A definition that adds the columns it needs keeps the invariant. *)
LEMMA RegisterKeepsSchema ==
    ASSUME OneTableEach, TypeOK, SchemaInv, pc # "rollback",
           NEW m \in Model, NEW v \in Nat, NEW C \in SUBSET Nat, register_model(m, v, C),
           1..v \subseteq Columns(work, m) \cup C,
           \E j \in (1..pos) \cup done' : Registers(events, j, m),
           UNCHANGED <<events, pos, disk, reader, pc>>, done \subseteq done'
    PROVE  SchemaInv'
<1>1. /\ work'.models = [work.models EXCEPT ![m] = v] /\ work.models \in [Model -> Nat]
      /\ work'.columns = [work.columns EXCEPT ![TableOf[m]] = @ \cup C]
      /\ work.columns \in [Table -> SUBSET Nat]
      /\ cache' = [cache EXCEPT ![m] = v] /\ cache \in [Model -> Nat]
  <2>1. work \in Store /\ cache \in [Model -> Nat]
    BY DEF TypeOK
  <2>2. work.models \in [Model -> Nat] /\ work.columns \in [Table -> SUBSET Nat]
    BY <2>1 DEF Store
  <2>3. /\ work'.models = [work.models EXCEPT ![m] = v]
        /\ work'.columns = [work.columns EXCEPT ![TableOf[m]] = @ \cup C]
        /\ cache' = [cache EXCEPT ![m] = v]
    BY RegisterEffect
  <2> QED BY <2>1, <2>2, <2>3
<1>2. Columns(work', m) = Columns(work, m) \cup C
  BY <1>1, TableFact DEF Columns
<1>3. \A k \in Model : k # m => Columns(work', k) = Columns(work, k)
  BY <1>1, TableFact DEF Columns, OneTableEach
<1>4. \A k \in Model : Columns(work, k) \subseteq Columns(work', k)
  BY <1>2, <1>3
<1>5. \A k \in Model : 1..work'.models[k] \subseteq Columns(work', k)
  BY <1>1, <1>2, <1>3 DEF SchemaInv
<1>6. \A k \in Model : 1..cache'[k] \subseteq Columns(work', k)
  BY <1>1, <1>2, <1>3 DEF SchemaInv
<1>7. \A k \in Model : Columns(work', k) # {} => \E j \in (1..pos) \cup done' : Registers(events, j, k)
  BY <1>3 DEF SchemaInv
<1> QED BY <1>4, <1>5, <1>6, <1>7, SMTT(30) DEF SchemaInv

(* Every step keeps the tables at least as wide as the schemas. *)
LEMMA SchemaStep ==
    ASSUME OneTableEach, TypeOK, ChainInv, SchemaInv, [Next]_vars
    PROVE  SchemaInv'
<1>1. ASSUME NEW m \in Model, ModelRegistered(m) \/ ModelUpgraded(m) \/ StoreSetRecord(m) PROVE SchemaInv'
  <2>1. PICK type \in {"register", "upgrade", "store"}, v \in Nat : Emit(type, m, v)
    BY <1>1 DEF ModelRegistered, ModelUpgraded, StoreSetRecord, TypeOK
  <2>2. UNCHANGED <<pos, done, cache, work, disk, reader, pc>>
    BY <2>1 DEF Emit
  <2>3. \A i \in (1..pos) \cup done : events'[i] = events[i]
    BY <2>1, EmitEffect, BatchFact, Zenon
  <2>4. \A i \in (1..pos) \cup done, k \in Model : Registers(events', i, k) <=> Registers(events, i, k)
    BY <2>3 DEF Registers
  <2> QED BY <2>2, <2>4, Zenon DEF SchemaInv
<1>2. CASE StartBatch
  <2>1. done = {} /\ done' = {} /\ pc' # "rollback" /\ pc # "rollback"
        /\ UNCHANGED <<events, pos, cache, work, disk, reader>>
    BY <1>2 DEF StartBatch, TypeOK, chainVars
  <2> QED BY <2>1 DEF SchemaInv
<1>3. ASSUME NEW i \in Batch, RegisterModel(i) \/ UpgradeModel(i) \/ StoreRecord(i) PROVE SchemaInv'
  <2> DEFINE m == events[i].model
             v == ReadSchema(i)
  <2>1. Process(i)
    BY <1>3 DEF RegisterModel, UpgradeModel, StoreRecord
  <2>2. /\ UNCHANGED <<events, pos, disk, reader, pc>> /\ done' = done \cup {i} /\ pc # "rollback"
        /\ i \in Index /\ i \notin done /\ i \notin 1..pos
    BY <2>1, BatchFact DEF Process, chainVars
  <2>3. m \in Model /\ v \in Nat
    BY <2>2, EventFact
  <2>4. CASE RegisterModel(i) /\ m \in Indexed
    <3> DEFINE C == IF work.columns[TableOf[m]] = {} THEN 1..v ELSE {}
    <3>1. Registers(events, i, m)
      BY <2>4 DEF RegisterModel, Registers
    <3>2. Columns(work, m) = {}
      <4> SUFFICES ASSUME Columns(work, m) # {} PROVE FALSE
        OBVIOUS
      <4>1. PICK j \in (1..pos) \cup done : Registers(events, j, m)
        BY <2>3, Zenon DEF SchemaInv
      <4>2. j \in Index /\ j # i
        BY <2>2, <4>1, BatchFact
      <4> QED BY <2>2, <2>3, <3>1, <4>1, <4>2 DEF ChainInv, History, Index
    <3>3. C = 1..v /\ C \in SUBSET Nat
      BY <2>3, <3>2 DEF Columns
    <3>4. register_model(m, v, C)
      BY <2>4 DEF RegisterModel
    <3> HIDE DEF C, m, v
    <3> QED BY <2>2, <2>3, <3>1, <3>3, <3>4, RegisterKeepsSchema, Zenon
  <2>5. CASE RegisterModel(i) /\ m \notin Indexed
    <3>1. UNCHANGED <<work, cache>>
      BY <2>5 DEF RegisterModel
    <3> QED BY <2>2, <3>1 DEF SchemaInv
  <2>6. CASE UpgradeModel(i) /\ ~(Skips(m) \/ v <= Resolve(m))
    <3> DEFINE C == NewColumns(Resolve(m), v)
    <3>1. register_model(m, v, C)
      BY <2>6 DEF UpgradeModel
    <3>2. Resolve(m) \in Nat /\ Resolve(m) > 0
      <4>1. Resolve(m) # 0
        BY <2>6, Zenon DEF UpgradeModel, Skips, Unknown
      <4> QED BY <2>3, <4>1, ResolveFact
    <3>3. 1..Resolve(m) \subseteq Columns(work, m) /\ 1 \in Columns(work, m)
      BY <2>2, <2>3, <3>2, ResolvedColumns
    <3>4. C \in SUBSET Nat /\ 1..v \subseteq Columns(work, m) \cup C
      BY <2>3, <3>2, <3>3 DEF NewColumns
    <3>5. \E j \in (1..pos) \cup done' : Registers(events, j, m)
      <4>1. PICK j \in (1..pos) \cup done : Registers(events, j, m)
        BY <2>3, <3>3, Zenon DEF SchemaInv
      <4> QED BY <2>2, <4>1, Zenon
    <3> HIDE DEF C, m, v
    <3> QED BY <2>2, <2>3, <3>1, <3>4, <3>5, RegisterKeepsSchema
  <2>7. CASE StoreRecord(i) \/ (UpgradeModel(i) /\ (Skips(m) \/ v <= Resolve(m)))
    <3>1. cache' = [cache EXCEPT ![m] = Resolve(m)] /\ work' = work
      BY <2>7 DEF StoreRecord, UpgradeModel, CacheAfterResolve
    <3>2. 1..Resolve(m) \subseteq Columns(work, m)
      BY <2>2, <2>3, ResolvedColumns, SMTT(30)
    <3>3. \A k \in Model : 1..cache'[k] \subseteq Columns(work, k)
      BY <2>2, <2>3, <3>1, <3>2, SMTT(30) DEF SchemaInv, TypeOK
    <3>4. (1..pos) \cup done \subseteq ((1..pos) \cup done)'
      BY <2>2
    <3>5. \A k \in Model : Columns(work, k) # {} => \E j \in ((1..pos) \cup done)' : Registers(events, j, k)
      BY <3>4, Zenon DEF SchemaInv
    <3> QED BY <2>2, <3>1, <3>3, <3>5, Zenon DEF SchemaInv
  <2> QED BY <1>3, <2>4, <2>5, <2>6, <2>7, SMTT(30)
<1>4. CASE Execute
  <2>1. disk' = work /\ work' = work /\ cache' = cache /\ reader' = reader /\ events' = events
        /\ pos' = last /\ done = Batch /\ done' = {} /\ pc # "rollback" /\ pc' # "rollback"
    BY <1>4 DEF Execute, chainVars
  <2>2. 1..pos' = (1..pos) \cup done
    BY <2>1 DEF TypeOK, Batch
  <2>3. reader # NoReader => reader.model \in Model
    BY SMTT(30) DEF TypeOK
  <2> QED BY <2>1, <2>2, <2>3 DEF SchemaInv
<1>5. CASE RollbackAndReset
  <2>1. work' = disk /\ disk' = disk /\ cache' = NoModels /\ reader' = reader /\ events' = events
        /\ pos' = pos /\ done' = {}
    BY <1>5 DEF RollbackAndReset, chainVars
  <2>2. \A m \in Model : 1..cache'[m] = {}
    BY <2>1 DEF NoModels
  <2> QED BY <2>1, <2>2 DEF SchemaInv
<1>6. ASSUME ProcessFails \/ \E i \in Batch : ResolveFails(i) PROVE SchemaInv'
  <2>1. UNCHANGED <<events, pos, done, cache, work, disk, reader>> /\ pc' = "rollback"
    BY <1>6, Zenon DEF ProcessFails, ResolveFails, chainVars
  <2> QED BY <2>1, Zenon DEF SchemaInv
<1>7. CASE Crash
  <2>1. work' = disk /\ disk' = disk /\ cache' = disk.models /\ reader' = NoReader /\ events' = events
        /\ pos' = pos /\ done' = {}
    BY <1>7, SMTT(30) DEF Crash, chainVars
  <2> QED BY <2>1 DEF SchemaInv
<1>8. ASSUME NEW m \in Model, ReadMiss(m) PROVE SchemaInv'
  <2>1. reader'.model = m /\ reader'.version = disk.models[m]
        /\ UNCHANGED <<events, pos, done, cache, work, disk, pc>>
    BY <1>8, SMTT(30) DEF ReadMiss, chainVars
  <2> QED BY <2>1 DEF SchemaInv
<1>9. CASE ReadFill
  <2>1. reader # NoReader /\ reader' = NoReader /\ cache' = [cache EXCEPT ![reader.model] = reader.version]
        /\ UNCHANGED <<events, pos, done, work, disk, pc>>
    BY <1>9 DEF ReadFill, chainVars
  <2>2. reader.model \in Model /\ cache \in [Model -> Nat]
    BY <2>1 DEF TypeOK
  <2>3. 1..reader.version \subseteq Columns(work, reader.model)
    BY <2>1, <2>2 DEF SchemaInv
  <2>4. pc # "rollback" => \A m \in Model : 1..cache'[m] \subseteq Columns(work, m)
    BY <2>1, <2>2, <2>3, SMTT(30) DEF SchemaInv
  <2> QED BY <2>1, <2>4 DEF SchemaInv
<1>10. CASE UNCHANGED vars
  BY <1>10 DEF vars, SchemaInv
<1> QED
  BY <1>1, <1>2, <1>3, <1>4, <1>5, <1>6, <1>7, <1>8, <1>9, <1>10
  DEF Next, World, Indexing, Faults, Requests

-----------------------------------------------------------------------------
(* Versions *)

(* Processed definitions, as the invariant speaks of them. *)
LEMMA DefFact ==
    ASSUME TypeOK, NEW j \in Index
    PROVE  Defines(events, j, events[j].model) <=> IsDef(j)
BY DEF Defines, IsDef

(* A definition is at least as new in the open transaction as it was emitted. *)
LEMMA SchemaIsNew ==
    ASSUME TypeOK, ChainInv, NEW i \in Index
    PROVE  0 < events[i].version /\ events[i].version <= ReadSchema(i)
<1>1. 0 < events[i].version /\ events[i].version <= onchain[events[i].model]
  BY DEF ChainInv, History, Index
<1>2. events[i].version \in Nat /\ events[i].model \in Model
  BY EventFact
<1> QED BY <1>1, <1>2, SMTT(30) DEF ReadSchema

(* What the invariant says, once the variables it is about are known. *)
LEMMA VersionKept ==
    ASSUME reader' = NoReader,
           (pc # "rollback" => \A m \in Model : Resolve(m) = work.models[m])',
           (\A m \in Indexed : \A j \in (1..pos) \cup done :
                Defines(events, j, m) => events[j].version <= work.models[m])',
           (\A m \in Indexed : \A j \in 1..pos :
                Defines(events, j, m) => events[j].version <= disk.models[m])',
           (\A m \in Model : \A j \in done, i \in Batch :
                Defines(events, j, m) /\ Defines(events, i, m) /\ i < j => i \in done)',
           StoredInFull'
    PROVE  VersionInv'
BY SMTT(30) DEF VersionInv

(* A definition of m in version v: nothing newer was there. *)
LEMMA RegisterKeepsVersions ==
    ASSUME TypeOK, ChainInv, VersionInv, pc # "rollback",
           NEW i \in Batch, i \notin done, done' = done \cup {i}, Defines(events, i, events[i].model), DefTurn(i),
           NEW v \in Nat, NEW C \in SUBSET Nat, register_model(events[i].model, v, C),
           events[i].version <= v, work.models[events[i].model] <= v, 0 < v,
           UNCHANGED <<config, onchain, events, pos, last, disk, reader, pc, stored>>
    PROVE  VersionInv'
<1> DEFINE m == events[i].model
<1>0. m \in Model /\ i \in Index /\ Batch' = Batch /\ events[i].version \in Nat
  BY EventFact, BatchFact, Zenon DEF Batch
<1>1. /\ work'.models = [work.models EXCEPT ![m] = v]
      /\ cache' = [cache EXCEPT ![m] = v]
  BY <1>0, RegisterEffect, ZenonT(30)
<1>2. work \in Store /\ cache \in [Model -> Nat]
  BY Zenon DEF TypeOK
<1>3. work.models \in [Model -> Nat]
  BY <1>2, StoredModels, Zenon
<1>4. work'.models[m] = v /\ cache'[m] = v /\ (\A k \in Model : work.models[k] <= work'.models[k] /\ work.models[k] \in Nat /\ work'.models[k] \in Nat)
      /\ \A k \in Model : k # m => work'.models[k] = work.models[k] /\ cache'[k] = cache[k]
  <2>1. ASSUME NEW k \in Model
        PROVE  work.models[k] \in Nat /\ work'.models[k] = IF k = m THEN v ELSE work.models[k]
    BY <1>1, <1>3
  <2>2. ASSUME NEW k \in Model PROVE cache'[k] = IF k = m THEN v ELSE cache[k]
    BY <1>1, <1>2
  <2>3. ASSUME NEW k \in Model PROVE work.models[k] <= work'.models[k] /\ work'.models[k] \in Nat
    <3>1. CASE k = m
      BY <2>1, <3>1, Zenon
    <3>2. CASE k # m
      <4>1. work.models[k] <= work.models[k]
        BY <2>1, AtMostItself, Zenon
      <4> QED BY <2>1, <3>2, <4>1, Zenon
    <3> QED BY <3>1, <3>2, Zenon
  <2> QED BY <1>0, <2>1, <2>2, <2>3, Zenon
<1>5. \A k \in Model : Resolve(k)' = work'.models[k]
  <2> SUFFICES ASSUME NEW k \in Model PROVE Resolve(k)' = work'.models[k]
    OBVIOUS
  <2>1. CASE k = m
    BY <2>1, <1>4 DEF Resolve
  <2>2. CASE k # m
    <3>1. Resolve(k) = work.models[k]
      BY SMTT(30) DEF VersionInv
    <3> QED BY <2>2, <3>1, <1>4 DEF Resolve
  <2> QED BY <2>1, <2>2
<1>6. \A k \in Indexed : \A j \in (1..pos) \cup done' :
          Defines(events, j, k) => events[j].version <= work'.models[k]
  <2> SUFFICES ASSUME NEW k \in Indexed, NEW j \in (1..pos) \cup done', Defines(events, j, k)
               PROVE  events[j].version <= work'.models[k]
    OBVIOUS
  <2>1. k \in Model
    BY IndexedFact
  <2>2. CASE j = i
    BY <2>1, <2>2, <1>4, ZenonT(30) DEF Defines
  <2>3. CASE j # i
    <3>1. j \in (1..pos) \cup done /\ j \in Index
      BY <2>3, BatchFact, Zenon
    <3>2. events[j].version <= work.models[k] /\ events[j].version \in Nat
      BY <3>1, EventFact, Zenon DEF VersionInv
    <3> DEFINE x == events[j].version
               y == work.models[k]
               z == work'.models[k]
    <3>3. x \in Nat /\ y \in Nat /\ z \in Nat /\ x <= y /\ y <= z
      BY <2>1, <3>2, <1>4, Zenon
    <3>4. x <= z
      <4> HIDE DEF x, y, z
      <4> QED BY <3>3
    <3> QED BY <3>4
  <2> QED BY <2>2, <2>3
<1>7. \A k \in Model : \A j \in done', h \in Batch :
          Defines(events, j, k) /\ Defines(events, h, k) /\ h < j => h \in done'
  <2> SUFFICES ASSUME NEW k \in Model, NEW j \in done', NEW h \in Batch, Defines(events, j, k),
                      Defines(events, h, k), h < j
               PROVE  h \in done'
    OBVIOUS
  <2>1. CASE j = i
    BY <2>1 DEF DefTurn, Defines, IsDef, SameModel
  <2>2. CASE j # i
    BY <2>2 DEF VersionInv
  <2> QED BY <2>1, <2>2
<1>8. StoredInFull'
  <2>1. events[i].type # "store"
    BY DEF Defines
  <2> QED BY <2>1, IndexedFact DEF VersionInv, StoredInFull
<1> QED BY <1>0, <1>5, <1>6, <1>7, <1>8, VersionKept, IndexedFact DEF VersionInv

(* Every step keeps what is stored as new as what was processed. *)
LEMMA VersionStep ==
    ASSUME OneTableEach, TypeOK, ChainInv, SchemaInv, ~config.readers, VersionInv, [Next]_vars
    PROVE  VersionInv'
<1>0. work \in Store /\ cache \in [Model -> Nat] /\ disk \in Store /\ Indexed \subseteq Model
      /\ Len(events) \in Nat /\ (1..pos) \subseteq Index /\ done \subseteq Index /\ Batch \subseteq Index
  BY BatchFact, IndexedFact DEF TypeOK
<1>c. Indexed' = Indexed
  <2>1. config' = config
    BY ProcessFrame, Zenon DEF chainVars, ModelRegistered, ModelUpgraded, StoreSetRecord, Emit
  <2> QED BY <2>1, IndexedFact
<1>1. ASSUME NEW m \in Model, ModelRegistered(m) \/ ModelUpgraded(m) \/ StoreSetRecord(m) PROVE VersionInv'
  <2>1. PICK type \in {"register", "upgrade", "store"}, v \in Nat : Emit(type, m, v)
    BY <1>1 DEF ModelRegistered, ModelUpgraded, StoreSetRecord, TypeOK
  <2>2. UNCHANGED <<config, pos, last, done, cache, work, disk, stored, reader, pc>>
    BY <2>1 DEF Emit
  <2>3. (\A i \in Index : events'[i] = events[i]) /\ Index' = Index \cup {Len(events) + 1}
    BY <2>1, EmitEffect, Zenon
  <2>4. \A i \in Index, k \in Model : Defines(events', i, k) <=> Defines(events, i, k)
    BY <2>3 DEF Defines
  <2>5. StoredInFull'
    <3>1. Len(events) + 1 \notin done /\ ~(Len(events) + 1 <= pos)
      BY <1>0 DEF Index, TypeOK
    <3>2. \A i \in Index : (events[i].type = "store" /\ events[i].model \in Indexed /\ (i <= pos \/ i \in done))
            => stored[i] >= events[i].version
      BY SMTT(30) DEF VersionInv, StoredInFull, Index
    <3> QED BY <1>c, <2>2, <2>3, <3>1, <3>2 DEF StoredInFull, Index
  <2>6. (\A k \in Indexed : \A j \in (1..pos) \cup done :
                Defines(events, j, k) => events[j].version <= work.models[k])'
    BY <1>c, <1>0, <2>2, <2>3, <2>4, ZenonT(30) DEF VersionInv
  <2>7. (\A k \in Indexed : \A j \in 1..pos :
                Defines(events, j, k) => events[j].version <= disk.models[k])'
    BY <1>c, <1>0, <2>2, <2>3, <2>4, ZenonT(30) DEF VersionInv
  <2>8. (\A k \in Model : \A j \in done, i \in Batch :
                Defines(events, j, k) /\ Defines(events, i, k) /\ i < j => i \in done)'
    BY <1>0, <2>2, <2>4, SMTT(30) DEF VersionInv, Batch
  <2>9. (pc # "rollback" => \A k \in Model : Resolve(k) = work.models[k])'
    BY <2>2, SMTT(30) DEF VersionInv, Resolve
  <2> QED BY <2>2, <2>5, <2>6, <2>7, <2>8, <2>9, VersionKept, Zenon DEF VersionInv
<1>2. CASE StartBatch
  <2>1. done = {} /\ done' = {} /\ pc' # "rollback" /\ pc # "rollback"
        /\ UNCHANGED <<config, events, pos, cache, work, disk, reader, stored>>
    BY <1>2 DEF StartBatch, TypeOK, chainVars
  <2>2. (\A m \in Model : Resolve(m) = work.models[m])' /\ StoredInFull'
    BY <1>c, <2>1, ZenonT(30) DEF VersionInv, Resolve, StoredInFull
  <2> QED BY <1>c, <2>1, <2>2, VersionKept DEF VersionInv
<1>3. ASSUME NEW i \in Batch, RegisterModel(i) \/ UpgradeModel(i) \/ StoreRecord(i) PROVE VersionInv'
  <2> DEFINE m == events[i].model
             v == ReadSchema(i)
  <2>1. Process(i)
    BY <1>3, Zenon DEF RegisterModel, UpgradeModel, StoreRecord
  <2>2. /\ UNCHANGED <<config, onchain, events, pos, last, disk, reader, pc>> /\ done' = done \cup {i} /\ pc # "rollback"
        /\ i \in Index /\ i \notin done /\ i \notin 1..pos /\ Batch' = Batch /\ pc' # "rollback"
    BY <2>1, BatchFact DEF Process, chainVars, Batch
  <2>3. m \in Model /\ v \in Nat /\ Resolve(m) \in Nat /\ events[i].version \in Nat
    BY <2>2, EventFact, ResolveFact
  <2>4. 0 < events[i].version /\ events[i].version <= v
    BY <2>2, SchemaIsNew, SMTT(30)
  <2>5. Resolve(m) = work.models[m] /\ work.models[m] \in Nat
    BY <2>2, <2>3, SMTT(30) DEF VersionInv
  <2>6. CASE RegisterModel(i) /\ m \in Indexed
    <3>1. Defines(events, i, m) /\ Registers(events, i, m) /\ DefTurn(i) /\ stored' = stored
      BY <2>6 DEF RegisterModel, Defines, Registers
    <3>2. PICK C \in SUBSET Nat : register_model(m, v, C)
      BY <2>3, <2>6 DEF RegisterModel
    <3>3. work.models[m] = 0
      <4> SUFFICES ASSUME work.models[m] > 0 PROVE FALSE
        BY <2>5
      <4>1. 1 \in Columns(work, m)
        <5>1. 1..work.models[m] \subseteq Columns(work, m)
          BY <2>3, Zenon DEF SchemaInv
        <5>2. 1 \in 1..work.models[m]
          BY <2>5, SMTT(30)
        <5> QED BY <5>1, <5>2
      <4>2. PICK j \in (1..pos) \cup done : Registers(events, j, m)
        BY <2>3, <4>1 DEF SchemaInv
      <4>3. j \in Index /\ j # i
        BY <2>2, <4>2, BatchFact, SMTT(30)
      <4> QED BY <2>2, <2>3, <3>1, <4>2, <4>3 DEF ChainInv, History, Index
    <3>4. work.models[m] <= v /\ 0 < v
      BY <2>3, <2>4, <3>3
    <3> HIDE DEF v
    <3> QED BY <2>2, <2>3, <2>4, <3>1, <3>2, <3>4, RegisterKeepsVersions, Zenon
  <2>7. CASE UpgradeModel(i) /\ ~(Skips(m) \/ v <= Resolve(m))
    <3>1. register_model(m, v, NewColumns(Resolve(m), v)) /\ DefTurn(i) /\ stored' = stored
          /\ Defines(events, i, m)
      BY <2>7 DEF UpgradeModel, Defines
    <3>2. NewColumns(Resolve(m), v) \in SUBSET Nat
      BY <2>3 DEF NewColumns
    <3>3. work.models[m] <= v /\ 0 < v
      BY <2>3, <2>5, <2>7
    <3> HIDE DEF v
    <3> QED BY <2>2, <2>3, <2>4, <3>1, <3>2, <3>3, RegisterKeepsVersions, Zenon
  <2>8. CASE ~(RegisterModel(i) /\ m \in Indexed)
             /\ ~(UpgradeModel(i) /\ ~(Skips(m) \/ v <= Resolve(m)))
    <3>1. work' = work /\ (cache' = cache \/ cache' = [cache EXCEPT ![m] = Resolve(m)])
      BY <1>3, <2>8, Zenon DEF RegisterModel, UpgradeModel, StoreRecord, CacheAfterResolve
    <3>2. \A k \in Model : Resolve(k)' = work'.models[k]
      <4> SUFFICES ASSUME NEW k \in Model PROVE Resolve(k)' = work.models[k]
        BY <3>1
      <4>1. Resolve(k) = work.models[k]
        BY <2>2, SMTT(30) DEF VersionInv
      <4> QED BY <1>0, <2>2, <2>3, <3>1, <4>1 DEF Resolve
    <3>3. IsDef(i) => DefTurn(i)
      BY <1>3, Zenon DEF RegisterModel, UpgradeModel, StoreRecord, IsDef
    <3>4. \A k \in Indexed : Defines(events, i, k) => events[i].version <= work.models[k]
      <4> SUFFICES ASSUME NEW k \in Indexed, Defines(events, i, k) PROVE events[i].version <= work.models[k]
        OBVIOUS
      <4>1. k = m /\ m \in Indexed /\ IsDef(i)
        BY DEF Defines, IsDef
      <4>2. UpgradeModel(i) /\ (Skips(m) \/ v <= Resolve(m)) /\ events[i].type = "upgrade"
        BY <1>3, <2>8, <4>1, Zenon DEF StoreRecord, IsDef, UpgradeModel
      <4>3. CASE Resolve(m) # 0
        BY <2>3, <2>4, <2>5, <4>1, <4>2, <4>3 DEF Skips
      <4>4. CASE Resolve(m) = 0
        <5>1. PICK j \in 1..(i - 1) : Registers(events, j, m)
          BY <2>2, <4>2, SMTT(30) DEF ChainInv, History, Index
        <5>2. j \in Index /\ j < i /\ Defines(events, j, m) /\ IsDef(j) /\ SameModel(i, j)
          <6>1. j \in Index /\ j < i
            BY EarlierEvent, Zenon
          <6>2. Defines(events, j, m) /\ IsDef(j) /\ SameModel(i, j)
            BY <5>1, Zenon DEF Registers, Defines, IsDef, SameModel
          <6> QED BY <6>1, <6>2, Zenon
        <5>3. j \in (1..pos) \cup done
          BY <3>3, <4>1, <5>2, SMTT(30) DEF DefTurn, Batch, Index, TypeOK
        <5>4. 0 < events[j].version /\ events[j].version <= work.models[m] /\ events[j].version \in Nat
          <6>1. 0 < events[j].version /\ events[j].version \in Nat
            BY <5>2, SchemaIsNew, EventFact, Zenon
          <6>2. events[j].version <= work.models[m]
            BY <4>1, <5>2, <5>3, Zenon DEF VersionInv
          <6> QED BY <6>1, <6>2
        <5> QED BY <2>3, <2>5, <4>4, <5>4, SMTT(30)
      <4> QED BY <4>3, <4>4
    <3>5. (\A k \in Indexed : \A j \in (1..pos) \cup done :
                Defines(events, j, k) => events[j].version <= work.models[k])'
      BY <1>c, <2>2, <3>1, <3>4 DEF VersionInv
    <3>6. (\A k \in Model : \A j \in done, h \in Batch :
                Defines(events, j, k) /\ Defines(events, h, k) /\ h < j => h \in done)'
      <4> SUFFICES ASSUME NEW k \in Model, NEW j \in done', NEW h \in Batch, Defines(events, j, k),
                          Defines(events, h, k), h < j
                   PROVE  h \in done'
        BY <2>2
      <4>1. CASE j = i
        BY <2>2, <3>3, <4>1, SMTT(30) DEF DefTurn, Defines, IsDef, SameModel
      <4>2. CASE j # i
        BY <2>2, <4>2 DEF VersionInv
      <4> QED BY <4>1, <4>2
    <3>7. StoredInFull'
      <4>1. CASE ~StoreRecord(i)
        <5>1. stored' = stored /\ events[i].type # "store"
          BY <1>3, <4>1, Zenon DEF RegisterModel, UpgradeModel
        <5> QED BY <1>c, <2>2, <5>1 DEF StoredInFull, VersionInv
      <4>2. CASE StoreRecord(i)
        <5>1. 1..Resolve(m) \subseteq work.columns[TableOf[m]]
          BY <2>2, <2>3, ResolvedColumns, SMTT(30) DEF Columns
        <5>2. stored' = [stored EXCEPT ![i] = Resolve(m)] /\ StoreTurn(i) /\ events[i].type = "store"
          BY <4>2, <5>1 DEF StoreRecord
        <5>3. m \in Indexed => events[i].version <= Resolve(m)
          <6> SUFFICES ASSUME m \in Indexed PROVE events[i].version <= Resolve(m)
            OBVIOUS
          <6>1. PICK j \in 1..(i - 1) : Defines(events, j, m) /\ events[j].version = events[i].version
            BY <2>2, <5>2, ZenonT(30) DEF ChainInv, History, Index
          <6>2. j \in Index /\ IsDef(j) /\ SameModel(i, j)
            <7>1. j \in Index
              BY EarlierEvent, Zenon
            <7>2. IsDef(j) /\ SameModel(i, j)
              BY <6>1, Zenon DEF Defines, IsDef, SameModel
            <7> QED BY <7>1, <7>2, Zenon
          <6>3. j \in (1..pos) \cup done
            BY <5>2, <6>2 DEF StoreTurn, Batch, Index, TypeOK
          <6> QED BY <2>5, <6>1, <6>3, Zenon DEF VersionInv
        <5>4. stored \in [1..MaxEvents -> Nat] /\ i \in 1..MaxEvents /\ Index \subseteq 1..MaxEvents
          BY <2>2, BatchFact, Bounds, SMTT(30) DEF TypeOK, Index
        <5>5. \A j \in Index : stored'[j] = IF j = i THEN Resolve(m) ELSE stored[j]
          BY <5>2, <5>4
        <5> QED BY <1>c, <2>2, <2>3, <5>3, <5>5, SMTT(30) DEF StoredInFull, VersionInv, Index
      <4> QED BY <4>1, <4>2, SMTT(30)
    <3>8. (pc # "rollback" => \A k \in Model : Resolve(k) = work.models[k])'
      BY <3>2
    <3> QED BY <1>c, <2>2, <3>5, <3>6, <3>7, <3>8, VersionKept, Zenon DEF VersionInv
  <2> QED BY <2>6, <2>7, <2>8
<1>4. CASE Execute
  <2>1. disk' = work /\ work' = work /\ cache' = cache /\ reader' = reader /\ events' = events
        /\ pos' = last /\ done = Batch /\ done' = {} /\ pc # "rollback" /\ pc' # "rollback"
        /\ stored' = stored /\ config' = config
    BY <1>4 DEF Execute, chainVars
  <2>2. 1..pos' = (1..pos) \cup done
    BY <2>1 DEF TypeOK, Batch
  <2>3. (\A m \in Model : Resolve(m) = work.models[m])'
    BY <2>1, SMTT(30) DEF VersionInv, Resolve
  <2>4. StoredInFull'
    <3>1. \A i \in Index : i <= pos' => i <= pos \/ i \in done
      BY <2>1 DEF Index, TypeOK, Batch
    <3> QED BY <1>c, <2>1, <3>1 DEF StoredInFull, VersionInv, Index
  <2> QED BY <1>c, <2>1, <2>2, <2>3, <2>4, VersionKept, Zenon DEF VersionInv
<1>5. StoredInFull /\ events' = events /\ config' = config /\ pos' = pos /\ done' = {} /\ stored' = Forget
          => StoredInFull'
  <2> SUFFICES ASSUME StoredInFull, events' = events, config' = config, pos' = pos, done' = {}, stored' = Forget
               PROVE  StoredInFull'
    OBVIOUS
  <2>1. \A i \in Index : i <= pos => stored'[i] = stored[i]
    BY Bounds DEF Forget, Index, TypeOK
  <2> QED BY <1>c, <2>1 DEF StoredInFull, Index
<1>6. CASE RollbackAndReset
  <2>1. work' = disk /\ disk' = disk /\ cache' = NoModels /\ reader' = reader /\ events' = events
        /\ pos' = pos /\ done' = {} /\ stored' = Forget /\ config' = config
    BY <1>6 DEF RollbackAndReset, chainVars
  <2>2. (\A m \in Model : Resolve(m) = work.models[m])'
    BY <2>1 DEF Resolve, NoModels
  <2>3. StoredInFull'
    BY <2>1, <1>5, Zenon DEF VersionInv
  <2> QED BY <1>c, <2>1, <2>2, <2>3, VersionKept, Zenon DEF VersionInv
<1>7. ASSUME ProcessFails \/ \E i \in Batch : ResolveFails(i) PROVE VersionInv'
  <2>1. UNCHANGED <<config, events, pos, last, done, cache, work, disk, stored, reader>> /\ pc' = "rollback"
    BY <1>7, Zenon DEF ProcessFails, ResolveFails, chainVars
  <2>2. StoredInFull'
    BY <1>c, <2>1 DEF VersionInv, StoredInFull
  <2> QED BY <1>c, <2>1, <2>2, VersionKept, Zenon DEF VersionInv, Batch
<1>8. CASE Crash
  <2>1. work' = disk /\ disk' = disk /\ cache' = disk.models /\ reader' = NoReader /\ events' = events
        /\ pos' = pos /\ done' = {} /\ stored' = Forget /\ config' = config
    BY <1>8 DEF Crash, chainVars
  <2>2. (\A m \in Model : Resolve(m) = work.models[m])'
    BY <2>1 DEF Resolve
  <2>3. StoredInFull'
    BY <2>1, <1>5, Zenon DEF VersionInv
  <2> QED BY <1>c, <2>1, <2>2, <2>3, VersionKept, Zenon DEF VersionInv
<1>9. CASE Requests
  BY <1>9, Zenon DEF Requests, ReadMiss, ReadFill, VersionInv
<1>10. CASE UNCHANGED vars
  <2>1. StoredInFull'
    BY <1>c, <1>10, Zenon DEF vars, VersionInv, StoredInFull
  <2>2. (pc # "rollback" => \A k \in Model : Resolve(k) = work.models[k])'
    BY <1>10 DEF vars, VersionInv, Resolve
  <2>3. UNCHANGED <<config, events, pos, last, done, work, disk, reader>>
    BY <1>10 DEF vars
  <2> QED BY <1>c, <2>1, <2>2, <2>3, VersionKept, Zenon DEF VersionInv, Batch
<1> QED
  BY <1>1, <1>2, <1>3, <1>4, <1>6, <1>7, <1>8, <1>9, <1>10
  DEF Next, World, Indexing, Faults

-----------------------------------------------------------------------------
(* Theorems *)

(* The inductive invariant holds at first. *)
LEMMA InitIInv == Init => IInv
<1> SUFFICES ASSUME Init PROVE IInv
  OBVIOUS
<1>1. TypeOK
  <2>1. config \in [strict_model_reader : BOOLEAN, readers : BOOLEAN,
                  namespaces : SUBSET Namespace, models : SUBSET Model]
    BY Configs DEF Init
  <2>2. EmptyStore \in Store /\ NoModels \in [Model -> Nat]
    BY DEF EmptyStore, NoModels, Store
  <2>3. events \in Seq(Event) /\ Len(events) = 0
    BY DEF Init
  <2> QED BY <2>1, <2>2, <2>3, Bounds DEF Init, TypeOK, Batch
<1>2. ChainInv
  BY DEF Init, ChainInv, History, NoModels
<1>3. SchemaInv
  <2>1. \A m \in Model : Columns(EmptyStore, m) = {} /\ EmptyStore.models[m] = 0
    BY TableFact DEF Columns, EmptyStore, NoModels
  <2>2. \A m \in Model : cache[m] = 0
    BY DEF Init, NoModels
  <2> QED BY <2>1, <2>2 DEF Init, SchemaInv
<1>4. VersionInv
  <2>1. \A m \in Model : Resolve(m) = work.models[m]
    BY DEF Init, Resolve, EmptyStore, NoModels
  <2>2. StoredInFull
    BY DEF Init, StoredInFull
  <2> QED BY <2>1, <2>2 DEF Init, VersionInv
<1> QED BY <1>1, <1>2, <1>3, <1>4 DEF IInv

(* Every step keeps the inductive invariant. *)
LEMMA StepIInv == OneTableEach => (IInv /\ [Next]_vars => IInv')
<1> SUFFICES ASSUME OneTableEach, IInv, [Next]_vars PROVE IInv'
  OBVIOUS
<1>1. TypeOK' /\ ChainInv' /\ SchemaInv'
  BY TypeStep, ChainStep, SchemaStep DEF IInv
<1>2. config' = config
  BY ProcessFrame, Zenon DEF chainVars, ModelRegistered, ModelUpgraded, StoreSetRecord, Emit
<1>3. ~config'.readers => VersionInv'
  BY <1>2, VersionStep DEF IInv
<1> QED BY <1>1, <1>3 DEF IInv

(* A table always has the columns of the schema it is described by, in the open
   transaction and on disk, and of the schema in the cache, but for the moment
   between a rollback and the reset of the cache: whatever batches fail or
   crash and whoever reads models meanwhile, for any number of models that do
   not share a table. *)
THEOREM TablesMatchSchemas == OneTableEach => (Spec => []TableMatchesSchema)
<1> SUFFICES ASSUME OneTableEach PROVE Spec => []TableMatchesSchema
  OBVIOUS
<1>1. IInv => TableMatchesSchema
  BY DEF IInv, SchemaInv, TableMatchesSchema, Columns
<1>2. IInv /\ [Next]_vars => IInv'
  BY StepIInv
<1> QED BY InitIInv, <1>1, <1>2, PTL DEF Spec

(* Without API requests that read models, a store event of an indexed model is
   stored with all the members it carries, whatever failed before. *)
THEOREM RecordsStoredInFull == OneTableEach => (Spec => []StoredWithoutReaders)
<1> SUFFICES ASSUME OneTableEach PROVE Spec => []StoredWithoutReaders
  OBVIOUS
<1>1. IInv => StoredWithoutReaders
  BY DEF IInv, VersionInv, StoredWithoutReaders
<1>2. IInv /\ [Next]_vars => IInv'
  BY StepIInv
<1> QED BY InitIInv, <1>1, <1>2, PTL DEF Spec
=============================================================================
