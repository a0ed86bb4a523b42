----------------------------- MODULE ErcProofs ------------------------------
(***************************************************************************)
(* Tokens are registered once and balances follow the chain, for every set *)
(* of accounts and tokens, every amount and every number of transfers,     *)
(* failed batches and crashes.                                             *)
(*                                                                         *)
(* Signed addition and subtraction are those of the integers, and a map of *)
(* changes is the sum of what was credited and debited. An invariant of    *)
(* the handlers, the mutexes and the stores says that the changes in the   *)
(* cache are those of the transfers whose handlers are done. It rests on   *)
(* laws of sums over sets of transfers, which ErcSums proves.              *)
(***************************************************************************)
EXTENDS Erc, TLAPS

-----------------------------------------------------------------------------
(* Signed numbers and maps of changes *)

(* Adding two signed numbers adds the integers they stand for. *)
THEOREM AddIsAddition ==
    ASSUME NEW a \in Signed, NEW b \in Signed
    PROVE  Add(a, b) \in Signed /\ IntOf(Add(a, b)) = IntOf(a) + IntOf(b)
<1> DEFINE av == a.value
           bv == b.value
           an == a.is_negative
           bn == b.is_negative
<1>1. av \in Nat /\ bv \in Nat /\ an \in BOOLEAN /\ bn \in BOOLEAN
  BY DEF Signed
<1>2. a = [value |-> av, is_negative |-> an] /\ b = [value |-> bv, is_negative |-> bn]
  BY DEF Signed
<1> QED
  BY <1>1, <1>2 DEF Signed, Add, IntOf, Positive, Negative

(* A difference is the sum with the opposite, which is never the negative zero. *)
LEMMA SubByAdd ==
    ASSUME NEW a, NEW b \in Signed
    PROVE  Sub(a, b) = Add(a, IF b.value = 0 \/ b.is_negative THEN Positive(b.value) ELSE Negative(b.value))
<1>1. CASE b.value = 0 \/ b.is_negative
  <2>1. (b.value # 0 /\ ~b.is_negative) = FALSE
    BY <1>1
  <2> QED
    BY <1>1, <2>1, Zenon DEF Sub, Positive
<1>2. CASE ~(b.value = 0 \/ b.is_negative)
  <2>1. (b.value # 0 /\ ~b.is_negative) = TRUE
    BY <1>2
  <2> QED
    BY <1>2, <2>1, Zenon DEF Sub, Negative
<1> QED
  BY <1>1, <1>2

(* Subtracting subtracts the integers: negating the sign of a zero is avoided. *)
THEOREM SubIsSubtraction ==
    ASSUME NEW a \in Signed, NEW b \in Signed
    PROVE  Sub(a, b) \in Signed /\ IntOf(Sub(a, b)) = IntOf(a) - IntOf(b)
<1> DEFINE c == IF b.value = 0 \/ b.is_negative THEN Positive(b.value) ELSE Negative(b.value)
<1>1. b.value \in Nat /\ b.is_negative \in BOOLEAN
  BY DEF Signed
<1>2. c \in Signed /\ IntOf(c) = 0 - IntOf(b)
  BY <1>1 DEF Signed, IntOf, Positive, Negative
<1>3. Sub(a, b) = Add(a, c)
  BY <1>1, SubByAdd
<1>4. IntOf(a) \in Int /\ IntOf(b) \in Int
  BY DEF Signed, IntOf
<1> HIDE DEF c
<1> QED
  BY <1>1, <1>2, <1>3, <1>4, AddIsAddition

(* A sum or a difference of numbers that are not the negative zero is not the
   negative zero either: a stored change of zero is never taken for a debit. *)
THEOREM NeverNegativeZero ==
    ASSUME NEW a \in Signed, NEW b \in Signed, a # Negative(0), b # Negative(0)
    PROVE  Add(a, b) # Negative(0) /\ Sub(a, b) # Negative(0)
<1>1. ASSUME NEW x \in Signed, NEW y \in Signed, x # Negative(0), y # Negative(0)
      PROVE  Add(x, y) # Negative(0)
  BY <1>1 DEF Signed, Add, Positive, Negative
<1> DEFINE c == IF b.value = 0 \/ b.is_negative THEN Positive(b.value) ELSE Negative(b.value)
<1>2. c \in Signed /\ c # Negative(0)
  BY DEF Signed, Positive, Negative
<1>3. Sub(a, b) = Add(a, c)
  BY SubByAdd
<1> HIDE DEF c
<1> QED
  BY <1>1, <1>2, <1>3

(* A map of changes. *)
IsDiff(diff) == diff \in [DOMAIN diff -> Signed]

(* The map new has the changes of old, and n more at k. *)
ChangedBy(new, old, k, n) ==
    /\ IsDiff(new)
    /\ Change(new, k) = Change(old, k) + n
    /\ \A j : j # k => Change(new, j) = Change(old, j)

(* A credit adds its value to the change of its key and to no other change. *)
THEOREM CreditIsCredit ==
    ASSUME NEW diff, IsDiff(diff), NEW k, NEW v \in Nat
    PROVE  ChangedBy(Credit(diff, k, v), diff, k, v)
<1> DEFINE D == DOMAIN diff
           new == IF k \in D THEN Add(diff[k], Positive(v)) ELSE Positive(v)
<1>1. Positive(v) \in Signed /\ IntOf(Positive(v)) = v
  BY DEF Signed, Positive, IntOf
<1>2. new \in Signed /\ IntOf(new) = Change(diff, k) + v
  BY <1>1, AddIsAddition DEF Change, IsDiff
<1>3. Credit(diff, k, v) = [x \in D \cup {k} |-> IF x # k THEN diff[x] ELSE new]
  BY DEF Credit
<1> HIDE DEF new
<1>4. Credit(diff, k, v) \in [D \cup {k} -> Signed]
  BY <1>2, <1>3 DEF IsDiff
<1> QED
  BY <1>2, <1>3, <1>4 DEF Change, IsDiff, ChangedBy

(* A debit subtracts its value from the change of its key and from no other. *)
THEOREM DebitIsDebit ==
    ASSUME NEW diff, IsDiff(diff), NEW k, NEW v \in Nat
    PROVE  ChangedBy(Debit(diff, k, v), diff, k, 0 - v)
<1> DEFINE D == DOMAIN diff
           new == IF k \in D THEN Sub(diff[k], Positive(v)) ELSE Negative(v)
<1>1. Positive(v) \in Signed /\ IntOf(Positive(v)) = v
  BY DEF Signed, Positive, IntOf
<1>2. Negative(v) \in Signed /\ IntOf(Negative(v)) = 0 - v
  BY DEF Signed, Negative, IntOf
<1>3. new \in Signed /\ IntOf(new) = Change(diff, k) + (0 - v)
  <2>1. CASE k \in D
    <3>1. diff[k] \in Signed /\ IntOf(diff[k]) \in Int /\ Change(diff, k) = IntOf(diff[k])
      BY <2>1 DEF Change, IsDiff, Signed, IntOf
    <3>2. new \in Signed /\ IntOf(new) = IntOf(diff[k]) - IntOf(Positive(v))
      BY <1>1, <2>1, <3>1, SubIsSubtraction
    <3> QED BY <1>1, <3>1, <3>2
  <2>2. CASE k \notin D
    BY <1>2, <2>2 DEF Change
  <2> QED BY <2>1, <2>2
<1>4. Debit(diff, k, v) = [x \in D \cup {k} |-> IF x # k THEN diff[x] ELSE new]
  BY DEF Debit
<1> HIDE DEF new
<1>5. Debit(diff, k, v) \in [D \cup {k} -> Signed]
  BY <1>3, <1>4 DEF IsDiff
<1> QED
  BY <1>3, <1>4, <1>5 DEF Change, IsDiff, ChangedBy

-----------------------------------------------------------------------------
(* The inductive invariant *)

Address == Account \cup {Zero}
TransferEvent == [token : Nft \cup {Contract}, from : Address, to : Address, value : Nat]
Stages == {"ready", "lock_contract", "fetch_contract", "token", "lock_token", "fetch_token",
           "update", "done", "failed"}
Store == [tokens : [TokenId -> {0, 1}], balances : [BalanceId -> Int],
          supply : [TokenId -> Int], transfers : SUBSET Events]

TypeOK ==
    /\ is_erc20 \in BOOLEAN /\ unreadable \in SUBSET Nft
    /\ transfers \in Seq(TransferEvent) /\ Len(transfers) <= MaxEvents
    /\ \A i \in DOMAIN transfers : transfers[i].token \in Token
    /\ pos \in Nat /\ last \in Nat /\ pos <= last /\ last <= Len(transfers)
    /\ stage \in [Events -> Stages]
    /\ held \in [TokenId -> Nat]
    /\ registry \in [TokenId -> {"absent", "registering", "registered"}]
    /\ DOMAIN balances_diff \subseteq BalanceId /\ IsDiff(balances_diff)
    /\ DOMAIN total_supply_diff \subseteq TokenId
    /\ IsDiff(total_supply_diff)
    /\ work \in Store /\ disk \in Store
    /\ pc \in {"idle", "process", "failing", "commit"}

(* The handlers of a batch. *)
StageInv ==
    /\ \A i \in Events : stage[i] # "ready" => i \in Batch /\ pc # "idle"
    /\ \A i \in Events : stage[i] \in {"token", "lock_token", "fetch_token"} =>
           ~is_erc20 /\ registry[Contract] = "registered"
    /\ \A i \in Events : stage[i] \in {"update", "done"} => registry[transfers[i].token] = "registered"
    /\ pc = "commit" => \A i \in Batch : stage[i] = "done"

(* A mutex is held by the one handler that registers its token. *)
LockInv ==
    \A t \in TokenId : held[t] # 0 =>
        /\ held[t] \in Batch /\ stage[held[t]] \in {"fetch_contract", "fetch_token"}
        /\ Target(held[t]) = t
        /\ registry[t] # "registered"

(* The registry is the open transaction's. *)
StoreInv ==
    /\ \A t \in TokenId : registry[t] = "registered" <=> work.tokens[t] = 1
    /\ \A i \in work.transfers : i \in DOMAIN transfers /\ work.tokens[transfers[i].token] = 1
    /\ \A i \in disk.transfers : i \in DOMAIN transfers /\ disk.tokens[transfers[i].token] = 1
    /\ \A t \in DOMAIN total_supply_diff : work.tokens[t] = 1

RegInv == TypeOK /\ StageInv /\ LockInv /\ StoreInv

(* What a set I of the transfers E adds to a balance, and to the supply. *)
Net(E, a, t, I) == SumFunctionOnSet([i \in DOMAIN E |-> Moved(E[i], a, t)], I)

Minted(e, t) ==
    IF e.token = t
    THEN (IF e.from = Zero /\ e.to # Zero THEN e.value
          ELSE IF e.from # Zero /\ e.to = Zero THEN 0 - e.value ELSE 0)
    ELSE 0
NetSupply(E, t, I) == SumFunctionOnSet([i \in DOMAIN E |-> Minted(E[i], t)], I)

Done == {i \in Events : stage[i] = "done"}
Registered(s) == {t \in Nft : s.tokens[t] > 0}

(* What a store holds after the first n transfers. *)
Holds(E, s, n) ==
    /\ \A a \in Account, t \in TokenId : s.balances[<<a, t>>] = Net(E, a, t, 1..n)
    /\ \A t \in Token : s.supply[t] = NetSupply(E, t, 1..n)

NeverNegative(E) == \A a \in Account, t \in Token, n \in 0..Len(E) : Net(E, a, t, 1..n) >= 0

BalanceInv ==
    /\ NeverNegative(transfers)
    /\ Holds(transfers, disk, pos)
    /\ pc # "commit" =>
           /\ work.balances = disk.balances /\ work.supply = disk.supply
           /\ \A a \in Account, t \in TokenId : Change(balances_diff, <<a, t>>) = Net(transfers, a, t, Done)
           /\ \A t \in Token : Change(total_supply_diff, t) = NetSupply(transfers, t, Done)
    /\ pc = "commit" =>
           Holds(transfers, work, last) /\ balances_diff = NoDiff /\ total_supply_diff = NoDiff
    /\ pc = "idle" => work = disk /\ balances_diff = NoDiff /\ total_supply_diff = NoDiff

(* The supply of a contract counts its tokens. *)
CountInv ==
    ~is_erc20 =>
        /\ IsFiniteSet(Registered(disk)) /\ disk.supply[Contract] = Cardinality(Registered(disk))
        /\ IsFiniteSet(Registered(work))
        /\ work.supply[Contract] + Change(total_supply_diff, Contract) = Cardinality(Registered(work))

IInv == RegInv /\ BalanceInv /\ CountInv

-----------------------------------------------------------------------------
(* What sums over sets of transfers compute: ErcSums shows that they do *)

(* A sum is an integer, nothing for no transfer, and counts each transfer once. *)
NetAdds(E, a, t, I) ==
    /\ Net(E, a, t, I) \in Int /\ Net(E, a, t, {}) = 0
    /\ \A i \in DOMAIN E \ I : Net(E, a, t, I \cup {i}) = Net(E, a, t, I) + Moved(E[i], a, t)
SupplyAdds(E, t, I) ==
    /\ NetSupply(E, t, I) \in Int /\ NetSupply(E, t, {}) = 0
    /\ \A i \in DOMAIN E \ I : NetSupply(E, t, I \cup {i}) = NetSupply(E, t, I) + Minted(E[i], t)
AddLaw ==
    \A E \in Seq(TransferEvent) : \A I \in SUBSET DOMAIN E :
        (\A a, t : NetAdds(E, a, t, I)) /\ (\A t : SupplyAdds(E, t, I))

(* Two disjoint sets of transfers add what each of them does. *)
NetJoins(E, a, t, I, J) == Net(E, a, t, I \cup J) = Net(E, a, t, I) + Net(E, a, t, J)
SupplyJoins(E, t, I, J) == NetSupply(E, t, I \cup J) = NetSupply(E, t, I) + NetSupply(E, t, J)
UnionLaw ==
    \A E \in Seq(TransferEvent) : \A I, J \in SUBSET DOMAIN E : I \cap J = {} =>
        (\A a, t : NetJoins(E, a, t, I, J)) /\ (\A t : SupplyJoins(E, t, I, J))

(* Transfers that come later do not count. *)
AppendLaw ==
    \A E \in Seq(TransferEvent), e \in TransferEvent : \A I \in SUBSET DOMAIN E :
        /\ \A a, t : Net(Append(E, e), a, t, I) = Net(E, a, t, I)
        /\ \A t : NetSupply(Append(E, e), t, I) = NetSupply(E, t, I)

(* The balance on the chain is what the transfers so far add to it, and the
   supply is what the accounts hold together. *)
ChainLaw ==
    \A E \in Seq(TransferEvent), n \in Nat : n <= Len(E) =>
        /\ \A a, t : SumFunction([i \in 1..n |-> Moved(E[i], a, t)]) = Net(E, a, t, 1..n)
        /\ \A t : SumFunction([a \in Account |-> Net(E, a, t, 1..n)]) = NetSupply(E, t, 1..n)
        /\ \A t : (\A a \in Account : Net(E, a, t, 1..n) >= 0) => NetSupply(E, t, 1..n) >= 0

(* Finite sets are counted. *)
CountLaw ==
    /\ IsFiniteSet({}) /\ Cardinality({}) = 0
    /\ \A S : IsFiniteSet(S) => Cardinality(S) \in Nat
    /\ \A S, x : IsFiniteSet(S) /\ x \notin S =>
           IsFiniteSet(S \cup {x}) /\ Cardinality(S \cup {x}) = Cardinality(S) + 1

SumLaws == AddLaw /\ UnionLaw /\ AppendLaw /\ ChainLaw /\ CountLaw

-----------------------------------------------------------------------------
(* Tokens are registered once *)

(* The contract does not change, nor do the sets that depend on it. *)
LEMMA SameContract ==
    ASSUME UNCHANGED contractVars
    PROVE  /\ Token' = Token /\ TokenId' = TokenId /\ BalanceId' = BalanceId
           /\ Store' = Store /\ is_erc20' = is_erc20
           /\ unreadable' = unreadable
BY DEF contractVars, Token, TokenId, BalanceId, Store

(* The handlers of a batch are those of transfers there are. *)
LEMMA BatchEvents ==
    ASSUME TypeOK
    PROVE  /\ Batch \subseteq Events /\ Batch \subseteq DOMAIN transfers /\ DOMAIN transfers \subseteq Events
           /\ 0 \notin Batch
           /\ \A i \in DOMAIN transfers : transfers[i] \in TransferEvent /\ transfers[i].token \in Token
           /\ Token \subseteq TokenId /\ Contract \in TokenId /\ Contract \notin Nft
<1>1. Len(transfers) \in Nat /\ DOMAIN transfers = 1..Len(transfers) /\ MaxEvents \in Nat
      /\ \A i \in DOMAIN transfers : transfers[i] \in TransferEvent
  BY Bounds DEF TypeOK
<1>2. \A i \in DOMAIN transfers : transfers[i].token \in Token
  BY DEF TypeOK
<1>3. Batch \subseteq Events /\ Batch \subseteq DOMAIN transfers /\ DOMAIN transfers \subseteq Events /\ 0 \notin Batch
  BY <1>1 DEF TypeOK, Batch, Events
<1> QED BY <1>1, <1>2, <1>3, Ids DEF TokenId

(* The token a handler registers. *)
LEMMA TargetType ==
    ASSUME TypeOK, NEW i \in Batch
    PROVE  Target(i) \in TokenId
BY BatchEvents DEF Target

(* What the fields of a store are. *)
LEMMA StoreFields ==
    ASSUME NEW s \in Store
    PROVE  /\ s.tokens \in [TokenId -> {0, 1}] /\ s.balances \in [BalanceId -> Int]
           /\ s.supply \in [TokenId -> Int] /\ s.transfers \in SUBSET Events
BY DEF Store

(* What a handler's step keeps, whatever it does to its token. *)
LEMMA HandlerType ==
    ASSUME TypeOK, NEW i \in Batch, NEW s \in Stages, stage' = [stage EXCEPT ![i] = s],
           UNCHANGED <<contractVars, transfers, pos, last, disk>>,
           pc' \in {"process", "failing"}, held' \in [TokenId -> Nat],
           registry' \in [TokenId -> {"absent", "registering", "registered"}],
           DOMAIN balances_diff' \subseteq BalanceId, IsDiff(balances_diff'),
           DOMAIN total_supply_diff' \subseteq TokenId,
           IsDiff(total_supply_diff'),
           work' \in Store
    PROVE  TypeOK'
<1>1. stage' \in [Events -> Stages]
  BY Zenon DEF TypeOK
<1>2. UNCHANGED contractVars
  OBVIOUS
<1> QED BY <1>1, <1>2, SameContract DEF TypeOK

(* The stages after a step of one handler. *)
LEMMA HandlerStages ==
    ASSUME RegInv, NEW i \in Batch, NEW s \in Stages, stage' = [stage EXCEPT ![i] = s],
           UNCHANGED <<contractVars, transfers, pos, last>>, pc' \in {"process", "failing"},
           \A t \in TokenId : registry[t] = "registered" => registry'[t] = "registered",
           s \in {"token", "lock_token", "fetch_token"} => ~is_erc20 /\ registry'[Contract] = "registered",
           s \in {"update", "done"} => registry'[transfers[i].token] = "registered"
    PROVE  StageInv'
<1>1. Batch' = Batch /\ is_erc20' = is_erc20 /\ transfers' = transfers /\ UNCHANGED contractVars
  BY DEF Batch, contractVars
<1>2. TypeOK /\ StageInv
  BY DEF RegInv
<1>3. i \in Events /\ \A j \in Events : stage'[j] = IF j = i THEN s ELSE stage[j]
  BY <1>2, BatchEvents DEF TypeOK
<1>4. \A j \in Events : stage'[j] # "ready" => j \in Batch
  BY <1>2, <1>3 DEF StageInv
<1>5. \A j \in Events : stage'[j] \in {"token", "lock_token", "fetch_token"} =>
           ~is_erc20 /\ registry'[Contract] = "registered"
  BY <1>2, <1>3, BatchEvents DEF StageInv
<1>6. \A j \in Events : stage'[j] \in {"update", "done"} => registry'[transfers[j].token] = "registered"
  <2> SUFFICES ASSUME NEW j \in Events, stage'[j] \in {"update", "done"}, j # i
               PROVE  registry'[transfers[j].token] = "registered"
    BY <1>3
  <2>1. stage[j] \in {"update", "done"} /\ j \in Batch
    BY <1>2, <1>3 DEF StageInv
  <2>2. transfers[j].token \in TokenId
    BY <1>2, <2>1, BatchEvents
  <2> QED BY <1>2, <2>1, <2>2 DEF StageInv
<1> QED BY <1>1, <1>4, <1>5, <1>6 DEF StageInv

(* The mutexes after a step of the handler of i: the others hold what they held. *)
LEMMA HandlerLocks ==
    ASSUME RegInv, NEW i \in Batch, NEW s \in Stages, stage' = [stage EXCEPT ![i] = s],
           UNCHANGED <<contractVars, transfers, pos, last>>,
           \A t \in TokenId : held'[t] # 0 =>
               \/ held'[t] = held[t] /\ held[t] # i /\ (registry'[t] = "registered" => registry[t] = "registered")
               \/ /\ held'[t] = i /\ s \in {"fetch_contract", "fetch_token"} /\ registry'[t] # "registered"
                  /\ t = IF s = "fetch_contract" THEN Contract ELSE transfers[i].token
    PROVE  LockInv'
<1>1. Batch' = Batch /\ transfers' = transfers /\ TokenId' = TokenId
  BY SameContract DEF Batch
<1>2. TypeOK /\ LockInv
  BY DEF RegInv
<1>3. i \in Events /\ \A j \in Events : stage'[j] = IF j = i THEN s ELSE stage[j]
  BY <1>2, BatchEvents DEF TypeOK
<1> SUFFICES ASSUME NEW t \in TokenId, held'[t] # 0
             PROVE  /\ held'[t] \in Batch /\ stage'[held'[t]] \in {"fetch_contract", "fetch_token"}
                    /\ (Target(held[t]))' = t /\ registry'[t] # "registered"
  BY <1>1 DEF LockInv
<1>4. CASE held'[t] = held[t] /\ held[t] # i /\ (registry'[t] = "registered" => registry[t] = "registered")
  <2>1. held[t] \in Batch /\ held[t] \in Events /\ stage[held[t]] \in {"fetch_contract", "fetch_token"}
        /\ Target(held[t]) = t /\ registry[t] # "registered"
    BY <1>2, <1>4, BatchEvents DEF LockInv
  <2>2. stage'[held'[t]] = stage[held[t]]
    BY <1>3, <1>4, <2>1
  <2> QED BY <1>1, <1>4, <2>1, <2>2 DEF Target
<1>5. CASE /\ held'[t] = i /\ s \in {"fetch_contract", "fetch_token"} /\ registry'[t] # "registered"
           /\ t = IF s = "fetch_contract" THEN Contract ELSE transfers[i].token
  <2>1. stage'[held'[t]] = s
    BY <1>3, <1>5
  <2> QED BY <1>1, <1>5, <2>1 DEF Target
<1> QED BY <1>4, <1>5

(* The handler that leaves a stage holds no mutex unless it is fetching. *)
LEMMA HoldsNothing ==
    ASSUME RegInv, NEW i \in Batch, stage[i] \notin {"fetch_contract", "fetch_token"}, NEW t \in TokenId
    PROVE  held[t] # i
BY BatchEvents DEF RegInv, LockInv

Registering == {"ready", "lock_contract", "fetch_contract", "token", "lock_token", "fetch_token"}

(* Where a handler goes on once its token is registered. *)
LEMMA AfterTargetStage ==
    ASSUME RegInv, NEW i \in Batch, stage[i] \in Registering, NEW reg, reg[Target(i)] = "registered",
           \A t \in TokenId : registry[t] = "registered" => reg[t] = "registered"
    PROVE  /\ AfterTarget(i) \in {"token", "update"} /\ AfterTarget(i) \in Stages
           /\ AfterTarget(i) = "token" => ~is_erc20 /\ reg[Contract] = "registered"
           /\ AfterTarget(i) = "update" => reg[transfers[i].token] = "registered"
<1>1. i \in Events /\ i \in DOMAIN transfers /\ transfers[i].token \in Token /\ StageInv
  BY BatchEvents DEF RegInv
<1>2. CASE stage[i] \in {"ready", "lock_contract", "fetch_contract"}
  <2>1. Target(i) = Contract
    BY <1>2 DEF Target
  <2>2. is_erc20 => transfers[i].token = Contract
    BY <1>1 DEF Token
  <2> QED BY <2>1, <2>2 DEF AfterTarget, Stages
<1>3. CASE stage[i] \in {"token", "lock_token", "fetch_token"}
  <2>1. Target(i) = transfers[i].token /\ ~is_erc20
    BY <1>1, <1>3 DEF Target, StageInv
  <2>2. Target(i) # Contract
    BY <1>1, <2>1, Ids DEF Token
  <2> QED BY <2>1, <2>2 DEF AfterTarget, Stages
<1> QED BY <1>2, <1>3 DEF Registering

(* A step of a handler that stores nothing. *)
LEMMA NothingStored ==
    ASSUME RegInv, UNCHANGED <<contractVars, transfers, work, disk, total_supply_diff>>,
           \A t \in TokenId : registry'[t] = "registered" <=> registry[t] = "registered"
    PROVE  StoreInv'
<1>1. TokenId' = TokenId /\ StoreInv
  BY SameContract DEF RegInv
<1> QED BY <1>1 DEF StoreInv

(* The steps up to the mutex of a token. *)
LEMMA GetLockStep ==
    ASSUME RegInv, NEW i \in Events, NEW from, NEW to, GetLock(i, from, to),
           <<from, to>> \in {<<"ready", "lock_contract">>, <<"token", "lock_token">>}
    PROVE  RegInv'
<1> DEFINE t == Target(i)
<1>1. /\ i \in Batch /\ stage[i] = from /\ pc \in {"process", "failing"}
      /\ UNCHANGED <<contractVars, transfers, pos, last, disk, pc, held, balances_diff, total_supply_diff, work>>
  BY DEF GetLock, Handler
<1>2. from \in Registering /\ from \notin {"fetch_contract", "fetch_token"} /\ to \in Stages
      /\ to \notin {"fetch_contract", "fetch_token", "update", "done", "token"} /\ (to = "lock_token" => from = "token")
  BY DEF Registering, Stages
<1>3. t \in TokenId /\ TypeOK /\ StageInv /\ registry \in [TokenId -> {"absent", "registering", "registered"}]
  BY <1>1, TargetType DEF RegInv, TypeOK
<1> HIDE DEF t
<1>4. \E s \in Stages :
        /\ stage' = [stage EXCEPT ![i] = s]
        /\ registry' \in [TokenId -> {"absent", "registering", "registered"}]
        /\ \A u \in TokenId : registry'[u] = "registered" <=> registry[u] = "registered"
        /\ s \in {"token", "lock_token", "fetch_token"} => ~is_erc20 /\ registry'[Contract] = "registered"
        /\ s \in {"update", "done"} => registry'[transfers[i].token] = "registered"
        /\ s \notin {"fetch_contract", "fetch_token"}
  <2>1. CASE registry[t] = "registered"
    <3>1. stage' = [stage EXCEPT ![i] = AfterTarget(i)] /\ registry' = registry
      BY <2>1 DEF GetLock, Handler, t
    <3>2. /\ AfterTarget(i) \in {"token", "update"} /\ AfterTarget(i) \in Stages
          /\ AfterTarget(i) = "token" => ~is_erc20 /\ registry[Contract] = "registered"
          /\ AfterTarget(i) = "update" => registry[transfers[i].token] = "registered"
      BY <1>1, <1>2, <2>1, AfterTargetStage DEF t
    <3> QED BY <1>3, <3>1, <3>2, Zenon
  <2>2. CASE registry[t] # "registered"
    <3>1. stage' = [stage EXCEPT ![i] = to] /\ registry' = [registry EXCEPT ![t] = "registering"]
      BY <2>2 DEF GetLock, Handler, t
    <3>2. registry' \in [TokenId -> {"absent", "registering", "registered"}]
          /\ \A u \in TokenId : registry'[u] = "registered" <=> registry[u] = "registered"
      BY <1>3, <2>2, <3>1
    <3>3. to = "lock_token" => ~is_erc20 /\ registry[Contract] = "registered"
      BY <1>1, <1>2, <1>3, BatchEvents DEF StageInv
    <3> QED BY <1>2, <1>3, <3>1, <3>2, <3>3, BatchEvents, Zenon
  <2> QED BY <2>1, <2>2
<1>5. PICK s \in Stages :
        /\ stage' = [stage EXCEPT ![i] = s]
        /\ registry' \in [TokenId -> {"absent", "registering", "registered"}]
        /\ \A u \in TokenId : registry'[u] = "registered" <=> registry[u] = "registered"
        /\ s \in {"token", "lock_token", "fetch_token"} => ~is_erc20 /\ registry'[Contract] = "registered"
        /\ s \in {"update", "done"} => registry'[transfers[i].token] = "registered"
        /\ s \notin {"fetch_contract", "fetch_token"}
  BY <1>4, Zenon
<1>6. TypeOK'
  BY <1>1, <1>3, <1>5, HandlerType, Zenon DEF TypeOK
<1>7. StageInv'
  BY <1>1, <1>5, HandlerStages, Zenon
<1>8. LockInv'
  <2>1. \A u \in TokenId : held[u] # i
    BY <1>1, <1>2, HoldsNothing
  <2>2. held' = held /\ UNCHANGED <<contractVars, transfers, pos, last>>
    BY <1>1
  <2> QED BY <1>1, <1>5, <2>1, <2>2, HandlerLocks, ZenonT(30)
<1>9. StoreInv'
  BY <1>1, <1>5, NothingStored
<1> QED BY <1>6, <1>7, <1>8, <1>9 DEF RegInv

(* The mutex of a token is taken, unless the token has been registered. *)
LEMMA LockStep ==
    ASSUME RegInv, NEW i \in Events, NEW from, NEW to, Lock(i, from, to),
           <<from, to>> \in {<<"lock_contract", "fetch_contract">>, <<"lock_token", "fetch_token">>}
    PROVE  RegInv'
<1> DEFINE t == Target(i)
<1>1. /\ i \in Batch /\ stage[i] = from /\ pc \in {"process", "failing"} /\ held[t] = 0
      /\ UNCHANGED <<contractVars, transfers, pos, last, disk, pc, cacheVars, work>>
  BY DEF Lock, Handler
<1>2. from \in Registering /\ from \notin {"fetch_contract", "fetch_token"} /\ to \in Stages
      /\ to \in {"fetch_contract", "fetch_token"} /\ (to = "fetch_token" <=> from = "lock_token")
  BY DEF Registering, Stages
<1>3. t \in TokenId /\ TypeOK /\ StageInv /\ held \in [TokenId -> Nat] /\ i \in Nat
  BY <1>1, TargetType DEF RegInv, TypeOK, Events
<1>4. registry' = registry /\ balances_diff' = balances_diff /\ total_supply_diff' = total_supply_diff
  BY <1>1 DEF cacheVars
<1>5. t = IF to = "fetch_contract" THEN Contract ELSE transfers[i].token
  BY <1>1, <1>2 DEF Target
<1> HIDE DEF t
<1>6. \E s \in Stages :
        /\ stage' = [stage EXCEPT ![i] = s] /\ held' \in [TokenId -> Nat]
        /\ s \in {"token", "lock_token", "fetch_token"} => ~is_erc20 /\ registry[Contract] = "registered"
        /\ s \in {"update", "done"} => registry[transfers[i].token] = "registered"
        /\ \A u \in TokenId : held'[u] # 0 =>
               \/ held'[u] = held[u]
               \/ /\ held'[u] = i /\ s \in {"fetch_contract", "fetch_token"} /\ registry[u] # "registered"
                  /\ u = IF s = "fetch_contract" THEN Contract ELSE transfers[i].token
  <2>1. CASE registry[t] = "registered"
    <3>1. stage' = [stage EXCEPT ![i] = AfterTarget(i)] /\ held' = held
      BY <2>1 DEF Lock, Handler, t
    <3>2. /\ AfterTarget(i) \in {"token", "update"} /\ AfterTarget(i) \in Stages
          /\ AfterTarget(i) = "token" => ~is_erc20 /\ registry[Contract] = "registered"
          /\ AfterTarget(i) = "update" => registry[transfers[i].token] = "registered"
      BY <1>1, <1>2, <2>1, AfterTargetStage DEF t
    <3> QED BY <1>3, <3>1, <3>2, Zenon
  <2>2. CASE registry[t] # "registered"
    <3>1. stage' = [stage EXCEPT ![i] = to] /\ held' = [held EXCEPT ![t] = i]
      BY <2>2 DEF Lock, Handler, t
    <3>2. held' \in [TokenId -> Nat] /\ \A u \in TokenId : held'[u] = IF u = t THEN i ELSE held[u]
      BY <1>3, <3>1
    <3>3. to = "fetch_token" => ~is_erc20 /\ registry[Contract] = "registered"
      BY <1>1, <1>2, <1>3, BatchEvents DEF StageInv
    <3> QED BY <1>2, <1>5, <2>2, <3>1, <3>2, <3>3, Zenon
  <2> QED BY <2>1, <2>2
<1>7. PICK s \in Stages :
        /\ stage' = [stage EXCEPT ![i] = s] /\ held' \in [TokenId -> Nat]
        /\ s \in {"token", "lock_token", "fetch_token"} => ~is_erc20 /\ registry[Contract] = "registered"
        /\ s \in {"update", "done"} => registry[transfers[i].token] = "registered"
        /\ \A u \in TokenId : held'[u] # 0 =>
               \/ held'[u] = held[u]
               \/ /\ held'[u] = i /\ s \in {"fetch_contract", "fetch_token"} /\ registry[u] # "registered"
                  /\ u = IF s = "fetch_contract" THEN Contract ELSE transfers[i].token
  BY <1>6, Zenon
<1>8. TypeOK'
  BY <1>1, <1>3, <1>4, <1>7, HandlerType, Zenon DEF TypeOK
<1>9. StageInv'
  BY <1>1, <1>4, <1>7, HandlerStages, Zenon
<1>10. LockInv'
  <2>1. \A u \in TokenId : held[u] # i
    BY <1>1, <1>2, HoldsNothing
  <2>2. UNCHANGED <<contractVars, transfers, pos, last>>
    BY <1>1
  <2>3. \A u \in TokenId : held'[u] # 0 =>
           \/ held'[u] = held[u] /\ held[u] # i /\ (registry'[u] = "registered" => registry[u] = "registered")
           \/ /\ held'[u] = i /\ s \in {"fetch_contract", "fetch_token"} /\ registry'[u] # "registered"
              /\ u = IF s = "fetch_contract" THEN Contract ELSE transfers[i].token
    BY <1>4, <1>7, <2>1
  <2> QED BY <1>1, <1>7, <2>2, <2>3, HandlerLocks, Zenon
<1>11. StoreInv'
  BY <1>1, <1>4, NothingStored
<1> QED BY <1>8, <1>9, <1>10, <1>11 DEF RegInv

(* The changes that a map holds are integers. *)
LEMMA ChangeType ==
    ASSUME NEW diff, IsDiff(diff), NEW k
    PROVE  Change(diff, k) \in Int
BY DEF Change, Signed, IntOf, IsDiff

(* Where a map of changes has entries after one transfer. *)
LEMMA AfterDomains ==
    ASSUME NEW diff, NEW t, NEW from, NEW to, NEW v
    PROVE  /\ \A k \in DOMAIN BalancesAfter(diff, t, from, to, v) :
                  k \in DOMAIN diff \/ (from # Zero /\ k = <<from, t>>) \/ (to # Zero /\ k = <<to, t>>)
           /\ \A k \in DOMAIN SupplyAfter(diff, t, from, to, v) : k \in DOMAIN diff \/ k = t
BY DEF BalancesAfter, SupplyAfter, Debit, Credit

(* The map new has the changes of old to balances, and those the transfer e makes. *)
MovesBy(new, old, e) ==
    /\ IsDiff(new)
    /\ \A a, t : a # Zero => Change(new, <<a, t>>) = Change(old, <<a, t>>) + Moved(e, a, t)

(* The map new has the changes of old to supplies, and the one the transfer e makes. *)
MintsBy(new, old, e) ==
    /\ IsDiff(new)
    /\ \A t : Change(new, t) = Change(old, t) + Minted(e, t)

(* By how much a transfer changes the balances it is about. *)
LEMMA BalancesAfterChange ==
    ASSUME NEW diff, IsDiff(diff), NEW e, e.value \in Nat
    PROVE  MovesBy(BalancesAfter(diff, e.token, e.from, e.to, e.value), diff, e)
<1> DEFINE v == e.value
           f == <<e.from, e.token>>
           g == <<e.to, e.token>>
           d == IF e.from # Zero THEN Debit(diff, f, v) ELSE diff
           c == IF e.to # Zero THEN Credit(d, g, v) ELSE d
<1>1. c = BalancesAfter(diff, e.token, e.from, e.to, e.value)
  BY DEF BalancesAfter
<1>2. \A a, t : (f = <<a, t>> <=> e.from = a /\ e.token = t) /\ (g = <<a, t>> <=> e.to = a /\ e.token = t)
  OBVIOUS
<1>v. v \in Nat
  OBVIOUS
<1> HIDE DEF f, g, v
<1>3. ChangedBy(Debit(diff, f, v), diff, f, 0 - v)
  BY <1>v, DebitIsDebit
<1>4. IsDiff(d) /\ \A k : Change(d, k) = Change(diff, k) - (IF e.from # Zero /\ k = f THEN v ELSE 0)
  BY <1>3, <1>v, ChangeType DEF ChangedBy
<1> HIDE DEF d
<1>5. IsDiff(d)
  BY <1>4
<1>6. ChangedBy(Credit(d, g, v), d, g, v)
  BY <1>v, <1>5, CreditIsCredit
<1>7. IsDiff(c) /\ \A k : Change(c, k) = Change(d, k) + (IF e.to # Zero /\ k = g THEN v ELSE 0)
  BY <1>5, <1>6, <1>v, ChangeType DEF ChangedBy
<1> HIDE DEF c
<1>8. ASSUME NEW a, NEW t, a # Zero
      PROVE  Change(c, <<a, t>>) = Change(diff, <<a, t>>) + Moved(e, a, t)
  <2> DEFINE k == <<a, t>>
             x == Change(diff, k)
             y == IF e.to = a /\ e.token = t THEN v ELSE 0
             z == IF e.from = a /\ e.token = t THEN v ELSE 0
  <2>1. (k = g <=> e.to = a /\ e.token = t) /\ (k = f <=> e.from = a /\ e.token = t)
    BY <1>2
  <2> HIDE DEF k
  <2>2. Change(c, k) = Change(d, k) + (IF e.to # Zero /\ k = g THEN v ELSE 0)
        /\ Change(d, k) = Change(diff, k) - (IF e.from # Zero /\ k = f THEN v ELSE 0)
    BY <1>4, <1>7
  <2>3. Change(c, k) = Change(d, k) + y /\ Change(d, k) = x - z
    BY <1>8, <2>1, <2>2
  <2>4. x \in Int /\ y \in Int /\ z \in Int
    BY <1>v, ChangeType
  <2>5. Moved(e, a, t) = y - z
    BY <1>v DEF Moved, v
  <2> HIDE DEF x, y, z
  <2>6. Change(c, k) = x + (y - z)
    BY <2>3, <2>4
  <2> QED BY <2>5, <2>6 DEF x, k
<1> QED BY <1>1, <1>7, <1>8 DEF MovesBy

(* By how much a transfer changes a supply. *)
LEMMA SupplyAfterChange ==
    ASSUME NEW diff, IsDiff(diff), NEW e, e.value \in Nat
    PROVE  MintsBy(SupplyAfter(diff, e.token, e.from, e.to, e.value), diff, e)
<1> DEFINE v == e.value
           k == e.token
           s == SupplyAfter(diff, k, e.from, e.to, v)
<1>v. v \in Nat
  OBVIOUS
<1>0. \A t : Minted(e, t) = IF k = t
                            THEN (IF e.from = Zero /\ e.to # Zero THEN v
                                  ELSE IF e.from # Zero /\ e.to = Zero THEN 0 - v ELSE 0)
                            ELSE 0
  BY DEF Minted
<1>s. s = IF e.from = Zero /\ e.to # Zero THEN Credit(diff, k, v)
          ELSE IF e.from # Zero /\ e.to = Zero THEN Debit(diff, k, v) ELSE diff
  BY DEF SupplyAfter
<1> HIDE DEF v, k, s
<1>1. ChangedBy(Credit(diff, k, v), diff, k, v) /\ ChangedBy(Debit(diff, k, v), diff, k, 0 - v)
  BY <1>v, CreditIsCredit, DebitIsDebit
<1>3. ASSUME NEW t PROVE IsDiff(s) /\ Change(s, t) = Change(diff, t) + Minted(e, t)
  BY <1>0, <1>1, <1>s, <1>v, ChangeType DEF ChangedBy
<1> QED BY <1>3 DEF s, k, v, MintsBy

(* A token is registered: its row is inserted, for the first time. *)
LEMMA RegisterStep ==
    ASSUME RegInv, NEW i \in Events, NEW from \in {"fetch_contract", "fetch_token"}, Register(i, from)
    PROVE  RegInv' /\ work.tokens[Target(i)] = 0
<1> DEFINE t == Target(i)
           s == AfterTarget(i)
<1>1. /\ i \in Batch /\ stage[i] = from /\ pc \in {"process", "failing"} /\ held[t] = i
      /\ stage' = [stage EXCEPT ![i] = s]
      /\ UNCHANGED <<contractVars, transfers, pos, last, disk, pc>>
  BY DEF Register, Handler
<1>2. /\ work' = [work EXCEPT !.tokens[t] = @ + 1] /\ registry' = [registry EXCEPT ![t] = "registered"]
      /\ held' = [held EXCEPT ![t] = 0]
  BY DEF Register
<1>3. /\ t \in TokenId /\ TypeOK /\ StageInv /\ LockInv /\ StoreInv /\ held \in [TokenId -> Nat]
      /\ registry \in [TokenId -> {"absent", "registering", "registered"}]
      /\ work \in Store /\ IsDiff(total_supply_diff) /\ IsDiff(balances_diff)
      /\ DOMAIN total_supply_diff \subseteq TokenId /\ DOMAIN balances_diff \subseteq BalanceId
  BY <1>1, TargetType DEF RegInv, TypeOK
<1>4. i # 0 /\ from \in Registering
  BY <1>1, <1>3, BatchEvents DEF Registering
<1>5. t = IF from = "fetch_contract" THEN Contract ELSE transfers[i].token
  BY <1>1 DEF Target
<1> HIDE DEF t, s
<1>6. registry[t] # "registered"
  BY <1>1, <1>3, <1>4 DEF LockInv
<1>7. work.tokens \in [TokenId -> {0, 1}] /\ work.tokens[t] = 0
  BY <1>3, <1>6, StoreFields DEF StoreInv
<1>8. /\ work'.tokens = [work.tokens EXCEPT ![t] = 1] /\ work'.transfers = work.transfers
      /\ work' \in Store /\ work'.balances = work.balances /\ work'.supply = work.supply
  BY <1>2, <1>3, <1>7, StoreFields DEF Store
<1>9. /\ registry' \in [TokenId -> {"absent", "registering", "registered"}]
      /\ \A u \in TokenId : registry'[u] = IF u = t THEN "registered" ELSE registry[u]
  BY <1>2, <1>3
<1>10. held' \in [TokenId -> Nat] /\ \A u \in TokenId : held'[u] = IF u = t THEN 0 ELSE held[u]
  BY <1>2, <1>3
<1>11. /\ IsDiff(balances_diff') /\ DOMAIN balances_diff' \subseteq BalanceId
       /\ IsDiff(total_supply_diff') /\ DOMAIN total_supply_diff' \subseteq TokenId
       /\ \A u \in DOMAIN total_supply_diff' :
              u \in DOMAIN total_supply_diff \/ (u = Contract /\ registry'[Contract] = "registered")
  <2>1. CASE t = Contract
    BY <1>3, <2>1 DEF Register, t
  <2>2. CASE t # Contract
    <3>1. /\ balances_diff' = BalancesAfter(balances_diff, Contract, Zero, One, 1)
          /\ total_supply_diff' = SupplyAfter(total_supply_diff, Contract, Zero, One, 1)
      BY <2>2 DEF Register, update_balance_diff, t
    <3>2. Contract \in TokenId /\ <<One, Contract>> \in BalanceId
      BY DEF BalanceId, Holder, TokenId
    <3> DEFINE m == [token |-> Contract, from |-> Zero, to |-> One, value |-> 1]
    <3>0. m.token = Contract /\ m.from = Zero /\ m.to = One /\ m.value = 1 /\ m.value \in Nat
      OBVIOUS
    <3> HIDE DEF m
    <3>3. /\ MovesBy(BalancesAfter(balances_diff, m.token, m.from, m.to, m.value), balances_diff, m)
          /\ MintsBy(SupplyAfter(total_supply_diff, m.token, m.from, m.to, m.value), total_supply_diff, m)
      BY <1>3, <3>0, BalancesAfterChange, SupplyAfterChange
    <3>4. IsDiff(balances_diff') /\ IsDiff(total_supply_diff')
      BY <3>0, <3>1, <3>3 DEF MovesBy, MintsBy
    <3>6. DOMAIN balances_diff' \subseteq BalanceId
          /\ DOMAIN total_supply_diff' \subseteq DOMAIN total_supply_diff \cup {Contract}
      BY <1>3, <3>1, <3>2, AfterDomains
    <3>5. registry[Contract] = "registered"
      BY <1>1, <1>3, <1>5, <2>2 DEF StageInv
    <3> QED BY <1>3, <1>9, <3>2, <3>4, <3>5, <3>6
  <2> QED BY <2>1, <2>2
<1>12. /\ s \in {"token", "update"} /\ s \in Stages
       /\ s = "token" => ~is_erc20 /\ registry'[Contract] = "registered"
       /\ s = "update" => registry'[transfers[i].token] = "registered"
  BY <1>1, <1>3, <1>4, <1>9, AfterTargetStage DEF t, s
<1>13. TypeOK'
  BY <1>1, <1>3, <1>8, <1>9, <1>10, <1>11, <1>12, HandlerType, Zenon
<1>14. StageInv'
  BY <1>1, <1>9, <1>12, HandlerStages, Zenon
<1>15. LockInv'
  <2>1. \A u \in TokenId : held'[u] # 0 => held'[u] = held[u] /\ held[u] # i
                                            /\ (registry'[u] = "registered" => registry[u] = "registered")
    <3> SUFFICES ASSUME NEW u \in TokenId, held'[u] # 0
                 PROVE  held'[u] = held[u] /\ held[u] # i /\ (registry'[u] = "registered" => registry[u] = "registered")
      OBVIOUS
    <3>1. u # t /\ held'[u] = held[u] /\ registry'[u] = registry[u]
      BY <1>9, <1>10
    <3>2. held[u] = i => u = t
      BY <1>3, <1>4, <3>1 DEF LockInv, t
    <3> QED BY <3>1, <3>2
  <2>2. UNCHANGED <<contractVars, transfers, pos, last>>
    BY <1>1
  <2> QED BY <1>1, <1>12, <2>1, <2>2, HandlerLocks, Zenon
<1>16. StoreInv'
  <2>1. TokenId' = TokenId /\ transfers' = transfers /\ disk' = disk
    BY <1>1, SameContract
  <2>2. \A u \in TokenId : work'.tokens[u] = IF u = t THEN 1 ELSE work.tokens[u]
    BY <1>7, <1>8
  <2>3. \A u \in TokenId : registry'[u] = "registered" <=> work'.tokens[u] = 1
    BY <1>3, <1>9, <2>2 DEF StoreInv
  <2>4. \A j \in work'.transfers : j \in DOMAIN transfers /\ work'.tokens[transfers[j].token] = 1
    <3> SUFFICES ASSUME NEW j \in work'.transfers
                 PROVE  j \in DOMAIN transfers /\ work'.tokens[transfers[j].token] = 1
      OBVIOUS
    <3>1. j \in DOMAIN transfers /\ work.tokens[transfers[j].token] = 1 /\ transfers[j].token \in TokenId
      BY <1>3, <1>8, BatchEvents DEF StoreInv
    <3> QED BY <2>2, <3>1
  <2>5. \A u \in DOMAIN total_supply_diff' : work'.tokens[u] = 1
    <3> SUFFICES ASSUME NEW u \in DOMAIN total_supply_diff' PROVE work'.tokens[u] = 1
      OBVIOUS
    <3>1. CASE u \in DOMAIN total_supply_diff
      BY <1>3, <2>2, <3>1 DEF StoreInv
    <3>2. CASE u = Contract /\ registry'[Contract] = "registered"
      BY <1>3, <2>3, <3>2, BatchEvents
    <3> QED BY <1>11, <3>1, <3>2
  <2> QED BY <1>3, <2>1, <2>3, <2>4, <2>5 DEF StoreInv
<1> QED BY <1>7, <1>13, <1>14, <1>15, <1>16 DEF RegInv, t

(* A registration fails and gives its mutex up. *)
LEMMA FetchFailsStep ==
    ASSUME RegInv, NEW i \in Events, FetchFails(i)
    PROVE  RegInv'
<1> DEFINE t == Target(i)
<1>1. /\ i \in Batch /\ stage[i] \in {"fetch_contract", "fetch_token"} /\ pc' = "failing"
      /\ stage' = [stage EXCEPT ![i] = "failed"] /\ held' = [held EXCEPT ![t] = 0]
      /\ UNCHANGED <<contractVars, transfers, pos, last, cacheVars, work, disk>>
  BY DEF FetchFails
<1>2. t \in TokenId /\ TypeOK /\ LockInv /\ held \in [TokenId -> Nat]
  BY <1>1, TargetType DEF RegInv, TypeOK
<1>3. registry' = registry /\ balances_diff' = balances_diff /\ total_supply_diff' = total_supply_diff
  BY <1>1 DEF cacheVars
<1>4. "failed" \in Stages
  BY DEF Stages
<1> HIDE DEF t
<1>5. held' \in [TokenId -> Nat] /\ \A u \in TokenId : held'[u] = IF u = t THEN 0 ELSE held[u]
  BY <1>1, <1>2
<1>6. TypeOK'
  BY <1>1, <1>2, <1>3, <1>4, <1>5, HandlerType, Zenon DEF TypeOK
<1>7. StageInv'
  BY <1>1, <1>3, <1>4, HandlerStages, Zenon
<1>8. LockInv'
  <2>1. \A u \in TokenId : held'[u] # 0 => held'[u] = held[u] /\ held[u] # i
    BY <1>2, <1>5 DEF LockInv, t
  <2>2. UNCHANGED <<contractVars, transfers, pos, last>>
    BY <1>1
  <2> QED BY <1>1, <1>3, <1>4, <2>1, <2>2, HandlerLocks, Zenon
<1>9. StoreInv'
  BY <1>1, <1>3, NothingStored
<1> QED BY <1>6, <1>7, <1>8, <1>9 DEF RegInv

(* A transfer of a registered token is stored, with its changes. *)
LEMMA UpdateStep ==
    ASSUME RegInv, NEW i \in Events, UpdateBalances(i)
    PROVE  RegInv'
<1> DEFINE e == transfers[i]
<1>1. /\ i \in Batch /\ stage[i] = "update" /\ pc \in {"process", "failing"}
      /\ stage' = [stage EXCEPT ![i] = "done"]
      /\ UNCHANGED <<contractVars, transfers, pos, last, disk, pc, held, registry>>
  BY DEF UpdateBalances, Handler
<1>2. /\ balances_diff' = BalancesAfter(balances_diff, e.token, e.from, e.to, e.value)
      /\ total_supply_diff' = SupplyAfter(total_supply_diff, e.token, e.from, e.to, e.value)
      /\ work' = [work EXCEPT !.transfers = @ \cup {i}]
  BY DEF UpdateBalances, update_balance_diff
<1>3. /\ TypeOK /\ StageInv /\ StoreInv /\ work \in Store /\ IsDiff(total_supply_diff) /\ IsDiff(balances_diff)
      /\ DOMAIN total_supply_diff \subseteq TokenId /\ DOMAIN balances_diff \subseteq BalanceId
  BY DEF RegInv, TypeOK
<1>4. i \in DOMAIN transfers /\ e \in TransferEvent /\ e.token \in TokenId /\ "done" \in Stages
  BY <1>1, <1>3, BatchEvents DEF Stages
<1>5. e.from \in Address /\ e.to \in Address /\ e.value \in Nat
  BY <1>4 DEF TransferEvent
<1>6. registry[e.token] = "registered" /\ work.tokens[e.token] = 1
  BY <1>1, <1>3, <1>4 DEF StageInv, StoreInv
<1> HIDE DEF e
<1>7. (e.from # Zero => <<e.from, e.token>> \in BalanceId) /\ (e.to # Zero => <<e.to, e.token>> \in BalanceId)
  BY <1>4, <1>5 DEF BalanceId, Holder, Address
<1>8. IsDiff(balances_diff') /\ DOMAIN balances_diff' \subseteq BalanceId
  <2>1. MovesBy(balances_diff', balances_diff, e)
    BY <1>2, <1>3, <1>5, BalancesAfterChange
  <2> QED BY <1>2, <1>3, <1>7, <2>1, AfterDomains DEF MovesBy
<1>9. IsDiff(total_supply_diff') /\ DOMAIN total_supply_diff' \subseteq DOMAIN total_supply_diff \cup {e.token}
  <2>1. MintsBy(total_supply_diff', total_supply_diff, e)
    BY <1>2, <1>3, <1>5, SupplyAfterChange
  <2> QED BY <1>2, <2>1, AfterDomains DEF MintsBy
<1>10. work' \in Store /\ work'.tokens = work.tokens /\ work'.transfers = work.transfers \cup {i}
       /\ work'.balances = work.balances /\ work'.supply = work.supply
  BY <1>2, <1>3, StoreFields DEF Store
<1>11. TypeOK'
  BY <1>1, <1>3, <1>4, <1>8, <1>9, <1>10, HandlerType, Zenon DEF TypeOK
<1>12. StageInv'
  BY <1>1, <1>4, <1>6, HandlerStages, Zenon DEF e
<1>13. LockInv'
  <2>1. \A u \in TokenId : held[u] # i
    BY <1>1, HoldsNothing
  <2>2. UNCHANGED <<contractVars, transfers, pos, last>>
    BY <1>1, SMTT(30)
  <2> QED BY <1>1, <1>4, <2>1, <2>2, HandlerLocks, Zenon
<1>14. StoreInv'
  <2>1. TokenId' = TokenId /\ transfers' = transfers /\ disk' = disk /\ registry' = registry
    BY <1>1, SameContract
  <2>2. \A j \in work'.transfers : j \in DOMAIN transfers /\ work'.tokens[transfers[j].token] = 1
    BY <1>3, <1>4, <1>6, <1>10, SMTT(30) DEF StoreInv, e
  <2>3. \A u \in DOMAIN total_supply_diff' : work'.tokens[u] = 1
    BY <1>3, <1>6, <1>9, <1>10 DEF StoreInv
  <2> QED BY <1>3, <1>10, <2>1, <2>2, <2>3 DEF StoreInv
<1> QED BY <1>11, <1>12, <1>13, <1>14 DEF RegInv

(* A transfer on chain. *)
LEMMA ChainStep ==
    ASSUME RegInv, Chain
    PROVE  /\ RegInv' /\ UNCHANGED <<contractVars, pos, last, stage, held, cacheVars, work, disk, pc, faults>>
           /\ \E e \in TransferEvent : transfers' = Append(transfers, e) /\ e.token \in Token
                  /\ (e.from # Zero => e.value <= BalanceOf(e.from, e.token, Len(transfers)))
<1>1. PICK t \in Token, from \in Account \cup {Zero}, to \in Account \cup {Zero}, v \in Amount : Transfer(t, from, to, v)
  BY DEF Chain
<1> DEFINE e == [token |-> t, from |-> from, to |-> to, value |-> v]
<1>2. v \in Nat
  BY Bounds DEF Amount
<1>3. e \in TransferEvent /\ e.token \in Token
  BY <1>2 DEF TransferEvent, Address, Token
<1>4. /\ UNCHANGED <<contractVars, pos, last, stage, held, cacheVars, work, disk, pc, faults>>
      /\ transfers' = Append(transfers, e) /\ Len(transfers) < MaxEvents
      /\ (e.from # Zero => e.value <= BalanceOf(e.from, e.token, Len(transfers)))
  BY <1>1 DEF Transfer
<1> HIDE DEF e
<1>5. TypeOK /\ transfers \in Seq(TransferEvent) /\ Len(transfers) \in Nat /\ MaxEvents \in Nat
  BY Bounds, SMTT(30) DEF RegInv, TypeOK
<1>6. /\ transfers' \in Seq(TransferEvent) /\ Len(transfers') = Len(transfers) + 1
      /\ DOMAIN transfers \subseteq DOMAIN transfers' /\ \A i \in DOMAIN transfers : transfers'[i] = transfers[i]
      /\ \A i \in DOMAIN transfers' : transfers'[i].token \in Token
  <2>1. \A i \in DOMAIN transfers : transfers[i].token \in Token
    BY <1>5 DEF TypeOK
  <2> QED BY <1>3, <1>4, <1>5, <2>1
<1>7. /\ Batch' = Batch /\ TokenId' = TokenId /\ BalanceId' = BalanceId /\ Store' = Store /\ registry' = registry
      /\ Token' = Token /\ is_erc20' = is_erc20 /\ UNCHANGED <<balances_diff, total_supply_diff>>
      /\ unreadable' = unreadable
  BY <1>4, SameContract DEF Batch, cacheVars
<1>8. TypeOK'
  BY <1>4, <1>5, <1>6, <1>7 DEF TypeOK
<1>9. StageInv'
  <2>1. StageInv /\ \A i \in Events : stage[i] # "ready" => i \in DOMAIN transfers
    BY <1>5, BatchEvents DEF RegInv, StageInv
  <2>2. \A i \in Events : stage[i] \in {"update", "done"} => transfers'[i] = transfers[i]
    BY <1>6, <2>1
  <2> QED BY <1>4, <1>7, <2>1, <2>2, Zenon DEF StageInv
<1>10. LockInv'
  <2>1. LockInv /\ \A u \in TokenId : held[u] # 0 => transfers'[held[u]] = transfers[held[u]]
    BY <1>5, <1>6, BatchEvents, Zenon DEF RegInv, LockInv
  <2> QED BY <1>4, <1>7, <2>1, ZenonT(30) DEF LockInv, Target
<1>11. StoreInv'
  <2>1. StoreInv
    BY DEF RegInv
  <2> QED BY <1>4, <1>6, <1>7, <2>1, Zenon DEF StoreInv
<1> QED BY <1>3, <1>4, <1>8, <1>9, <1>10, <1>11 DEF RegInv

(* No mutex is held while no handler is at work. *)
LEMMA NoneHeld ==
    ASSUME RegInv, \A i \in Batch : stage[i] \in {"ready", "done", "failed"}
    PROVE  \A t \in TokenId : held[t] = 0
BY Zenon DEF RegInv, LockInv

(* The stages are all "ready" again, no mutex is held. *)
LEMMA ReadyStages ==
    ASSUME UNCHANGED contractVars, stage' = Idle, pc' # "commit", \A t \in TokenId : held'[t] = 0
    PROVE  StageInv' /\ LockInv'
<1>1. TokenId' = TokenId /\ \A i \in Events : stage'[i] = "ready"
  BY SameContract DEF Idle
<1> QED BY <1>1 DEF StageInv, LockInv

(* Handlers that have not begun. *)
LEMMA IdleStages == Idle \in [Events -> Stages]
BY DEF Idle, Stages

(* The empty map of changes. *)
LEMMA EmptyDiff == IsDiff(NoDiff) /\ DOMAIN NoDiff = {} /\ \A k : Change(NoDiff, k) = 0
BY DEF IsDiff, NoDiff, Change

(* What transfers add to a balance is an integer. *)
LEMMA MovedType ==
    ASSUME NEW e \in TransferEvent, NEW a, NEW t
    PROVE  Moved(e, a, t) \in Int
<1>1. e.value \in Nat
  BY DEF TransferEvent
<1> QED BY <1>1 DEF Moved

(* A balance on the chain is an integer. *)
LEMMA BalanceType ==
    ASSUME SumLaws, transfers \in Seq(TransferEvent), NEW n \in Nat, n <= Len(transfers), NEW a, NEW t
    PROVE  BalanceOf(a, t, n) = Net(transfers, a, t, 1..n) /\ BalanceOf(a, t, n) \in Int
<1>1. BalanceOf(a, t, n) = Net(transfers, a, t, 1..n)
  BY DEF SumLaws, ChainLaw, BalanceOf
<1>2. 1..n \subseteq DOMAIN transfers
  OBVIOUS
<1>3. NetAdds(transfers, a, t, 1..n)
  BY <1>2, Zenon DEF SumLaws, AddLaw
<1>4. Net(transfers, a, t, 1..n) \in Int
  BY <1>3 DEF NetAdds
<1> QED BY <1>1, <1>4

(* A batch starts with every handler ready and no mutex held. *)
LEMMA StartStep ==
    ASSUME RegInv, StartBatch
    PROVE  RegInv'
<1>1. /\ pc = "idle" /\ last' \in (pos + 1)..Len(transfers) /\ stage' = Idle /\ pc' = "process"
      /\ UNCHANGED <<contractVars, transfers, pos, held, registry, balances_diff, total_supply_diff, work, disk>>
  BY DEF StartBatch, cacheVars
<1>2. TypeOK /\ pos \in Nat /\ last \in Nat /\ Len(transfers) \in Nat
  BY DEF RegInv, TypeOK
<1>3. last' \in Nat /\ pos <= last' /\ last' <= Len(transfers)
  BY <1>1, <1>2
<1>4. /\ TokenId' = TokenId /\ BalanceId' = BalanceId /\ Store' = Store /\ Token' = Token
      /\ is_erc20' = is_erc20 /\ unreadable' = unreadable /\ UNCHANGED contractVars
  BY <1>1, SameContract
<1>5. TypeOK'
  BY <1>1, <1>2, <1>3, <1>4, IdleStages DEF TypeOK
<1>6. \A t \in TokenId : held[t] = 0
  <2>1. \A i \in Batch : stage[i] = "ready"
    BY <1>1, <1>2, BatchEvents, Zenon DEF RegInv, StageInv
  <2> QED BY <2>1, NoneHeld
<1>7. StageInv' /\ LockInv'
  BY <1>1, <1>6, ReadyStages, SMTT(30)
<1>8. StoreInv'
  BY <1>1, <1>4 DEF RegInv, StoreInv
<1> QED BY <1>5, <1>7, <1>8 DEF RegInv

(* The changes are applied: every token they are of has its row. *)
LEMMA ApplyStep ==
    ASSUME SumLaws, RegInv, ApplyBalanceDiff
    PROVE  /\ RegInv'
           /\ work' = [work EXCEPT !.supply = [t \in TokenId |-> AppliedSupply(t)],
                                   !.balances = [b \in BalanceId |-> AppliedBalance(b)]]
           /\ work'.tokens = work.tokens
           /\ work'.supply = [t \in TokenId |-> AppliedSupply(t)]
           /\ work'.balances = [b \in BalanceId |-> AppliedBalance(b)]
<1>1. /\ pc = "process" /\ pc' = "commit" /\ \A i \in Batch : stage[i] = "done"
      /\ balances_diff' = NoDiff /\ total_supply_diff' = NoDiff
      /\ UNCHANGED <<contractVars, transfers, pos, last, stage, held, registry, disk>>
  BY DEF ApplyBalanceDiff
<1>2. TypeOK /\ StageInv /\ LockInv /\ StoreInv /\ work \in Store /\ IsDiff(total_supply_diff) /\ IsDiff(balances_diff)
      /\ transfers \in Seq(TransferEvent) /\ last \in Nat /\ last <= Len(transfers)
  BY DEF RegInv, TypeOK
<1> DEFINE sp == [t \in TokenId |-> AppliedSupply(t)]
           bl == [b \in BalanceId |-> AppliedBalance(b)]
<1>3. \A t \in DOMAIN total_supply_diff : work.tokens[t] > 0
  BY <1>2 DEF StoreInv
<1>4. work' = [work EXCEPT !.supply = sp, !.balances = bl]
  BY <1>3 DEF ApplyBalanceDiff
<1>5. sp \in [TokenId -> Int]
  <2> SUFFICES ASSUME NEW t \in TokenId PROVE AppliedSupply(t) \in Int
    OBVIOUS
  <2>1. work.supply[t] \in Int
    BY <1>2, StoreFields
  <2>2. Change(total_supply_diff, t) \in Int
    BY <1>2 DEF Change, IsDiff, Signed, IntOf
  <2> QED BY <2>1, <2>2 DEF AppliedSupply
<1>6. bl \in [BalanceId -> Int]
  <2> SUFFICES ASSUME NEW b \in BalanceId PROVE AppliedBalance(b) \in Int
    OBVIOUS
  <2>1. work.balances[b] \in Int
    BY <1>2, StoreFields
  <2>2. Change(balances_diff, b) \in Int
    BY <1>2 DEF Change, IsDiff, Signed, IntOf
  <2>3. BalanceOf(b[1], b[2], last) \in Int
    BY <1>2, BalanceType
  <2> QED BY <2>1, <2>2, <2>3 DEF AppliedBalance
<1> HIDE DEF sp, bl
<1>7. /\ work' \in Store /\ work'.tokens = work.tokens /\ work'.transfers = work.transfers
      /\ work'.supply = sp /\ work'.balances = bl
  BY <1>2, <1>4, <1>5, <1>6, StoreFields, Zenon DEF Store
<1>8. /\ TokenId' = TokenId /\ BalanceId' = BalanceId /\ Store' = Store /\ Token' = Token
      /\ is_erc20' = is_erc20 /\ unreadable' = unreadable /\ Batch' = Batch
  BY <1>1, SameContract DEF Batch
<1>9. TypeOK'
  BY <1>1, <1>2, <1>7, <1>8, EmptyDiff DEF TypeOK
<1>10. StageInv'
  BY <1>1, <1>2, <1>8, ZenonT(30) DEF StageInv
<1>11. LockInv'
  BY <1>1, <1>2, <1>8, Zenon DEF LockInv, Target
<1>12. StoreInv'
  BY <1>1, <1>2, <1>7, <1>8, EmptyDiff DEF StoreInv
<1> QED BY <1>4, <1>7, <1>9, <1>10, <1>11, <1>12 DEF RegInv, sp, bl

(* A commit ends the batch. *)
LEMMA ExecuteStep ==
    ASSUME RegInv, Execute
    PROVE  RegInv'
<1>1. /\ pc = "commit" /\ pc' = "idle" /\ disk' = work /\ pos' = last /\ stage' = Idle
      /\ UNCHANGED <<contractVars, transfers, last, held, registry, balances_diff, total_supply_diff, work>>
  BY DEF Execute, cacheVars
<1>2. TypeOK /\ StageInv /\ StoreInv /\ last \in Nat
  BY DEF RegInv, TypeOK
<1>3. /\ TokenId' = TokenId /\ BalanceId' = BalanceId /\ Store' = Store /\ Token' = Token
      /\ is_erc20' = is_erc20 /\ unreadable' = unreadable /\ UNCHANGED contractVars
  BY <1>1, SameContract
<1>4. TypeOK'
  BY <1>1, <1>2, <1>3, IdleStages DEF TypeOK
<1>5. \A t \in TokenId : held[t] = 0
  BY <1>1, <1>2, NoneHeld DEF StageInv
<1>6. StageInv' /\ LockInv'
  BY <1>1, <1>5, ReadyStages
<1>7. StoreInv'
  BY <1>1, <1>2, <1>3 DEF StoreInv
<1> QED BY <1>4, <1>6, <1>7 DEF RegInv

(* A rollback, or a restart, starts from what is committed. *)
LEMMA ResetStep ==
    ASSUME RegInv, Rollback \/ Crash
    PROVE  RegInv'
<1>1. /\ pc' \in {"idle", "process"} /\ registry' = Registry(disk) /\ balances_diff' = NoDiff
      /\ total_supply_diff' = NoDiff /\ work' = disk /\ stage' = Idle
      /\ UNCHANGED <<contractVars, transfers, pos, last, disk>>
  BY DEF Rollback, Crash, ResetToCommitted
<1>2. TypeOK /\ StoreInv /\ disk \in Store /\ held \in [TokenId -> Nat]
  BY DEF RegInv, TypeOK
<1>3. held' \in [TokenId -> Nat] /\ \A t \in TokenId : held'[t] = 0
  <2>1. CASE Rollback
    BY <1>2, <2>1, NoneHeld DEF Rollback
  <2>2. CASE Crash
    BY <2>2 DEF Crash
  <2> QED BY <2>1, <2>2
<1>4. /\ registry' \in [TokenId -> {"absent", "registering", "registered"}]
      /\ \A t \in TokenId : registry'[t] = "registered" <=> disk.tokens[t] = 1
  <2>1. disk.tokens \in [TokenId -> {0, 1}]
    BY <1>2, StoreFields
  <2> QED BY <1>1, <2>1 DEF Registry
<1>5. /\ TokenId' = TokenId /\ BalanceId' = BalanceId /\ Store' = Store /\ Token' = Token
      /\ is_erc20' = is_erc20 /\ unreadable' = unreadable /\ UNCHANGED contractVars
  BY <1>1, SameContract
<1>6. TypeOK'
  BY <1>1, <1>2, <1>3, <1>4, <1>5, IdleStages, EmptyDiff, Zenon DEF TypeOK
<1>7. StageInv' /\ LockInv'
  BY <1>1, <1>3, ReadyStages
<1>8. StoreInv'
  BY <1>1, <1>2, <1>4, <1>5, EmptyDiff, Zenon DEF StoreInv
<1> QED BY <1>6, <1>7, <1>8 DEF RegInv

(* Nothing is registered to begin with. *)
LEMMA RegInit == Init => RegInv
<1> SUFFICES ASSUME Init PROVE RegInv
  OBVIOUS
<1>1. /\ is_erc20 \in BOOLEAN /\ unreadable \in SUBSET Nft /\ transfers = << >> /\ pos = 0 /\ last = 0
      /\ stage = Idle /\ held = [t \in TokenId |-> 0] /\ registry = [t \in TokenId |-> "absent"]
      /\ balances_diff = NoDiff /\ total_supply_diff = NoDiff /\ work = EmptyStore /\ disk = EmptyStore /\ pc = "idle"
  BY Ids DEF Init
<1>2. /\ EmptyStore \in Store /\ EmptyStore.tokens = [t \in TokenId |-> 0] /\ EmptyStore.transfers = {}
  BY DEF EmptyStore, Store
<1>3. transfers \in Seq(TransferEvent) /\ Len(transfers) = 0
  BY <1>1
<1>4. TypeOK
  BY <1>1, <1>2, <1>3, IdleStages, EmptyDiff, Bounds DEF TypeOK
<1>5. StageInv /\ LockInv
  BY <1>1 DEF StageInv, LockInv, Idle
<1>6. StoreInv
  BY <1>1, <1>2, EmptyDiff DEF StoreInv
<1> QED BY <1>4, <1>5, <1>6 DEF RegInv

(* A step that changes nothing. *)
LEMMA RegStutter == RegInv /\ UNCHANGED vars => RegInv'
<1> SUFFICES ASSUME RegInv, UNCHANGED vars PROVE RegInv'
  OBVIOUS
<1>1. /\ UNCHANGED contractVars
      /\ UNCHANGED <<transfers, pos, last, stage, held, registry, balances_diff, total_supply_diff, work, disk, pc>>
  BY DEF vars, contractVars
<1>2. /\ TokenId' = TokenId /\ BalanceId' = BalanceId /\ Store' = Store /\ Token' = Token
      /\ is_erc20' = is_erc20 /\ unreadable' = unreadable /\ Batch' = Batch
  BY <1>1, SameContract DEF Batch
<1>3. TypeOK'
  BY <1>1, <1>2 DEF RegInv, TypeOK
<1>4. StageInv' /\ StoreInv'
  BY <1>1, <1>2, Zenon DEF RegInv, StageInv, StoreInv
<1>5. LockInv'
  BY <1>1, <1>2, Zenon DEF RegInv, LockInv, Target
<1> QED BY <1>3, <1>4, <1>5 DEF RegInv

(* Every step keeps the part of the invariant about registrations. *)
LEMMA RegStep ==
    ASSUME SumLaws, RegInv, [Next]_vars
    PROVE  RegInv'
<1>1. ASSUME NEW i \in Events,
             \/ GetContractLock(i) \/ LockContract(i) \/ RegisterContract(i)
             \/ GetTokenLock(i) \/ LockToken(i) \/ RegisterNft(i)
             \/ UpdateBalances(i) \/ FetchFails(i)
      PROVE  RegInv'
  <2>1. CASE GetContractLock(i) \/ GetTokenLock(i)
    BY <2>1, GetLockStep DEF GetContractLock, GetTokenLock
  <2>2. CASE LockContract(i) \/ LockToken(i)
    BY <2>2, LockStep DEF LockContract, LockToken
  <2>3. CASE RegisterContract(i) \/ RegisterNft(i)
    BY <2>3, RegisterStep DEF RegisterContract, RegisterNft
  <2>4. CASE UpdateBalances(i)
    BY <2>4, UpdateStep
  <2>5. CASE FetchFails(i)
    BY <2>5, FetchFailsStep
  <2> QED BY <1>1, <2>1, <2>2, <2>3, <2>4, <2>5
<1>2. CASE Chain
  BY <1>2, ChainStep
<1>3. CASE Indexing
  BY <1>1, <1>3, StartStep, ApplyStep, ExecuteStep, ResetStep DEF Indexing, Handlers
<1>4. CASE Crash
  BY <1>4, ResetStep
<1>5. CASE UNCHANGED vars
  BY <1>5, RegStutter
<1> QED BY <1>2, <1>3, <1>4, <1>5 DEF Next

(* The same for the behaviours of the specification. *)
LEMMA RegisteredUnderLaws ==
    ASSUME SumLaws
    PROVE  Spec => []RegisteredOnce
<1>1. RegInv => RegisteredOnce
  <2> SUFFICES ASSUME RegInv PROVE RegisteredOnce
    OBVIOUS
  <2>1. work.tokens \in [TokenId -> {0, 1}] /\ StoreInv
    BY StoreFields DEF RegInv, TypeOK
  <2> QED BY <2>1 DEF RegisteredOnce, StoreInv
<1>2. RegInv /\ [Next]_vars => RegInv'
  BY RegStep, SMTT(30)
<1> QED BY <1>1, <1>2, RegInit, PTL DEF Spec

-----------------------------------------------------------------------------
(* Balances and supplies *)

(* The handlers that are done belong to the batch. *)
LEMMA DoneInBatch ==
    ASSUME RegInv
    PROVE  Done \subseteq Batch /\ Done \subseteq DOMAIN transfers /\ transfers \in Seq(TransferEvent)
BY BatchEvents, SMTT(30) DEF RegInv, StageInv, Done, TypeOK

(* A step of a handler that changes neither balances nor supplies of tokens. *)
LEMMA QuietBalances ==
    ASSUME RegInv, BalanceInv, pc \in {"process", "failing"}, pc' \in {"process", "failing"},
           UNCHANGED <<contractVars, transfers, pos, last, disk>>,
           work'.balances = work.balances, work'.supply = work.supply, Done' = Done,
           \A a \in Account, t \in TokenId : Change(balances_diff', <<a, t>>) = Change(balances_diff, <<a, t>>),
           \A t \in Token : Change(total_supply_diff', t) = Change(total_supply_diff, t)
    PROVE  BalanceInv'
<1>1. Token' = Token /\ TokenId' = TokenId
  BY SameContract
<1>2. NeverNegative(transfers)'
  BY <1>1, Zenon DEF BalanceInv, NeverNegative
<1>3. Holds(transfers, disk, pos)'
  BY <1>1, Zenon DEF BalanceInv, Holds
<1> QED BY <1>1, <1>2, <1>3, SMTT(30) DEF BalanceInv

(* A handler that goes on without being done. *)
LEMMA SameDone ==
    ASSUME RegInv, NEW i \in Batch, stage[i] # "done", NEW s, s # "done", stage' = [stage EXCEPT ![i] = s]
    PROVE  Done' = Done
<1>1. i \in Events /\ stage \in [Events -> Stages]
  BY BatchEvents, Zenon DEF RegInv, TypeOK
<1> QED BY <1>1 DEF Done

(* Looking up a registration and taking a mutex leave the changes alone. *)
LEMMA LockBalances ==
    ASSUME RegInv, BalanceInv, CountInv, NEW i \in Events, NEW from, NEW to,
           GetLock(i, from, to) \/ Lock(i, from, to), from # "done", to # "done"
    PROVE  BalanceInv' /\ CountInv'
<1>1. /\ i \in Batch /\ stage[i] = from /\ pc \in {"process", "failing"} /\ pc' = pc
      /\ stage' = [stage EXCEPT ![i] = AfterTarget(i)] \/ stage' = [stage EXCEPT ![i] = to]
      /\ UNCHANGED <<contractVars, transfers, pos, last, disk, balances_diff, total_supply_diff, work>>
  BY DEF GetLock, Lock, Handler, cacheVars
<1>2. AfterTarget(i) # "done"
  BY DEF AfterTarget
<1>3. Done' = Done
  BY <1>1, <1>2, SameDone, Zenon
<1>4. BalanceInv'
  BY <1>1, <1>3, QuietBalances
<1>5. CountInv'
  BY <1>1, Zenon DEF CountInv, Registered, contractVars
<1> QED BY <1>4, <1>5, SMTT(30)

(* A handler that fails leaves the changes to the rollback. *)
LEMMA FetchFailsBalances ==
    ASSUME RegInv, BalanceInv, CountInv, NEW i \in Events, FetchFails(i)
    PROVE  BalanceInv' /\ CountInv'
<1>1. /\ i \in Batch /\ stage[i] # "done" /\ pc \in {"process", "failing"} /\ pc' = "failing"
      /\ stage' = [stage EXCEPT ![i] = "failed"]
      /\ UNCHANGED <<contractVars, transfers, pos, last, disk, balances_diff, total_supply_diff, work>>
  BY DEF FetchFails, cacheVars
<1>2. Done' = Done
  BY <1>1, SameDone, Zenon
<1>3. BalanceInv'
  BY <1>1, <1>2, QuietBalances
<1>4. CountInv'
  BY <1>1, Zenon DEF CountInv, Registered, contractVars
<1> QED BY <1>3, <1>4

(* A registration counts the token in the contract's supply, and nowhere else. *)
LEMMA RegisterBalances ==
    ASSUME SumLaws, RegInv, BalanceInv, CountInv, NEW i \in Events, NEW from \in {"fetch_contract", "fetch_token"},
           Register(i, from)
    PROVE  BalanceInv' /\ CountInv'
<1> DEFINE t == Target(i)
<1>1. /\ i \in Batch /\ stage[i] = from /\ pc \in {"process", "failing"} /\ pc' = pc
      /\ stage' = [stage EXCEPT ![i] = AfterTarget(i)] /\ work' = [work EXCEPT !.tokens[t] = @ + 1]
      /\ UNCHANGED <<contractVars, transfers, pos, last, disk>>
  BY DEF Register, Handler
<1>2. /\ TypeOK /\ t \in TokenId /\ work \in Store /\ IsDiff(total_supply_diff) /\ IsDiff(balances_diff)
      /\ DOMAIN total_supply_diff \subseteq TokenId /\ DOMAIN balances_diff \subseteq BalanceId /\ work.tokens[t] = 0
  BY <1>1, TargetType, RegisterStep DEF RegInv, TypeOK
<1>3. Done' = Done
  BY <1>1, SameDone, Zenon DEF AfterTarget
<1> HIDE DEF t
<1>4. work'.balances = work.balances /\ work'.supply = work.supply /\ work'.tokens = [work.tokens EXCEPT ![t] = 1]
      /\ work.tokens \in [TokenId -> {0, 1}]
  BY <1>1, <1>2, StoreFields DEF Store
<1>5. CASE t = Contract
  <2>1. UNCHANGED <<balances_diff, total_supply_diff>>
    BY <1>5 DEF Register, t
  <2>2. BalanceInv'
    BY <1>1, <1>3, <1>4, <2>1, QuietBalances
  <2>3. ~is_erc20 => Registered(work') = Registered(work)
    BY <1>4, <1>5, Ids DEF Registered, TokenId, Token
  <2>4. CountInv'
    BY <1>1, <1>4, <2>1, <2>3 DEF CountInv, Registered, contractVars
  <2> QED BY <2>2, <2>4
<1>6. CASE t # Contract
  <2>1. /\ balances_diff' = BalancesAfter(balances_diff, Contract, Zero, One, 1)
        /\ total_supply_diff' = SupplyAfter(total_supply_diff, Contract, Zero, One, 1)
    BY <1>6 DEF Register, update_balance_diff, t
  <2>2. Contract \in TokenId /\ <<One, Contract>> \in BalanceId /\ One # Zero
        /\ \A a \in Account, u \in TokenId : <<a, u>> \in BalanceId /\ a # One
    BY Addresses DEF BalanceId, Holder, TokenId
  <2>3. ~is_erc20 /\ Contract \notin Token /\ t \in Nft
    BY <1>2, <1>6, Ids DEF TokenId, Token
  <2> DEFINE m == [token |-> Contract, from |-> Zero, to |-> One, value |-> 1]
  <2>4. m.token = Contract /\ m.from = Zero /\ m.to = One /\ m.value = 1 /\ m.value \in Nat
    OBVIOUS
  <2> HIDE DEF m
  <2>5. /\ \A a, u : a # Zero => Change(balances_diff', <<a, u>>) = Change(balances_diff, <<a, u>>) + Moved(m, a, u)
        /\ \A u : Change(total_supply_diff', u) = Change(total_supply_diff, u) + Minted(m, u)
    <3>1. /\ balances_diff' = BalancesAfter(balances_diff, m.token, m.from, m.to, m.value)
          /\ total_supply_diff' = SupplyAfter(total_supply_diff, m.token, m.from, m.to, m.value)
      BY <2>1, <2>4
    <3>2. MovesBy(balances_diff', balances_diff, m) /\ MintsBy(total_supply_diff', total_supply_diff, m)
      BY <1>2, <2>4, <3>1, BalancesAfterChange, SupplyAfterChange, Zenon
    <3> QED BY <3>2 DEF MovesBy, MintsBy
  <2>6. \A a \in Account, u \in TokenId : Change(balances_diff', <<a, u>>) = Change(balances_diff, <<a, u>>)
    <3> SUFFICES ASSUME NEW a \in Account, NEW u \in TokenId
                 PROVE  Change(balances_diff', <<a, u>>) = Change(balances_diff, <<a, u>>)
      BY Zenon
    <3>1. a # Zero /\ a # One
      BY Addresses
    <3>2. Moved(m, a, u) = 0
      BY <2>4, <3>1 DEF Moved
    <3>3. Change(balances_diff', <<a, u>>) = Change(balances_diff, <<a, u>>) + 0
      BY <2>5, <3>1, <3>2
    <3>4. Change(balances_diff, <<a, u>>) \in Int
      BY <1>2, ChangeType
    <3> QED BY <3>3, <3>4
  <2>7. \A k \in TokenId : Change(total_supply_diff', k) = Change(total_supply_diff, k) + (IF k = Contract THEN 1 ELSE 0)
    <3>1. \A k : Minted(m, k) = IF k = Contract THEN 1 ELSE 0
      BY <2>2, <2>4 DEF Minted
    <3> QED BY <2>5, <3>1
  <2>8. \A k \in TokenId : Change(total_supply_diff, k) \in Int
    BY <1>2, ChangeType
  <2>9. BalanceInv'
    <3>1. \A u \in Token : Change(total_supply_diff', u) = Change(total_supply_diff, u)
      BY <2>3, <2>7, <2>8 DEF TokenId
    <3> QED BY <1>1, <1>3, <1>4, <2>6, <3>1, QuietBalances
  <2>10. CountInv'
    <3>1. Registered(work') = Registered(work) \cup {t} /\ t \notin Registered(work)
      BY <1>2, <1>4, <2>3, SMTT(30) DEF Registered, TokenId, Token
    <3>2. IsFiniteSet(Registered(work)) /\ IsFiniteSet(Registered(disk)) /\ disk.supply[Contract] = Cardinality(Registered(disk))
          /\ work.supply[Contract] + Change(total_supply_diff, Contract) = Cardinality(Registered(work))
      BY <2>3, SMTT(30) DEF CountInv
    <3>3. IsFiniteSet(Registered(work')) /\ Cardinality(Registered(work')) = Cardinality(Registered(work)) + 1
      BY <3>1, <3>2, SMTT(30) DEF SumLaws, CountLaw
    <3>4. work.supply[Contract] \in Int /\ Change(total_supply_diff, Contract) \in Int
          /\ Change(total_supply_diff', Contract) = Change(total_supply_diff, Contract) + 1
      BY <1>2, <2>2, <2>7, <2>8, StoreFields, SMTT(30)
    <3>5. work'.supply[Contract] + Change(total_supply_diff', Contract) = Cardinality(Registered(work'))
      <4> DEFINE x == work.supply[Contract]
                 y == Change(total_supply_diff, Contract)
                 c == Cardinality(Registered(work))
      <4>1. x \in Int /\ y \in Int /\ x + y = c /\ Change(total_supply_diff', Contract) = y + 1
        BY <3>2, <3>4, SMTT(30)
      <4>2. work'.supply[Contract] = x /\ Cardinality(Registered(work')) = c + 1
        BY <1>4, <3>3
      <4> HIDE DEF x, y, c
      <4> QED BY <4>1, <4>2, SMTT(30)
    <3>6. disk' = disk
      BY <1>1
    <3> QED BY <3>2, <3>3, <3>5, <3>6, SMTT(30) DEF CountInv, Registered
  <2> QED BY <2>9, <2>10
<1> QED BY <1>5, <1>6

(* A transfer is accounted for once, when its handler is done. *)
LEMMA UpdateBalancesStep ==
    ASSUME SumLaws, RegInv, BalanceInv, CountInv, NEW i \in Events, UpdateBalances(i)
    PROVE  BalanceInv' /\ CountInv'
<1> DEFINE e == transfers[i]
<1>1. /\ i \in Batch /\ stage[i] = "update" /\ pc \in {"process", "failing"}
      /\ stage' = [stage EXCEPT ![i] = "done"]
      /\ UNCHANGED <<contractVars, transfers, pos, last, disk, pc>>
  BY DEF UpdateBalances, Handler
<1>2. /\ balances_diff' = BalancesAfter(balances_diff, e.token, e.from, e.to, e.value)
      /\ total_supply_diff' = SupplyAfter(total_supply_diff, e.token, e.from, e.to, e.value)
      /\ work' = [work EXCEPT !.transfers = @ \cup {i}]
  BY DEF UpdateBalances, update_balance_diff
<1>3. /\ TypeOK /\ work \in Store /\ IsDiff(total_supply_diff) /\ IsDiff(balances_diff)
      /\ transfers \in Seq(TransferEvent) /\ stage \in [Events -> Stages]
  BY SMTT(30) DEF RegInv, TypeOK
<1>4. i \in DOMAIN transfers /\ e \in TransferEvent /\ e.value \in Nat /\ e.token \in Token
  BY <1>1, <1>3, BatchEvents DEF TransferEvent
<1>5. Done' = Done \cup {i} /\ i \notin Done /\ Done \subseteq DOMAIN transfers
  BY <1>1, <1>3, DoneInBatch DEF Done
<1>6. work'.balances = work.balances /\ work'.supply = work.supply /\ work'.tokens = work.tokens
  BY <1>2, <1>3 DEF Store
<1>7. Token' = Token /\ TokenId' = TokenId
  BY <1>1, SameContract
<1> HIDE DEF e
<1>8. MovesBy(balances_diff', balances_diff, e) /\ MintsBy(total_supply_diff', total_supply_diff, e)
  BY <1>2, <1>3, <1>4, BalancesAfterChange, SupplyAfterChange
<1>9. ASSUME NEW a \in Account, NEW t \in TokenId
      PROVE  Change(balances_diff', <<a, t>>) = Net(transfers, a, t, Done')
  <2>1. a # Zero
    BY Addresses
  <2>2. Change(balances_diff', <<a, t>>) = Change(balances_diff, <<a, t>>) + Moved(e, a, t)
    BY <1>8, <2>1 DEF MovesBy
  <2>3. Change(balances_diff, <<a, t>>) = Net(transfers, a, t, Done)
    BY <1>1 DEF BalanceInv
  <2>4. Net(transfers, a, t, Done \cup {i}) = Net(transfers, a, t, Done) + Moved(e, a, t)
    <3>1. NetAdds(transfers, a, t, Done)
      BY <1>3, <1>5, Zenon DEF SumLaws, AddLaw
    <3> QED BY <1>4, <1>5, <3>1, Zenon DEF NetAdds, e
  <2> QED BY <1>5, <2>2, <2>3, <2>4
<1>10. ASSUME NEW t \in Token
       PROVE  Change(total_supply_diff', t) = NetSupply(transfers, t, Done')
  <2>2. Change(total_supply_diff', t) = Change(total_supply_diff, t) + Minted(e, t)
    BY <1>8 DEF MintsBy
  <2>3. Change(total_supply_diff, t) = NetSupply(transfers, t, Done)
    BY <1>1, SMTT(30) DEF BalanceInv
  <2>4. NetSupply(transfers, t, Done \cup {i}) = NetSupply(transfers, t, Done) + Minted(e, t)
    <3>1. SupplyAdds(transfers, t, Done)
      BY <1>3, <1>5, SMTT(30) DEF SumLaws, AddLaw
    <3> QED BY <1>4, <1>5, <3>1 DEF SupplyAdds, e
  <2> QED BY <1>5, <2>2, <2>3, <2>4
<1>11. BalanceInv'
  <2>1. NeverNegative(transfers)' /\ Holds(transfers, disk, pos)'
    BY <1>1, <1>7, Zenon DEF BalanceInv, NeverNegative, Holds
  <2> QED BY <1>1, <1>6, <1>7, <1>9, <1>10, <2>1 DEF BalanceInv
<1>12. CountInv'
  <2>1. CASE ~is_erc20
    <3>1. e.token # Contract
      BY <1>4, <2>1, Ids DEF Token
    <3>2. Minted(e, Contract) = 0
      BY <3>1 DEF Minted
    <3>3. Change(total_supply_diff', Contract) = Change(total_supply_diff, Contract) + 0
      BY <1>8, <3>2 DEF MintsBy
    <3>4. Change(total_supply_diff, Contract) \in Int
      BY <1>3, ChangeType
    <3>5. Change(total_supply_diff', Contract) = Change(total_supply_diff, Contract)
      BY <3>3, <3>4
    <3> QED BY <1>1, <1>6, <2>1, <3>5, Zenon DEF CountInv, Registered
  <2>2. CASE is_erc20
    BY <1>1, <2>2, Zenon DEF CountInv, contractVars
  <2> QED BY <2>1, <2>2
<1> QED BY <1>11, <1>12

(* Nothing is done when a batch starts, or starts over. *)
LEMMA NothingDone ==
    ASSUME SumLaws, transfers \in Seq(TransferEvent), stage' = Idle
    PROVE  /\ Done' = {} /\ \A a, t : Net(transfers, a, t, {}) = 0
           /\ \A t : NetSupply(transfers, t, {}) = 0
<1>1. Done' = {}
  BY DEF Done, Idle
<1>2. {} \subseteq DOMAIN transfers
  OBVIOUS
<1>3. (\A a, t : NetAdds(transfers, a, t, {})) /\ (\A t : SupplyAdds(transfers, t, {}))
  BY <1>2 DEF SumLaws, AddLaw
<1> QED BY <1>1, <1>3, Zenon DEF NetAdds, SupplyAdds

(* A batch starts with no changes; a rollback and a restart drop them. *)
LEMMA FreshBalances ==
    ASSUME SumLaws, RegInv, BalanceInv, CountInv, stage' = Idle, pc' \in {"idle", "process"},
           UNCHANGED <<contractVars, transfers, pos, disk>>, work' = disk,
           balances_diff' = NoDiff, total_supply_diff' = NoDiff
    PROVE  BalanceInv' /\ CountInv'
<1>1. Token' = Token /\ TokenId' = TokenId
  BY SameContract
<1>2. transfers \in Seq(TransferEvent) /\ disk \in Store
  BY DEF RegInv, TypeOK
<1>3. NeverNegative(transfers)' /\ Holds(transfers, disk, pos)'
  BY <1>1, Zenon DEF BalanceInv, NeverNegative, Holds
<1>4. /\ \A a \in Account, t \in TokenId : Change(balances_diff', <<a, t>>) = Net(transfers, a, t, Done')
      /\ \A t \in Token : Change(total_supply_diff', t) = NetSupply(transfers, t, Done')
  BY <1>2, EmptyDiff, NothingDone, Zenon
<1>5. BalanceInv'
  BY <1>1, <1>3, <1>4 DEF BalanceInv
<1>6. CountInv'
  <2>1. Contract \in TokenId
    BY DEF TokenId
  <2>2. disk.supply[Contract] \in Int /\ disk.supply[Contract] + 0 = disk.supply[Contract]
    BY <1>2, <2>1, StoreFields
  <2>3. Change(total_supply_diff', Contract) = 0
    BY EmptyDiff
  <2> QED BY <2>2, <2>3, Zenon DEF CountInv, Registered, contractVars
<1> QED BY <1>5, <1>6

(* A batch starts from what is committed. *)
LEMMA StartBalances ==
    ASSUME SumLaws, RegInv, BalanceInv, CountInv, StartBatch
    PROVE  BalanceInv' /\ CountInv'
<1>1. /\ pc = "idle" /\ stage' = Idle /\ pc' = "process"
      /\ UNCHANGED <<contractVars, transfers, pos, balances_diff, total_supply_diff, work, disk>>
  BY DEF StartBatch, cacheVars
<1>2. work' = disk /\ balances_diff' = NoDiff /\ total_supply_diff' = NoDiff
  BY <1>1 DEF BalanceInv
<1> QED BY <1>1, <1>2, FreshBalances

(* A rollback and a restart go back to what is committed. *)
LEMMA ResetBalances ==
    ASSUME SumLaws, RegInv, BalanceInv, CountInv, Rollback \/ Crash
    PROVE  BalanceInv' /\ CountInv'
<1>1. /\ pc' \in {"idle", "process"} /\ balances_diff' = NoDiff /\ total_supply_diff' = NoDiff
      /\ work' = disk /\ stage' = Idle /\ UNCHANGED <<contractVars, transfers, pos, disk>>
  BY DEF Rollback, Crash, ResetToCommitted
<1> QED BY <1>1, FreshBalances

(* The accounts together never hold less than nothing. *)
LEMMA SupplyNotNegative ==
    ASSUME SumLaws, transfers \in Seq(TransferEvent), NeverNegative(transfers), NEW t \in Token, NEW n \in Nat,
           n <= Len(transfers)
    PROVE  NetSupply(transfers, t, 1..n) >= 0
<1>1. \A a \in Account : Net(transfers, a, t, 1..n) >= 0
  BY DEF NeverNegative
<1> QED BY <1>1 DEF SumLaws, ChainLaw

(* Once every handler of the batch is done, applying the changes gives what the
   chain holds after the batch. *)
LEMMA ApplyBalances ==
    ASSUME SumLaws, RegInv, BalanceInv, CountInv, ApplyBalanceDiff
    PROVE  BalanceInv' /\ CountInv'
<1>1. /\ pc = "process" /\ pc' = "commit" /\ \A i \in Batch : stage[i] = "done"
      /\ balances_diff' = NoDiff /\ total_supply_diff' = NoDiff
      /\ UNCHANGED <<contractVars, transfers, pos, last, stage, disk>>
  BY DEF ApplyBalanceDiff
<1>2. /\ work'.tokens = work.tokens
      /\ work'.supply = [t \in TokenId |-> AppliedSupply(t)]
      /\ work'.balances = [b \in BalanceId |-> AppliedBalance(b)]
  BY ApplyStep
<1>3. /\ transfers \in Seq(TransferEvent) /\ work \in Store /\ pos \in Nat /\ last \in Nat /\ pos <= last
      /\ last <= Len(transfers) /\ IsDiff(total_supply_diff) /\ IsDiff(balances_diff)
  BY DEF RegInv, TypeOK
<1>4. Done = Batch
  <2>1. TypeOK
    BY DEF RegInv
  <2>2. Batch \subseteq Done
    BY <1>1, <2>1, BatchEvents DEF Done
  <2> QED BY <2>2, DoneInBatch, Zenon
<1>5. /\ 1..last = (1..pos) \cup Batch /\ (1..pos) \cap Batch = {} /\ 1..pos \subseteq DOMAIN transfers
      /\ Batch \subseteq DOMAIN transfers /\ 1..last \subseteq DOMAIN transfers
  BY <1>3 DEF Batch
<1>6. Token' = Token /\ TokenId' = TokenId
  BY <1>1, SameContract, SMTT(30)
<1>7. /\ NeverNegative(transfers) /\ Holds(transfers, disk, pos)
      /\ work.balances = disk.balances /\ work.supply = disk.supply
      /\ \A a \in Account, t \in TokenId : Change(balances_diff, <<a, t>>) = Net(transfers, a, t, Batch)
      /\ \A t \in Token : Change(total_supply_diff, t) = NetSupply(transfers, t, Batch)
  BY <1>1, <1>4 DEF BalanceInv
<1>8. ASSUME NEW a \in Account, NEW t \in TokenId
      PROVE  work'.balances[<<a, t>>] = Net(transfers, a, t, 1..last)
  <2> DEFINE x == work.balances[<<a, t>>]
             y == Change(balances_diff, <<a, t>>)
             z == Net(transfers, a, t, 1..last)
  <2>1. Net(transfers, a, t, (1..pos) \cup Batch) = Net(transfers, a, t, 1..pos) + Net(transfers, a, t, Batch)
    <3>1. NetJoins(transfers, a, t, 1..pos, Batch)
      BY <1>3, <1>5, Zenon DEF SumLaws, UnionLaw
    <3> QED BY <3>1 DEF NetJoins
  <2>2. z = x + y
    BY <1>5, <1>7, <2>1, Zenon DEF Holds
  <2>3. BalanceOf(a, t, last) = z
    BY <1>3, BalanceType, SMTT(30)
  <2>4. AppliedBalance(<<a, t>>) = IF x + y < 0 THEN BalanceOf(a, t, last) ELSE x + y
    BY DEF AppliedBalance
  <2>5. <<a, t>> \in BalanceId
    BY DEF BalanceId, Holder
  <2> HIDE DEF x, y, z
  <2>6. AppliedBalance(<<a, t>>) = z
    BY <2>2, <2>3, <2>4
  <2> QED BY <1>2, <2>5, <2>6, Zenon DEF z
<1>9. ASSUME NEW t \in Token
      PROVE  work'.supply[t] = NetSupply(transfers, t, 1..last)
  <2> DEFINE x == work.supply[t]
             y == Change(total_supply_diff, t)
             z == NetSupply(transfers, t, 1..last)
  <2>1. NetSupply(transfers, t, (1..pos) \cup Batch) = NetSupply(transfers, t, 1..pos) + NetSupply(transfers, t, Batch)
    <3>1. SupplyJoins(transfers, t, 1..pos, Batch)
      BY <1>3, <1>5, Zenon DEF SumLaws, UnionLaw
    <3> QED BY <3>1 DEF SupplyJoins
  <2>2. z = x + y
    BY <1>5, <1>7, <2>1, Zenon DEF Holds
  <2>3. z >= 0
    BY <1>3, <1>7, SupplyNotNegative, Zenon
  <2>4. z \in Int
    <3>1. SupplyAdds(transfers, t, 1..last)
      BY <1>3, <1>5, Zenon DEF SumLaws, AddLaw
    <3> QED BY <3>1 DEF SupplyAdds
  <2>5. AppliedSupply(t) = IF x + y < 0 THEN 0 ELSE x + y
    BY DEF AppliedSupply
  <2>6. t \in TokenId
    BY DEF TokenId
  <2> HIDE DEF x, y, z
  <2>7. AppliedSupply(t) = z
    BY <2>2, <2>3, <2>4, <2>5, SMTT(30)
  <2> QED BY <1>2, <2>6, <2>7 DEF z
<1>10. BalanceInv'
  <2>1. NeverNegative(transfers)' /\ Holds(transfers, disk, pos)'
    BY <1>1, <1>6, <1>7, Zenon DEF NeverNegative, Holds
  <2>2. Holds(transfers, work, last)'
    BY <1>1, <1>6, <1>8, <1>9, Zenon DEF Holds
  <2> QED BY <1>1, <2>1, <2>2 DEF BalanceInv
<1>11. CountInv'
  <2>1. CASE ~is_erc20
    <3> DEFINE x == work.supply[Contract]
               y == Change(total_supply_diff, Contract)
               c == Cardinality(Registered(work))
    <3>1. IsFiniteSet(Registered(work)) /\ x + y = c
      BY <2>1, Zenon DEF CountInv
    <3>2. c \in Nat
      BY <3>1 DEF SumLaws, CountLaw
    <3>3. AppliedSupply(Contract) = IF x + y < 0 THEN 0 ELSE x + y
      BY DEF AppliedSupply
    <3>4. Contract \in TokenId /\ Change(total_supply_diff', Contract) = 0
      BY <1>1, EmptyDiff DEF TokenId
    <3> HIDE DEF x, y, c
    <3>5. AppliedSupply(Contract) = c /\ c + 0 = c
      BY <3>1, <3>2, <3>3
    <3>6. work'.supply[Contract] + Change(total_supply_diff', Contract) = c
      BY <1>2, <3>4, <3>5
    <3>7. Registered(work') = Registered(work)
      BY <1>2 DEF Registered
    <3>8. disk' = disk /\ Registered(disk') = Registered(disk)
      BY <1>1
    <3> QED BY <2>1, <3>1, <3>6, <3>7, <3>8, ZenonT(30) DEF CountInv, c, Registered
  <2>2. CASE is_erc20
    BY <1>1, <2>2, Zenon DEF CountInv, contractVars
  <2> QED BY <2>1, <2>2
<1> QED BY <1>10, <1>11

(* What is committed is what was applied. *)
LEMMA ExecuteBalances ==
    ASSUME SumLaws, RegInv, BalanceInv, CountInv, Execute
    PROVE  BalanceInv' /\ CountInv'
<1>1. /\ pc = "commit" /\ pc' = "idle" /\ disk' = work /\ pos' = last /\ stage' = Idle
      /\ UNCHANGED <<contractVars, transfers, last, balances_diff, total_supply_diff, work>>
  BY DEF Execute, cacheVars
<1>2. Token' = Token /\ TokenId' = TokenId
  BY <1>1, SameContract
<1>3. transfers \in Seq(TransferEvent) /\ work \in Store
  BY DEF RegInv, TypeOK
<1>4. /\ NeverNegative(transfers) /\ Holds(transfers, work, last)
      /\ balances_diff = NoDiff /\ total_supply_diff = NoDiff
  BY <1>1, SMTT(30) DEF BalanceInv
<1>5. NeverNegative(transfers)' /\ Holds(transfers, disk, pos)'
  BY <1>1, <1>2, <1>4 DEF NeverNegative, Holds
<1>6. /\ \A a \in Account, t \in TokenId : Change(balances_diff', <<a, t>>) = Net(transfers, a, t, Done')
      /\ \A t \in Token : Change(total_supply_diff', t) = NetSupply(transfers, t, Done')
  BY <1>1, <1>3, <1>4, EmptyDiff, NothingDone, ZenonT(30)
<1>7. BalanceInv'
  BY <1>1, <1>2, <1>4, <1>5, <1>6 DEF BalanceInv
<1>8. CountInv'
  <2>1. Contract \in TokenId
    BY SMTT(30) DEF TokenId
  <2>2. work.supply[Contract] \in Int /\ work.supply[Contract] + 0 = work.supply[Contract]
    BY <1>3, <2>1, StoreFields
  <2>3. Change(total_supply_diff, Contract) = 0
    BY <1>4, EmptyDiff
  <2> QED BY <1>1, <2>2, <2>3, Zenon DEF CountInv, Registered, contractVars
<1> QED BY <1>7, <1>8

(* The chain lets no account send more than it has. *)
LEMMA NeverNegativeAppend ==
    ASSUME SumLaws, transfers \in Seq(TransferEvent), NeverNegative(transfers), NEW e \in TransferEvent,
           e.from # Zero => e.value <= BalanceOf(e.from, e.token, Len(transfers))
    PROVE  NeverNegative(Append(transfers, e))
<1> DEFINE E == Append(transfers, e)
           l == Len(transfers)
<1>1. /\ E \in Seq(TransferEvent) /\ Len(E) = l + 1 /\ l \in Nat /\ DOMAIN E = 1..(l + 1) /\ E[l + 1] = e
      /\ DOMAIN transfers = 1..l
  OBVIOUS
<1> HIDE DEF E
<1> SUFFICES ASSUME NEW a \in Account, NEW t \in Token, NEW n \in 0..Len(E)
             PROVE  Net(E, a, t, 1..n) >= 0
  BY DEF NeverNegative, E
<1>2. ASSUME NEW m \in 0..l PROVE Net(E, a, t, 1..m) = Net(transfers, a, t, 1..m) /\ Net(E, a, t, 1..m) >= 0
  <2>1. 1..m \subseteq DOMAIN transfers
    BY <1>1
  <2>2. Net(E, a, t, 1..m) = Net(transfers, a, t, 1..m)
    BY <2>1 DEF E, SumLaws, AppendLaw
  <2> QED BY <2>2 DEF NeverNegative
<1>3. CASE n = l + 1
  <2> HIDE DEF l
  <2> DEFINE x == Net(E, a, t, 1..l)
             y == Moved(e, a, t)
  <2>1. 1..n = (1..l) \cup {l + 1} /\ 1..l \subseteq DOMAIN E /\ l + 1 \in DOMAIN E \ (1..l)
    BY <1>1, <1>3
  <2>2. Net(E, a, t, 1..n) = x + y /\ x \in Int
    <3>1. NetAdds(E, a, t, 1..l)
      BY <1>1, <2>1, Zenon DEF SumLaws, AddLaw
    <3> QED BY <1>1, <2>1, <3>1, Zenon DEF NetAdds
  <2>3. l \in 0..l
    BY <1>1
  <2>4. x >= 0 /\ x = Net(transfers, a, t, 1..l)
    BY <1>2, <2>3, SMTT(30)
  <2>5. BalanceOf(a, t, l) = x
    <3>1. l \in Nat /\ l <= l
      BY <1>1
    <3>2. BalanceOf(a, t, l) = Net(transfers, a, t, 1..l)
      BY <3>1, BalanceType, Zenon DEF l
    <3> QED BY <2>4, <3>2, Zenon
  <2>6. e.value \in Nat
    BY DEF TransferEvent
  <2>7. a # Zero
    BY Addresses
  <2>8. y \in Int /\ (y >= 0 \/ (e.from = a /\ e.token = t /\ y >= 0 - e.value))
    BY <2>6 DEF Moved
  <2> HIDE DEF x, y
  <2>9. y >= 0 \/ e.value <= x
    BY <2>5, <2>7, <2>8 DEF l
  <2> QED BY <2>2, <2>4, <2>6, <2>8, <2>9, SMTT(30)
<1>4. CASE n # l + 1
  <2>1. n \in 0..l
    BY <1>1, <1>4
  <2> QED BY <1>2, <2>1
<1> QED BY <1>3, <1>4

(* Transfers that are not fetched yet change nothing of what is stored. *)
LEMMA ChainBalances ==
    ASSUME SumLaws, RegInv, BalanceInv, CountInv, Chain
    PROVE  BalanceInv' /\ CountInv'
<1>1. UNCHANGED <<contractVars, pos, last, stage, held, cacheVars, work, disk, pc, faults>>
  BY ChainStep
<1>2. PICK e \in TransferEvent : transfers' = Append(transfers, e)
                  /\ (e.from # Zero => e.value <= BalanceOf(e.from, e.token, Len(transfers)))
  BY ChainStep
<1>3. /\ Token' = Token /\ TokenId' = TokenId /\ UNCHANGED <<balances_diff, total_supply_diff>> /\ Done' = Done
  BY <1>1, SameContract DEF cacheVars, Done
<1>4. transfers \in Seq(TransferEvent) /\ pos \in Nat /\ last \in Nat /\ pos <= last /\ last <= Len(transfers)
  BY DEF RegInv, TypeOK
<1>5. NeverNegative(transfers')
  BY <1>2, <1>4, NeverNegativeAppend, SMTT(30) DEF BalanceInv
<1>6. ASSUME NEW I, I \subseteq DOMAIN transfers
      PROVE  /\ \A a, t : Net(transfers', a, t, I) = Net(transfers, a, t, I)
             /\ \A t : NetSupply(transfers', t, I) = NetSupply(transfers, t, I)
  BY <1>2, <1>4, <1>6 DEF SumLaws, AppendLaw
<1>7. 1..pos \subseteq DOMAIN transfers /\ 1..last \subseteq DOMAIN transfers /\ Done \subseteq DOMAIN transfers
  BY <1>4, DoneInBatch
<1>8. ASSUME NEW s, NEW n, 1..n \subseteq DOMAIN transfers
      PROVE  Holds(transfers', s, n) <=> Holds(transfers, s, n)
  BY <1>6, <1>8, Zenon DEF Holds
<1>9. BalanceInv'
  <2>1. NeverNegative(transfers)'
    BY <1>3, <1>5 DEF NeverNegative
  <2>2. Holds(transfers, disk, pos)'
    <3>1. Holds(transfers', disk, pos)
      BY <1>7, <1>8 DEF BalanceInv
    <3> QED BY <1>1, <1>3, <3>1, Zenon DEF Holds
  <2>3. pc = "commit" => Holds(transfers, work, last)'
    <3>1. pc = "commit" => Holds(transfers', work, last)
      BY <1>7, <1>8 DEF BalanceInv
    <3> QED BY <1>1, <1>3, <3>1, Zenon DEF Holds
  <2>4. pc # "commit" =>
           /\ work.balances = disk.balances /\ work.supply = disk.supply
           /\ \A a \in Account, t \in TokenId : Change(balances_diff, <<a, t>>) = Net(transfers', a, t, Done)
           /\ \A t \in Token : Change(total_supply_diff, t) = NetSupply(transfers', t, Done)
    BY <1>6, <1>7, Zenon DEF BalanceInv
  <2>5. /\ pc = "commit" => balances_diff = NoDiff /\ total_supply_diff = NoDiff
        /\ pc = "idle" => work = disk /\ balances_diff = NoDiff /\ total_supply_diff = NoDiff
    BY DEF BalanceInv
  <2> QED BY <1>1, <1>3, <2>1, <2>2, <2>3, <2>4, <2>5, Zenon DEF BalanceInv
<1>10. CountInv'
  BY <1>1, <1>3, Zenon DEF CountInv, Registered, contractVars
<1> QED BY <1>9, <1>10

(* There are no balances to begin with. *)
LEMMA BalanceInit ==
    ASSUME SumLaws, Init
    PROVE  BalanceInv /\ CountInv
<1>1. /\ transfers = << >> /\ pos = 0 /\ stage = Idle /\ work = EmptyStore /\ disk = EmptyStore /\ pc = "idle"
      /\ balances_diff = NoDiff /\ total_supply_diff = NoDiff
  BY SMTT(30) DEF Init
<1>2. /\ EmptyStore.tokens = [t \in TokenId |-> 0] /\ EmptyStore.supply = [t \in TokenId |-> 0]
      /\ EmptyStore.balances = [b \in BalanceId |-> 0]
  BY DEF EmptyStore
<1>3. transfers \in Seq(TransferEvent) /\ {} \subseteq DOMAIN transfers /\ Len(transfers) = 0
  BY <1>1
<1>4. (\A a, t : Net(transfers, a, t, {}) = 0) /\ (\A t : NetSupply(transfers, t, {}) = 0)
  <2>1. (\A a, t : NetAdds(transfers, a, t, {})) /\ (\A t : SupplyAdds(transfers, t, {}))
    BY <1>3, Zenon DEF SumLaws, AddLaw
  <2> QED BY <2>1, Zenon DEF NetAdds, SupplyAdds
<1>5. 1..0 = {} /\ Done = {} /\ 0..Len(transfers) = {0}
  BY <1>1, <1>3 DEF Done, Idle
<1>6. NeverNegative(transfers)
  BY <1>4, <1>5, SMTT(30) DEF NeverNegative
<1>7. \A a \in Account, t \in TokenId : disk.balances[<<a, t>>] = 0
  BY <1>1, <1>2 DEF BalanceId, Holder
<1>8. \A t \in TokenId : disk.supply[t] = 0
  BY <1>1, <1>2, SMTT(30)
<1>9. Holds(transfers, disk, pos)
  BY <1>1, <1>4, <1>5, <1>7, <1>8, SMTT(30) DEF Holds, TokenId
<1>10. BalanceInv
  BY <1>1, <1>4, <1>5, <1>6, <1>9, EmptyDiff, SMTT(30) DEF BalanceInv
<1>11. CountInv
  <2>1. ~is_erc20 => Registered(disk) = {} /\ Registered(work) = {}
    BY <1>1, <1>2 DEF Registered, TokenId, Token
  <2>2. Cardinality({}) = 0 /\ IsFiniteSet({})
    BY DEF SumLaws, CountLaw
  <2>3. Contract \in TokenId
    BY SMTT(30) DEF TokenId
  <2>4. disk.supply[Contract] = 0 /\ work.supply[Contract] = 0 /\ Change(total_supply_diff, Contract) = 0
    BY <1>1, <1>8, <2>3, EmptyDiff
  <2>5. ~is_erc20 => IsFiniteSet(Registered(disk)) /\ Cardinality(Registered(disk)) = 0
                     /\ IsFiniteSet(Registered(work)) /\ Cardinality(Registered(work)) = 0
    BY <2>1, <2>2, Zenon
  <2>6. ~is_erc20 => disk.supply[Contract] = Cardinality(Registered(disk))
    BY <2>4, <2>5, Zenon
  <2>7. work.supply[Contract] + Change(total_supply_diff, Contract) = 0
    <3>1. 0 + 0 = 0
      OBVIOUS
    <3> QED BY <2>4, <3>1, Zenon
  <2> QED BY <2>5, <2>6, <2>7, Zenon DEF CountInv
<1> QED BY <1>10, <1>11

(* A step that changes nothing keeps the balances. *)
LEMMA BalanceStutter == BalanceInv /\ CountInv /\ UNCHANGED vars => BalanceInv' /\ CountInv'
<1> SUFFICES ASSUME BalanceInv, CountInv, UNCHANGED vars PROVE BalanceInv' /\ CountInv'
  OBVIOUS
<1>1. /\ UNCHANGED contractVars
      /\ UNCHANGED <<is_erc20, transfers, pos, last, stage, balances_diff, total_supply_diff, work, disk, pc>>
  BY DEF vars, contractVars
<1>2. Token' = Token /\ TokenId' = TokenId /\ Done' = Done
  BY <1>1, SameContract DEF Done
<1>3. NeverNegative(transfers)' /\ Holds(transfers, disk, pos)'
  BY <1>1, <1>2, Zenon DEF BalanceInv, NeverNegative, Holds
<1>4. pc = "commit" => Holds(transfers, work, last)'
  BY <1>1, <1>2, Zenon DEF BalanceInv, Holds
<1>5. BalanceInv'
  BY <1>1, <1>2, <1>3, <1>4, Zenon DEF BalanceInv
<1>6. CountInv'
  BY <1>1, Zenon DEF CountInv, Registered
<1> QED BY <1>5, <1>6

(* Every step keeps the invariant. *)
LEMMA StepIInv ==
    ASSUME SumLaws, IInv, [Next]_vars
    PROVE  IInv'
<1>0. RegInv /\ BalanceInv /\ CountInv /\ RegInv'
  BY RegStep DEF IInv
<1> SUFFICES BalanceInv' /\ CountInv'
  BY <1>0 DEF IInv
<1>1. ASSUME NEW i \in Events,
             \/ GetContractLock(i) \/ LockContract(i) \/ RegisterContract(i)
             \/ GetTokenLock(i) \/ LockToken(i) \/ RegisterNft(i)
             \/ UpdateBalances(i) \/ FetchFails(i)
      PROVE  BalanceInv' /\ CountInv'
  <2>1. CASE GetContractLock(i) \/ GetTokenLock(i)
    BY <1>0, <2>1, LockBalances DEF GetContractLock, GetTokenLock
  <2>2. CASE LockContract(i) \/ LockToken(i)
    BY <1>0, <2>2, LockBalances DEF LockContract, LockToken
  <2>3. CASE RegisterContract(i) \/ RegisterNft(i)
    BY <1>0, <2>3, RegisterBalances DEF RegisterContract, RegisterNft
  <2>4. CASE UpdateBalances(i)
    BY <1>0, <2>4, UpdateBalancesStep
  <2>5. CASE FetchFails(i)
    BY <1>0, <2>5, FetchFailsBalances
  <2> QED BY <1>1, <2>1, <2>2, <2>3, <2>4, <2>5
<1>2. CASE Chain
  BY <1>0, <1>2, ChainBalances
<1>3. CASE Indexing
  BY <1>0, <1>1, <1>3, StartBalances, ApplyBalances, ExecuteBalances, ResetBalances DEF Indexing, Handlers
<1>4. CASE Crash
  BY <1>0, <1>4, ResetBalances
<1>5. CASE UNCHANGED vars
  BY <1>0, <1>5, BalanceStutter
<1> QED BY <1>2, <1>3, <1>4, <1>5 DEF Next

(* The same for the behaviours of the specification. *)
LEMMA BalancesUnderLaws ==
    ASSUME SumLaws
    PROVE  Spec => []BalancesAgree
<1>1. IInv => BalancesAgree
  <2> SUFFICES ASSUME IInv PROVE BalancesAgree
    BY SMTT(30)
  <2>1. RegInv /\ BalanceInv /\ CountInv /\ Holds(transfers, disk, pos)
    BY DEF IInv, BalanceInv
  <2>2. transfers \in Seq(TransferEvent) /\ pos \in Nat /\ pos <= Len(transfers) /\ 1..pos \subseteq DOMAIN transfers
    BY <2>1 DEF RegInv, TypeOK
  <2>3. \A a \in Account, t \in TokenId : disk.balances[<<a, t>>] = BalanceOf(a, t, pos)
    BY <2>1, <2>2, BalanceType, Zenon DEF Holds
  <2>4. ASSUME NEW t \in Token
        PROVE  disk.supply[t] = SumFunction([a \in Account |-> disk.balances[<<a, t>>]])
    <3> DEFINE h == [a \in Account |-> disk.balances[<<a, t>>]]
               g == [a \in Account |-> Net(transfers, a, t, 1..pos)]
    <3>1. t \in TokenId
      BY DEF TokenId
    <3>2. h = g /\ DOMAIN h = Account
      BY <2>1, <3>1, Zenon DEF Holds
    <3>3. SumFunction(g) = NetSupply(transfers, t, 1..pos)
      BY <2>2 DEF SumLaws, ChainLaw
    <3>4. disk.supply[t] = NetSupply(transfers, t, 1..pos)
      BY <2>1 DEF Holds
    <3> HIDE DEF h, g
    <3> QED BY <3>2, <3>3, <3>4, Zenon DEF h
  <2>5. ~is_erc20 => disk.supply[Contract] = Cardinality({t \in Nft : disk.tokens[t] > 0})
    BY <2>1, Zenon DEF CountInv, Registered
  <2> QED BY <2>3, <2>4, <2>5, Zenon DEF BalancesAgree
<1>2. Init => IInv
  BY RegInit, BalanceInit DEF IInv
<1>3. IInv /\ [Next]_vars => IInv'
  BY StepIInv
<1> QED BY <1>1, <1>2, <1>3, PTL DEF Spec
=============================================================================
