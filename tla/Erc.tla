-------------------------------- MODULE Erc ---------------------------------
(***************************************************************************)
(* Tokens: concurrent transfer handlers register a contract and its tokens *)
(* under a lock per token, accumulate balance and supply changes in the    *)
(* cache, and the engine applies the changes and commits, or rolls back    *)
(* and starts over (crates/processors/src/erc.rs, ErcCache, executor).     *)
(*                                                                         *)
(* One contract: an ERC-20 has the contract itself as its only token; an   *)
(* ERC-721 or ERC-1155 has tokens below it.                                *)
(***************************************************************************)
EXTENDS I256, Sequences, FiniteSets, Functions

CONSTANTS
    Account,        \* accounts that hold tokens
    One,            \* the address 0x1
    Zero,           \* the address 0x0, from and to which tokens are minted and burnt
    Nft,            \* token ids of the contract
    Contract,       \* TokenId::Contract of the contract
    Unreadable,     \* tokens whose URI may not be UTF-8
    MaxEvents,      \* bound: transfers on chain
    MaxValue,       \* bound: amount of an ERC-20 transfer; that of others is 1
    MaxFaults       \* bound: failed batches and crashes

ASSUME Addresses == One \notin Account /\ Zero \notin Account /\ One # Zero
ASSUME AccountsFinite == IsFiniteSet(Account)
ASSUME Bounds == MaxEvents \in Nat /\ MaxValue \in Nat
ASSUME Ids == Contract \notin Nft /\ Unreadable \subseteq Nft

VARIABLES
    is_erc20,       \* the type of the contract
    unreadable,     \* its tokens whose URI is not UTF-8
    transfers,      \* the contract's transfer events
    pos, last,      \* committed prefix, and last event of the batch
    stage,          \* where the handler of each event is
    held,           \* registration mutexes: the event whose handler holds it, or 0
    registry,       \* token_id_registry
    balances_diff, total_supply_diff,
    work, disk,     \* the open transaction and what is committed
    pc, faults

vars == <<is_erc20, unreadable, transfers, pos, last, stage, held, registry, balances_diff, total_supply_diff,
          work, disk, pc, faults>>
contractVars == <<is_erc20, unreadable>>
cacheVars == <<registry, balances_diff, total_supply_diff>>

Holder == Account \cup {One}
Token == IF is_erc20 THEN {Contract} ELSE Nft
TokenId == Token \cup {Contract}
BalanceId == Holder \X TokenId
Events == 1..MaxEvents

(* How often each token was inserted, the balances, supplies and the stored
   transfers. *)
EmptyStore ==
    [tokens |-> [t \in TokenId |-> 0], balances |-> [b \in BalanceId |-> 0],
     supply |-> [t \in TokenId |-> 0], transfers |-> {}]

Batch == pos + 1 .. last
NoDiff == [b \in {} |-> Positive(0)]
Idle == [i \in Events |-> "ready"]

-----------------------------------------------------------------------------
(* The chain *)

(* What a transfer adds to the balance that a has of t. *)
Moved(e, a, t) ==
    IF e.token = t
    THEN (IF e.to = a THEN e.value ELSE 0) - (IF e.from = a THEN e.value ELSE 0)
    ELSE 0

(* The balance after n transfers. *)
BalanceOf(a, t, n) == SumFunction([i \in 1..n |-> Moved(transfers[i], a, t)])

Transfer(t, from, to, value) ==
    /\ Len(transfers) < MaxEvents
    /\ ~(from = Zero /\ to = Zero)
    /\ from # Zero => value <= BalanceOf(from, t, Len(transfers))
    /\ transfers' = Append(transfers, [token |-> t, from |-> from, to |-> to, value |-> value])
    /\ UNCHANGED <<contractVars, pos, last, stage, held, cacheVars, work, disk, pc, faults>>

-----------------------------------------------------------------------------
(* Transfer handlers *)

Handler(i, from, to) ==
    /\ pc \in {"process", "failing"}
    /\ i \in Batch
    /\ stage[i] = from
    /\ stage' = [stage EXCEPT ![i] = to]
    /\ UNCHANGED <<contractVars, transfers, pos, last, disk, pc, faults>>

(* The token a handler is registering, and where it goes on after that. *)
Target(i) == IF stage[i] \in {"ready", "lock_contract", "fetch_contract"}
             THEN Contract ELSE transfers[i].token
AfterTarget(i) == IF Target(i) = Contract /\ ~is_erc20 THEN "token" ELSE "update"

(* get_token_registration_lock: nothing to do for a registered token, else the
   token is being registered and its mutex is to be taken. *)
GetLock(i, from, to) ==
    LET t == Target(i) IN
    /\ IF registry[t] = "registered"
       THEN Handler(i, from, AfterTarget(i)) /\ UNCHANGED registry
       ELSE Handler(i, from, to) /\ registry' = [registry EXCEPT ![t] = "registering"]
    /\ UNCHANGED <<held, balances_diff, total_supply_diff, work>>

GetContractLock(i) == pc = "process" /\ GetLock(i, "ready", "lock_contract")
GetTokenLock(i) == GetLock(i, "token", "lock_token")

(* Mutant: the registry is not looked at again under the mutex. *)
Lock_unchecked(i, from, to) ==
    LET t == Target(i) IN
    /\ held[t] = 0
    /\ Handler(i, from, to) /\ held' = [held EXCEPT ![t] = i]
    /\ UNCHANGED <<cacheVars, work>>

(* The mutex is taken and the registry is looked at again. *)
Lock(i, from, to) ==
    LET t == Target(i) IN
    /\ held[t] = 0
    /\ IF registry[t] = "registered"
       THEN Handler(i, from, AfterTarget(i)) /\ UNCHANGED held
       ELSE Handler(i, from, to) /\ held' = [held EXCEPT ![t] = i]
    /\ UNCHANGED <<cacheVars, work>>

LockContract(i) == Lock(i, "lock_contract", "fetch_contract")
LockToken(i) == Lock(i, "lock_token", "fetch_token")

(* update_balance_diff of one transfer. *)
BalancesAfter(diff, t, from, to, value) ==
    LET debited == IF from # Zero THEN Debit(diff, <<from, t>>, value) ELSE diff
    IN  IF to # Zero THEN Credit(debited, <<to, t>>, value) ELSE debited

(* Mutant: a burn does not reduce the supply. *)
SupplyAfter_mints_only(diff, t, from, to, value) ==
    IF from = Zero /\ to # Zero THEN Credit(diff, t, value) ELSE diff

SupplyAfter(diff, t, from, to, value) ==
    IF from = Zero /\ to # Zero THEN Credit(diff, t, value)
    ELSE IF from # Zero /\ to = Zero THEN Debit(diff, t, value)
    ELSE diff

update_balance_diff(t, from, to, value) ==
    /\ balances_diff' = BalancesAfter(balances_diff, t, from, to, value)
    /\ total_supply_diff' = SupplyAfter(total_supply_diff, t, from, to, value)

(* The row is inserted once the metadata is fetched, and the token is marked
   registered; a new token below a contract counts in the contract's supply. *)
Register(i, from) ==
    LET t == Target(i) IN
    /\ held[t] = i
    /\ t \notin unreadable
    /\ Handler(i, from, AfterTarget(i))
    /\ work' = [work EXCEPT !.tokens[t] = @ + 1]
    /\ registry' = [registry EXCEPT ![t] = "registered"]
    /\ held' = [held EXCEPT ![t] = 0]
    /\ IF t = Contract
       THEN UNCHANGED <<balances_diff, total_supply_diff>>
       ELSE update_balance_diff(Contract, Zero, One, 1)

RegisterContract(i) == Register(i, "fetch_contract")
RegisterNft(i) == Register(i, "fetch_token")

(* Mutant: the guard of a handler that fails is not dropped. *)
FetchFails_keeps_lock(i) ==
    /\ pc \in {"process", "failing"}
    /\ i \in Batch
    /\ stage[i] \in {"fetch_contract", "fetch_token"}
    /\ stage' = [stage EXCEPT ![i] = "failed"]
    /\ pc' = "failing"
    /\ faults < MaxFaults /\ faults' = faults + 1
    /\ UNCHANGED <<contractVars, transfers, pos, last, held, cacheVars, work, disk>>

(* The handler fails, always for a URI that cannot be decoded, and its guard is
   dropped.  Handlers that have not begun are not started any more. *)
FetchFails(i) ==
    /\ pc \in {"process", "failing"}
    /\ i \in Batch
    /\ stage[i] \in {"fetch_contract", "fetch_token"}
    /\ stage' = [stage EXCEPT ![i] = "failed"]
    /\ held' = [held EXCEPT ![Target(i)] = 0]
    /\ pc' = "failing"
    /\ Target(i) \in unreadable \/ faults < MaxFaults
    /\ faults' = IF Target(i) \in unreadable THEN faults ELSE faults + 1
    /\ UNCHANGED <<contractVars, transfers, pos, last, cacheVars, work, disk>>

UpdateBalances(i) ==
    LET e == transfers[i] IN
    /\ Handler(i, "update", "done")
    /\ update_balance_diff(e.token, e.from, e.to, e.value)
    /\ work' = [work EXCEPT !.transfers = @ \cup {i}]
    /\ UNCHANGED <<held, registry>>

-----------------------------------------------------------------------------
(* Engine and executor *)

StartBatch ==
    /\ pc = "idle"
    /\ last' \in (pos + 1)..Len(transfers)
    /\ stage' = Idle
    /\ pc' = "process"
    /\ UNCHANGED <<contractVars, transfers, pos, held, cacheVars, work, disk, faults>>

(* A supply stops at zero. *)
AppliedSupply(t) ==
    LET s == work.supply[t] + Change(total_supply_diff, t) IN IF s < 0 THEN 0 ELSE s

(* A balance that would become negative is read from the contract instead. *)
AppliedBalance(b) ==
    LET n == work.balances[b] + Change(balances_diff, b)
    IN  IF n < 0 THEN BalanceOf(b[1], b[2], last) ELSE n

(* The changes of a supply need the token's row: without it nothing is applied,
   which is only logged. *)
ApplyBalanceDiff ==
    /\ pc = "process"
    /\ \A i \in Batch : stage[i] = "done"
    /\ work' = IF \A t \in DOMAIN total_supply_diff : work.tokens[t] > 0
               THEN [work EXCEPT !.supply = [t \in TokenId |-> AppliedSupply(t)],
                                 !.balances = [b \in BalanceId |-> AppliedBalance(b)]]
               ELSE work
    /\ balances_diff' = NoDiff
    /\ total_supply_diff' = NoDiff
    /\ pc' = "commit"
    /\ UNCHANGED <<contractVars, transfers, pos, last, stage, held, registry, disk, faults>>

Execute ==
    /\ pc = "commit"
    /\ disk' = work
    /\ pos' = last
    /\ stage' = Idle
    /\ pc' = "idle"
    /\ UNCHANGED <<contractVars, transfers, last, held, cacheVars, work, faults>>

(* load_token_registry *)
Registry(D) == [t \in TokenId |-> IF D.tokens[t] > 0 THEN "registered" ELSE "absent"]

(* rollback and reset_to_committed_storage *)
ResetToCommitted ==
    /\ registry' = Registry(disk)
    /\ balances_diff' = NoDiff
    /\ total_supply_diff' = NoDiff
    /\ work' = disk
    /\ stage' = Idle

(* Once the handlers that were running are done. *)
Rollback ==
    /\ pc = "failing"
    /\ \A i \in Batch : stage[i] \in {"ready", "done", "failed"}
    /\ ResetToCommitted
    /\ pc' = "process"
    /\ UNCHANGED <<contractVars, transfers, pos, last, held, disk, faults>>

Crash ==
    /\ faults < MaxFaults
    /\ pc # "idle"
    /\ ResetToCommitted
    /\ held' = [t \in TokenId |-> 0]
    /\ pc' = "idle"
    /\ faults' = faults + 1
    /\ UNCHANGED <<contractVars, transfers, pos, last, disk>>

-----------------------------------------------------------------------------
Init ==
    /\ is_erc20 \in BOOLEAN
    /\ unreadable \in IF is_erc20 THEN {{}} ELSE {{}, Unreadable}
    /\ transfers = << >>
    /\ pos = 0 /\ last = 0
    /\ stage = Idle
    /\ held = [t \in TokenId |-> 0]
    /\ registry = [t \in TokenId |-> "absent"]
    /\ balances_diff = NoDiff /\ total_supply_diff = NoDiff
    /\ work = EmptyStore /\ disk = EmptyStore
    /\ pc = "idle"
    /\ faults = 0

Amount == 1..(IF is_erc20 THEN MaxValue ELSE 1)

Chain ==
    \E t \in Token, from \in Account \cup {Zero}, to \in Account \cup {Zero}, v \in Amount :
        Transfer(t, from, to, v)

Handlers ==
    \E i \in Events :
        \/ GetContractLock(i) \/ LockContract(i) \/ RegisterContract(i)
        \/ GetTokenLock(i) \/ LockToken(i) \/ RegisterNft(i)
        \/ UpdateBalances(i) \/ FetchFails(i)

Indexing == StartBatch \/ Handlers \/ ApplyBalanceDiff \/ Execute \/ Rollback

Next == Chain \/ Indexing \/ Crash

Spec == Init /\ [][Next]_vars /\ WF_vars(Indexing)

-----------------------------------------------------------------------------
(* Properties *)

(* A token is inserted at most once, however many handlers and attempts register
   it: the insert has no conflict clause. And a transfer is only stored for a
   token that has been registered, in the same transaction or before. *)
RegisteredOnce ==
    /\ \A t \in TokenId : work.tokens[t] <= 1
    /\ \A i \in work.transfers : work.tokens[transfers[i].token] > 0

(* What is committed are the balances on chain after the committed transfers:
   each transfer counts once, whatever failed. The committed supply of a token is
   what its accounts hold; that of a contract with tokens is their number. *)
BalancesAgree ==
    /\ \A a \in Account, t \in TokenId : disk.balances[<<a, t>>] = BalanceOf(a, t, pos)
    /\ \A t \in Token : disk.supply[t] = SumFunction([a \in Account |-> disk.balances[<<a, t>>]])
    /\ ~is_erc20 => disk.supply[Contract] = Cardinality({t \in Nft : disk.tokens[t] > 0})

(* Indexing always catches up with the transfers, unless one is of a token whose
   metadata can never be read: no handler waits for ever for a registration
   that failed. *)
Completes ==
    []<>(pos = Len(transfers) \/ \E i \in DOMAIN transfers : transfers[i].token \in unreadable)
=============================================================================
