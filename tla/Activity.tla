------------------------------ MODULE Activity ------------------------------
(***************************************************************************)
(* Activity sessions (crates/sqlite/.../executor/activity.rs, and the      *)
(* handling of StoreTransaction in executor/mod.rs): the calls of the      *)
(* transactions on a world, gathered by namespace and caller into sessions *)
(* that end after a time without calls.                                    *)
(***************************************************************************)
EXTENDS Integers, Sequences, FiniteSets, FiniteSetsExt, SequencesExt

CONSTANTS
    Caller, Entrypoint,
    Excluded,           \* the entrypoints that are not tracked
    Namespace, Model,
    NamespaceOf,        \* the namespace of each model
    Scoped,             \* the models registered since ids start with the world's address
    Transaction,        \* Transaction[x]: the models and the calls of transaction x
    Timeout,            \* session_timeout
    None,
    MaxTime             \* bound: time

Tx == DOMAIN Transaction

Configuration ==
    /\ Excluded \subseteq Entrypoint
    /\ NamespaceOf \in [Model -> Namespace]
    /\ Scoped \subseteq Model
    /\ Timeout \in Nat
    /\ \A x \in Tx : /\ Transaction[x].models \subseteq Model
                      /\ Transaction[x].calls \in Seq([caller : Caller, entrypoint : Entrypoint])

VARIABLES
    activities,     \* table activities: a set of sessions
    executed_at,    \* table transactions: the time of each stored transaction
    now             \* the timestamp of the block that is processed

vars == <<activities, executed_at, now>>

Of(table, ns, c) == {s \in table : s.namespace = ns /\ s.caller = c}

(* The session that ended last. *)
Latest(sessions) == CHOOSE s \in sessions : \A r \in sessions : r.session_end <= s.session_end

create_new_session(ns, call, time) ==
    [namespace |-> ns, caller |-> call.caller, session_start |-> time, session_end |-> time,
     action_count |-> 1, actions |-> [e \in Entrypoint |-> IF e = call.entrypoint THEN 1 ELSE 0]]

(* A second session with the same start has the same id: the insertion fails,
   and the failure is only logged. *)
Insert(table, s) ==
    IF \E r \in Of(table, s.namespace, s.caller) : r.session_start = s.session_start
    THEN table ELSE table \cup {s}

SameSession(s, time) == time - s.session_end <= Timeout

update_activity(table, ns, call, time) ==
    LET sessions == Of(table, ns, call.caller)
        last == Latest(sessions)
    IN  IF call.entrypoint \in Excluded THEN table
        ELSE IF sessions # {} /\ SameSession(last, time)
        THEN (table \ {last}) \cup
                {[last EXCEPT !.session_end = time, !.action_count = @ + 1,
                              !.actions[call.entrypoint] = @ + 1]}
        ELSE Insert(table, create_new_session(ns, call, time))

(* The ids of the models are compared with bare selectors, which only the ids
   of models registered before ids were scoped to a world are equal to. *)
NamespacesOf(models) == {NamespaceOf[m] : m \in models \ Scoped}

(* Mutant: a call is tracked in one of the namespaces. *)
TrackCalls_once(models, calls, time) ==
    activities' = IF NamespacesOf(models) = {} THEN activities
                  ELSE FoldLeft(LAMBDA table, call :
                                    update_activity(table, CHOOSE ns \in NamespacesOf(models) : TRUE, call, time),
                                activities, calls)

(* Every call is tracked in every namespace of the transaction. *)
TrackCalls(models, calls, time) ==
    activities' = FoldSet(LAMBDA ns, table :
                              FoldLeft(LAMBDA tb, call : update_activity(tb, ns, call, time), table, calls),
                          activities, NamespacesOf(models))

StoreTransaction(x) ==
    /\ executed_at[x] = None
    /\ executed_at' = [executed_at EXCEPT ![x] = now]
    /\ TrackCalls(Transaction[x].models, Transaction[x].calls, now)
    /\ UNCHANGED now

(* The chain moves to a block with a later timestamp. *)
NextBlock ==
    /\ now < MaxTime
    /\ now' = now + 1
    /\ UNCHANGED <<activities, executed_at>>

Init ==
    /\ activities = {}
    /\ executed_at = [x \in Tx |-> None]
    /\ now = 0

Next == NextBlock \/ \E x \in Tx : StoreTransaction(x)

Spec == Init /\ [][Next]_vars

-----------------------------------------------------------------------------
(* Properties *)

Stored == {x \in Tx : executed_at[x] # None}

(* The calls that a caller has made in transactions on a namespace, as far as
   the namespace can be told from the models. *)
CallsOf(ns, c) ==
    {<<x, i>> \in Stored \X (1..Max({Len(Transaction[y].calls) : y \in Tx})) :
        /\ i <= Len(Transaction[x].calls)
        /\ Transaction[x].calls[i].caller = c
        /\ Transaction[x].calls[i].entrypoint \notin Excluded
        /\ \E m \in Transaction[x].models \ Scoped : NamespaceOf[m] = ns}

(* "Duration in seconds of inactivity before starting a new session": two calls
   of a caller are in different sessions exactly when a longer time without
   calls lies between them; the sessions are the maximal runs of calls, and each
   counts every call of its run once. *)
SessionsAreRuns ==
    \A ns \in Namespace, c \in Caller :
        LET At(k) == executed_at[k[1]]
            times == {At(k) : k \in CallsOf(ns, c)}
            starts == {t \in times : \A u \in times : u < t => t - u > Timeout}
            Run(t) == {k \in CallsOf(ns, c) : t <= At(k) /\ \A v \in starts : t < v => At(k) < v}
        IN  {<<s.session_start, s.session_end, s.action_count>> : s \in Of(activities, ns, c)} =
                {<<t, Max({At(k) : k \in Run(t)}), Cardinality(Run(t))>> : t \in starts}
=============================================================================
