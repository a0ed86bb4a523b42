------------------------------- MODULE I256 ---------------------------------
(***************************************************************************)
(* Signed 256-bit integers as a magnitude and a sign (crates/math), and    *)
(* the maps of pending balance and supply changes that the token cache     *)
(* accumulates with them (ErcCache of crates/cache).                       *)
(*                                                                         *)
(* Magnitudes are natural numbers: a sum beyond 2^256 - 1 is not modelled. *)
(***************************************************************************)
EXTENDS Integers

Signed == [value : Nat, is_negative : BOOLEAN]

Positive(v) == [value |-> v, is_negative |-> FALSE]
Negative(v) == [value |-> v, is_negative |-> TRUE]

(* The integer a pair stands for; zero has two representations. *)
IntOf(a) == IF a.is_negative THEN -a.value ELSE a.value

Add(a, b) ==
    IF a = Negative(0) /\ b = Negative(0)
    THEN Positive(0)
    ELSE IF a.is_negative = b.is_negative
    THEN [value |-> a.value + b.value, is_negative |-> a.is_negative]
    ELSE IF a.value > b.value
    THEN [value |-> a.value - b.value, is_negative |-> a.is_negative]
    ELSE IF a.value < b.value
    THEN [value |-> b.value - a.value, is_negative |-> b.is_negative]
    ELSE Positive(0)

Sub(a, b) ==
    Add(a, [value |-> b.value, is_negative |-> b.value # 0 /\ ~b.is_negative])

(* An entry of a map of changes: modified when present, else inserted.  The
   changes are those of one map; the absent ones are not in its domain. *)
Credit(diff, k, v) ==
    [x \in DOMAIN diff \cup {k} |->
        IF x # k THEN diff[x]
        ELSE IF k \in DOMAIN diff THEN Add(diff[k], Positive(v)) ELSE Positive(v)]

Debit(diff, k, v) ==
    [x \in DOMAIN diff \cup {k} |->
        IF x # k THEN diff[x]
        ELSE IF k \in DOMAIN diff THEN Sub(diff[k], Positive(v)) ELSE Negative(v)]

(* The change of k that a map holds. *)
Change(diff, k) == IF k \in DOMAIN diff THEN IntOf(diff[k]) ELSE 0
=============================================================================
