---------------------------- MODULE Aggregation -----------------------------
(***************************************************************************)
(* The aggregators of the executor (crates/sqlite/.../executor/            *)
(* aggregator.rs): for every configured aggregator, one entry per group,   *)
(* updated each time an entity or an event message of the aggregated model *)
(* is stored, and published with its position.                             *)
(*                                                                         *)
(* A field holds integers whose SQL value is a decimal ("dec": the small   *)
(* signed and unsigned types) or a hexadecimal string ("hex": the wide     *)
(* unsigned ones).  W stands for the 128 bits of u128 and i128.  An update *)
(* of some members only may lack the fields of the group or the aggregated *)
(* one: they are None.                                                     *)
(***************************************************************************)
EXTENDS Integers, Sequences, FiniteSets, FiniteSetsExt, SequencesExt

CONSTANTS
    Group,          \* the values of the group_by fields
    Field,          \* the fields that are aggregated: each the SQL representation, "dec"
                    \* or "hex", and the numbers of its type
    W,              \* the width of u128
    None,
    MaxUpdates      \* bound: updates

Strategy == {"Latest", "Count", "Max", "Min", "Sum", "Avg"}

Configuration ==
    /\ W \in Nat \ {0}
    /\ \A f \in Field : \/ f.enc = "dec" /\ f.numbers \subseteq Int
                        \/ f.enc = "hex" /\ f.numbers \subseteq Nat

VARIABLES
    field,          \* the aggregated field
    entries,        \* table aggregations: the entry of each aggregator and group
    published,      \* the last entry published by each aggregator
    history         \* ghost: the numbers each group was updated with, None if there was none

vars == <<field, entries, published, history>>

I128 == -(2^(W-1)) .. 2^(W-1) - 1

(* The ordering value.  A decimal is parsed as u128 first: only a negative one
   is parsed as i128 and biased. *)
normalize_value_to_hex(e, n) ==
    CASE e = "hex"          -> n
      [] e = "dec" /\ n >= 0 -> n
      [] e = "dec" /\ n < 0  -> (n + 2^W + 2^(W-1)) % 2^W

(* A hexadecimal string is read as u128, and 0 if it does not fit, then cast. *)
parse_display_to_i128(e, n) ==
    CASE e = "dec"              -> n
      [] e = "hex" /\ n >= 2^W  -> 0
      [] e = "hex" /\ n < 2^W   -> IF n < 2^(W-1) THEN n ELSE n - 2^W

saturating_add(a, b) ==
    IF a + b > 2^(W-1) - 1 THEN 2^(W-1) - 1
    ELSE IF a + b < -(2^(W-1)) THEN -(2^(W-1))
    ELSE a + b

(* Integer division, towards zero. *)
Quotient(a, b) == IF a >= 0 THEN a \div b ELSE -((-a) \div b)

(* An entry: the ordering value, the displayed number with its representation,
   and the metadata (a sum and a count) of an average. *)
Entry(e, n, sum, count) ==
    [value |-> normalize_value_to_hex(e, n), enc |-> e, display |-> n,
     sum |-> sum, count |-> count]

calculate_latest_value(n) == Entry(field.enc, n, 0, 0)

calculate_count_value(old) == Entry("dec", IF old = None THEN 1 ELSE old.display + 1, 0, 0)

calculate_max_value(old, n) ==
    LET new == Entry(field.enc, n, 0, 0)
    IN  IF old # None /\ ~ new.value > old.value THEN old ELSE new

calculate_min_value(old, n) ==
    LET new == Entry(field.enc, n, 0, 0)
    IN  IF old # None /\ ~ new.value < old.value THEN old ELSE new

calculate_sum_value(old, n) ==
    LET new_val == parse_display_to_i128(field.enc, n)
    IN  Entry("dec", IF old = None THEN new_val
                     ELSE saturating_add(parse_display_to_i128(old.enc, old.display), new_val), 0, 0)

calculate_avg_value(old, n) ==
    LET new_sum == saturating_add(IF old = None THEN 0 ELSE old.sum, parse_display_to_i128(field.enc, n))
        new_count == (IF old = None THEN 0 ELSE old.count) + 1
    IN  Entry("dec", Quotient(new_sum, new_count), new_sum, new_count)

Calculate(strategy, old, n) ==
    CASE strategy = "Latest" -> calculate_latest_value(n)
      [] strategy = "Count"  -> calculate_count_value(old)
      [] strategy = "Max"    -> calculate_max_value(old, n)
      [] strategy = "Min"    -> calculate_min_value(old, n)
      [] strategy = "Sum"    -> calculate_sum_value(old, n)
      [] strategy = "Avg"    -> calculate_avg_value(old, n)

(* ROW_NUMBER() OVER (ORDER BY value DESC), of the rows that are left by the
   WHERE clause, which selects the group's row. *)
Position(table, g) == 1 + Cardinality({h \in {g} : table[h].value > table[g].value})

(* Every strategy but "Count" fails without the aggregated field; the error is
   logged. *)
Fails(strategy, n) == n = None /\ strategy # "Count"

(* An update of every aggregator of the model, by a stored value: skipped when the
   group is not known. *)
update_aggregation(g, n) ==
    /\ Len(FoldSet(LAMBDA h, s : s \o history[h], << >>, Group)) < MaxUpdates
    /\ IF g = None THEN UNCHANGED <<entries, published, history>>
       ELSE /\ entries' = [s \in Strategy |->
                  IF Fails(s, n) THEN entries[s] ELSE [entries[s] EXCEPT ![g] = Calculate(s, @, n)]]
            /\ published' = [s \in Strategy |->
                  IF Fails(s, n) THEN published[s]
                  ELSE [group |-> g, entry |-> entries'[s][g], position |-> Position(entries'[s], g)]]
            /\ history' = [history EXCEPT ![g] = Append(@, n)]
    /\ UNCHANGED field

Init ==
    /\ field \in Field
    /\ entries = [s \in Strategy |-> [g \in Group |-> None]]
    /\ published = [s \in Strategy |-> None]
    /\ history = [g \in Group |-> << >>]

Next == \E g \in Group \cup {None}, n \in field.numbers \cup {None} : update_aggregation(g, n)

Spec == Init /\ [][Next]_vars

-----------------------------------------------------------------------------
(* Properties *)

Numbers(g) == SelectSeq(history[g], LAMBDA n : n # None)
SumOf(numbers) == FoldSeq(LAMBDA n, s : n + s, 0, numbers)

(* Every partial sum of the group's numbers fits in an i128. *)
Representable(g) ==
    /\ ToSet(Numbers(g)) \subseteq I128
    /\ \A i \in 1..Len(Numbers(g)) : SumOf(SubSeq(Numbers(g), 1, i)) \in I128

(* No number of the group is negative, or too large for an i128. *)
Positive(g) == ToSet(Numbers(g)) \subseteq 0 .. 2^(W-1) - 1

SameSign(numbers) == (\A n \in numbers : n >= 0) \/ (\A n \in numbers : n < 0)

Entries(s) == {g \in Group : entries[s][g] # None}

(* Whatever the order of the updates and the representation of the field, the count
   of a group is that of its updates; the sum and the average are those of its
   numbers as long as they can be represented, and a sum of positive numbers that
   cannot is the largest i128 and never less; and so are the largest and the
   smallest number of a group, of any size, whose numbers have the same sign. *)
AggregatesAgree ==
    \A g \in Group :
        LET total == SumOf(Numbers(g))
            sum == IF Positive(g) THEN Min({total, 2^(W-1) - 1}) ELSE total
        IN  /\ history[g] # << >> => entries["Count"][g].display = Len(history[g])
            /\ Numbers(g) # << >> =>
                  /\ Representable(g) \/ Positive(g) =>
                        /\ entries["Sum"][g].display = sum
                        /\ entries["Avg"][g].display = Quotient(sum, Len(Numbers(g)))
                  /\ SameSign(ToSet(Numbers(g))) =>
                        /\ entries["Max"][g].display = Max(ToSet(Numbers(g)))
                        /\ entries["Min"][g].display = Min(ToSet(Numbers(g)))

(* "Lexicographic ordering matches numerical ordering": a leaderboard, which is
   ordered by the ordering values, is ordered by the displayed numbers, among
   numbers of the same sign: a negative one, which is biased, is listed above the
   positive ones. *)
OrderIsNumerical ==
    \A s \in Strategy : \A g, h \in Entries(s) :
        SameSign({entries[s][g].display, entries[s][h].display}) =>
            (entries[s][g].display < entries[s][h].display <=> entries[s][g].value < entries[s][h].value)
=============================================================================
