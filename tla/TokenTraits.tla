---------------------------- MODULE TokenTraits -----------------------------
(***************************************************************************)
(* Token metadata in the executor: the metadata of the tokens of one       *)
(* contract, the attributes stored for each of them, the counts of traits  *)
(* kept with the contract, and what is announced of a token                *)
(* (crates/sqlite/.../executor).                                           *)
(*                                                                         *)
(* Metadata is the sequence of its traits, or Unreadable when it is empty  *)
(* or not JSON.  A statement that fails is only logged: what was written   *)
(* before it stays in the transaction, the rest of the query is left out.  *)
(***************************************************************************)
EXTENDS Integers, Sequences, FiniteSets, FiniteSetsExt, SequencesExt

CONSTANTS
    Token,
    Trait,          \* a trait type and its value
    Metadata,       \* the readable metadata, sequences of traits
    Unreadable,
    None,
    MaxUpdates      \* bound: metadata updates

Configuration ==
    /\ Metadata \subseteq Seq(Trait)
    /\ Unreadable \notin Metadata /\ None \notin Metadata /\ None # Unreadable

VARIABLES
    config,         \* token_attributes and trait_counts: what is kept besides the metadata
    metadata,       \* of each token, None before it is registered
    attributes,     \* rows of token_attributes, of each token
    traits,         \* the contract's count of each trait
    announced,      \* the metadata each token was last published with
    updates,
    read,           \* ghost: the last readable metadata of each token
    changed         \* ghost: an update gave a token other traits than it had

vars == <<config, metadata, attributes, traits, announced, updates, read, changed>>

(* extract_traits_from_json *)
TraitsOf(md) == IF md = Unreadable THEN << >> ELSE md

(* A row is inserted under a key made of the token and the trait: a trait that
   is there already is an error, and no more rows are inserted. *)
InsertAttribute(stored, tr) ==
    IF stored.ok /\ tr \notin stored.rows THEN [stored EXCEPT !.rows = @ \cup {tr}]
    ELSE [stored EXCEPT !.ok = FALSE]

(* The rows are replaced, unless the metadata cannot be read. *)
store_token_attributes(old, md) ==
    IF md = Unreadable THEN [rows |-> old, ok |-> TRUE]
    ELSE FoldLeft(InsertAttribute, [rows |-> {}, ok |-> TRUE], md)

Subtract(counts, tr) == [counts EXCEPT ![tr] = IF @ > 1 THEN @ - 1 ELSE 0]
Plus(counts, tr) == [counts EXCEPT ![tr] = @ + 1]

apply_trait_operations(counts, add, subtract) ==
    FoldLeft(Plus, FoldLeft(Subtract, counts, subtract), add)

(* The metadata is written; then, as configured, the attributes are stored and
   the traits counted; then the token is published. *)
StoreMetadata(t, md, subtract) ==
    LET stored == IF config.token_attributes THEN store_token_attributes(attributes[t], md)
                  ELSE [rows |-> attributes[t], ok |-> TRUE]
    IN  /\ metadata' = [metadata EXCEPT ![t] = md]
        /\ attributes' = [attributes EXCEPT ![t] = stored.rows]
        /\ traits' = IF stored.ok /\ config.trait_counts
                     THEN apply_trait_operations(traits, TraitsOf(md), subtract)
                     ELSE traits
        /\ announced' = IF stored.ok THEN [announced EXCEPT ![t] = md] ELSE announced
        /\ read' = IF md = Unreadable THEN read ELSE [read EXCEPT ![t] = md]
        /\ UNCHANGED config

RegisterNftToken(t, md) ==
    /\ metadata[t] = None
    /\ StoreMetadata(t, md, << >>)
    /\ UNCHANGED <<updates, changed>>

(* Mutant: the traits the token had are not subtracted. *)
UpdateTokenMetadata_adds(t, md) ==
    /\ updates < MaxUpdates
    /\ metadata[t] # None
    /\ StoreMetadata(t, md, << >>)
    /\ updates' = updates + 1
    /\ changed' = (changed \/ md \notin {Unreadable, read[t]})

(* The metadata whose traits are subtracted is read after the update: it is the
   new one. *)
UpdateTokenMetadata(t, md) ==
    /\ updates < MaxUpdates
    /\ metadata[t] # None
    /\ StoreMetadata(t, md, TraitsOf(md))
    /\ updates' = updates + 1
    /\ changed' = (changed \/ md \notin {Unreadable, read[t]})

Init ==
    /\ config \in [token_attributes : BOOLEAN, trait_counts : BOOLEAN]
    /\ metadata = [t \in Token |-> None]
    /\ attributes = [t \in Token |-> {}]
    /\ traits = [tr \in Trait |-> 0]
    /\ announced = [t \in Token |-> None]
    /\ updates = 0
    /\ read = [t \in Token |-> None]
    /\ changed = FALSE

Next ==
    \E t \in Token, md \in Metadata \cup {Unreadable} :
        RegisterNftToken(t, md) \/ UpdateTokenMetadata(t, md)

Spec == Init /\ [][Next]_vars

-----------------------------------------------------------------------------
(* Properties *)

Distinct(md, n) == \A i, j \in 1..n : md[i] = md[j] => i = j

(* The traits of metadata that come before the first one that is repeated. *)
BeforeRepeat(md) == {md[n] : n \in {n \in 1..Len(md) : Distinct(md, n)}}

Occurrences(t, tr) == IF read[t] = None THEN 0 ELSE Cardinality({i \in 1..Len(read[t]) : read[t][i] = tr})

(* The last readable metadata of a token repeats a trait, and the attributes are
   stored: the query has failed. *)
Failed(t) == config.token_attributes /\ read[t] # None /\ ~ Distinct(read[t], Len(read[t]))

(* The attributes of a token are the traits of its last readable metadata,
   whatever it had before, up to the first trait that is repeated. *)
AttributesOfMetadata ==
    config.token_attributes =>
        \A t \in Token : attributes[t] = IF read[t] = None THEN {} ELSE BeforeRepeat(read[t])

(* As long as no update gives a token other traits, the contract counts each trait
   as often as the tokens have it, however often their metadata is fetched again;
   afterwards it counts it no less often than any token has it.  Tokens whose
   query failed are not counted. *)
TraitsCounted ==
    LET counted == {t \in Token : ~ Failed(t)}
    IN  config.trait_counts => \A tr \in Trait :
            /\ ~ changed => traits[tr] = FoldSet(LAMBDA t, n : n + Occurrences(t, tr), 0, counted)
            /\ \A t \in counted : traits[tr] >= Occurrences(t, tr)

(* A token is announced with the metadata it has, unless its query failed. *)
AnnouncedAsStored ==
    \A t \in Token : announced[t] # metadata[t] <=> Failed(t) /\ metadata[t] = read[t]

AttributesMatch == AttributesOfMetadata /\ TraitsCounted /\ AnnouncedAsStored
=============================================================================
