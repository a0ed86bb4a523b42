------------------------------ MODULE Indexer ------------------------------
(***************************************************************************)
(* What the indexer promises: contracts emit events, and what is indexed   *)
(* of each contract is a prefix of what it emitted that only ever grows.   *)
(***************************************************************************)
EXTENDS Integers, Sequences

CONSTANT Contract

VARIABLES
    emitted,    \* the events of each contract, in order
    indexed     \* the events the index stands for

iVars == <<emitted, indexed>>

IInit ==
    /\ emitted = [c \in Contract |-> << >>]
    /\ indexed = [c \in Contract |-> << >>]

(* A sequence is a beginning of another. *)
Begins(s, t) == \E n \in 0..Len(t) : s = SubSeq(t, 1, n)

Grows(f, g) == \A c \in Contract : Begins(f[c], g[c])

Emit ==
    /\ Grows(emitted, emitted')
    /\ UNCHANGED indexed

Index ==
    /\ Grows(indexed, indexed')
    /\ Grows(indexed', emitted)
    /\ UNCHANGED emitted

ISpec == IInit /\ [][Emit \/ Index]_iVars
=============================================================================
