------------------------------ MODULE NameOrder -------------------------------
(***************************************************************************)
(* The order of paths as strings, for instances: "-" comes before "/" and  *)
(* "/" before every letter, so that a-/x is before a/x, and a before both. *)
(***************************************************************************)
EXTENDS Integers, Sequences, FiniteSets

LOCAL S == INSTANCE SequencesExt

\* spell gives the characters of a segment, as numbers.
Slash == 47
Written(path, spell) == S!FlattenSeq([k \in DOMAIN path |-> <<Slash>> \o spell[path[k]]])

Precedes(s, t) ==
    \E k \in DOMAIN t : /\ \A i \in 1..k - 1 : i \in DOMAIN s /\ s[i] = t[i]
                        /\ k \in DOMAIN s => s[k] < t[k]

RanksOf(paths, spell) ==
    LET written == [p \in paths |-> Written(p, spell)]
    IN  [p \in paths |-> Cardinality({q \in paths : Precedes(written[q], written[p])})]
=============================================================================
