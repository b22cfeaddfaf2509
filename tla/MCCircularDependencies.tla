------------------------ MODULE MCCircularDependencies ------------------------
(***************************************************************************)
(* Every graph over four packages with an edge from a to b, which is every *)
(* graph but for names; and two packages of one name, with one more and a  *)
(* udeb, which may ask for each other and for themselves.                  *)
(***************************************************************************)
EXTENDS CircularDependencies

MCNameOf == [i \in Installable |-> IF i = "a386" THEN "a" ELSE i]
Asks(f) == [i \in Installable |-> IF i \in DOMAIN f THEN f[i] ELSE {}]

Four == {"a", "b", "c", "d"}
Graphs == {f \in [Four -> SUBSET Four] : "b" \in f["a"] /\ \A i \in Four : i \notin f[i]}
Mixed == {"a", "a386", "b", "u"}
MCSetups ==
    {<<Four, Asks(f)>> : f \in Graphs}
    \cup {<<Mixed, Asks(f)>> : f \in [Mixed -> {{}, {"a"}, {"b"}, {"a", "b"}, {"a", "b", "u"}}]}
=============================================================================
