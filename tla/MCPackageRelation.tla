-------------------------- MODULE MCPackageRelation ---------------------------
(***************************************************************************)
(* All pairs of simple predicates about one package: five operators with   *)
(* versions 1 and 3 (the package may have any version up to 4), five lists *)
(* of architectures, three qualifiers.  All relations of two clauses,      *)
(* some of three, and all orders of four clauses that overlap.             *)
(***************************************************************************)
EXTENDS PackageRelation, TLC

MCMatches == "i386" :> {"i386"} @@ "amd64" :> {"amd64"} @@ "linux-any" :> {"i386", "amd64"}

Foo == [name |-> "foo", parsable |-> TRUE, qualifier |-> "", operator |-> "", version |-> 0,
        negated |-> FALSE, arches |-> {}, profile |-> ""]
Bar == [Foo EXCEPT !.name = "bar"]
Ranges == {Foo} \cup {[Foo EXCEPT !.operator = o, !.version = v] : o \in Operator \ {""}, v \in {1, 3}}
Simple == UNION {{p, [p EXCEPT !.qualifier = "any"], [p EXCEPT !.qualifier = "i386"],
                  [p EXCEPT !.arches = {"i386"}], [p EXCEPT !.arches = {"i386"}, !.negated = TRUE],
                  [p EXCEPT !.arches = {"linux-any"}],
                  [p EXCEPT !.arches = {"i386", "amd64"}, !.negated = (p.operator = "=")]} : p \in Ranges}
          \cup {Bar, [Foo EXCEPT !.profile = "!nocheck"], [Bar EXCEPT !.parsable = FALSE]}

Is(o, v) == <<[Foo EXCEPT !.operator = o, !.version = v]>>
Six == {Is("<<", 3), Is(">>", 1), Is("=", 2), Is("<=", 1), <<Foo>>,
        <<Is("=", 1)[1], [Bar EXCEPT !.parsable = FALSE]>>}
Three == {Is(">>", 1), Is("=", 2), <<Foo>>}
Overlapping == {Is("<<", 3), Is(">=", 1), Is(">>", 1), Is("=", 2)}

MCConditions ==
    {<<>>} \cup {<< <<p>> >> : p \in Simple}
    \cup {<<a, b>> : a \in Six, b \in Six} \cup {<<a, b, c>> : a \in Six, b \in Three, c \in Three}
    \cup {r \in [1..4 -> Overlapping] : \A k, l \in 1..4 : r[k] = r[l] => k = l}
=============================================================================
