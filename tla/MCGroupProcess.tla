---------------------------- MODULE MCGroupProcess ----------------------------
(***************************************************************************)
(* Checks c1, which looks at the overrides, c2 and the one of malformed    *)
(* lines; tag x of c1 with a former name, z in the name space of c2,       *)
(* d durable, off disabled.  Patterns: the empty one; of those that match  *)
(* context k1, k1* stands for one of ten characters, which as a string     *)
(* sorts before those of two; one matches k2.                              *)
(***************************************************************************)
EXTENDS GroupProcess, TLC

MCCheckOrder == <<"c1", "c2", "malformed">>
MCScreened == {<<"x", "k2">>, <<"d", "k2">>}
MCTag == {"x", "c2/z", "d", "off", "bad"}
MCCheckOf == "x" :> "c1" @@ "c2/z" :> "c2" @@ "d" :> "c1" @@ "off" :> "c2" @@ "bad" :> "malformed"
MCPointerTo == <<"1", "2", "3", "4">>
MCQualified == <<"c2", "z">> :> "c2/z"
MCKnownAlias == "x_old" :> "x"
MCSize == "" :> 0 @@ "k*" :> 2 @@ "k1*" :> 10 @@ "*1" :> 2 @@ "k2" :> 2
MCGlob == {<<"k*", "k1">>, <<"k*", "k2">>, <<"k1*", "k1">>, <<"*1", "k1">>, <<"k2", "k2">>}

O(t, q) == [kind |-> "override", tag_name |-> t, pattern |-> q, architectures |-> {}, negated |-> FALSE]
On(t, q, a, n) == [kind |-> "override", tag_name |-> t, pattern |-> q, architectures |-> a, negated |-> n]
H(c, t, k) == [issued_by |-> c, tag_name |-> t, context |-> k]

Other(kind) == [kind |-> kind]

\* p1 alone, override files of up to three entries.
RichOverrides ==
    {<<>>, <<O("x", "")>>, <<O("x_old", "k1*"), O("x", "k2")>>,
     <<O("x", "k*"), O("x", "*1"), O("c2/z", "k*")>>,
     <<O("x", "k1*"), O("x", ""), O("d", "")>>,
     <<O("c2/z", ""), O("bogus", ""), O("off", "k2")>>,
     <<On("x", "k1*", {"i386"}, FALSE), On("x", "k2", {"i386"}, TRUE), On("d", "k2", {"any"}, FALSE)>>,
     <<On("x", "", {"any"}, TRUE), O("x_old", "k1*"), O("x", "k1*")>>}
RichFinds ==
    {<<>>}
    \cup {<<H("c1", "x", k), H("c1", t, l)>> : k \in {"k1", "k2"}, l \in {"k1", "k2"},
             t \in {"x", "x_old", "d", "off"}}
    \cup {<<H("c2", t, "k1"), H("c2", "z", k)>> : t \in {"x", "z", "c2/z", "off", "bogus"},
             k \in {"k1", "k2"}}

\* p2 and p3, of different architectures.
PairOverrides ==
    {<<O("x", "k1*")>>, <<O("x", "k*"), O("c2/z", "k1*")>>, <<On("x", "", {"i386"}, FALSE), O("d", "")>>}
PairFinds ==
    {<<>>, <<H("c1", "x", "k1")>>, <<H("c1", "d", "k2"), H("c1", "x", "k2")>>, <<H("c2", "z", "k1")>>}

\* p4, every file of up to four lines.
Kinds == {Other(k) : k \in {"blank", "comment", "mark", "error"}}
         \cup {O("x", "k1*"), O("x_old", ""), O("bad", "")}
Files == UNION {[1 .. n -> Kinds] : n \in 0 .. 4}

Alone(p, file) == <<{p}, [q \in {"p1", "p2", "p3", "p4"} |-> IF q = p THEN file ELSE <<>>]>>
MCInputs ==
    {Alone("p1", f) : f \in RichOverrides} \cup {Alone("p4", f) : f \in Files}
    \cup {<<{"p2", "p3"}, "p2" :> f @@ "p3" :> g @@ "p1" :> <<>> @@ "p4" :> <<>>>> :
             f \in PairOverrides, g \in PairOverrides}
MCFinds == "p1" :> RichFinds @@ "p2" :> PairFinds @@ "p3" :> PairFinds
           @@ "p4" :> {<<>>, <<H("c1", "x", "k1")>>}
MCArchOf == "p1" :> "amd64" @@ "p4" :> "amd64" @@ "p2" :> "amd64" @@ "p3" :> "i386"
MCArchMatch == {<<"amd64", "amd64">>, <<"i386", "i386">>, <<"any", "amd64">>, <<"any", "i386">>}
=============================================================================
