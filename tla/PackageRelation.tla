---------------------------- MODULE PackageRelation ----------------------------
(***************************************************************************)
(* lib/Lintian/Relation.pm and Relation/Predicate.pm: relations such as    *)
(* "foo (>= 1) [i386] | bar, baz:any", what one says about another, and    *)
(* the search for redundant clauses.                                       *)
(*                                                                         *)
(* A relation is what load makes of a field: a sequence of clauses (AND)   *)
(* of alternatives (OR).  Versions are compared by libapt-pkg; here they   *)
(* are numbers.                                                            *)
(***************************************************************************)
EXTENDS Integers, Sequences

CONSTANTS
    Package,
    Architecture,   \* what a machine may be
    Token,          \* what may stand in brackets: architectures and wildcards
    Matches,        \* the architectures each token stands for
    Version,        \* versions; 0 is none
    Conditions      \* the relations to look at

ASSUME RelationAssumption ==
    /\ Matches \in [Token -> SUBSET Architecture]
    /\ Version \subseteq Nat /\ Architecture \cap {"", "any"} = {}

Operator == {"", "=", "<<", "<=", ">>", ">="}

\* build_architecture is a list of tokens, all with an exclamation mark or none
\* (negated).  An unparsable predicate has its text for a name.
Predicate ==
    [name : Package, parsable : BOOLEAN, qualifier : {"", "any"} \cup Architecture,
     operator : Operator, version : Version, negated : BOOLEAN, arches : SUBSET Token,
     profile : {"", "!nocheck"}]
Clause == Seq(Predicate)
ASSUME ConditionsAssumption == Conditions \subseteq Seq(Clause)

-----------------------------------------------------------------------------
\* Predicate.pm, satisfies: its results 1 (Satisfies) and 0 (Falsifies); undef
\* is what is left.

ArchesCovered(self, other) ==
    \/ self.arches = {}
    \/ /\ other.arches # {} /\ ~self.negated /\ ~other.negated /\ other.arches \subseteq self.arches
    \/ /\ other.arches # {} /\ self.negated /\ other.negated /\ self.arches \subseteq other.arches
    \/ /\ other.arches # {} /\ self.negated /\ ~other.negated /\ self.arches \cap other.arches = {}

QualifierFits(self, other) ==
    \/ self.qualifier = other.qualifier
    \/ self.qualifier = "" /\ other.qualifier = "any"

\* Mutant: the bound itself is taken for less than the bound.
RangeWithinClosed(self, other) ==
    \/ other.operator = ""
    \/ other.operator = "=" /\ self.operator = "=" /\ self.version = other.version
    \/ other.operator \in {"<=", "<<"} /\ self.operator \in {"=", "<<", "<="} /\ self.version <= other.version
    \/ other.operator \in {">=", ">>"} /\ self.operator \in {"=", ">>", ">="} /\ self.version >= other.version

\* The versions self allows are among those that other allows.
RangeWithin(self, other) ==
    \/ other.operator = ""
    \/ other.operator = "=" /\ self.operator = "=" /\ self.version = other.version
    \/ other.operator = "<=" /\ self.operator \in {"=", "<<", "<="} /\ self.version <= other.version
    \/ other.operator = "<<" /\ self.operator = "<<" /\ self.version <= other.version
    \/ other.operator = "<<" /\ self.operator \in {"=", "<="} /\ self.version < other.version
    \/ other.operator = ">=" /\ self.operator \in {"=", ">>", ">="} /\ self.version >= other.version
    \/ other.operator = ">>" /\ self.operator = ">>" /\ self.version >= other.version
    \/ other.operator = ">>" /\ self.operator \in {"=", ">="} /\ self.version > other.version

\* Mutant: two ranges that share their bounds exclude each other.
RangeOutsideClosed(self, other) ==
    \/ /\ other.operator \in {"=", "<=", "<<"} /\ self.operator \in {">>", ">=", "="}
       /\ self.version >= other.version
    \/ /\ other.operator \in {"=", ">=", ">>"} /\ self.operator \in {"<<", "<=", "="}
       /\ self.version <= other.version

\* The versions self allows are none that other allows.  The last case compares
\* the version of self with itself.
RangeOutside(self, other) ==
    \/ /\ other.operator = "="
       /\ \/ self.operator = "<<" /\ self.version <= other.version
          \/ self.operator = "<=" /\ self.version < other.version
          \/ self.operator = ">>" /\ self.version >= other.version
          \/ self.operator = ">=" /\ self.version > other.version
          \/ self.operator = "=" /\ self.version # other.version
    \/ /\ other.operator = "<="
       /\ \/ self.operator = ">>" /\ self.version >= other.version
          \/ self.operator \in {">=", "="} /\ self.version > other.version
    \/ /\ other.operator = ">="
       /\ \/ self.operator = "<<" /\ self.version <= other.version
          \/ self.operator \in {"<=", "="} /\ self.version < other.version
    \/ other.operator = ">>" /\ self.operator \in {"<<", "<=", "="} /\ self.version <= other.version
    \/ other.operator = "<<" /\ self.operator = "=" /\ self.version >= other.version
    \/ other.operator = "<<" /\ self.operator \in {">>", ">="} /\ self.version >= self.version

Comparable(self, other) ==
    /\ self.parsable /\ other.parsable /\ self.name = other.name
    /\ self.profile = "" /\ other.profile = ""
    /\ ArchesCovered(self, other) /\ QualifierFits(self, other)

SameText(self, other) == (~self.parsable \/ ~other.parsable) /\ self = other

Satisfies(self, other) ==
    SameText(self, other) \/ (Comparable(self, other) /\ RangeWithin(self, other))
Falsifies(self, other) == Comparable(self, other) /\ RangeOutside(self, other)

-----------------------------------------------------------------------------
\* Relation.pm, implies_array for two clauses, each a predicate or an OR; then
\* for what is below the AND of two relations; and the same for the inverse.

\* Mutant: some alternative will do.
ClauseImpliesSome(p, q) == \E i \in DOMAIN p : \E j \in DOMAIN q : Satisfies(p[i], q[j])

ClauseImplies(p, q) == \A i \in DOMAIN p : \E j \in DOMAIN q : Satisfies(p[i], q[j])
Implies(p, q) == \A j \in DOMAIN q : \E i \in DOMAIN p : ClauseImplies(p[i], q[j])

ImpliesNot(p, q) ==
    \E j \in DOMAIN q : \A b \in DOMAIN q[j] :
        \E i \in DOMAIN p : \A a \in DOMAIN p[i] : Falsifies(p[i][a], q[j][b])

-----------------------------------------------------------------------------
VARIABLES
    pc,
    trunk,              \* the relation
    other,              \* the relation it is compared with
    satisfies, satisfies_inverse,       \* the answers
    i, j,               \* the clauses redundancies is at
    redundant_sets,     \* the others of a set, for the first of it
    seen                \* the first of the set, for the others

answers == <<satisfies, satisfies_inverse>>
search == <<i, j, redundant_sets, seen>>
vars == <<pc, trunk, other, answers, search>>

Nothing == [c \in {} |-> {}]
With(table, c, value) == [d \in DOMAIN table \cup {c} |-> IF d = c THEN value ELSE table[d]]
Texts == {trunk[k] : k \in DOMAIN trunk}

TypeOK ==
    /\ pc \in {"loaded", "answered", "search", "found"}
    /\ trunk \in Conditions /\ other \in Conditions \cup {<<>>}
    /\ satisfies \in BOOLEAN /\ satisfies_inverse \in BOOLEAN
    /\ i \in Nat /\ j \in Nat /\ (pc = "search" => i < j /\ j <= Len(trunk) + 1)
    /\ DOMAIN redundant_sets \subseteq Texts /\ DOMAIN seen \subseteq Texts
    /\ \A c \in DOMAIN redundant_sets : redundant_sets[c] \subseteq Texts /\ redundant_sets[c] # {}
    /\ \A c \in DOMAIN seen : seen[c] \in DOMAIN redundant_sets

Init ==
    /\ pc = "loaded" /\ trunk \in Conditions /\ other = <<>> /\ satisfies = FALSE /\ satisfies_inverse = FALSE
    /\ i = 0 /\ j = 0 /\ redundant_sets = Nothing /\ seen = Nothing

\* satisfies and satisfies_inverse of a relation.
Ask ==
    /\ pc = "loaded" /\ pc' = "answered"
    /\ other' \in Conditions
    /\ satisfies' = Implies(trunk, other') /\ satisfies_inverse' = ImpliesNot(trunk, other')
    /\ UNCHANGED <<trunk, search>>

\* redundancies: every pair of clauses, in order.
Redundancies ==
    /\ pc = "loaded" /\ pc' = "search" /\ i' = 1 /\ j' = 2
    /\ Len(trunk) > 1
    /\ UNCHANGED <<trunk, other, answers, redundant_sets, seen>>

Redundant(one, two) == ClauseImplies(one, two) \/ ClauseImplies(two, one)

AddTo(first, c) ==
    /\ redundant_sets' = With(redundant_sets, first, redundant_sets[first] \cup {c})
    /\ seen' = With(seen, c, first)

\* Mutant: a set that is there is begun anew.
AddPairAnew(one, two) ==
    IF one \in DOMAIN seen THEN AddTo(seen[one], two)
    ELSE IF two \in DOMAIN seen THEN AddTo(seen[two], one)
    ELSE redundant_sets' = With(redundant_sets, one, {two}) /\ seen' = With(seen, two, one)

AddPair(one, two) ==
    IF one \in DOMAIN seen THEN AddTo(seen[one], two)
    ELSE IF two \in DOMAIN seen THEN AddTo(seen[two], one)
    ELSE /\ redundant_sets' = With(redundant_sets, one,
               {two} \cup (IF one \in DOMAIN redundant_sets THEN redundant_sets[one] ELSE {}))
         /\ seen' = With(seen, two, one)

\* Mutant: a clause is compared with itself.
NextPairSelf == IF j < Len(trunk) THEN j' = j + 1 /\ UNCHANGED i ELSE i' = i + 1 /\ j' = i + 1

NextPair ==
    IF j < Len(trunk) THEN j' = j + 1 /\ UNCHANGED i ELSE i' = i + 1 /\ j' = i + 2

ComparePair ==
    /\ pc = "search" /\ i < Len(trunk)
    /\ IF Redundant(trunk[i], trunk[j]) THEN AddPair(trunk[i], trunk[j])
       ELSE UNCHANGED <<redundant_sets, seen>>
    /\ NextPair /\ UNCHANGED <<pc, trunk, other, answers>>

Found ==
    /\ pc = "search" /\ i = Len(trunk) /\ pc' = "found"
    /\ UNCHANGED <<trunk, other, answers, search>>

Terminated == pc \in {"answered", "found"} /\ UNCHANGED vars

Next == Ask \/ Redundancies \/ ComparePair \/ Found \/ Terminated
Spec == Init /\ [][Next]_vars

-----------------------------------------------------------------------------
\* What relations mean.  In a world there is a machine, at most one version of
\* each package (version 0: none), built for some architecture, and tests are
\* run or not.  A text that cannot be parsed is taken for the name of something
\* that is there or not.
World ==
    [machine : Architecture, version : [Package -> Version], built_for : [Package -> Architecture],
     checks : BOOLEAN]

Restricted(p, w) ==
    \/ p.arches # {} /\ ((\E t \in p.arches : w.machine \in Matches[t]) <=> p.negated)
    \/ p.profile # "" /\ ~w.checks

Allows(p, v) ==
    /\ p.operator = "=" => v = p.version
    /\ p.operator = "<<" => v < p.version
    /\ p.operator = "<=" => v <= p.version
    /\ p.operator = ">>" => v > p.version
    /\ p.operator = ">=" => v >= p.version

Available(p, w) ==
    /\ w.version[p.name] > 0 /\ Allows(p, w.version[p.name])
    /\ p.qualifier = "" => w.built_for[p.name] = w.machine
    /\ p.qualifier \in Architecture => w.built_for[p.name] = p.qualifier

\* A predicate asks for nothing where its restrictions exclude it.
Met(p, w) ==
    IF p.parsable THEN Restricted(p, w) \/ Available(p, w) ELSE w.version[p.name] > 0
ClauseMet(c, w) == \E k \in DOMAIN c : Met(c[k], w)
RelationMet(r, w) == \A k \in DOMAIN r : ClauseMet(r[k], w)

\* The two cases in which the answers are wrong: a wildcard stands for an
\* excluded architecture, which is looked for by name; and a lower bound is
\* taken to exclude every strict upper bound.
ByWildcard(p, q) ==
    /\ p.arches # {} /\ p.negated /\ q.arches # {} /\ ~q.negated
    /\ \E s \in p.arches, t \in q.arches : Matches[s] \cap Matches[t] # {}
BySelf(p, q) ==
    p.operator \in {">>", ">="} /\ q.operator = "<<" /\ p.version < q.version

SomeByWildcard(r, s) ==
    \E k \in DOMAIN r, l \in DOMAIN s : \E a \in DOMAIN r[k], b \in DOMAIN s[l] :
        r[k][a].name = s[l][b].name /\ ByWildcard(r[k][a], s[l][b])
SomeBySelf(r, s) ==
    \E k \in DOMAIN r, l \in DOMAIN s : \E a \in DOMAIN r[k], b \in DOMAIN s[l] :
        r[k][a].name = s[l][b].name /\ BySelf(r[k][a], s[l][b])

\* When a relation is said to satisfy another, every world that meets the one
\* meets the other.
SatisfiesIsSound ==
    pc = "answered" /\ satisfies /\ ~SomeByWildcard(trunk, other) =>
        \A w \in World : RelationMet(trunk, w) => RelationMet(other, w)

\* When it is said to exclude another, that has a clause which no world meets
\* that meets the relation, and where all of the clause applies.
InverseIsSound ==
    pc = "answered" /\ satisfies_inverse /\ ~SomeByWildcard(trunk, other) /\ ~SomeBySelf(trunk, other) =>
        \E l \in DOMAIN other : \A w \in World :
            RelationMet(trunk, w) /\ (\A b \in DOMAIN other[l] : ~Restricted(other[l][b], w))
                => ~ClauseMet(other[l], w)

\* Of two clauses one of which implies the other, some reported set has both;
\* and no clause is reported but for another one, in the same set, that says
\* the same or more, or less.
Reported(c) == {c} \cup redundant_sets[c]
RedundanciesReported ==
    /\ pc = "found" =>
          \A k, l \in DOMAIN trunk : k < l /\ Redundant(trunk[k], trunk[l]) =>
              \E c \in DOMAIN redundant_sets : {trunk[k], trunk[l]} \subseteq Reported(c)
    /\ \A c \in DOMAIN redundant_sets : \A one \in Reported(c) :
          \E k, l \in DOMAIN trunk :
              /\ k # l /\ trunk[k] = one /\ trunk[l] \in Reported(c)
              /\ ClauseImplies(trunk[k], trunk[l]) \/ ClauseImplies(trunk[l], trunk[k])
=============================================================================
