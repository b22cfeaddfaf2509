------------------------- MODULE PackageRelationProofs -------------------------
(***************************************************************************)
(* Proofs about PackageRelation: the answers of satisfies and              *)
(* satisfies_inverse are sound for all packages, versions, architectures   *)
(* and relations, but for the two cases that the properties name; and the  *)
(* search for redundant clauses reports all of them and nothing else.      *)
(***************************************************************************)
EXTENDS PackageRelation, SequenceTheorems, TLAPS

\* Where self does not apply, neither does other.
LEMMA CoveredApplies ==
    ASSUME NEW p \in Predicate, NEW q \in Predicate, NEW w \in World,
           Comparable(p, q), ~ByWildcard(p, q), ~Restricted(q, w)
    PROVE  ~Restricted(p, w)
  <1>1. p.profile = "" /\ ArchesCovered(p, q)
    BY DEF Comparable
  <1> DEFINE On(x) == \E t \in x.arches : w.machine \in Matches[t]
  <1>2. q.arches # {} => ~(On(q) <=> q.negated)
    BY DEF Restricted
  <1>3. SUFFICES ASSUME p.arches # {} PROVE ~(On(p) <=> p.negated)
    BY <1>1 DEF Restricted
  <1>4. p.negated \in BOOLEAN /\ q.negated \in BOOLEAN
    BY DEF Predicate
  <1>5. CASE ~p.negated /\ ~q.negated /\ q.arches \subseteq p.arches /\ q.arches # {}
    BY <1>2, <1>5
  <1>6. CASE p.negated /\ q.negated /\ p.arches \subseteq q.arches /\ q.arches # {}
    BY <1>2, <1>6
  <1>7. CASE p.negated /\ ~q.negated /\ q.arches # {}
    <2>1. \A s \in p.arches, t \in q.arches : Matches[s] \cap Matches[t] = {}
      BY <1>3, <1>7 DEF ByWildcard
    <2>2. On(q)
      BY <1>2, <1>7
    <2>3. ~On(p)
      BY <2>1, <2>2
    <2>4. QED BY <2>3, <1>7
  <1>8. QED BY <1>1, <1>3, <1>5, <1>6, <1>7 DEF ArchesCovered

\* One range of versions within another, and one outside of another.
LEMMA WithinAllows ==
    ASSUME NEW p \in Predicate, NEW q \in Predicate, NEW v \in Nat, RangeWithin(p, q), Allows(p, v)
    PROVE  Allows(q, v)
  <1>1. p.version \in Nat /\ q.version \in Nat /\ q.operator \in Operator
    BY RelationAssumption DEF Predicate
  <1>2. CASE q.operator = ""
    BY <1>2 DEF Allows
  <1>3. CASE q.operator = "="
    BY <1>1, <1>3 DEF RangeWithin, Allows
  <1>4. CASE q.operator = "<="
    BY <1>1, <1>4 DEF RangeWithin, Allows
  <1>5. CASE q.operator = "<<"
    BY <1>1, <1>5 DEF RangeWithin, Allows
  <1>6. CASE q.operator = ">="
    BY <1>1, <1>6 DEF RangeWithin, Allows
  <1>7. CASE q.operator = ">>"
    BY <1>1, <1>7 DEF RangeWithin, Allows
  <1>8. QED BY <1>1, <1>2, <1>3, <1>4, <1>5, <1>6, <1>7 DEF Operator

LEMMA OutsideForbids ==
    ASSUME NEW p \in Predicate, NEW q \in Predicate, NEW v \in Nat, RangeOutside(p, q), ~BySelf(p, q),
           Allows(p, v)
    PROVE  ~Allows(q, v)
  <1>1. p.version \in Nat /\ q.version \in Nat
    BY RelationAssumption DEF Predicate
  <1>2. QED BY <1>1 DEF RangeOutside, BySelf, Allows

\* The version of a package in a world is a number.
LEMMA WorldVersion == ASSUME NEW p \in Predicate, NEW w \in World PROVE w.version[p.name] \in Nat
  BY RelationAssumption DEF Predicate, World

\* What is available to self fits the qualifier of other.
LEMMA QualifierAvailable ==
    ASSUME NEW p \in Predicate, NEW q \in Predicate, NEW w \in World,
           Comparable(p, q), Available(p, w), Allows(q, w.version[q.name])
    PROVE  Available(q, w)
  BY RelationAssumption DEF Comparable, QualifierFits, Available, Predicate

LEMMA SatisfiesPredicate ==
    ASSUME NEW p \in Predicate, NEW q \in Predicate, NEW w \in World,
           Satisfies(p, q), p.name = q.name => ~ByWildcard(p, q), Met(p, w)
    PROVE  Met(q, w)
  <1>1. CASE SameText(p, q)
    BY <1>1 DEF SameText
  <1>2. CASE Comparable(p, q) /\ RangeWithin(p, q)
    <2>1. p.name = q.name /\ p.parsable /\ q.parsable /\ ~ByWildcard(p, q)
      BY <1>2 DEF Comparable
    <2>2. SUFFICES ASSUME ~Restricted(q, w) PROVE Available(q, w)
      BY <2>1 DEF Met
    <2>3. Available(p, w)
      BY <1>2, <2>1, <2>2, CoveredApplies DEF Met
    <2>4. Allows(q, w.version[q.name])
      BY <1>2, <2>1, <2>3, WorldVersion, WithinAllows DEF Available
    <2>5. QED BY <1>2, <2>3, <2>4, QualifierAvailable
  <1>3. QED BY <1>1, <1>2 DEF Satisfies

LEMMA FalsifiesPredicate ==
    ASSUME NEW p \in Predicate, NEW q \in Predicate, NEW w \in World, Falsifies(p, q),
           p.name = q.name => ~ByWildcard(p, q) /\ ~BySelf(p, q), Met(p, w), ~Restricted(q, w)
    PROVE  ~Met(q, w)
  <1>1. Comparable(p, q) /\ RangeOutside(p, q)
    BY DEF Falsifies
  <1>2. p.name = q.name /\ p.parsable /\ q.parsable /\ ~ByWildcard(p, q) /\ ~BySelf(p, q)
    BY <1>1 DEF Comparable
  <1>3. Available(p, w)
    BY <1>1, <1>2, CoveredApplies DEF Met
  <1>4. ~Allows(q, w.version[q.name])
    BY <1>1, <1>2, <1>3, WorldVersion, OutsideForbids DEF Available
  <1>5. QED BY <1>2, <1>4 DEF Met, Available

-----------------------------------------------------------------------------
\* Conditions are sequences of sequences of predicates.
LEMMA PredicateOf ==
    ASSUME NEW r \in Conditions, NEW k \in DOMAIN r, NEW a \in DOMAIN r[k]
    PROVE  r[k][a] \in Predicate
  <1>1. r \in Seq(Clause)
    BY ConditionsAssumption
  <1>2. r[k] \in Clause
    BY <1>1
  <1>3. QED BY <1>2 DEF Clause

LEMMA ImpliesSound ==
    ASSUME NEW r \in Conditions, NEW s \in Conditions, Implies(r, s), ~SomeByWildcard(r, s),
           NEW w \in World, RelationMet(r, w)
    PROVE  RelationMet(s, w)
  <1> SUFFICES ASSUME NEW l \in DOMAIN s PROVE ClauseMet(s[l], w)
    BY DEF RelationMet
  <1>1. PICK k \in DOMAIN r : ClauseImplies(r[k], s[l])
    BY DEF Implies
  <1>2. PICK a \in DOMAIN r[k] : Met(r[k][a], w)
    BY DEF RelationMet, ClauseMet
  <1>3. PICK b \in DOMAIN s[l] : Satisfies(r[k][a], s[l][b])
    BY <1>1, <1>2 DEF ClauseImplies
  <1>4. r[k][a] \in Predicate /\ s[l][b] \in Predicate
    BY PredicateOf
  <1>5. r[k][a].name = s[l][b].name => ~ByWildcard(r[k][a], s[l][b])
    BY DEF SomeByWildcard
  <1>6. Met(s[l][b], w)
    BY <1>2, <1>3, <1>4, <1>5, SatisfiesPredicate
  <1>7. QED BY <1>6 DEF ClauseMet

LEMMA ImpliesNotSound ==
    ASSUME NEW r \in Conditions, NEW s \in Conditions, ImpliesNot(r, s),
           ~SomeByWildcard(r, s), ~SomeBySelf(r, s)
    PROVE  \E l \in DOMAIN s : \A w \in World :
               RelationMet(r, w) /\ (\A b \in DOMAIN s[l] : ~Restricted(s[l][b], w))
                   => ~ClauseMet(s[l], w)
  <1>1. PICK l \in DOMAIN s : \A b \in DOMAIN s[l] :
            \E k \in DOMAIN r : \A a \in DOMAIN r[k] : Falsifies(r[k][a], s[l][b])
    BY DEF ImpliesNot
  <1>2. ASSUME NEW w \in World, RelationMet(r, w), NEW b \in DOMAIN s[l], ~Restricted(s[l][b], w)
        PROVE  ~Met(s[l][b], w)
    <2>1. PICK k \in DOMAIN r : \A a \in DOMAIN r[k] : Falsifies(r[k][a], s[l][b])
      BY <1>1
    <2>2. PICK a \in DOMAIN r[k] : Met(r[k][a], w)
      BY <1>2 DEF RelationMet, ClauseMet
    <2>3. r[k][a] \in Predicate /\ s[l][b] \in Predicate
      BY PredicateOf
    <2>4. r[k][a].name = s[l][b].name => ~ByWildcard(r[k][a], s[l][b]) /\ ~BySelf(r[k][a], s[l][b])
      BY DEF SomeByWildcard, SomeBySelf
    <2>5. QED BY <1>2, <2>1, <2>2, <2>3, <2>4, FalsifiesPredicate
  <1>3. QED BY <1>2 DEF ClauseMet

-----------------------------------------------------------------------------
\* The answers are those of implies_array and implies_array_inverse.
Answered ==
    /\ trunk \in Conditions
    /\ pc = "answered" => /\ other \in Conditions
                          /\ satisfies <=> Implies(trunk, other)
                          /\ satisfies_inverse <=> ImpliesNot(trunk, other)

LEMMA AnsweredHolds == Spec => []Answered
  <1>1. Init => Answered
    BY DEF Init, Answered
  <1>2. Answered /\ [Next]_vars => Answered'
    <2> SUFFICES ASSUME Answered, [Next]_vars PROVE Answered' OBVIOUS
    <2>1. CASE Ask
      BY <2>1 DEF Ask, Answered
    <2>2. CASE Redundancies
      BY <2>2 DEF Redundancies, Answered
    <2>3. CASE ComparePair
      BY <2>3 DEF ComparePair, Answered
    <2>4. CASE Found
      BY <2>4 DEF Found, Answered
    <2>5. CASE UNCHANGED vars
      BY <2>5 DEF vars, answers, Answered
    <2>6. QED BY <2>1, <2>2, <2>3, <2>4, <2>5 DEF Next, Terminated
  <1>3. QED BY <1>1, <1>2, PTL DEF Spec

\* A relation that is said to satisfy another does, in every world, whatever
\* the versions, architectures, qualifiers and profiles, if no wildcard stands
\* for an excluded architecture.
THEOREM SatisfiesHolds == Spec => []SatisfiesIsSound
  <1>1. Answered => SatisfiesIsSound
    BY ImpliesSound DEF Answered, SatisfiesIsSound
  <1>2. QED BY <1>1, AnsweredHolds, PTL

\* A relation that is said to exclude another does, if moreover no lower bound
\* was compared with a higher strict upper bound.
THEOREM InverseHolds == Spec => []InverseIsSound
  <1>1. Answered => InverseIsSound
    BY ImpliesNotSound DEF Answered, InverseIsSound
  <1>2. QED BY <1>1, AnsweredHolds, PTL

-----------------------------------------------------------------------------
\* The search for redundant clauses.

\* The pairs compared so far, and that their sets have them.
Compared(k, l) == k < i \/ (k = i /\ l < j)
InOneSet(k, l) == \E c \in DOMAIN redundant_sets : {trunk[k], trunk[l]} \subseteq Reported(c)

\* What is reported is reported with a clause that it is redundant with.
Grounded(one, c) ==
    \E k, l \in DOMAIN trunk :
        k # l /\ trunk[k] = one /\ trunk[l] \in Reported(c) /\ Redundant(trunk[k], trunk[l])

WhereInv ==
    /\ pc \in {"loaded", "answered", "search", "found"}
    /\ trunk \in Conditions /\ other \in Conditions \cup {<<>>}
    /\ satisfies \in BOOLEAN /\ satisfies_inverse \in BOOLEAN /\ i \in Nat /\ j \in Nat
    /\ pc = "search" => /\ i > 0 /\ i < j /\ j <= Len(trunk) + 1
                        /\ i < Len(trunk) => j <= Len(trunk)
    /\ pc = "found" => i = Len(trunk)

\* Each clause that was seen is in the set it was seen in, so that the next
\* clause found redundant with it joins both.
SetsInv ==
    /\ DOMAIN redundant_sets \subseteq Texts /\ DOMAIN seen \subseteq Texts
    /\ \A c \in DOMAIN redundant_sets : redundant_sets[c] \subseteq Texts /\ redundant_sets[c] # {}
    /\ \A c \in DOMAIN seen : seen[c] \in DOMAIN redundant_sets /\ c \in redundant_sets[seen[c]]
    /\ \A c \in DOMAIN redundant_sets : \A one \in Reported(c) : Grounded(one, c)

DoneInv ==
    \A k, l \in DOMAIN trunk : k < l /\ Compared(k, l) /\ Redundant(trunk[k], trunk[l]) => InOneSet(k, l)

SearchInv == WhereInv /\ SetsInv /\ DoneInv

LEMMA TrunkLength == ASSUME WhereInv PROVE Len(trunk) \in Nat /\ DOMAIN trunk = 1..Len(trunk)
  BY ConditionsAssumption, LenProperties DEF WhereInv

\* Whatever the tables hold, a pair adds one clause to one set that then has
\* both.
Old(c) == IF c \in DOMAIN redundant_sets THEN redundant_sets[c] ELSE {}
LEMMA OneMore ==
    ASSUME SetsInv, NEW one \in Texts, NEW two \in Texts, AddPair(one, two)
    PROVE  \E first \in Texts, c \in {one, two} :
               /\ redundant_sets' = With(redundant_sets, first, Old(first) \cup {c})
               /\ seen' = With(seen, c, first)
               /\ {one, two} \subseteq {first} \cup Old(first) \cup {c}
               /\ first \in DOMAIN redundant_sets \/ first = one
  <1>1. CASE one \in DOMAIN seen
    <2>1. seen[one] \in DOMAIN redundant_sets /\ one \in redundant_sets[seen[one]] /\ seen[one] \in Texts
      BY <1>1 DEF SetsInv
    <2>2. AddTo(seen[one], two)
      BY <1>1 DEF AddPair
    <2>3. QED BY <2>1, <2>2 DEF AddTo, Old
  <1>2. CASE one \notin DOMAIN seen /\ two \in DOMAIN seen
    <2>1. seen[two] \in DOMAIN redundant_sets /\ two \in redundant_sets[seen[two]] /\ seen[two] \in Texts
      BY <1>2 DEF SetsInv
    <2>2. AddTo(seen[two], one)
      BY <1>2 DEF AddPair
    <2>3. QED BY <2>1, <2>2 DEF AddTo, Old
  <1>3. CASE one \notin DOMAIN seen /\ two \notin DOMAIN seen
    <2>1. /\ redundant_sets' = With(redundant_sets, one, {two} \cup Old(one))
          /\ seen' = With(seen, two, one)
      BY <1>3 DEF AddPair, Old
    <2>2. {two} \cup Old(one) = Old(one) \cup {two}
      OBVIOUS
    <2>3. QED BY <2>1, <2>2
  <1>4. QED BY <1>1, <1>2, <1>3

\* Sets only grow, the pair is in one of them, and nothing comes into a set
\* but with what it is redundant with.
LEMMA PairAdded ==
    ASSUME WhereInv, SetsInv, UNCHANGED trunk,
           NEW m \in DOMAIN trunk, NEW n \in DOMAIN trunk, m # n,
           Redundant(trunk[m], trunk[n]), AddPair(trunk[m], trunk[n])
    PROVE  /\ SetsInv'
           /\ \A c \in DOMAIN redundant_sets : c \in DOMAIN redundant_sets' /\ Reported(c) \subseteq Reported(c)'
           /\ InOneSet(m, n)'
  <1>1. trunk[m] \in Texts /\ trunk[n] \in Texts /\ Texts' = Texts
    BY DEF Texts
  <1>2. PICK first \in Texts, c \in {trunk[m], trunk[n]} :
               /\ redundant_sets' = With(redundant_sets, first, Old(first) \cup {c})
               /\ seen' = With(seen, c, first)
               /\ {trunk[m], trunk[n]} \subseteq {first} \cup Old(first) \cup {c}
               /\ first \in DOMAIN redundant_sets \/ first = trunk[m]
    BY <1>1, OneMore
  <1>3. /\ DOMAIN redundant_sets' = DOMAIN redundant_sets \cup {first}
        /\ redundant_sets'[first] = Old(first) \cup {c}
        /\ \A d \in DOMAIN redundant_sets : d # first => redundant_sets'[d] = redundant_sets[d]
    BY <1>2 DEF With
  <1>4. /\ DOMAIN seen' = DOMAIN seen \cup {c} /\ seen'[c] = first
        /\ \A d \in DOMAIN seen : d # c => seen'[d] = seen[d]
    BY <1>2 DEF With
  <1>5. /\ Reported(first)' = {first} \cup Old(first) \cup {c}
        /\ \A d \in DOMAIN redundant_sets : d # first => Reported(d)' = Reported(d)
        /\ first \in DOMAIN redundant_sets => Reported(first) = {first} \cup Old(first)
    BY <1>3 DEF Reported, Old
  <1>6. \A d \in DOMAIN redundant_sets : d \in DOMAIN redundant_sets' /\ Reported(d) \subseteq Reported(d)'
    BY <1>3, <1>5
  <1>7. InOneSet(m, n)'
    <2>1. first \in DOMAIN redundant_sets' /\ {trunk[m], trunk[n]} \subseteq Reported(first)'
      BY <1>2, <1>3, <1>5
    <2>2. QED BY <2>1 DEF InOneSet
  <1>8. /\ DOMAIN redundant_sets' \subseteq Texts' /\ DOMAIN seen' \subseteq Texts'
        /\ \A d \in DOMAIN redundant_sets' : redundant_sets'[d] \subseteq Texts' /\ redundant_sets'[d] # {}
    <2>1. c \in Texts /\ first \in Texts /\ Old(first) \subseteq Texts
      BY <1>1, <1>2 DEF SetsInv, Old
    <2>2. DOMAIN redundant_sets \subseteq Texts /\ DOMAIN seen \subseteq Texts
      BY DEF SetsInv
    <2>3. \A d \in DOMAIN redundant_sets : redundant_sets[d] \subseteq Texts /\ redundant_sets[d] # {}
      BY DEF SetsInv
    <2>4. \A d \in DOMAIN redundant_sets' : redundant_sets'[d] \subseteq Texts /\ redundant_sets'[d] # {}
      BY <1>3, <2>1, <2>3
    <2>5. QED BY <1>1, <1>3, <1>4, <2>1, <2>2, <2>4
  <1>9. \A d \in DOMAIN seen' : seen'[d] \in DOMAIN redundant_sets' /\ d \in redundant_sets'[seen'[d]]
    <2>1. SUFFICES ASSUME NEW d \in DOMAIN seen'
                   PROVE  seen'[d] \in DOMAIN redundant_sets' /\ d \in redundant_sets'[seen'[d]]
      OBVIOUS
    <2>2. CASE d = c
      BY <1>3, <1>4, <2>2
    <2>3. CASE d # c
      <3>1. /\ seen'[d] = seen[d] /\ seen[d] \in DOMAIN redundant_sets
            /\ d \in redundant_sets[seen[d]]
        BY <1>4, <2>1, <2>3 DEF SetsInv
      <3>2. QED BY <1>3, <3>1 DEF Old
    <2>4. QED BY <2>2, <2>3
  <1>10. ASSUME NEW d \in DOMAIN redundant_sets', NEW one \in Reported(d)'
         PROVE  Grounded(one, d)'
    <2>1. CASE d \in DOMAIN redundant_sets /\ one \in Reported(d)
      <3>1. PICK k \in DOMAIN trunk, l \in DOMAIN trunk :
                k # l /\ trunk[k] = one /\ trunk[l] \in Reported(d) /\ Redundant(trunk[k], trunk[l])
        BY <2>1 DEF SetsInv, Grounded
      <3>2. trunk[l] \in Reported(d)'
        BY <1>6, <2>1, <3>1
      <3>3. QED BY <3>1, <3>2 DEF Grounded
    <2>2. CASE ~(d \in DOMAIN redundant_sets /\ one \in Reported(d))
      <3>1. d = first /\ one \in {trunk[m], trunk[n]} /\ {trunk[m], trunk[n]} \subseteq Reported(d)'
        <4>1. d = first
          BY <1>3, <1>5, <1>10, <2>2
        <4>2. one \in {first, c} \cup Old(first)
          BY <1>5, <1>10, <4>1
        <4>3. CASE first \in DOMAIN redundant_sets
          BY <1>2, <1>5, <2>2, <4>1, <4>2, <4>3
        <4>4. CASE first \notin DOMAIN redundant_sets
          BY <1>2, <1>5, <4>1, <4>2, <4>4 DEF Old
        <4>5. QED BY <4>3, <4>4
      <3>2. Redundant(trunk[n], trunk[m])
        BY DEF Redundant
      <3>3. QED BY <3>1, <3>2 DEF Grounded
    <2>3. QED BY <2>1, <2>2
  <1>11. SetsInv'
    BY <1>8, <1>9, <1>10 DEF SetsInv
  <1>12. QED BY <1>6, <1>7, <1>11

LEMMA SearchNext == SearchInv /\ [Next]_vars => SearchInv'
  <1> SUFFICES ASSUME SearchInv, [Next]_vars PROVE SearchInv' OBVIOUS
  <1> USE DEF SearchInv
  <1> DEFINE n == Len(trunk)
  <1>1. n \in Nat /\ DOMAIN trunk = 1..n /\ i \in Nat /\ j \in Nat
    BY TrunkLength DEF WhereInv
  <1>2. ASSUME UNCHANGED <<trunk, redundant_sets, seen>> PROVE SetsInv'
    BY <1>2 DEF SetsInv, Texts, Grounded, Reported
  <1>3. ASSUME UNCHANGED <<trunk, redundant_sets, i, j>> PROVE DoneInv'
    BY <1>3 DEF DoneInv, Compared, InOneSet, Reported
  <1>4. CASE Ask
    <2>1. WhereInv'
      <3>1. satisfies' \in BOOLEAN /\ satisfies_inverse' \in BOOLEAN
        BY <1>4 DEF Ask, Implies, ImpliesNot
      <3>2. QED BY <1>4, <3>1 DEF Ask, WhereInv, search
    <2>2. QED BY <1>2, <1>3, <1>4, <2>1 DEF Ask, search
  <1>5. CASE Redundancies
    <2>1. WhereInv'
      BY <1>1, <1>5 DEF Redundancies, WhereInv, answers
    <2>2. DoneInv'
      BY <1>1, <1>5 DEF Redundancies, DoneInv, Compared
    <2>3. QED BY <1>2, <1>5, <2>1, <2>2 DEF Redundancies
  <1>6. CASE ComparePair
    <2>1. /\ pc = "search" /\ i < n /\ i > 0 /\ i < j /\ j <= n
          /\ UNCHANGED <<pc, trunk, other, satisfies, satisfies_inverse>>
          /\ i \in DOMAIN trunk /\ j \in DOMAIN trunk /\ i # j
      BY <1>1, <1>6 DEF ComparePair, WhereInv, answers
    <2>2. WhereInv'
      BY <1>1, <1>6, <2>1 DEF ComparePair, NextPair, WhereInv
    <2>3. /\ SetsInv' /\ (Redundant(trunk[i], trunk[j]) => \E c \in DOMAIN redundant_sets' :
                              {trunk[i], trunk[j]} \subseteq Reported(c)')
          /\ \A c \in DOMAIN redundant_sets : c \in DOMAIN redundant_sets' /\ Reported(c) \subseteq Reported(c)'
      <3>1. CASE Redundant(trunk[i], trunk[j])
        <4>1. PICK a \in DOMAIN trunk, b \in DOMAIN trunk : a = i /\ b = j
          BY <2>1
        <4>2. AddPair(trunk[a], trunk[b]) /\ Redundant(trunk[a], trunk[b]) /\ a # b
          BY <1>6, <2>1, <3>1, <4>1 DEF ComparePair
        <4>3. /\ SetsInv' /\ InOneSet(a, b)'
              /\ \A c \in DOMAIN redundant_sets :
                    c \in DOMAIN redundant_sets' /\ Reported(c) \subseteq Reported(c)'
          BY <2>1, <4>2, PairAdded
        <4>4. QED BY <2>1, <4>1, <4>3 DEF InOneSet
      <3>2. CASE ~Redundant(trunk[i], trunk[j])
        <4>1. UNCHANGED <<redundant_sets, seen>>
          BY <1>6, <3>2 DEF ComparePair
        <4>2. QED BY <1>2, <2>1, <3>2, <4>1 DEF Reported
      <3>3. QED BY <3>1, <3>2
    <2>4. DoneInv'
      <3>1. SUFFICES ASSUME NEW k \in DOMAIN trunk, NEW l \in DOMAIN trunk, k < l, Compared(k, l)',
                            Redundant(trunk[k], trunk[l])
                     PROVE  \E c \in DOMAIN redundant_sets' : {trunk[k], trunk[l]} \subseteq Reported(c)'
        BY <2>1 DEF DoneInv, InOneSet
      <3>2. Compared(k, l) \/ (k = i /\ l = j)
        BY <1>1, <1>6, <2>1, <3>1 DEF ComparePair, NextPair, Compared
      <3>3. CASE Compared(k, l)
        <4>1. PICK c \in DOMAIN redundant_sets : {trunk[k], trunk[l]} \subseteq Reported(c)
          BY <3>1, <3>3 DEF DoneInv, InOneSet
        <4>2. QED BY <2>3, <4>1
      <3>4. CASE k = i /\ l = j
        BY <2>3, <3>1, <3>4
      <3>5. QED BY <3>2, <3>3, <3>4
    <2>5. QED BY <2>2, <2>3, <2>4
  <1>7. CASE Found
    <2>1. WhereInv'
      BY <1>1, <1>7 DEF Found, WhereInv, search, answers
    <2>2. QED BY <1>2, <1>3, <1>7, <2>1 DEF Found, search
  <1>8. CASE Terminated \/ UNCHANGED vars
    <2>1. WhereInv'
      BY <1>8 DEF Terminated, vars, search, answers, WhereInv
    <2>2. QED BY <1>2, <1>3, <1>8, <2>1 DEF Terminated, vars, search
  <1>9. QED BY <1>4, <1>5, <1>6, <1>7, <1>8 DEF Next

LEMMA SearchHolds == Spec => []SearchInv
  <1>1. Init => SearchInv
    <2> SUFFICES ASSUME Init PROVE SearchInv OBVIOUS
    <2>1. WhereInv
      BY DEF Init, WhereInv
    <2>2. SetsInv
      BY DEF Init, SetsInv, Nothing
    <2>3. DoneInv
      BY ConditionsAssumption, LenProperties DEF Init, DoneInv, Compared
    <2>4. QED BY <2>1, <2>2, <2>3 DEF SearchInv
  <1>2. QED BY <1>1, SearchNext, PTL DEF Spec

\* The tables of the search are about clauses of the relation, and every
\* clause that was seen belongs to a set that is there.
THEOREM TypesHold == Spec => []TypeOK
  <1>1. SearchInv => TypeOK
    BY DEF SearchInv, WhereInv, SetsInv, TypeOK
  <1>2. QED BY <1>1, SearchHolds, PTL

\* Whatever the clauses and their order: of two one of which implies the
\* other, some set has both, and no set has a clause without another that it
\* is redundant with.
THEOREM RedundanciesHold == Spec => []RedundanciesReported
  <1>1. SearchInv => RedundanciesReported
    <2> SUFFICES ASSUME SearchInv PROVE RedundanciesReported OBVIOUS
    <2>1. ASSUME pc = "found", NEW k \in DOMAIN trunk, NEW l \in DOMAIN trunk, k < l,
                 Redundant(trunk[k], trunk[l])
          PROVE  InOneSet(k, l)
      <3>1. i = Len(trunk) /\ Len(trunk) \in Nat /\ DOMAIN trunk = 1..Len(trunk)
        BY <2>1, TrunkLength DEF SearchInv, WhereInv
      <3>2. Compared(k, l)
        BY <2>1, <3>1 DEF Compared
      <3>3. QED BY <2>1, <3>2 DEF SearchInv, DoneInv
    <2>2. QED
      BY <2>1 DEF InOneSet, SearchInv, SetsInv, Grounded, Redundant, RedundanciesReported
  <1>2. QED BY <1>1, SearchHolds, PTL
=============================================================================
