----------------------------- MODULE GroupProcess -----------------------------
(***************************************************************************)
(* lib/Lintian/Group.pm, process(): for each processable of a group, which *)
(* overrides are in force, what the checks issue (a check may die), which  *)
(* of it is kept, masked and overridden, and which overrides are reported  *)
(* as unused.  The overrides file is parsed (OverrideFile) when somebody   *)
(* first asks for the overrides: process, or one of the checks.            *)
(*                                                                         *)
(* What a check finds is chosen freely when it runs, save for that of the  *)
(* malformed lines of the overrides file.  The processables, and patterns  *)
(* of one length, come in hash order, that is in any order.  The lexical   *)
(* variables of one turn of the loop are functions of the processable, so  *)
(* that the results of earlier turns can be looked at.                     *)
(***************************************************************************)
EXTENDS OverrideFile, FiniteSets

CONSTANTS
    Inputs,         \* the groups considered, and what their override files say
    CheckOrder,     \* sort $profile->enabled_checks
    AskOverrides,   \* the checks that look at the overrides
    MalformedCheck, MalformedTag,   \* the check of the lines in error
    PointerTo,      \* the context of a hint about a line
    Tag, CheckOf, NameSpaced,
    KnownAlias,     \* former name -> tag
    Qualified,      \* <<check, name>> -> "check/name", where it is a known name
    EnabledTags, DurableTags, ShowAlways,
    Bare,           \* the empty pattern
    Size,           \* length of a pattern
    Context,
    Glob,           \* the pairs <<pattern, context>> that match_glob accepts
    Screened,       \* the pairs <<tag, context>> some screen of the tag suppresses
    ArchMatch, ArchOf,  \* restriction_matches, the processable's architecture
    Finds,          \* for each processable the lists of hints that a check may find
    NoOverride

Check == {CheckOrder[i] : i \in DOMAIN CheckOrder}
Issued == [issued_by : Check, tag_name : Name, context : Context]

ASSUME GroupAssumption ==
    /\ IsFiniteSet(Processable) /\ IsFiniteSet(Pattern)
    /\ CheckOrder \in Seq(Check)
    /\ \A i, j \in DOMAIN CheckOrder : CheckOrder[i] = CheckOrder[j] => i = j
    /\ CheckOf \in [Tag -> STRING \cup Check] /\ NameSpaced \subseteq Tag /\ Tag \subseteq Name
    /\ KnownAlias \in [DOMAIN KnownAlias -> Tag] /\ DOMAIN KnownAlias \cap Tag = {}
    /\ DOMAIN KnownAlias \subseteq Name
    /\ Qualified \in [DOMAIN Qualified -> Name]
    /\ EnabledTags \subseteq Tag /\ ShowAlways \subseteq DurableTags /\ DurableTags \subseteq Tag
    /\ Bare \in Pattern /\ Size \in [Pattern -> Nat] /\ Glob \subseteq Pattern \X Context
    /\ ArchOf \in [Processable -> Arch] /\ ArchMatch \subseteq Arch \X Arch
    /\ Inputs \subseteq (SUBSET Processable) \X [Processable -> Seq(Line)]
    /\ \A s \in Inputs : \A p \in Processable : DOMAIN s[2][p] \subseteq DOMAIN PointerTo
    /\ PointerTo \in [DOMAIN PointerTo -> Context]
    /\ \A m, n \in DOMAIN PointerTo : PointerTo[m] = PointerTo[n] => m = n
    /\ MalformedTag \in Tag \ NameSpaced /\ CheckOf[MalformedTag] = MalformedCheck
    /\ <<MalformedCheck, MalformedTag>> \notin DOMAIN Qualified
    /\ \A p \in Processable : \A f \in Finds[p] : f \in Seq(Issued)
    /\ NoTag \notin Name /\ NoOverride \notin Pattern \cup Override

VARIABLES
    members,            \* the processables of the group (input)
    no_override,        \* option --no-override (input)
    waiting,            \* processables still to do
    phase,              \* the loop being run for it
    next,               \* index of that loop
    enabled_overrides,  \* %enabled_overrides: <<tag, pattern>> -> override
    from_checks,        \* @from_checks
    context_tracker,    \* %context_tracker, as pairs <<tag, context>>
    used_overrides,     \* keys of %used_overrides, as pairs <<tag, pattern>>
    hints,              \* @hints
    ignored_overrides,  \* keys of %ignored_overrides
    success,            \* $success
    attempts            \* history: <<processable, check, "ran" or "died">>

inputs == <<members, lines, no_override>>
lexicals == <<enabled_overrides, from_checks, context_tracker, used_overrides, hints>>
vars == <<inputs, parser, waiting, current, phase, next, lexicals, ignored_overrides,
          success, attempts>>

\* A hint that is kept, and the override it carries.
Kept == [kind : {"hint", "unused-override", "mismatched-override"}, tag : Tag,
         context : Context \cup Pattern, masked : BOOLEAN, override : Override \cup {NoOverride}]

TypeOK ==
    /\ members \subseteq Processable /\ no_override \in BOOLEAN
    /\ ParserTypeOK
    /\ waiting \subseteq members /\ current \in Processable
    /\ phase \in {"next", "overrides", "checks", "hints", "unused", "done"} /\ next \in Nat \ {0}
    /\ DOMAIN enabled_overrides = Processable
    /\ \A p \in Processable : LET e == enabled_overrides[p] IN
          DOMAIN e \subseteq Tag \X Pattern /\ e \in [DOMAIN e -> Override]
    /\ from_checks \in [Processable -> Seq(Issued)]
    /\ context_tracker \in [Processable -> SUBSET (Tag \X Context)]
    /\ used_overrides \in [Processable -> SUBSET (Tag \X Pattern)]
    /\ hints \in [Processable -> Seq(Kept)]
    /\ ignored_overrides \subseteq DurableTags /\ success \in BOOLEAN

Init ==
    /\ \E s \in Inputs : members = s[1] /\ lines = s[2]
    /\ no_override \in BOOLEAN /\ ParserInit
    /\ waiting = members /\ current \in members /\ phase = "next" /\ next = 1
    /\ enabled_overrides = Each([x \in {} |-> NoTag]) /\ from_checks = Each(<<>>)
    /\ context_tracker = Each({}) /\ used_overrides = Each({}) /\ hints = Each(<<>>)
    /\ ignored_overrides = {} /\ success = TRUE /\ attempts = {}

\* get_current_name, get_tag: former names first.
CurrentName(n) == IF n \in DOMAIN KnownAlias THEN KnownAlias[n]
                  ELSE IF n \in Tag THEN n ELSE NoTag

Goto(p) == phase' = p /\ next' = 1
NextProcessable ==
    /\ phase = "next" /\ waiting # {}
    /\ \E p \in waiting : current' = p /\ waiting' = waiting \ {p}
    /\ Goto(IF no_override THEN "checks" ELSE "overrides")
    /\ UNCHANGED <<inputs, parser, lexicals, ignored_overrides, success, attempts>>

\* "overrides" is computed when it is first read, and kept.
ReadLine ==
    /\ \/ phase = "overrides"
       \/ phase = "checks" /\ next <= Len(CheckOrder) /\ CheckOrder[next] \in AskOverrides
    /\ ParseLine
    /\ UNCHANGED <<inputs, waiting, current, phase, next, lexicals, ignored_overrides,
                   success, attempts>>

-----------------------------------------------------------------------------
\* An architecture list applies if some of its names match, or, negated, none.
\* (Policy allows no list that mixes both; "negations xor none".)
AppliesHere(o) ==
    \/ o.architectures = {}
    \/ (\E a \in o.architectures : <<a, ArchOf[current]>> \in ArchMatch) <=> ~o.negated

Relevant(o) == CurrentName(o.tag_name) \in EnabledTags /\ AppliesHere(o)

\* Mutant: durable tags are not set aside.
InForceDurable(o) == Relevant(o)

InForce(o) == Relevant(o) /\ CurrentName(o.tag_name) \notin DurableTags

\* Mutant: an override for another architecture counts as ignored.
IgnoredAll(o) == CurrentName(o.tag_name) # NoTag /\ ~InForce(o)

Ignored(o) == Relevant(o) /\ ~InForce(o)

\* The overrides file, from the top; of two overrides with the same tag and
\* pattern the last one stays.
ReadOverride ==
    /\ phase = "overrides" /\ Parsed(current) /\ next <= Len(overrides[current])
    /\ LET o == overrides[current][next]
           t == CurrentName(o.tag_name)
           e == enabled_overrides[current]
       IN  /\ enabled_overrides' =
                 IF ~InForce(o) THEN enabled_overrides
                 ELSE [enabled_overrides EXCEPT ![current] =
                         [k \in DOMAIN e \cup {<<t, o.pattern>>} |->
                            IF k = <<t, o.pattern>> THEN o ELSE e[k]]]
           /\ ignored_overrides' =
                 IF Ignored(o) THEN ignored_overrides \cup {t} ELSE ignored_overrides
    /\ next' = next + 1
    /\ UNCHANGED <<inputs, parser, waiting, current, phase, from_checks, context_tracker,
                   used_overrides, hints, success, attempts>>

EndOverrides ==
    /\ phase = "overrides" /\ Parsed(current) /\ next > Len(overrides[current]) /\ Goto("checks")
    /\ UNCHANGED <<inputs, parser, waiting, current, lexicals, ignored_overrides, success, attempts>>

-----------------------------------------------------------------------------
\* debian/lintian-overrides/malformed: a hint for every line in error.
Malformed == [i \in DOMAIN override_errors[current] |->
    [issued_by |-> MalformedCheck, tag_name |-> MalformedTag,
     context |-> PointerTo[override_errors[current][i]]]]

Findable(check) ==
    IF check = MalformedCheck THEN {Malformed}
    ELSE {f \in Finds[current] : \A i \in DOMAIN f : f[i].issued_by = check}

\* A check returns all its hints or, when it dies, none of them.
RunCheck ==
    /\ phase = "checks" /\ next <= Len(CheckOrder)
    /\ CheckOrder[next] \in AskOverrides => Parsed(current)
    /\ \E found \in Findable(CheckOrder[next]) :
          from_checks' = [from_checks EXCEPT ![current] = @ \o found]
    /\ attempts' = attempts \cup {<<current, CheckOrder[next], "ran">>}
    /\ next' = next + 1
    /\ UNCHANGED <<inputs, parser, waiting, current, phase, enabled_overrides, context_tracker,
                   used_overrides, hints, ignored_overrides, success>>

\* Mutant: "last" for "next" in the handler of a check that died.
CheckDiesAndAll ==
    /\ phase = "checks" /\ next <= Len(CheckOrder)
    /\ position[current] = 1 \/ Parsed(current)
    /\ success' = FALSE /\ attempts' = attempts \cup {<<current, CheckOrder[next], "died">>}
    /\ next' = Len(CheckOrder) + 1
    /\ UNCHANGED <<inputs, parser, waiting, current, phase, lexicals, ignored_overrides>>

\* Before it has asked for the overrides, or when they are parsed.
CheckDies ==
    /\ phase = "checks" /\ next <= Len(CheckOrder)
    /\ position[current] = 1 \/ Parsed(current)
    /\ success' = FALSE /\ attempts' = attempts \cup {<<current, CheckOrder[next], "died">>}
    /\ next' = next + 1
    /\ UNCHANGED <<inputs, parser, waiting, current, phase, lexicals, ignored_overrides>>

EndChecks ==
    /\ phase = "checks" /\ next > Len(CheckOrder) /\ Goto("hints")
    /\ UNCHANGED <<inputs, parser, waiting, current, lexicals, ignored_overrides, success, attempts>>

-----------------------------------------------------------------------------
\* The tag a hint is about: the name space of the check first.
GetTag(h) ==
    LET spaced == <<h.issued_by, h.tag_name>>
    IN  IF spaced \in DOMAIN Qualified /\ CurrentName(Qualified[spaced]) # NoTag
        THEN CurrentName(Qualified[spaced]) ELSE CurrentName(h.tag_name)

\* Known, not a former name, and declared by the check that issued it.
Proper(h) ==
    LET t == GetTag(h) IN
    /\ t # NoTag
    /\ IF t \in NameSpaced
       THEN <<h.issued_by, h.tag_name>> \in DOMAIN Qualified
            /\ Qualified[<<h.issued_by, h.tag_name>>] = t
       ELSE t = h.tag_name
    /\ CheckOf[t] = h.issued_by

Tracked(h) == <<GetTag(h), h.context>>
Masked(h) == Tracked(h) \in Screened /\ GetTag(h) \notin ShowAlways

\* The patterns that may end up on a hint: the empty one whenever it is
\* declared, else the first that matches.  sort_by compares the lengths as
\* strings of digits, so that 10 comes before 2.
Declared(t) == {q \in Pattern : <<t, q>> \in DOMAIN enabled_overrides[current]}
Matching(h) == {q \in Declared(GetTag(h)) \ {Bare} : <<q, h.context>> \in Glob}

Digits(n) ==
    LET width == CHOOSE w \in 1 .. n + 1 : n < 10 ^ w /\ (w = 1 \/ 10 ^ (w - 1) <= n)
    IN  [i \in 1 .. width |-> (n \div 10 ^ (width - i)) % 10]

SortsBefore(m, n) ==
    LET d == Digits(m)
        e == Digits(n)
    IN  \E i \in DOMAIN e : /\ \A j \in 1 .. i - 1 : j \in DOMAIN d /\ d[j] = e[j]
                            /\ i \in DOMAIN d => d[i] < e[i]

Applied(h) ==
    IF Bare \in Declared(GetTag(h)) THEN {Bare}
    ELSE IF Matching(h) = {} THEN {NoOverride}
    ELSE {q \in Matching(h) : \A r \in Matching(h) : ~SortsBefore(Size[r], Size[q])}

\* Mutant: what was issued before is told again.
KeepHintAgain(h) ==
    /\ Proper(h) /\ GetTag(h) \in EnabledTags
    /\ context_tracker' = [context_tracker EXCEPT ![current] = @ \cup {Tracked(h)}]
    /\ \E q \in Applied(h) :
          /\ hints' = [hints EXCEPT ![current] =
                Append(@, [kind |-> "hint", tag |-> GetTag(h), context |-> h.context,
                           masked |-> Masked(h), override |->
                           IF q = NoOverride THEN NoOverride
                           ELSE enabled_overrides[current][<<GetTag(h), q>>]])]
          /\ used_overrides' = IF q = NoOverride THEN used_overrides
                ELSE [used_overrides EXCEPT ![current] = @ \cup {<<GetTag(h), q>>}]

KeepHint(h) ==
    /\ Proper(h) /\ GetTag(h) \in EnabledTags /\ Tracked(h) \notin context_tracker[current]
    /\ context_tracker' = [context_tracker EXCEPT ![current] = @ \cup {Tracked(h)}]
    /\ \E q \in Applied(h) :
          /\ hints' = [hints EXCEPT ![current] =
                Append(@, [kind |-> "hint", tag |-> GetTag(h), context |-> h.context,
                           masked |-> Masked(h), override |->
                           IF q = NoOverride THEN NoOverride
                           ELSE enabled_overrides[current][<<GetTag(h), q>>]])]
          /\ used_overrides' = IF q = NoOverride THEN used_overrides
                ELSE [used_overrides EXCEPT ![current] = @ \cup {<<GetTag(h), q>>}]

DropHint(h) ==
    /\ ~Proper(h) \/ GetTag(h) \notin EnabledTags \/ Tracked(h) \in context_tracker[current]
    /\ UNCHANGED <<context_tracker, hints, used_overrides>>

HandleHint ==
    /\ phase = "hints" /\ next <= Len(from_checks[current])
    /\ LET h == from_checks[current][next] IN KeepHint(h) \/ DropHint(h)
    /\ next' = next + 1
    /\ UNCHANGED <<inputs, parser, waiting, current, phase, enabled_overrides, from_checks,
                   ignored_overrides, success, attempts>>

EndHints ==
    /\ phase = "hints" /\ next > Len(from_checks[current]) /\ Goto("unused")
    /\ UNCHANGED <<inputs, parser, waiting, current, lexicals, ignored_overrides, success, attempts>>

-----------------------------------------------------------------------------
\* Mutant: used patterns are collected without their tag.
UnusedByPattern == {k \in DOMAIN enabled_overrides[current] :
              /\ \A u \in used_overrides[current] : u[2] # k[2]
              /\ \A i \in DOMAIN hints[current] :
                    LET g == hints[current][i]
                    IN  g.kind = "hint" \/ <<g.tag, g.context>> # k}

\* The overrides still to be reported as unused, and how.
Unused == {k \in DOMAIN enabled_overrides[current] :
              /\ k \notin used_overrides[current]
              /\ \A i \in DOMAIN hints[current] :
                    LET g == hints[current][i]
                    IN  g.kind = "hint" \/ <<g.tag, g.context>> # k}

UnusedKind(t) == IF \E x \in context_tracker[current] : x[1] = t
                 THEN "mismatched-override" ELSE "unused-override"

ReportUnused ==
    /\ phase = "unused"
    /\ \E k \in Unused :
          hints' = [hints EXCEPT ![current] =
              Append(@, [kind |-> UnusedKind(k[1]), tag |-> k[1], context |-> k[2],
                         masked |-> FALSE, override |-> NoOverride])]
    /\ UNCHANGED <<inputs, parser, waiting, current, phase, next, enabled_overrides, from_checks,
                   context_tracker, used_overrides, ignored_overrides, success, attempts>>

EndProcessable ==
    /\ phase = "unused" /\ Unused = {}
    /\ Goto(IF waiting = {} THEN "done" ELSE "next")
    /\ UNCHANGED <<inputs, parser, waiting, current, lexicals, ignored_overrides, success, attempts>>

Terminated == phase = "done" /\ UNCHANGED vars

Next == NextProcessable \/ ReadLine \/ ReadOverride \/ EndOverrides \/ RunCheck \/ CheckDies \/ EndChecks
        \/ HandleHint \/ EndHints \/ ReportUnused \/ EndProcessable \/ Terminated

Spec == Init /\ [][Next]_vars

-----------------------------------------------------------------------------
Elements(s) == {s[i] : i \in DOMAIN s}
Finished(p) == p \notin waiting /\ (p # current \/ phase \in {"next", "done"})
KeptHints(p) == {g \in Elements(hints[p]) : g.kind = "hint"}
Notices(p) == {g \in Elements(hints[p]) : g.kind # "hint"}

\* Nothing a check issued gets lost on the way and nothing is shown twice: the
\* pairs of tag and context that are kept are those of the proper hints about
\* enabled tags, and each stands in the list of hints once, whatever several
\* checks issued and in which order.
EveryHintKeptOnce ==
    \A p \in members : Finished(p) =>
        /\ {<<g.tag, g.context>> : g \in KeptHints(p)}
           = {Tracked(h) : h \in {h \in Elements(from_checks[p]) :
                                    Proper(h) /\ GetTag(h) \in EnabledTags}}
        /\ \A i, j \in DOMAIN hints[p] :
              LET g == hints[p][i]
                  h == hints[p][j]
              IN  g.kind = "hint" /\ h.kind = "hint" /\ g.tag = h.tag /\ g.context = h.context => i = j

Fits(q, context) == q = Bare \/ <<q, context>> \in Glob

\* Every override in force is accounted for: either some kept hint carries it
\* or it is reported, never both and never neither.  "unused-override" says
\* that its tag was not issued, "mismatched-override" that it was, but that
\* the pattern matches no hint of the tag (mismatched-override.tag:5) - save
\* hints that another override of the tag took, where the code says
\* "mismatched" of a pattern that does match.
OverridesUsedOrReported ==
    \A p \in members : Finished(p) =>
        /\ \A k \in DOMAIN enabled_overrides[p] :
              (\E g \in KeptHints(p) : g.override # NoOverride /\ <<g.tag, g.override.pattern>> = k)
              <=> ~\E g \in Notices(p) : g.tag = k[1] /\ g.context = k[2]
        /\ \A g \in Notices(p) :
              LET of_tag == {h \in KeptHints(p) : h.tag = g.tag}
              IN  IF of_tag = {} THEN g.kind = "unused-override"
                  ELSE /\ g.kind = "mismatched-override"
                       /\ \A h \in of_tag : Fits(g.context, h.context) => h.override # NoOverride

\* An override is carried only by a hint it matches, of a tag that may be
\* overridden, and not when the option forbids it.
OverridesMatch ==
    \A p \in members : \A g \in Elements(hints[p]) :
        g.override # NoOverride =>
            /\ g.kind = "hint" /\ ~no_override /\ g.tag \notin DurableTags
            /\ CurrentName(g.override.tag_name) = g.tag
            /\ Fits(g.override.pattern, g.context)

\* Every override line is declared, with the comments that belong to it and no
\* others, and these go with it to the hints it overrides.
JustificationsAsWritten ==
    \A p \in members :
        /\ \A i \in DOMAIN overrides[p] :
              overrides[p][i].justification = CommentsFor(lines[p], overrides[p][i].position)
        /\ Parsed(p) => {o.position : o \in Elements(overrides[p])}
                        = {n \in DOMAIN lines[p] : lines[p][n].kind = "override"}
        /\ \A g \in KeptHints(p) : g.override # NoOverride =>
              \E i \in DOMAIN overrides[p] : g.override = overrides[p][i]

\* The overrides have been asked for before the check of malformed lines runs.
Asked(p) ==
    \/ ~no_override
    \/ \E i, j \in DOMAIN CheckOrder :
          /\ i < j /\ CheckOrder[j] = MalformedCheck
          /\ CheckOrder[i] \in AskOverrides /\ <<p, CheckOrder[i], "ran">> \in attempts

\* The check of malformed lines only finds what somebody's asking for the
\* overrides left behind; then it tells of every line in error and no other.
\* With --no-override, and without a check that asks before it, of none.
ErrorsAreReported ==
    \A p \in members :
        Finished(p) /\ <<p, MalformedCheck, "ran">> \in attempts /\ MalformedTag \in EnabledTags
        => {g.context : g \in {g \in KeptHints(p) : g.tag = MalformedTag}}
           \in {{PointerTo[n] : n \in {n \in DOMAIN lines[p] : lines[p][n].kind = "error"}}}
               \cup IF Asked(p) THEN {} ELSE {{}}

\* A check that dies costs its own hints for this processable, and nothing
\* else: every check is attempted on every processable, and the group fails.
FailuresAreIsolated ==
    phase = "done" =>
        /\ \A p \in members, c \in Check :
              <<p, c, "ran">> \in attempts \/ <<p, c, "died">> \in attempts
        /\ success <=> \A a \in attempts : a[3] = "ran"
=============================================================================
