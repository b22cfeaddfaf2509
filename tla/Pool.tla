--------------------------------- MODULE Pool ---------------------------------
(***************************************************************************)
(* From the subjects of the command line to the exit status: bin/lintian   *)
(* makes one group of every subject and the files it lists, Pool.pm merges *)
(* groups of the same name, processes them in any order and counts what is *)
(* shown.  What a group's process() yields is chosen freely (see module    *)
(* GroupProcess for how it comes about).                                   *)
(***************************************************************************)
EXTENDS Integers, Sequences, FiniteSets

CONSTANTS
    File,                   \* paths
    Kind,                   \* what the suffix says: see Kinds
    SourceName, SourceVersion, Identifier,
    Listed,                 \* files named by a .changes, .dsc or .buildinfo
    Missing,                \* files that do not exist or cannot be read
    Broken,                 \* files whose control data cannot be parsed
    Tainted,                \* files whose fields hold evil characters
    CommandLines,           \* subjects and options considered
    Hinted, Outcomes,       \* files that may have hints, and the sets of hints considered
    NoFile, Empty           \* no processable; the empty string

Installable == {"binary", "udeb"}
Single == {"source", "buildinfo", "changes"}
Kinds == Installable \cup Single \cup {"other"}
Condition == {"error", "warning", "experimental", "override"}
Selection == [fail_on : SUBSET Condition, show_overrides : BOOLEAN,
              display_experimental : BOOLEAN, display_level : SUBSET {"error", "warning"}]
Hint == [visibility : {"error", "warning"}, experimental : BOOLEAN,
         override : BOOLEAN, masked : BOOLEAN]

\* A name cannot be empty; a version can, when the field is missing.
ASSUME PoolAssumption ==
    /\ Kind \in [File -> Kinds] /\ Listed \in [File -> SUBSET File]
    /\ \A f \in File : SourceName[f] # Empty
    /\ \A f, g \in File : Identifier[f] = Identifier[g] => Kind[f] = Kind[g]
    /\ Missing \subseteq File /\ Broken \subseteq File /\ Tainted \subseteq File
    /\ \A c \in CommandLines : c.subjects \in Seq(File) /\ c.selected \in Selection
    /\ Hinted \subseteq File /\ \A o \in Outcomes : o \subseteq Hint
    /\ NoFile \notin File

VARIABLES
    subjects, selected,     \* @subjects, %selected (input)
    phase,
    next,                   \* index of the subject being handled
    group,                  \* the group being assembled
    pulling,                \* files of the subject still to be added to it
    merging,                \* installables still to be merged into the pool
    groups,                 \* $pool->groups
    to_process,             \* names of groups still to be processed
    reported,               \* keys of %reported_count with a count
    hints,                  \* what the processables of a file keep
    exit_code,
    delivered,              \* history: the files of every group given to add_group
    skipped, failed         \* history: such subjects, and names of such groups

assembly == <<group, pulling, merging, groups>>
results == <<reported, hints>>
history == <<delivered, skipped, failed>>
vars == <<subjects, selected, phase, next, assembly, to_process, results, exit_code, history>>

-----------------------------------------------------------------------------
\* A group: name and version of its source, at most one file of each single
\* kind, and installables with distinct identifiers (which tell the kind).
Group == [source_name : {SourceName[f] : f \in File} \cup {Empty},
          source_version : {SourceVersion[f] : f \in File} \cup {Empty},
          single : [Single -> File \cup {NoFile}],
          installables : SUBSET File]

KindsFit(g) ==
    /\ \A k \in Single : g.single[k] # NoFile => Kind[g.single[k]] = k
    /\ \A f \in g.installables : Kind[f] \in Installable

NewGroup == [source_name |-> Empty, source_version |-> Empty,
             single |-> [k \in Single |-> NoFile], installables |-> {}]

Nameless == <<Empty, Empty>>
Name(g) == IF Empty \in {g.source_name, g.source_version} THEN Nameless
           ELSE <<g.source_name, g.source_version>>

Processables(g) == g.installables \cup ({g.single[k] : k \in Single} \ {NoFile})

\* The first processable names the group, and so does a later one as long as
\* the version is empty, even if it is then turned away.
Named(g, f) ==
    [source_name |-> IF g.source_name = Empty THEN SourceName[f] ELSE g.source_name,
     source_version |-> IF g.source_version = Empty THEN SourceVersion[f] ELSE g.source_version,
     single |-> g.single, installables |-> g.installables]

\* Mutant: the version of a processable is not compared.
FitsByName(g, f) == f \notin Tainted /\ Named(g, f).source_name = SourceName[f]

Fits(g, f) == f \notin Tainted /\ Named(g, f).source_name = SourceName[f]
              /\ Named(g, f).source_version = SourceVersion[f]

\* A second .changes or source is an error.
AddDies(g, f) == Fits(g, f) /\ Kind[f] \in {"changes", "source"} /\ g.single[Kind[f]] # NoFile

\* Mutant: whatever is no .changes and no .buildinfo is taken for the source.
StoredAsSource(g, f) ==
    [source_name |-> g.source_name, source_version |-> g.source_version,
     single |-> [g.single EXCEPT ![IF Kind[f] \in Single THEN Kind[f] ELSE "source"] = f],
     installables |-> g.installables]

\* The first .buildinfo and the first installable of an identifier stay.
Stored(g, f) ==
    [source_name |-> g.source_name, source_version |-> g.source_version,
     single |-> IF Kind[f] \in Single /\ g.single[Kind[f]] = NoFile
                THEN [g.single EXCEPT ![Kind[f]] = f] ELSE g.single,
     installables |->
        IF Kind[f] \in Installable /\ \A i \in g.installables : Identifier[i] # Identifier[f]
        THEN g.installables \cup {f} ELSE g.installables]

AddProcessable(g, f) ==
    IF f \in Tainted THEN g
    ELSE IF Fits(g, f) THEN Stored(Named(g, f), f) ELSE Named(g, f)

TypeOK ==
    /\ subjects \in Seq(File) /\ selected \in Selection
    /\ phase \in {"subjects", "pull", "merge", "process", "done", "aborted"} /\ next \in Nat \ {0}
    /\ group \in Group /\ KindsFit(group) /\ pulling \subseteq File /\ merging \subseteq File
    /\ \A n \in DOMAIN groups : groups[n] \in Group /\ KindsFit(groups[n])
    /\ to_process \subseteq DOMAIN groups
    /\ reported \subseteq Condition /\ hints \in [File -> SUBSET Hint]
    /\ exit_code \in {0, 1, 2}

Init ==
    /\ \E c \in CommandLines : subjects = c.subjects /\ selected = c.selected
    /\ phase = "subjects" /\ next = 1
    /\ group = NewGroup /\ pulling = {} /\ merging = {} /\ groups = [n \in {} |-> NewGroup]
    /\ to_process = {} /\ reported = {} /\ hints = [f \in File |-> {}]
    /\ exit_code = 0 /\ delivered = {} /\ skipped = {} /\ failed = {}

-----------------------------------------------------------------------------
\* bin/lintian, the loop over the subjects.

\* die outside of the try block: a subject that is not there, or no package.
Abort ==
    /\ phase = "subjects" /\ next <= Len(subjects)
    /\ subjects[next] \in Missing \/ Kind[subjects[next]] = "other"
    /\ phase' = "aborted"
    /\ UNCHANGED <<subjects, selected, next, assembly, to_process, results, exit_code, history>>

StartSubject ==
    /\ phase = "subjects" /\ next <= Len(subjects)
    /\ LET s == subjects[next] IN
          /\ s \notin Missing /\ Kind[s] # "other" /\ s \notin Broken
          /\ group' = AddProcessable(NewGroup, s)
          /\ pulling' = IF Kind[s] \in Single THEN Listed[s] ELSE {}
    /\ phase' = "pull"
    /\ UNCHANGED <<subjects, selected, next, merging, groups, to_process, results, exit_code, history>>

\* Only packages, sources and .buildinfo files are of interest; the others
\* just have to exist.
Wanted(f) == Kind[f] \in Installable \cup {"source", "buildinfo"}

PullFile ==
    /\ phase = "pull"
    /\ \E f \in pulling :
          /\ f \notin Missing
          /\ Wanted(f) => f \notin Broken /\ ~AddDies(group, f)
          /\ group' = IF Wanted(f) THEN AddProcessable(group, f) ELSE group
          /\ pulling' = pulling \ {f}
    /\ UNCHANGED <<subjects, selected, phase, next, merging, groups, to_process, results, exit_code, history>>

\* Something in the try block died: the whole group of the subject is dropped.
PullDies ==
    \/ phase = "subjects" /\ next <= Len(subjects) /\ subjects[next] \in Broken \ Missing
       /\ Kind[subjects[next]] # "other"
    \/ /\ phase = "pull"
       /\ \E f \in pulling : f \in Missing \/ (Wanted(f) /\ (f \in Broken \/ AddDies(group, f)))

\* Mutant: the handler only warns.
SkipSubjectKeepsStatus ==
    /\ PullDies
    /\ skipped' = skipped \cup {subjects[next]}
    /\ phase' = "subjects" /\ next' = next + 1 /\ group' = NewGroup /\ pulling' = {}
    /\ UNCHANGED <<subjects, selected, merging, groups, to_process, results, exit_code, delivered, failed>>

SkipSubject ==
    /\ PullDies
    /\ exit_code' = 1 /\ skipped' = skipped \cup {subjects[next]}
    /\ phase' = "subjects" /\ next' = next + 1 /\ group' = NewGroup /\ pulling' = {}
    /\ UNCHANGED <<subjects, selected, merging, groups, to_process, results, delivered, failed>>

\* Pool.pm, add_group.  Of the single kinds, only those the old group lacks.
MergeSingle(old, new, k) ==
    IF old.single[k] = NoFile /\ new.single[k] # NoFile THEN AddProcessable(old, new.single[k]) ELSE old
MergeSingles(old, new) ==
    MergeSingle(MergeSingle(MergeSingle(old, new, "source"), new, "buildinfo"), new, "changes")

AddGroup ==
    /\ phase = "pull" /\ pulling = {}
    /\ LET n == Name(group) IN
       IF n \in DOMAIN groups
       THEN /\ groups' = [groups EXCEPT ![n] = MergeSingles(@, group)]
            /\ merging' = group.installables
       ELSE /\ groups' = [m \in DOMAIN groups \cup {n} |-> IF m = n THEN group ELSE groups[m]]
            /\ merging' = {}
    /\ delivered' = delivered \cup Processables(group)
    /\ phase' = "merge"
    /\ UNCHANGED <<subjects, selected, next, group, pulling, to_process, results, exit_code, skipped, failed>>

\* Mutant: "||=" around the call stops at the first installable that is new.
MergeShortCircuits ==
    /\ phase = "merge"
    /\ \E f \in merging :
          /\ groups' = [groups EXCEPT ![Name(group)] = AddProcessable(@, f)]
          /\ merging' = IF groups' = groups THEN merging \ {f} ELSE {}
    /\ UNCHANGED <<subjects, selected, phase, next, group, pulling, to_process, results, exit_code, history>>

MergeInstallable ==
    /\ phase = "merge"
    /\ \E f \in merging :
          /\ groups' = [groups EXCEPT ![Name(group)] = AddProcessable(@, f)]
          /\ merging' = merging \ {f}
    /\ UNCHANGED <<subjects, selected, phase, next, group, pulling, to_process, results, exit_code, history>>

NextSubject ==
    /\ phase = "merge" /\ merging = {}
    /\ phase' = "subjects" /\ next' = next + 1 /\ group' = NewGroup
    /\ UNCHANGED <<subjects, selected, pulling, merging, groups, to_process, results, exit_code, history>>

-----------------------------------------------------------------------------
\* Pool.pm, process.

StartProcess ==
    /\ phase = "subjects" /\ next > Len(subjects)
    /\ phase' = "process" /\ to_process' = DOMAIN groups
    /\ UNCHANGED <<subjects, selected, next, assembly, results, exit_code, history>>

Displayed(h) ==
    /\ h.experimental => selected.display_experimental
    /\ h.override => selected.show_overrides
    /\ h.visibility \in selected.display_level

\* The counters of %reported_count that a hint raises.
Conditions(h) ==
    IF h.override THEN {"override"}
    ELSE IF h.masked THEN {}
    ELSE IF h.experimental THEN {"experimental"} ELSE {h.visibility}

\* The counts are those of all groups so far.  (A file without a version may be
\* in several, as a processable of its own in each.)
Processed(n, success, chosen) ==
    LET members == Processables(groups[n])
        outcome == [f \in members |-> IF f \in Hinted THEN chosen[f] ELSE {}]
        kept == [f \in members |-> {h \in outcome[f] : Displayed(h)}]
    IN  /\ to_process' = to_process \ {n}
        /\ hints' = [f \in File |-> IF f \in members THEN hints[f] \cup kept[f] ELSE hints[f]]
        /\ reported' = reported \cup UNION {Conditions(h) : h \in UNION {kept[f] : f \in members}}
        /\ exit_code' = IF ~success THEN 1
                        ELSE IF selected.fail_on \cap reported' # {} THEN 2 ELSE exit_code
        /\ failed' = IF success THEN failed ELSE failed \cup {n}

ProcessGroup ==
    /\ phase = "process"
    /\ \E n \in to_process, success \in BOOLEAN :
       \E chosen \in [Processables(groups[n]) \cap Hinted -> Outcomes] : Processed(n, success, chosen)
    /\ UNCHANGED <<subjects, selected, phase, next, assembly, delivered, skipped>>

EndProcess ==
    /\ phase = "process" /\ to_process = {} /\ phase' = "done"
    /\ UNCHANGED <<subjects, selected, next, assembly, to_process, results, exit_code, history>>

Terminated == phase \in {"done", "aborted"} /\ UNCHANGED vars

Next == Abort \/ StartSubject \/ PullFile \/ SkipSubject \/ AddGroup \/ MergeInstallable
        \/ NextSubject \/ StartProcess \/ ProcessGroup \/ EndProcess \/ Terminated

Spec == Init /\ [][Next]_vars

-----------------------------------------------------------------------------
\* A group is one upload: it is filed under its name, whatever is in it has
\* the group's source and version (or no version at all), nothing tainted gets
\* in, and no two installables have one identifier.
GroupsAreUploads ==
    \A n \in DOMAIN groups :
        /\ Name(groups[n]) = n
        /\ \A f \in Processables(groups[n]) :
              /\ f \notin Tainted /\ SourceName[f] = groups[n].source_name
              /\ SourceVersion[f] \in {groups[n].source_version, Empty}
        /\ \A f, g \in groups[n].installables : Identifier[f] = Identifier[g] => f = g

\* Whatever the order of the subjects and of the files they list, merging
\* loses nothing: for every processable given to add_group the pool has one
\* of the same identifier, or of the same single kind, in the group of its name.
MergingLosesNothing ==
    phase \in {"subjects", "process", "done"} =>
        \A f \in {d \in delivered : SourceVersion[d] # Empty} :
            LET n == <<SourceName[f], SourceVersion[f]>> IN
            /\ n \in DOMAIN groups
            /\ IF Kind[f] \in Single THEN groups[n].single[Kind[f]] # NoFile
               ELSE \E g \in groups[n].installables : Identifier[g] = Identifier[f]

\* A hint that --fail-on asks for.
Detected(h) ==
    \/ h.override /\ "override" \in selected.fail_on
    \/ /\ ~h.override /\ ~h.masked
       /\ IF h.experimental THEN "experimental" \in selected.fail_on
          ELSE h.visibility \in selected.fail_on

\* Exit status 0 is a promise: every subject was read, every group was
\* processed without an error, and nothing that --fail-on asks for is shown.
\* Exit status 2 has a reason that the user can see in the output.
ExitStatusIsTrue ==
    /\ phase = "done" /\ exit_code = 0 =>
          /\ skipped = {} /\ failed = {}
          /\ \A f \in File : \A h \in hints[f] : ~Detected(h)
    /\ exit_code = 2 => \E f \in File : \E h \in hints[f] : Detected(h) /\ Displayed(h)
=============================================================================
