------------------------------- MODULE Profile -------------------------------
(***************************************************************************)
(* lib/Lintian/Profile.pm: which tags and which checks a run of Lintian    *)
(* uses.  read_profile() loads a vendor profile after the profile it       *)
(* Extends; bin/lintian then applies --ftp-master-rejects, --tags,         *)
(* --check-part, --dont-check-part and --suppress-tags.  All of them come  *)
(* down to calls of enable_tag() and disable_tag(), which keep a counter   *)
(* of enabled tags per check; a check runs iff its counter exists.         *)
(*                                                                         *)
(* One step is one call of enable_tag or disable_tag, or the code between  *)
(* two loops of such calls.  The lists the loops run over come from hash   *)
(* keys or from the user, so a loop takes its names in any order.          *)
(***************************************************************************)
EXTENDS Integers, Sequences, FiniteSets

CONSTANTS
    Tag,            \* known_tags
    Check,          \* known_checks
    CheckOf,        \* tag -> the check that issues it
    KnownAlias,     \* former name -> tag (known_aliases)
    Name,           \* every name a user may write for a tag
    ShowAlways,     \* tags declared with Show-Always
    Certain,        \* data of --ftp-master-rejects: no overrides allowed
    Preventable,    \*   and: overrides okay
    File,           \* names under which profiles are looked up
    ProfileName,    \* values of the Profile field
    Setups,         \* the installations (file -> profile) and command lines considered
    NoFile,         \* a profile without Extends
    NoName,         \* the profile's name before one is known
    CheckName,      \* every name a user may write for a check
    All             \* the word "all" given to --check-part

\* The profiles as parsed: patterns are already matched against the known
\* tags and checks, as read_profile does first of all.
Section == [tags : SUBSET Name, overridable : {"yes", "no", "malformed"}]
ProfileFile ==
    [profile : ProfileName, extends : File \cup {NoFile}, unknown_field : BOOLEAN,
     enable_checks : SUBSET Check, disable_checks : SUBSET Check,
     enable_tags : SUBSET Tag, disable_tags : SUBSET Tag, sections : Seq(Section)]
CommandLine ==
    [profile : File, ftp_master_rejects : BOOLEAN, tags : SUBSET Name,
     check_part : SUBSET CheckName, dont_check_part : SUBSET CheckName,
     suppress_tags : SUBSET Name]

ASSUME ProfileAssumption ==
    /\ IsFiniteSet(Tag) /\ Tag \subseteq Name /\ ShowAlways \subseteq Tag
    /\ CheckOf \in [Tag -> Check]
    /\ KnownAlias \in [DOMAIN KnownAlias -> Tag]
    /\ DOMAIN KnownAlias \cap Tag = {}     \* so in tags/: no former name is reused
    /\ Certain \subseteq Name /\ Preventable \subseteq Name
    /\ Check \subseteq CheckName /\ All \in CheckName \ Check
    /\ NoFile \notin File /\ NoName \notin ProfileName
    /\ \A s \in Setups : LET d == s[1] IN
          /\ s = <<d, s[2]>>
          /\ d = [f \in DOMAIN d |-> d[f]] /\ DOMAIN d \subseteq File
          /\ \A f \in DOMAIN d : d[f] \in ProfileFile
          /\ s[2] \in CommandLine

VARIABLES
    disk,           \* the profiles installed
    selected,       \* %selected, the options given
    phase,          \* the code that runs when the current loop has ended
    loop,           \* the loop being run: its call and the names still to do
    loading,        \* calls of read_profile in progress, innermost first
    section,        \* the next secondary paragraph of the innermost profile
    parent_map,     \* names of the profiles met so far
    name,           \* $profile->name
    profile_list,   \* names of the profiles loaded, the last one first
    enabled_checks, \* enabled_checks_by_name: check -> counter
    enabled_tags,   \* keys of enabled_tags_by_name
    durable_tags,   \* keys of durable_tags_by_name
    stray           \* history: disable_tag met a tag that was not enabled

inputs == <<disk, selected>>
reader == <<loading, section, parent_map, name, profile_list>>
tables == <<enabled_checks, enabled_tags, durable_tags, stray>>
vars == <<inputs, phase, loop, reader, tables>>

Phases == {"read", "header", "disable", "sections", "loaded", "ftp_enable",
           "ftp_durable", "select", "select_enable", "suppress", "ready", "died"}

\* The type invariant.
TypeOK ==
    /\ <<disk, selected>> \in Setups
    /\ phase \in Phases
    /\ loop \in [op : {"enable", "disable"}, todo : SUBSET Name]
    /\ loading \in Seq(File) /\ section \in Nat \ {0}
    /\ parent_map \subseteq ProfileName /\ name \in ProfileName \cup {NoName}
    /\ profile_list \in Seq(ProfileName)
    /\ enabled_checks \in [DOMAIN enabled_checks -> Int]
    /\ DOMAIN enabled_checks \subseteq Check
    /\ enabled_tags \subseteq Tag /\ durable_tags \subseteq Name
    /\ stray \in BOOLEAN

Init ==
    /\ \E s \in Setups : disk = s[1] /\ selected = s[2]
    /\ phase = "read" /\ loop = [op |-> "enable", todo |-> {}]
    /\ loading = <<selected.profile>> /\ section = 1
    /\ parent_map = {} /\ name = NoName /\ profile_list = <<>>
    /\ enabled_checks = [c \in {} |-> 0] /\ enabled_tags = {} /\ durable_tags = {}
    /\ stray = FALSE

\* get_current_name() and get_tag().
CurrentName(n) == IF n \in DOMAIN KnownAlias THEN KnownAlias[n] ELSE n
Known(n) == CurrentName(n) \in Tag
CurrentTags(names) == {CurrentName(n) : n \in names} \cap Tag
TagNamesForCheck(checks) == {t \in Tag : CheckOf[t] \in checks}

EnableList(p) == p.enable_tags \cup TagNamesForCheck(p.enable_checks)
DisableList(p) == p.disable_tags \cup TagNamesForCheck(p.disable_checks)

-----------------------------------------------------------------------------
\* Counters of a partial function; Perl takes an absent entry for 0.
Counter(c) == IF c \in DOMAIN enabled_checks THEN enabled_checks[c] ELSE 0
WithEntry(c, n) == [d \in DOMAIN enabled_checks \cup {c} |->
                       IF d = c THEN n ELSE enabled_checks[d]]
WithoutEntry(c) == [d \in DOMAIN enabled_checks \ {c} |-> enabled_checks[d]]

EnableTag(t) ==
    /\ enabled_checks' = IF t \in enabled_tags THEN enabled_checks
                         ELSE WithEntry(CheckOf[t], Counter(CheckOf[t]) + 1)
    /\ enabled_tags' = enabled_tags \cup {t}
    /\ UNCHANGED <<durable_tags, stray>>

\* Mutant: the decremented counter is not tested.
DisableTagKeepsZero(t) ==
    /\ enabled_checks' = IF t \in enabled_tags
                         THEN WithEntry(CheckOf[t], Counter(CheckOf[t]) - 1)
                         ELSE WithoutEntry(CheckOf[t])
    /\ enabled_tags' = enabled_tags \ {t} /\ stray' = (stray \/ t \notin enabled_tags)
    /\ UNCHANGED durable_tags

\* The entry is deleted UNLESS the tag was enabled and its decremented counter
\* is not zero: also when the tag was not enabled at all.
DisableTag(t) ==
    LET left == Counter(CheckOf[t]) - 1
    IN  /\ enabled_checks' = IF t \in enabled_tags /\ left # 0
                             THEN WithEntry(CheckOf[t], left)
                             ELSE WithoutEntry(CheckOf[t])
        /\ enabled_tags' = enabled_tags \ {t}
        /\ stray' = (stray \/ t \notin enabled_tags)
        /\ UNCHANGED durable_tags

LoopStep ==
    /\ \E n \in loop.todo :
          /\ Known(n)
          /\ IF loop.op = "enable" THEN EnableTag(CurrentName(n))
                                   ELSE DisableTag(CurrentName(n))
          /\ loop' = [op |-> loop.op, todo |-> loop.todo \ {n}]
    /\ UNCHANGED <<inputs, phase, reader>>

\* croak and die: the program ends.
Die == phase' = "died" /\ loop' = [op |-> loop.op, todo |-> {}]
       /\ UNCHANGED <<inputs, reader, tables>>

CroakUnknownTag == (\E n \in loop.todo : ~Known(n)) /\ Die

-----------------------------------------------------------------------------
At(p) == phase = p /\ loop.todo = {}
Run(op, names, next) == loop' = [op |-> op, todo |-> names] /\ phase' = next
Current == disk[Head(loading)]

\* Mutant: without the test for a recursive definition, the parent read in
\* place of the profile.
ReadFileForever ==
    /\ At("read") /\ Head(loading) \in DOMAIN disk
    /\ parent_map' = parent_map \cup {Current.profile} /\ name' = Current.profile
    /\ IF Current.extends = NoFile
       THEN phase' = "header" /\ UNCHANGED loading
       ELSE phase' = "read" /\ loading' = <<Current.extends>>
    /\ UNCHANGED <<inputs, loop, section, profile_list, tables>>

\* read_profile up to the recursive call for Extends.
ReadFile ==
    /\ At("read") /\ Head(loading) \in DOMAIN disk /\ Current.profile \notin parent_map
    /\ parent_map' = parent_map \cup {Current.profile}
    /\ name' = IF name = NoName THEN Current.profile ELSE name
    /\ IF Current.extends = NoFile
       THEN phase' = "header" /\ UNCHANGED loading
       ELSE phase' = "read" /\ loading' = <<Current.extends>> \o loading
    /\ UNCHANGED <<inputs, loop, section, profile_list, tables>>

\* "Could not find a profile", "Recursive definition".
CroakFile ==
    /\ At("read")
    /\ Head(loading) \in DOMAIN disk => Current.profile \in parent_map
    /\ Die

\* From the unshift of the name to the loop that enables.
ReadHeader ==
    /\ At("header") /\ ~Current.unknown_field
    /\ profile_list' = <<Current.profile>> \o profile_list
    /\ Run("enable", EnableList(Current), "disable")
    /\ UNCHANGED <<inputs, loading, section, parent_map, name, tables>>

CroakHeader == At("header") /\ Current.unknown_field /\ Die

\* Mutant: paragraphs counted from zero.
DisableAfterEnablingFromZero ==
    /\ At("disable")
    /\ Run("disable", DisableList(Current), "sections") /\ section' = 0
    /\ UNCHANGED <<inputs, loading, parent_map, name, profile_list, tables>>

\* "disabling after enabling"
DisableAfterEnabling ==
    /\ At("disable")
    /\ Run("disable", DisableList(Current), "sections") /\ section' = 1
    /\ UNCHANGED <<inputs, loading, parent_map, name, profile_list, tables>>

\* A paragraph with Tags and Overridable; the names are used as written.
Malformed(s) == s.tags = {} \/ s.overridable = "malformed"
ReadSection ==
    /\ At("sections") /\ section <= Len(Current.sections)
    /\ LET s == Current.sections[section]
       IN  /\ ~Malformed(s)
           /\ durable_tags' = IF s.overridable = "yes" THEN durable_tags \ s.tags
                              ELSE durable_tags \cup s.tags
    /\ section' = section + 1
    /\ UNCHANGED <<inputs, phase, loop, loading, parent_map, name, profile_list,
                   enabled_checks, enabled_tags, stray>>

CroakSection ==
    /\ At("sections") /\ section <= Len(Current.sections)
    /\ Malformed(Current.sections[section]) /\ Die

\* The end of read_profile: Show-Always tags, then back to the caller.
EndProfile ==
    /\ At("sections") /\ section > Len(Current.sections)
    /\ durable_tags' = durable_tags \cup ShowAlways
    /\ loading' = Tail(loading)
    /\ phase' = IF Tail(loading) = <<>> THEN "loaded" ELSE "header"
    /\ UNCHANGED <<inputs, loop, section, parent_map, name, profile_list,
                   enabled_checks, enabled_tags, stray>>

-----------------------------------------------------------------------------
\* bin/lintian, --ftp-master-rejects.
FtpMasterRejects ==
    /\ At("loaded")
    /\ IF selected.ftp_master_rejects THEN Run("disable", Tag, "ftp_enable")
                                      ELSE Run("disable", {}, "select")
    /\ UNCHANGED <<inputs, reader, tables>>
FtpEnable ==
    /\ At("ftp_enable") /\ Run("enable", Certain \cup Preventable, "ftp_durable")
    /\ UNCHANGED <<inputs, reader, tables>>
\* Mutant: the two set_durable loops swapped.
FtpDurableSwapped ==
    /\ At("ftp_durable") /\ Run("disable", {}, "select")
    /\ durable_tags' = (durable_tags \ (CurrentTags(Preventable) \ ShowAlways))
                          \cup CurrentTags(Certain)
    /\ UNCHANGED <<inputs, reader, enabled_checks, enabled_tags, stray>>
\* set_durable for both lists; the tag's own Show-Always governs.
FtpDurable ==
    /\ At("ftp_durable") /\ Run("disable", {}, "select")
    /\ durable_tags' = (durable_tags \cup CurrentTags(Certain))
                          \ (CurrentTags(Preventable) \ ShowAlways)
    /\ UNCHANGED <<inputs, reader, enabled_checks, enabled_tags, stray>>

\* bin/lintian, --tags, --check-part, --dont-check-part and --suppress-tags.
Listing == selected.tags # {} \/ selected.check_part # {}
\* Mutant: -T and -C add to what the profile enabled.
SelectAdds ==
    /\ At("select") /\ (Listing \/ selected.dont_check_part \subseteq Check)
    /\ IF Listing THEN Run("disable", {}, "select_enable")
       ELSE Run("disable", TagNamesForCheck(selected.dont_check_part), "suppress")
    /\ UNCHANGED <<inputs, reader, tables>>
Select ==
    /\ At("select") /\ (Listing \/ selected.dont_check_part \subseteq Check)
    /\ IF Listing THEN Run("disable", enabled_tags, "select_enable")
       ELSE Run("disable", TagNamesForCheck(selected.dont_check_part), "suppress")
    /\ UNCHANGED <<inputs, reader, tables>>
PartTags == IF All \in selected.check_part THEN Tag
            ELSE TagNamesForCheck(selected.check_part)
SelectEnable ==
    /\ At("select_enable")
    /\ selected.tags # {} \/ selected.check_part \subseteq Check \cup {All}
    /\ Run("enable", IF selected.tags # {} THEN selected.tags ELSE PartTags, "suppress")
    /\ UNCHANGED <<inputs, reader, tables>>
\* "Unrecognized check", for -C and for -X.
CroakUnknownCheck ==
    /\ \/ At("select_enable") /\ selected.tags = {}
          /\ ~(selected.check_part \subseteq Check \cup {All})
       \/ At("select") /\ ~Listing /\ ~(selected.dont_check_part \subseteq Check)
    /\ Die
\* Mutant: --suppress-tags is not ignored with --tags.
SuppressAlways ==
    /\ At("suppress") /\ Run("disable", selected.suppress_tags, "ready")
    /\ UNCHANGED <<inputs, reader, tables>>
SuppressTags ==
    /\ At("suppress")
    /\ Run("disable", IF selected.tags # {} THEN {} ELSE selected.suppress_tags, "ready")
    /\ UNCHANGED <<inputs, reader, tables>>

\* The profile is complete (or the program has died); checking starts.
Terminated == phase \in {"ready", "died"} /\ loop.todo = {} /\ UNCHANGED vars

Load == ReadFile \/ CroakFile \/ ReadHeader \/ CroakHeader \/ DisableAfterEnabling
        \/ ReadSection \/ CroakSection \/ EndProfile
Options == FtpMasterRejects \/ FtpEnable \/ FtpDurable \/ Select \/ SelectEnable
           \/ CroakUnknownCheck \/ SuppressTags
Next == LoopStep \/ CroakUnknownTag \/ Load \/ Options \/ Terminated

Spec == Init /\ [][Next]_vars
FairSpec == Spec /\ WF_vars(Next)

-----------------------------------------------------------------------------
Loaded == At("ready")
EnabledTagsOf(c) == {t \in enabled_tags : CheckOf[t] = c}
IsDurable(t) == t \in ShowAlways \cup durable_tags

\* A counter never exceeds the number of enabled tags of its check, whatever
\* is disabled twice, before being enabled or under a former name: no sequence
\* of calls makes enable_tag/disable_tag keep a check alive by overcounting.
CountAtMostEnabled ==
    \A c \in DOMAIN enabled_checks : enabled_checks[c] <= Cardinality(EnabledTagsOf(c))

\* As long as disable_tag was called for enabled tags only, the counters are
\* exact: a check has an entry iff some tag of it is enabled, and the entry is
\* their number.
CountsExactUnlessStray ==
    ~stray => /\ DOMAIN enabled_checks = {CheckOf[t] : t \in enabled_tags}
              /\ \A c \in DOMAIN enabled_checks :
                    enabled_checks[c] = Cardinality(EnabledTagsOf(c))

\* What enabled_checks says is at most what is enabled, and just that as long
\* as no call was stray.
CountersTellTheTags == CountAtMostEnabled /\ CountsExactUnlessStray

\* With --tags, --check-part or --ftp-master-rejects and nothing suppressed,
\* the check of every tag that ends up enabled is going to run, whatever the
\* profile enabled and disabled before.
SelectionRunsItsChecks ==
    Loaded /\ (Listing \/ selected.ftp_master_rejects)
       /\ (selected.tags # {} \/ selected.suppress_tags = {})
    => \A t \in enabled_tags : CheckOf[t] \in DOMAIN enabled_checks

\* After --ftp-master-rejects a tag of the preventable list can be overridden
\* unless its description says Show-Always, and one that is only on the certain
\* list cannot be overridden, whatever the profile's Overridable fields said.
AutoRejectDecidesOverrides ==
    Loaded /\ selected.ftp_master_rejects
    => \A t \in CurrentTags(Certain \cup Preventable) :
          IsDurable(t) <=> t \in ShowAlways \/ t \notin CurrentTags(Preventable)

\* Loading ends, with a profile or with an error, even if profiles extend each
\* other in a circle.
LoadingEnds == <>(Loaded \/ At("died"))

-----------------------------------------------------------------------------
\* What the documentation says, and the code does not do.

\* man/lintian.pod: --suppress-tags suppresses "the listed tags": the check of
\* every other enabled tag still runs.
SuppressesListedTagsOnly ==
    Loaded /\ selected.suppress_tags # {} /\ ~Listing
    => \A t \in enabled_tags : CheckOf[t] \in DOMAIN enabled_checks
=============================================================================
