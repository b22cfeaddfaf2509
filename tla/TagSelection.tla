---------------------------- MODULE TagSelection ----------------------------
(***************************************************************************)
(* What the profile and the options promise about the enabled tags, with   *)
(* no counters, no loops and no order within a list: each profile, from    *)
(* the root of the Extends chain to the one asked for, adds its enabled    *)
(* tags and then takes away its disabled ones; then the options act, each  *)
(* as one change of the whole set.  What lintian.rst:594-603 decides in    *)
(* another way than the code is left open.  Profile implements it.         *)
(***************************************************************************)
EXTENDS Sequences

CONSTANTS Tag, Check, CheckOf, KnownAlias, Certain, Preventable, NoFile, All,
          Setups

VARIABLES disk, selected,
          stage,         \* what has been applied
          profile_list,  \* names of the profiles applied, the last one first
          enabled        \* the tags enabled
vars == <<disk, selected, stage, profile_list, enabled>>

Current(names) ==
    {t \in Tag : t \in names \/ \E n \in names \cap DOMAIN KnownAlias : KnownAlias[n] = t}
TagsOf(checks) == {t \in Tag : CheckOf[t] \in checks}
Enables(p) == p.enable_tags \cup TagsOf(p.enable_checks)
Disables(p) == p.disable_tags \cup TagsOf(p.disable_checks)

\* Tags that one profile enables and disables by the same or by different
\* fields: by the manual the profile is invalid, or Enable-Tags overrules
\* Disable-Tags-From-Check; the code disables what it has enabled before.
Contested(p) ==
    (p.enable_tags \cap Disables(p)) \cup TagsOf(p.enable_checks \cap p.disable_checks)

Init ==
    /\ \E s \in Setups : disk = s[1] /\ selected = s[2]
    /\ stage = "loading" /\ profile_list = <<>> /\ enabled = {}

\* f is applied right after the profile it extends, or first of all.
IsNext(f) ==
    IF disk[f].extends = NoFile THEN profile_list = <<>>
    ELSE /\ profile_list # <<>> /\ disk[f].extends \in DOMAIN disk
         /\ Head(profile_list) = disk[disk[f].extends].profile

Apply(f) ==
    /\ stage = "loading" /\ IsNext(f)
    /\ \A i \in DOMAIN profile_list : profile_list[i] # disk[f].profile
    /\ profile_list' = <<disk[f].profile>> \o profile_list
    /\ \E kept \in SUBSET Contested(disk[f]) :
          enabled' = ((enabled \cup Enables(disk[f])) \ Disables(disk[f])) \cup kept
    /\ UNCHANGED <<disk, selected, stage>>

Rejects ==
    /\ stage = "loading" /\ stage' = "loaded"
    /\ profile_list # <<>> /\ Head(profile_list) = disk[selected.profile].profile
    /\ enabled' = IF selected.ftp_master_rejects THEN Current(Certain \cup Preventable)
                  ELSE enabled
    /\ UNCHANGED <<disk, selected, profile_list>>

Choose ==
    /\ stage = "loaded" /\ stage' = "chosen"
    /\ enabled' = IF selected.tags # {} THEN Current(selected.tags)
                  ELSE IF All \in selected.check_part THEN Tag
                  ELSE IF selected.check_part # {} THEN TagsOf(selected.check_part)
                  ELSE enabled \ TagsOf(selected.dont_check_part)
    /\ UNCHANGED <<disk, selected, profile_list>>

\* --suppress-tags is ignored with --tags.
Suppress ==
    /\ stage = "chosen" /\ stage' = "done"
    /\ enabled' = IF selected.tags # {} THEN enabled
                  ELSE enabled \ Current(selected.suppress_tags)
    /\ UNCHANGED <<disk, selected, profile_list>>

\* An invalid profile or option ends the run before any check.
Reject ==
    /\ stage # "rejected" /\ stage' = "rejected" /\ enabled' = {}
    /\ UNCHANGED <<disk, selected, profile_list>>

Next == (\E f \in DOMAIN disk : Apply(f)) \/ Rejects \/ Choose \/ Suppress \/ Reject

Spec == Init /\ [][Next]_vars
=============================================================================
