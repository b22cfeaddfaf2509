------------------------------- MODULE MCProfile -------------------------------
(***************************************************************************)
(* Two checks, three tags, one former name and one unknown name; three     *)
(* profile files, one of which may be missing.                             *)
(***************************************************************************)
EXTENDS ProfileImplementsSelection, TLC

CONSTANTS a1, a2, b1, a1_old, bogus, ca, cb, bogus_check

MCTag == {a1, a2, b1}
MCCheckOf == a1 :> ca @@ a2 :> ca @@ b1 :> cb
MCKnownAlias == a1_old :> a1
MCName == MCTag \cup {a1_old, bogus}

Plain == [profile |-> "debian/main", extends |-> NoFile, unknown_field |-> FALSE,
          enable_checks |-> {ca, cb}, disable_checks |-> {},
          enable_tags |-> {}, disable_tags |-> {}, sections |-> <<>>]
Sections == {<<>>, <<[tags |-> {a1, b1}, overridable |-> "no"]>>,
             <<[tags |-> {a2}, overridable |-> "no"],
               [tags |-> {a2, b1}, overridable |-> "yes"]>>,
             <<[tags |-> {}, overridable |-> "no"]>>}

\* The root profile enables everything, or one check, or one tag.
Roots == {Plain, [Plain EXCEPT !.enable_checks = {cb}, !.enable_tags = {a1}],
          [Plain EXCEPT !.disable_tags = {a2}, !.sections = <<[tags |-> {a2}, overridable |-> "no"]>>]}
\* The vendor profile extends it, itself, or nothing that exists.
Vendors(tags, sections) ==
    {[Plain EXCEPT !.profile = "vendor/main", !.extends = "debian", !.enable_checks = {},
        !.enable_tags = e, !.disable_tags = d, !.disable_checks = dc, !.sections = s] :
            e \in SUBSET tags, d \in SUBSET tags, dc \in {{}, {ca}}, s \in sections}
Odd == {[Plain EXCEPT !.profile = "vendor/main", !.extends = x, !.unknown_field = u,
           !.profile = n] : x \in {"vendor", "missing"}, u \in BOOLEAN,
                            n \in {"vendor/main", "debian/main"}}
       \cup {[Plain EXCEPT !.unknown_field = TRUE, !.profile = "vendor/main"]}

DiskOf(roots, vendors) ==
    {("debian" :> r @@ "vendor" :> v) : r \in roots, v \in vendors}
Circle == {"debian" :> [Plain EXCEPT !.extends = "vendor"]
           @@ "vendor" :> [Plain EXCEPT !.profile = "vendor/main", !.extends = "debian"]}

Quiet == [profile |-> "vendor", ftp_master_rejects |-> FALSE, tags |-> {},
          check_part |-> {}, dont_check_part |-> {}, suppress_tags |-> {}]

\* Loading alone, with every shape of vendor profile.
LoadDisk == DiskOf(Roots, Vendors({a1, a2}, Sections) \cup Odd) \cup Circle
LoadSetups == LoadDisk \X {Quiet, [Quiet EXCEPT !.profile = "debian"]}

\* Every mixture of options, over a few profiles.
OptionDisk == DiskOf(Roots, Vendors({a2}, {<<>>, <<[tags |-> {a1, a1_old}, overridable |-> "no"]>>}))
OptionSetups ==
    OptionDisk \X {[Quiet EXCEPT !.ftp_master_rejects = f, !.tags = t, !.check_part = c,
        !.dont_check_part = x, !.suppress_tags = s] :
            f \in BOOLEAN, t \in {{}, {a1, a1_old, b1}, {bogus}},
            c \in {{}, {ca}, {"all"}, {cb, bogus_check}}, x \in {{}, {ca}, {bogus_check}},
            s \in {{}, {a2, a1_old}, {a2, b1, bogus}}}

MCSetups == LoadSetups \cup OptionSetups

\* One option at a time.
SuppressSetups == OptionDisk \X {[Quiet EXCEPT !.suppress_tags = s] : s \in SUBSET {a2, a1_old}}
=============================================================================
