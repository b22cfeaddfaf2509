-------------------------------- MODULE MCPool --------------------------------
(***************************************************************************)
(* Two uploads of foo 1 for two architectures, whose .changes files share  *)
(* a package; a binary-only upload whose package has another version; a    *)
(* tainted .changes file listing packages of two sources; a package        *)
(* without a version; a listing with two sources; broken and missing files.*)
(***************************************************************************)
EXTENDS Pool, TLC

MCFile == {"amd64.changes", "i386.changes", "binnmu.changes", "tainted.changes", "two.changes",
           "foo.dsc", "copy.dsc", "foo.tar", "foo.buildinfo", "amd64.deb", "i386.deb", "all.deb",
           "copy.deb", "bar.udeb", "bare.deb", "broken.deb", "missing.deb",
           "hinted.deb", "hinted.udeb", "newer.deb"}

MCKind == [f \in MCFile |->
    IF f \in {"amd64.changes", "i386.changes", "binnmu.changes", "tainted.changes", "two.changes"} THEN "changes"
    ELSE IF f \in {"foo.dsc", "copy.dsc"} THEN "source"
    ELSE IF f = "foo.tar" THEN "other" ELSE IF f = "foo.buildinfo" THEN "buildinfo"
    ELSE IF f \in {"bar.udeb", "hinted.udeb"} THEN "udeb" ELSE "binary"]

MCSourceName == [f \in MCFile |->
    IF f \in {"bar.udeb", "hinted.udeb"} THEN "bar" ELSE IF f = "binnmu.changes" THEN "foo (1)" ELSE "foo"]
MCSourceVersion == [f \in MCFile |->
    IF f = "bare.deb" THEN "" ELSE IF f = "binnmu.changes" THEN "1+b1"
    ELSE IF f = "newer.deb" THEN "2" ELSE "1"]
MCIdentifier == [f \in MCFile |-> IF f = "copy.deb" THEN "all.deb" ELSE f]
Lists ==
    "amd64.changes" :> {"foo.dsc", "foo.tar", "amd64.deb", "all.deb"}
    @@ "i386.changes" :> {"foo.buildinfo", "i386.deb", "copy.deb", "newer.deb"}
    @@ "binnmu.changes" :> {"amd64.deb"}
    @@ "tainted.changes" :> {"amd64.deb", "bar.udeb"}
    @@ "two.changes" :> {"foo.dsc", "copy.dsc", "all.deb"}
    @@ "foo.dsc" :> {"foo.tar"}
    @@ "foo.buildinfo" :> {"i386.deb", "missing.deb"}
AllListed == [f \in MCFile |-> IF f \in DOMAIN Lists THEN Lists[f] ELSE {}]

\* All command lines of at most three subjects.
Given == {"amd64.changes", "i386.changes", "binnmu.changes", "tainted.changes", "two.changes",
          "foo.buildinfo", "bar.udeb", "bare.deb", "broken.deb"}
ManySubjects == {<<s, t, u>> : s \in Given, t \in Given, u \in Given}
                \cup {<<"foo.dsc">>, <<"missing.deb">>, <<"i386.deb", "foo.tar">>, <<>>}

Plain == [fail_on |-> {"error"}, show_overrides |-> FALSE, display_experimental |-> FALSE,
          display_level |-> {"error", "warning"}]

\* Two groups whose packages have hints, or one and a broken subject.
FewSubjects == {<<"hinted.deb", "hinted.udeb">>, <<"broken.deb", "hinted.udeb">>}
ManySelections ==
    {[fail_on |-> c, show_overrides |-> o, display_experimental |-> x, display_level |-> l] :
        c \in {{}, {"error"}, {"warning", "experimental"}, {"override"}},
        o \in BOOLEAN, x \in BOOLEAN, l \in {{"error"}, {"error", "warning"}}}
ManyOutcomes == {{}} \cup {{h} : h \in Hint}
                \cup {{h, g} : h \in {k \in Hint : k.masked /\ ~k.override /\ ~k.experimental},
                              g \in {k \in Hint : k.override /\ ~k.masked}}

MCCommandLines ==
    {[subjects |-> s, selected |-> Plain] : s \in ManySubjects}
    \cup {[subjects |-> s, selected |-> o] : s \in FewSubjects, o \in ManySelections}
=============================================================================
