------------------------------ MODULE MCOrigIndex -----------------------------
(***************************************************************************)
(* A main tarball, up to two components, and what they may have in common: *)
(* a directory around all files, the name of a component, of a directory   *)
(* in it, of a file in that; a file or a link where a directory belongs.   *)
(***************************************************************************)
EXTENDS OrigIndex, NameOrder, TLC

CONSTANT None       \* the model value for Main

To(path) == [rooted |-> FALSE, path |-> path]
File(n) == [type |-> {"file"}, link |-> Empty, size |-> n]
Soft(path) == [type |-> {"symlink"}, link |-> To(path), size |-> 0]
Hard(path) == [type |-> {"hardlink"}, link |-> To(path), size |-> 0]

\* What a tarball lists: some of these, the files of a size of their own.
Listed(size) ==
    Plain(<<"m", "a">>) :> File(size) @@ Plain(<<"m", "m", "a">>) :> File(size + 1)
    @@ Plain(<<"a">>) :> File(size + 2) @@ Plain(<<"m", "c">>) :> Soft(<<"m", "a">>)
    @@ Plain(<<"m", "d">>) :> Hard(<<"m", "a">>) @@ Folder(<<"m", "a">>) :> Faux
Proper(list) == \A n \in DOMAIN list : ~n.slash => Folder(n.path) \notin DOMAIN list
Some(names, all) == {[n \in s |-> all[n] ] : s \in SUBSET names}
Lists(size) == {l \in Some(DOMAIN Listed(size), Listed(size)) : Proper(l)}

\* The main tarball may have the directory of a component, too.
InComponent(size) ==
    Plain(<<"b", "a">>) :> File(size + 3) @@ Plain(<<"b", "m", "a">>) :> File(size + 4)
    @@ Plain(<<"b", "b", "a">>) :> File(size + 5) @@ Plain(<<"a">>) :> File(size + 2)
MainLists == Lists(1) \cup Some(DOMAIN InComponent(1), InComponent(1))

\* Or, in place of its directory or of one in it, something else.
InPlace ==
    {Plain(p) :> i @@ Plain(<<"a">>) :> File(3) :
        p \in {<<"b">>, <<"b", "m">>, <<"b", "a">>}, i \in {File(1), Soft(<<"a">>), Soft(<<"m", "a">>)}}

\* Hard links to links; in each group the master is first by name, or another is.
Chains ==
    {Plain(<<"m", "d">>) :> Hard(<<"m", "c">>) @@ Plain(<<"m", "c">>) :> i @@ Plain(<<"m", "a">>) :> File(1)
        @@ Plain(p) :> Hard(<<"m", "c">>) :
        p \in {<<"b", "a">>, <<"m", "m">>}, i \in {Soft(<<"m", "a">>), Soft(<<"m", "b">>), Hard(<<"m", "a">>)}}

Tarball(list, component) == [list |-> list, component |-> component]
Second == {Plain(<<"m", "a">>) :> File(31), Plain(<<"a">>) :> File(32) @@ Plain(<<"b">>) :> Soft(<<"a">>)}
MCSources ==
    {<<Tarball(x, None), Tarball(y, "b")>> : x \in MainLists \cup InPlace, y \in Lists(11)}
    \cup {<<Tarball(x, None)>> : x \in Chains} \cup {<<Tarball(x, "b")>> : x \in Chains}
    \cup {<<Tarball(x, None), Tarball(y, "b"), Tarball(z, "c")>> :
             x \in Some(DOMAIN InComponent(1), InComponent(1)), y \in {l \in Lists(11) : Cardinality(DOMAIN l) = 2}, z \in Second}
MCArchives == MainLists \cup InPlace \cup Chains \cup Lists(11) \cup Second

Spelt == [s \in Segment |-> CASE s = "a" -> <<97>> [] s = "b" -> <<98>> [] s = "c" -> <<99>> [] s = "d" -> <<100>>
                              [] s = "m" -> <<109>>]
MCRank == RanksOf(Files, Spelt)
=============================================================================
