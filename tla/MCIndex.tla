------------------------------- MODULE MCIndex --------------------------------
(***************************************************************************)
(* A tree with a directory, a file in it, and two links, one at the top    *)
(* and one in the directory, which may lead anywhere, to each other and to *)
(* themselves; and groups of hard links.                                   *)
(***************************************************************************)
EXTENDS Index, NameOrder, TLC

To(path) == [rooted |-> FALSE, path |-> path]
At(path) == [rooted |-> TRUE, path |-> path]
Soft(r) == [type |-> {"symlink"}, link |-> r, size |-> 0]
Hard(path) == [type |-> {"hardlink"}, link |-> To(path), size |-> 0]
File(n) == [type |-> {"file"}, link |-> Empty, size |-> n]

\* The directory d is listed or not; a leads somewhere from the top, and so does
\* d/b from d.
Tops == {To(<<"d">>), To(<<"d", "b">>), To(<<"a">>), At(<<"d", ".", "f">>), To(<<"d", "f", "..">>), To(<<"..">>)}
Inner == {To(<<"f">>), To(<<"..", "a">>), To(<<".">>), At(<<"a">>), At(<<>>), To(<<"b", "f">>)}
Linked ==
    {Plain(<<"a">>) :> Soft(t) @@ Plain(<<"d", "b">>) :> Soft(u) @@ Plain(<<"d", "f">>) :> File(1) :
        t \in Tops, u \in Inner}

\* A link whose name is also that of a directory; hard links, to a link, to one
\* that comes later, to each other, to nothing.  ("a-" comes after "a", but what
\* is in it comes before what is in "a".)
Groups ==
    {Plain(<<"a">>) :> Soft(To(<<"d">>)) @@ Folder(<<"d">>) :> Faux @@ Plain(<<"a", "f">>) :> File(1),
     Plain(<<"a">>) :> Hard(<<"d", "a", "f">>) @@ Plain(<<"b">>) :> Hard(<<"d", "a", "f">>)
        @@ Plain(<<"d", "a", "f">>) :> File(2) @@ Folder(<<>>) :> Faux,
     Plain(<<"a">>) :> File(1) @@ Plain(<<"b">>) :> Hard(<<"a">>) @@ Plain(<<"d">>) :> Hard(<<"f">>)
        @@ Plain(<<"f">>) :> File(2),
     Plain(<<"a", "f">>) :> Hard(<<"d">>) @@ Plain(<<"a-", "f">>) :> Hard(<<"d">>) @@ Plain(<<"d">>) :> File(1)
        @@ Plain(<<"b">>) :> Hard(<<"a", "b">>) @@ Plain(<<"a", "b">>) :> File(2) @@ Plain(<<"a-", "b">>) :> Hard(<<"a", "b">>),
     Plain(<<"a">>) :> Hard(<<"b">>) @@ Plain(<<"b">>) :> Hard(<<"d">>) @@ Plain(<<"d">>) :> File(1),
     Plain(<<"a">>) :> Hard(<<"b">>) @@ Plain(<<"b">>) :> Soft(To(<<"d">>)) @@ Plain(<<"d">>) :> File(1),
     Plain(<<"a">>) :> Hard(<<"a">>), Plain(<<"a">>) :> Hard(<<"b">>)}

MCArchives == Linked \cup Groups
Spelt == "a" :> <<97>> @@ "a-" :> <<97, 45>> @@ "b" :> <<98>> @@ "d" :> <<100>> @@ "f" :> <<102>>
MCRank == RanksOf(Files, Spelt)
MCRequests == {Empty, To(<<"..", "a">>), To(<<"b">>), To(<<"d", "b", "..", "a", "f">>), At(<<"a", "b">>)}
=============================================================================
