-------------------------------- MODULE Index ---------------------------------
(*****************************************************************************)
(* lib/Lintian/Index.pm, load, and Index/Item.pm, follow and resolve_path:   *)
(* the files of a package, from the list that tar printed to a tree with     *)
(* directories and hard links put in order; then paths are resolved in it,   *)
(* one request after the other, links and all.                               *)
(*                                                                           *)
(* The recursion of resolve_path and follow is a stack of frames.  Absolute  *)
(* names in the archive, permissions, owners and dates are left out.         *)
(*****************************************************************************)
EXTENDS Integers, Sequences

CONSTANTS
    Segment,        \* what stands between slashes; not "0", which Perl takes for false
    Archives,       \* what tar may list
    Rank,           \* the place of each name in the order of strings
    Requests,       \* the paths asked for
    Limit,          \* MAXIMUM_LINK_DEPTH
    MaxAsks         \* bound: the requests made of one index

\* A name ends with a slash just when it is that of a directory; the root has
\* the empty name.
Name == [path : Seq(Segment), slash : BOOLEAN]
Root == [path |-> <<>>, slash |-> FALSE]
Folder(path) == IF path = <<>> THEN Root ELSE [path |-> path, slash |-> TRUE]
Plain(path) == [path |-> path, slash |-> FALSE]
Front(s) == SubSeq(s, 1, Len(s) - 1)
Dirname(n) == Folder(Front(n.path))

\* The targets of links, and the paths asked for; the empty one is no link.
Request == [rooted : BOOLEAN, path : Seq(Segment \cup {".", ".."})]
Empty == [rooted |-> FALSE, path |-> <<>>]

Item == [type : SUBSET {"dir", "file", "hardlink", "symlink"}, link : Request, size : Nat]
Faux == [type |-> {"dir"}, link |-> Empty, size |-> 0]

\* What tar tells of an entry: its type, if it is one of these, the target of a
\* link (load dies on a hard link to an absolute name), the size of a file.
Entry ==
    {i \in Item : /\ i.type \in {{}, {"dir"}, {"file"}, {"hardlink"}, {"symlink"}}
                  /\ i.link # Empty => i.type \in {{"hardlink"}, {"symlink"}}
                  /\ i.type = {"hardlink"} => i.link # Empty
                  /\ i.link.rooted => i.type = {"symlink"}
                  /\ i.size # 0 => i.type = {"file"}}

Nowhere == [path |-> <<>>, slash |-> TRUE]

Files == UNION {{n.path : n \in DOMAIN a} : a \in Archives}

ASSUME IndexAssumption ==
    /\ {".", "..", "/"} \cap Segment = {}
    /\ Rank \in [Files -> Nat] /\ \A p, q \in Files : Rank[p] = Rank[q] => p = q
    /\ \A a \in Archives : \A n \in DOMAIN a :
          n \in Name \ {Nowhere} /\ a[n] \in Entry /\ (n = Root \/ n.slash <=> a[n].type = {"dir"})
    /\ Requests \subseteq Request /\ Limit \in Nat /\ MaxAsks \in Nat

NoBudget == -1

VARIABLES
    anchored, archive,
    pc,
    catalog,
    child,          \* childnames: the name found for each path
    masters,        \* the hard-linked names still to do
    dereferenced,   \* what links were resolved to
    start, asked,   \* history: the item and the path asked about
    self, request, maxlinks,    \* the call of resolve_path that runs
    frames,         \* the calls of follow that wait for it
    answer,
    asks, exhausted, beyond     \* history: requests made; whether the budget was
                    \* spent on this one; whether one went on from a file,
                    \* asked for the root alone, or followed a hard link

call == <<self, request, maxlinks, frames>>
tree == <<catalog, child, masters>>
history == <<start, asked, asks, exhausted, beyond>>
vars == <<anchored, archive, pc, tree, dereferenced, call, answer, history>>

Is(n, t) == t \in catalog[n].type
HasLink(n) == catalog[n].link # Empty

TypeOK ==
    /\ archive \in Archives /\ pc \in {"missing", "children", "hardlinks", "loaded", "resolve", "died"}
    /\ \A n \in DOMAIN catalog : n \in Name /\ catalog[n] \in Item
    /\ DOMAIN child \subseteq Seq(Segment) /\ \A p \in DOMAIN child : child[p] \in DOMAIN catalog
    /\ \A m \in masters : ~m.slash /\ m.path \in Seq(Segment \cup {".", ".."})
    /\ \A n \in DOMAIN dereferenced : n \in DOMAIN catalog /\ HasLink(n) /\ ~HasLink(dereferenced[n])
    /\ pc = "resolve" => self \in DOMAIN catalog /\ request \in Request /\ maxlinks \in NoBudget..Limit
    /\ Len(frames) <= Limit     \* through all the calls that wait for each other
    /\ \A k \in DOMAIN frames : HasLink(frames[k].item) /\ frames[k].item \notin DOMAIN dereferenced

Init ==
    /\ anchored \in BOOLEAN /\ archive \in Archives
    /\ pc = "missing" /\ catalog = archive /\ child = [p \in {} |-> Root] /\ masters = {}
    /\ dereferenced = [n \in {} |-> Root]
    /\ self = Root /\ request = Empty /\ maxlinks = NoBudget /\ frames = <<>> /\ answer = Nowhere
    /\ start = Root /\ asked = Empty /\ asks = 0 /\ exhausted = FALSE /\ beyond = FALSE

-----------------------------------------------------------------------------
\* load.

Above(n) == {Folder(SubSeq(n.path, 1, k)) : k \in 0..Len(n.path) - 1}

\* Mutant: the parent is added, but not its parents.
AddMissingParent ==
    /\ pc = "missing" /\ pc' = "children"
    /\ catalog' = [n \in DOMAIN archive \cup {Root} \cup {Dirname(m) : m \in DOMAIN archive} |->
                      IF n \in DOMAIN archive THEN archive[n] ELSE Faux]
    /\ UNCHANGED <<anchored, archive, child, masters, dereferenced, call, answer, history>>

\* Entries for missing directories, and for the root.
AddMissing ==
    /\ pc = "missing" /\ pc' = "children"
    /\ catalog' = [n \in DOMAIN archive \cup {Root} \cup UNION {Above(m) : m \in DOMAIN archive} |->
                      IF n \in DOMAIN archive THEN archive[n] ELSE Faux]
    /\ UNCHANGED <<anchored, archive, child, masters, dereferenced, call, answer, history>>

\* A link and a directory that has files may be listed by the same name: the
\* directory finds the one that comes last in the hash.
RecordChildren ==
    /\ pc = "children" /\ pc' = "hardlinks"
    /\ LET paths == {n.path : n \in DOMAIN catalog \ {Root}}
           twins == {p \in paths : {Plain(p), Folder(p)} \subseteq DOMAIN catalog}
       IN \E folders \in SUBSET twins :
             child' = [p \in paths |->
                 IF p \in folders \/ Plain(p) \notin DOMAIN catalog THEN Folder(p) ELSE Plain(p)]
    /\ masters' = {Plain(catalog[n].link.path) : n \in {m \in DOMAIN catalog : Is(m, "hardlink")}}
    /\ UNCHANGED <<anchored, archive, catalog, dereferenced, call, answer, history>>

\* The group of a hard-linked name was set up before any group is handled.
Group(m) == {m} \cup {n \in DOMAIN archive : "hardlink" \in archive[n].type /\ Plain(archive[n].link.path) = m}

Before(p, q) == Rank[p] < Rank[q]
Preferred(m) == CHOOSE n \in Group(m) : \A o \in Group(m) \ {n} : Before(n.path, o.path)

\* Mutant: the former master is not turned into a link.
PointLinksOnly(m) ==
    LET p == Preferred(m) IN
    [n \in DOMAIN catalog |->
        IF p = m \/ n \notin Group(m) \ {m} THEN catalog[n]
        ELSE IF n = p THEN [type |-> (catalog[n].type \ {"hardlink"}) \cup {"file"},
                            link |-> Empty, size |-> catalog[m].size]
        ELSE [type |-> (catalog[n].type \ {"file"}) \cup {"hardlink"},
              link |-> [rooted |-> FALSE, path |-> p.path], size |-> 0]]

Pointed(m) ==
    LET p == Preferred(m) IN
    [n \in DOMAIN catalog |->
        IF p = m \/ n \notin Group(m) THEN catalog[n]
        ELSE IF n = p THEN [type |-> (catalog[n].type \ {"hardlink"}) \cup {"file"},
                            link |-> Empty, size |-> catalog[m].size]
        ELSE [type |-> (catalog[n].type \ {"file"}) \cup {"hardlink"},
              link |-> [rooted |-> FALSE, path |-> p.path], size |-> 0]]

\* One group, in the order of the hash.
PointHardLinks ==
    /\ pc = "hardlinks"
    /\ \E m \in masters : /\ m \in DOMAIN catalog /\ catalog' = Pointed(m)
                          /\ masters' = masters \ {m}
    /\ UNCHANGED <<anchored, archive, pc, child, dereferenced, call, answer, history>>

\* The sort meets an entry that is not there.
MasterMissing ==
    /\ pc = "hardlinks" /\ masters \ DOMAIN catalog # {} /\ pc' = "died"
    /\ UNCHANGED <<anchored, archive, tree, dereferenced, call, answer, history>>

Loaded ==
    /\ pc = "hardlinks" /\ masters = {} /\ pc' = "loaded"
    /\ UNCHANGED <<anchored, archive, tree, dereferenced, call, answer, history>>

-----------------------------------------------------------------------------
\* resolve_path.

Ask ==
    /\ pc = "loaded" /\ asks < MaxAsks /\ asks' = asks + 1
    /\ start' \in DOMAIN catalog /\ asked' \in Requests
    /\ self' = start' /\ request' = asked' /\ maxlinks' = NoBudget /\ frames' = <<>>
    /\ pc' = "resolve" /\ answer' = Nowhere /\ exhausted' = FALSE
    /\ UNCHANGED <<anchored, archive, tree, dereferenced, beyond>>

\* return undef, through all the calls that wait; none of them stores anything.
Fail ==
    /\ pc' = "loaded" /\ frames' = <<>> /\ answer' = Nowhere
    /\ UNCHANGED <<anchored, archive, tree, dereferenced, self, request, maxlinks, start, asked, asks>>

\* follow: a link that was resolved before.
FollowAgain ==
    /\ pc = "resolve" /\ HasLink(self) /\ self \in DOMAIN dereferenced
    /\ self' = dereferenced[self]
    /\ UNCHANGED <<anchored, archive, pc, tree, dereferenced, request, maxlinks, frames, answer, history>>

Budget == IF maxlinks = NoBudget THEN Limit ELSE maxlinks

TooManyLinks ==
    /\ pc = "resolve" /\ HasLink(self) /\ self \notin DOMAIN dereferenced /\ Budget <= 0
    /\ exhausted' = TRUE /\ UNCHANGED beyond /\ Fail

\* Hard links are resolved from the root, others from their directory.
Reference == IF Is(self, "hardlink") THEN Root ELSE Dirname(self)

Follow ==
    /\ pc = "resolve" /\ HasLink(self) /\ self \notin DOMAIN dereferenced /\ Budget > 0
    /\ frames' = <<[item |-> self, request |-> request, maxlinks |-> maxlinks]>> \o frames
    /\ self' = Reference /\ request' = catalog[self].link /\ maxlinks' = Budget - 1
    /\ beyond' = (beyond \/ Is(self, "hardlink"))
    /\ UNCHANGED <<anchored, archive, pc, tree, dereferenced, answer, start, asked, asks, exhausted>>

\* Where the path begins: a file stands for its directory.
From == IF request.rooted THEN Root ELSE IF Is(self, "dir") THEN self ELSE Dirname(self)
Beyond == beyond \/ (request # Empty /\ ~Is(self, "dir")) \/ request = [rooted |-> TRUE, path |-> <<>>]

\* What a segment leads to from a directory.
Leads(d, segment) ==
    CASE segment = "." -> d
      [] segment = ".." -> IF d = Root THEN Nowhere ELSE Dirname(d)
      [] OTHER -> LET p == d.path \o <<segment>> IN IF p \in DOMAIN child THEN child[p] ELSE Nowhere

Walking == pc = "resolve" /\ ~HasLink(self) /\ (request.rooted => anchored)

NotAnchored ==
    /\ pc = "resolve" /\ ~HasLink(self) /\ request.rooted /\ ~anchored
    /\ UNCHANGED <<exhausted, beyond>> /\ Fail

DeadEnd ==
    /\ Walking /\ request.path # <<>> /\ Leads(From, Head(request.path)) = Nowhere
    /\ beyond' = Beyond /\ UNCHANGED exhausted /\ Fail

Descend ==
    /\ Walking /\ request.path # <<>> /\ Leads(From, Head(request.path)) # Nowhere
    /\ self' = Leads(From, Head(request.path))
    /\ request' = [rooted |-> FALSE, path |-> Tail(request.path)]
    /\ beyond' = Beyond
    /\ UNCHANGED <<anchored, archive, pc, tree, dereferenced, maxlinks, frames, answer,
                   start, asked, asks, exhausted>>

\* Mutant: the caller's path is not taken up again.
ReturnAtOnce ==
    /\ Walking /\ request.path = <<>> /\ beyond' = Beyond
    /\ pc' = "loaded" /\ answer' = self
    /\ dereferenced' = [n \in DOMAIN dereferenced \cup {frames[k].item : k \in DOMAIN frames} |->
                           IF n \in DOMAIN dereferenced THEN dereferenced[n] ELSE self]
    /\ frames' = <<>>
    /\ UNCHANGED <<anchored, archive, tree, self, request, maxlinks, start, asked, asks, exhausted>>

\* Mutant: the link is stored in place of what it leads to.
ReturnLink ==
    /\ Walking /\ request.path = <<>> /\ beyond' = Beyond
    /\ IF frames = <<>>
       THEN pc' = "loaded" /\ answer' = self /\ UNCHANGED <<dereferenced, call>>
       ELSE /\ dereferenced' = [n \in DOMAIN dereferenced \cup {Head(frames).item} |->
                                   IF n = Head(frames).item THEN n ELSE dereferenced[n]]
            /\ request' = Head(frames).request /\ maxlinks' = Head(frames).maxlinks
            /\ frames' = Tail(frames) /\ UNCHANGED <<pc, self, answer>>
    /\ UNCHANGED <<anchored, archive, tree, start, asked, asks, exhausted>>

\* Nothing is left of the path; the caller goes on with what is left of its own.
Return ==
    /\ Walking /\ request.path = <<>> /\ beyond' = Beyond
    /\ IF frames = <<>>
       THEN pc' = "loaded" /\ answer' = self /\ UNCHANGED <<dereferenced, call>>
       ELSE /\ dereferenced' = [n \in DOMAIN dereferenced \cup {Head(frames).item} |->
                                   IF n = Head(frames).item THEN self ELSE dereferenced[n]]
            /\ request' = Head(frames).request /\ maxlinks' = Head(frames).maxlinks
            /\ frames' = Tail(frames) /\ UNCHANGED <<pc, self, answer>>
    /\ UNCHANGED <<anchored, archive, tree, start, asked, asks, exhausted>>

Terminated == (pc = "died" \/ (pc = "loaded" /\ asks = MaxAsks)) /\ UNCHANGED vars

Next ==
    \/ AddMissing \/ RecordChildren \/ PointHardLinks \/ MasterMissing \/ Loaded
    \/ Ask \/ FollowAgain \/ TooManyLinks \/ Follow \/ NotAnchored \/ DeadEnd \/ Descend \/ Return
    \/ Terminated
Spec == Init /\ [][Next]_vars

-----------------------------------------------------------------------------
\* What a path means (Item.pm:1016-1056): the symbolic links in it are replaced
\* by what they say, one after the other; everything else is itself, a hard link
\* too.  "/" in a path leads to the root of an anchored index, and only a
\* directory has anything in it.

SoftLink(n) == HasLink(n) /\ ~Is(n, "hardlink")
Steps(r) == (IF r.rooted THEN <<"/">> ELSE <<>>) \o r.path

Step(c) ==
    IF c.at = Nowhere \/ c.path = <<>> THEN c
    ELSE LET s == Head(c.path)
             n == IF s = "/" THEN IF anchored THEN Root ELSE Nowhere
                  ELSE IF Is(c.at, "dir") THEN Leads(c.at, s) ELSE Nowhere
         IN IF n # Nowhere /\ SoftLink(n)
            THEN [at |-> Dirname(n), path |-> Steps(catalog[n].link) \o Tail(c.path)]
            ELSE [at |-> n, path |-> Tail(c.path)]

\* So many steps are enough in the instances that are checked, but for circles.
Enough == 30
Walked(first) ==
    LET walk[k \in 0..Enough] == IF k = 0 THEN first ELSE Step(walk[k - 1]) IN walk[Enough]
Meaning(n, r) ==
    LET last == Walked(IF SoftLink(n) THEN [at |-> Dirname(n), path |-> Steps(catalog[n].link) \o Steps(r)]
                       ELSE [at |-> n, path |-> Steps(r)])
    IN IF last.path = <<>> THEN last.at ELSE Nowhere

\* The answer is what the path means, whatever was asked before and is stored;
\* and none is given only where there is none, or the budget was spent.  Left out
\* is an index in which a path was followed beyond a file (resolve_path then goes
\* on in the directory of the file), or was the root alone (resolve_path returns
\* the item it was asked of), or a hard link was followed (it should resolve to
\* itself, and follow goes on to its target); what was stored then may be wrong
\* for good.
ResolvesAsMeant ==
    pc = "loaded" /\ asks > 0 /\ ~beyond =>
        IF answer = Nowhere THEN exhausted \/ Meaning(start, asked) = Nowhere
        ELSE answer = Meaning(start, asked)

\* Every item is in a directory that exists and is found there, unless a link
\* and a directory have the same name; then one of the two is found by it.
EveryItemHasItsPlace ==
    pc \notin {"missing", "children"} =>
        \A n \in DOMAIN catalog \ {Root} :
            /\ Dirname(n) \in DOMAIN catalog /\ Is(Dirname(n), "dir")
            /\ \/ child[n.path] = n
               \/ /\ {Plain(n.path), Folder(n.path)} \subseteq DOMAIN catalog
                  /\ child[n.path] \in {Plain(n.path), Folder(n.path)}

\* In whatever order they are handled, names of one file stay names of one file:
\* the first of them is the file, with its size, and the others link to it.  (A
\* link to a link is another matter: the outcome depends on the order.)
StraightIn(a) ==
    \A n \in DOMAIN a : "hardlink" \in a[n].type =>
        LET m == Plain(a[n].link.path) IN m \in DOMAIN a /\ a[m].type = {"file"}
Straight == StraightIn(archive)
HardLinksKept ==
    pc \in {"loaded", "resolve"} /\ Straight =>
        \A m \in {Plain(archive[n].link.path) : n \in {o \in DOMAIN archive : "hardlink" \in archive[o].type}} :
            LET p == Preferred(m) IN
            /\ catalog[p] = archive[m]
            /\ \A n \in Group(m) \ {p} :
                  catalog[n] = [type |-> {"hardlink"}, link |-> [rooted |-> FALSE, path |-> p.path], size |-> 0]
=============================================================================
