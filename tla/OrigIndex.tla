------------------------------ MODULE OrigIndex -------------------------------
(***************************************************************************)
(* lib/Lintian/Processable/Source/Orig.pm: the one index of the upstream   *)
(* sources of a package.  Its tarballs are unpacked one after the other,   *)
(* each into the directory of its component; each gets an index of its own *)
(* (Index, load), loses a directory around all its files, is put below the *)
(* name of its component and merged into the index of the whole.           *)
(*                                                                         *)
(* What the disk holds is followed along with the indices.  A file is told *)
(* by its size, which is different for every file of the tarballs.         *)
(***************************************************************************)
EXTENDS Index

CONSTANTS
    Sources,    \* sequences of tarballs: what each lists, and its component
    Main        \* the component of the main tarball, which has no name

Within(p, q) == Len(p) <= Len(q) /\ SubSeq(q, 1, Len(p)) = p

\* A tarball lists a tree: what is not a directory has nothing in it, and its
\* name is not that of a directory as well.
ASSUME OrigAssumption ==
    /\ Main \notin Segment
    /\ Sources \subseteq Seq([list : Archives, component : Segment \cup {Main}])
    /\ \A s \in Sources : \A k \in DOMAIN s :
          /\ s[k].component = Main => k = 1
          /\ \A n, m \in DOMAIN s[k].list : ~n.slash /\ n # Root /\ m # n => ~Within(n.path, m.path)

VARIABLES
    tarballs, done,     \* the tarballs (input), and how many are merged
    step,               \* what comes next for the one being done
    merged,             \* the catalog of the orig index
    named,              \* its childnames, as child for that of the tarball
    disk,               \* what is on disk, by path
    shared              \* history: what was on disk where a component came: its
                        \* own directory, the one around all its files ("own",
                        \* "around"); a link in place of a directory ("astray");
                        \* something else in place of what tar should make or
                        \* link to ("blocked")

orig == <<tarballs, done, step, merged, named, disk, shared>>
idle == <<anchored, dereferenced, call, answer, history>>

\* What childnames may hold besides a name.
Undefined == [path |-> <<>>, slash |-> TRUE, is |-> "undef"]
Object == [path |-> <<>>, slash |-> TRUE, is |-> "item"]

Component == tarballs[done + 1].component
Basedir == IF Component = Main THEN <<>> ELSE <<Component>>

OrigInit ==
    /\ anchored = FALSE /\ archive = [n \in {} |-> Faux]
    /\ pc = "loaded" /\ catalog = archive /\ child = [p \in {} |-> Root] /\ masters = {}
    /\ dereferenced = [n \in {} |-> Root]
    /\ self = Root /\ request = Empty /\ maxlinks = NoBudget /\ frames = <<>> /\ answer = Nowhere
    /\ start = Root /\ asked = Empty /\ asks = 0 /\ exhausted = FALSE /\ beyond = FALSE
    /\ tarballs \in Sources /\ done = 0 /\ step = "unpack"
    /\ merged = [n \in {Root} |-> Faux] /\ named = [p \in {} |-> Root]
    /\ disk = [p \in {} |-> Faux] /\ shared = {}

-----------------------------------------------------------------------------
\* Unpacking and loading.

Parents(p) == {SubSeq(p, 1, k) : k \in 1..Len(p) - 1}

\* The directories that a tarball takes to be there.  A file or a link that it does
\* not replace by listing the directory stands in the way of what comes below.
Implied(list, to) == (UNION {Parents(to \o n.path) : n \in DOMAIN list}) \cup ({to} \ {<<>>})
InTheWay(list, to) ==
    {p \in Implied(list, to) \cap DOMAIN disk :
        disk[p].type # {"dir"} /\ \A n \in DOMAIN list : n.slash => to \o n.path # p}
Cut(list, to) == {n \in DOMAIN list : \E p \in InTheWay(list, to) : Within(p, to \o n.path)}

\* Directories with something in them; and hard links to what tar did not make.
Occupied == {p \in DOMAIN disk : \E q \in DOMAIN disk \ {p} : Within(p, q)}
Broken(list, to) ==
    {n \in DOMAIN list : "hardlink" \in list[n].type /\
        LET m == Plain(list[n].link.path) IN m \notin DOMAIN list \ Cut(list, to) \/ to \o m.path \in Occupied}

\* What tar leaves behind: the directories that are listed are created where
\* something else is, and files replace files and empty directories, but no others.
Content(list, n) ==
    IF "hardlink" \in list[n].type THEN list[Plain(list[n].link.path)] ELSE list[n]
MadeFolders(list, to) ==
    {to \o n.path : n \in {m \in DOMAIN list \ Cut(list, to) : m.slash}}
    \cup {p \in Implied(list, to) : \A q \in InTheWay(list, to) : ~Within(q, p)}
MadeFiles(list, to) ==
    {n \in DOMAIN list \ (Cut(list, to) \cup Broken(list, to)) :
        ~n.slash /\ n # Root /\ to \o n.path \notin Occupied}
Extracted(list, to) ==
    LET at(n) == to \o n.path
        folders == MadeFolders(list, to)
        files == MadeFiles(list, to)
    IN  [p \in DOMAIN disk \cup folders \cup {at(n) : n \in files} |->
            IF p \in folders THEN Faux
            ELSE IF \E n \in files : at(n) = p
                 THEN LET n == CHOOSE n \in files : at(n) = p IN Content(list, n)
                 ELSE disk[p]]

\* Through a link tar goes on elsewhere.  What it leaves there is not followed:
\* from then on disk is not all there is, and what depends on it may go either way.
Astray == "astray" \in shared
Stands(p) == p = <<>> \/ (p \in DOMAIN disk /\ disk[p].type = {"dir"})
LinkAt(p) == p \in DOMAIN disk /\ "symlink" \in disk[p].type

Unpack ==
    /\ step = "unpack" /\ done < Len(tarballs) /\ step' = "load"
    /\ LET list == tarballs[done + 1].list
       IN /\ archive' = list /\ catalog' = list /\ disk' = Extracted(list, Basedir)
          /\ shared' = shared \cup
                {d \in {"own", "around"} : Component # Main /\ Basedir \in DOMAIN disk
                   /\ (d = "around" => \E s \in Segment : /\ {n.path[1] : n \in DOMAIN list \ {Root}} = {s}
                                                         /\ Basedir \o <<s>> \in DOMAIN disk)}
                \cup {IF LinkAt(p) THEN "astray" ELSE "blocked" : p \in InTheWay(list, Basedir)}
                \cup {"blocked" : n \in Broken(list, Basedir)}
    /\ pc' = "missing" /\ child' = [p \in {} |-> Root] /\ masters' = {}
    /\ UNCHANGED <<idle, tarballs, done, merged, named>>

Dies ==
    /\ step' = "died"
    /\ UNCHANGED <<vars, tarballs, done, merged, named, disk, shared>>

\* A link of the component's name leads nowhere: the directory cannot be made.
UnpackDies == step = "unpack" /\ done < Len(tarballs) /\ Component # Main /\ (Astray \/ LinkAt(Basedir)) /\ Dies

Load ==
    /\ step = "load"
    /\ AddMissing \/ RecordChildren \/ PointHardLinks \/ (Loaded /\ (Astray \/ Stands(Basedir)))
    /\ step' = IF pc' = "loaded" THEN "links" ELSE "load"
    /\ UNCHANGED <<tarballs, done, merged, named, disk, shared>>

\* A hard link to nothing ends the whole, and so does a component whose directory
\* is none: the checksums are computed in it.
LoadDies ==
    /\ step = "load" /\ step' = "died"
    /\ MasterMissing \/ (Loaded /\ (Astray \/ ~Stands(Basedir)))
    /\ UNCHANGED <<tarballs, done, merged, named, disk, shared>>

\* "treat hard links like regular files", in the order of their names.
HardLinks == {n \in DOMAIN catalog : Is(n, "hardlink")}
Turned(n) ==
    [type |-> (catalog[n].type \ {"hardlink"}) \cup {"file"}, link |-> Empty,
     size |-> catalog[Plain(catalog[n].link.path)].size]

TreatHardLink ==
    /\ step = "links"
    /\ \E n \in HardLinks : /\ \A o \in HardLinks \ {n} : Before(n.path, o.path)
                            /\ catalog' = [catalog EXCEPT ![n] = Turned(n)]
    /\ UNCHANGED <<idle, archive, pc, child, masters, orig>>

\* What the first of them links to is a link that does not resolve.
LinksDie ==
    /\ step = "links"
    /\ \E n \in HardLinks : /\ \A o \in HardLinks \ {n} : Before(n.path, o.path)
                            /\ HasLink(Plain(catalog[n].link.path))
    /\ Dies

LinksTreated ==
    /\ step = "links" /\ HardLinks = {} /\ step' = "prefix"
    /\ UNCHANGED <<vars, tarballs, done, merged, named, disk, shared>>

-----------------------------------------------------------------------------
\* drop_common_prefix: the directory around all the files, if there is one.

Tops == {n.path[1] : n \in DOMAIN catalog \ {Root}}
Around == {s \in Tops : Tops = {s} /\ Plain(<<s>>) \notin DOMAIN catalog}

KeepPrefix ==
    /\ step = "prefix" /\ Around = {} /\ step' = "capture"
    /\ UNCHANGED <<idle, archive, pc, tree, tarballs, done, merged, named, disk, shared>>

Raised(n) == IF Len(n.path) = 1 THEN Root ELSE [path |-> Tail(n.path), slash |-> n.slash]
Below(s, n) == IF n = Root THEN Folder(<<s>>) ELSE [path |-> <<s>> \o n.path, slash |-> n.slash]
Linked(item, link) == [type |-> item.type, link |-> link, size |-> item.size]

\* drop_basedir_segment: the files go up a level; what is there by the name of
\* one of them is removed first, with all that is in it.
MovedUp(from, s) ==
    LET old == from \o <<s>>
        moved == {p \in DOMAIN disk : Within(old, p) /\ p # old}
        up(p) == from \o SubSeq(p, Len(old) + 1, Len(p))
        removed == {p \in DOMAIN disk : \E q \in moved : Len(q) = Len(old) + 1 /\ Within(up(q), p)}
        left == {p \in DOMAIN disk : ~Within(old, p)} \ removed
    IN  [p \in left \cup {up(q) : q \in moved} |->
            IF p \in left THEN disk[p] ELSE disk[old \o SubSeq(p, Len(from) + 1, Len(p))]]

\* Links that begin with the prefix lose it, those of symbolic links too.
DropPrefix ==
    /\ step = "prefix" /\ step' = "capture"
    /\ \E s \in Around :
          /\ Astray \/ Stands(Basedir \o <<s>>)
          /\ catalog' = [n \in {Raised(m) : m \in DOMAIN catalog \ {Root}} |->
                LET item == catalog[Below(s, n)] IN
                IF ~item.link.rooted /\ Len(item.link.path) > 1 /\ item.link.path[1] = s
                THEN Linked(item, [rooted |-> FALSE, path |-> Tail(item.link.path)]) ELSE item]
          /\ child' = [p \in {Tail(q) : q \in {q \in DOMAIN child : Len(q) > 1}} |->
                Raised(child[<<s>> \o p])]
          /\ disk' = MovedUp(Basedir, s)
    /\ UNCHANGED <<idle, archive, pc, masters, tarballs, done, merged, named, shared>>

\* The directory around the files is none; or one of those in it cannot take the
\* place of a link that leads nowhere.
DropDies ==
    /\ step = "prefix"
    /\ \E s \in Around :
          \/ Astray \/ ~Stands(Basedir \o <<s>>)
          \/ \E t \in Segment : Stands(Basedir \o <<s, t>>) /\ LinkAt(Basedir \o <<t>>)
    /\ Dies

-----------------------------------------------------------------------------
\* capture_common_prefix: all names, and all links, go below the component.

Captured(n) == Below(Component, n)

\* Mutant: the names of the children are left as they are.
CaptureNames ==
    /\ step = "capture" /\ step' = "merge"
    /\ IF Component = Main THEN UNCHANGED <<catalog, child>>
       ELSE /\ catalog' = [n \in {Root} \cup {Captured(m) : m \in DOMAIN catalog} |->
                 IF n = Root THEN Faux
                 ELSE LET item == catalog[Raised(n)] IN
                      IF item.link = Empty THEN item
                      ELSE Linked(item, [rooted |-> FALSE, path |-> Basedir \o item.link.path])]
            /\ child' = [p \in {Basedir} \cup {Basedir \o q : q \in DOMAIN child} |->
                 IF p = Basedir THEN Folder(p) ELSE child[Tail(p)]]
    /\ UNCHANGED <<idle, archive, pc, masters, tarballs, done, merged, named, disk, shared>>

CapturePrefix ==
    /\ step = "capture" /\ step' = "merge"
    /\ IF Component = Main THEN UNCHANGED <<catalog, child>>
       ELSE /\ catalog' = [n \in {Root} \cup {Captured(m) : m \in DOMAIN catalog} |->
                 IF n = Root THEN Faux
                 ELSE LET item == catalog[Raised(n)] IN
                      IF item.link = Empty THEN item
                      ELSE Linked(item, [rooted |-> FALSE, path |-> Basedir \o item.link.path])]
            /\ child' = [p \in {Basedir} \cup {Basedir \o q : q \in DOMAIN child} |->
                 IF p = Basedir THEN Folder(p) ELSE Captured(child[Tail(p)])]
    /\ UNCHANGED <<idle, archive, pc, masters, tarballs, done, merged, named, disk, shared>>

\* Mutant: what is there already stays.
MergedFirst ==
    [n \in (DOMAIN merged \ {Plain(m.path) : m \in {m \in DOMAIN catalog \ {Root} : m.slash}})
              \cup (DOMAIN catalog \ {Root}) |->
        IF n \in DOMAIN merged THEN merged[n] ELSE catalog[n]]

\* Names that are there already are replaced, and a file makes room for a
\* directory of its name; a directory stays when a file of its name comes.
Merged ==
    [n \in (DOMAIN merged \ {Plain(m.path) : m \in {m \in DOMAIN catalog \ {Root} : m.slash}})
              \cup (DOMAIN catalog \ {Root}) |->
        IF n \in DOMAIN catalog \ {Root} THEN catalog[n] ELSE merged[n]]

\* Every directory comes with its childnames.  For those of the root the item
\* of that name is looked up: a directory is not found, as its name has a slash,
\* and of a file the item itself is stored, not its name.
MergeIn ==
    /\ step = "merge" /\ step' = "unpack" /\ done' = done + 1
    /\ merged' = Merged
    /\ LET replaced == {n.path : n \in {n \in DOMAIN catalog \ {Root} : n.slash}}
           stay == {p \in DOMAIN named : Front(p) \notin replaced}
       IN  named' = [p \in stay \cup DOMAIN child |->
              IF p \notin DOMAIN child THEN named[p]
              ELSE IF Len(p) > 1 THEN child[p]
              ELSE IF Plain(p) \in DOMAIN Merged THEN Object ELSE Undefined]
    /\ catalog' = [n \in {} |-> Faux] /\ child' = [p \in {} |-> Root]
    /\ UNCHANGED <<idle, archive, pc, masters, tarballs, disk, shared>>

Built == step = "unpack" /\ done = Len(tarballs)
OrigTerminated == (Built \/ step = "died") /\ UNCHANGED <<vars, orig>>

OrigNext ==
    \/ Unpack \/ UnpackDies \/ Load \/ LoadDies \/ TreatHardLink \/ LinksDie \/ LinksTreated
    \/ KeepPrefix \/ DropPrefix \/ DropDies \/ CapturePrefix \/ MergeIn \/ OrigTerminated
OrigSpec == OrigInit /\ [][OrigNext]_<<vars, orig>>

-----------------------------------------------------------------------------
\* Whatever the tarballs list, if their hard links lead to files, what is on disk
\* in the end is in the catalog by the name it has there, and as what it is; and
\* nothing else is, unless the directory of a component was there before it came.
\* (Left out are components that found the directory around their files on disk,
\* for what that held goes up a level too; and those whose files tar could not
\* make, or made behind a link, for they are listed where they are not.)
CatalogIsTheDisk ==
    Built /\ {"around", "blocked", "astray"} \cap shared = {} =>
        /\ (\A k \in DOMAIN tarballs : StraightIn(tarballs[k].list)) => \A p \in DOMAIN disk :
              LET n == IF disk[p].type = {"dir"} THEN Folder(p) ELSE Plain(p)
              IN  n \in DOMAIN merged /\ merged[n].type = disk[p].type /\ merged[n].size = disk[p].size
        /\ shared = {} => {n.path : n \in DOMAIN merged \ {Root}} \subseteq DOMAIN disk

\* Below the top every item is found by its directory, under the name it has in
\* the whole, through all the renaming.  (At the top, Item::child finds none: see
\* MergeIn.)
ItemsAreFoundBelow ==
    Built /\ shared = {} =>
        \A n \in DOMAIN merged : Len(n.path) > 1 =>
            Dirname(n) \in DOMAIN merged /\ n.path \in DOMAIN named /\ named[n.path] = n
=============================================================================
