----------------------------- MODULE IndexProofs ------------------------------
(*****************************************************************************)
(* Proofs about Index, for all archives, paths, budgets and requests; and    *)
(* about OrigIndex, for all tarballs, components and numbers of them.        *)
(*****************************************************************************)
EXTENDS OrigIndex, SequenceTheorems, WellFoundedInduction, TLAPS

-----------------------------------------------------------------------------
\* The order of the names.

LEMMA Smallest == ASSUME NEW S \in SUBSET Nat, S # {} PROVE \E x \in S : \A y \in S : x <= y
  <1>1. PICK x \in S : \A y \in S : ~ (<<y, x>> \in OpToRel(<, Nat))
    BY NatLessThanWellFounded, WFMin
  <1>2. \A y \in S : ~ (y < x)
    BY <1>1 DEF OpToRel
  <1>3. QED BY <1>2

LEMMA Ranks ==
    \A p, q \in Files : /\ Rank[p] \in Nat /\ Rank[q] \in Nat
                        /\ Rank[p] = Rank[q] => p = q
  BY IndexAssumption

\* A group of names whose paths differ has a first one.
LEMMA FirstOfGroup ==
    ASSUME NEW G, G # {}, \A n \in G : n.path \in Files, \A n, o \in G : n.path = o.path => n = o
    PROVE  \E n \in G : \A o \in G \ {n} : Before(n.path, o.path)
  <1> DEFINE places == {Rank[n.path] : n \in G}
  <1>1. places \in SUBSET Nat /\ places # {}
    BY Ranks
  <1>2. PICK x \in places : \A y \in places : x <= y
    <2> HIDE DEF places
    <2>1. QED BY <1>1, Smallest
  <1>3. PICK n \in G : x = Rank[n.path]
    BY <1>2
  <1>4. ASSUME NEW o \in G \ {n} PROVE Rank[n.path] < Rank[o.path]
    <2>1. Rank[n.path] <= Rank[o.path]
      BY <1>2, <1>3
    <2>2. n.path # o.path
      BY <1>4
    <2>3. Rank[n.path] \in Nat /\ Rank[o.path] \in Nat /\ Rank[n.path] # Rank[o.path]
      BY <2>2, Ranks
    <2>4. QED BY <2>1, <2>3
  <1>5. QED BY <1>4 DEF Before

-----------------------------------------------------------------------------
\* Names.

Proper == Name \ {Nowhere}

LEMMA Names ==
    ASSUME NEW n \in Proper
    PROVE  /\ n.path \in Seq(Segment) /\ n.slash \in BOOLEAN
           /\ ~n.slash => n = Plain(n.path)
           /\ n # Root => /\ n.path # <<>>
                          /\ n.slash => n = Folder(n.path)
  BY DEF Proper, Name, Nowhere, Root, Plain, Folder

LEMMA Folders ==
    ASSUME NEW p \in Seq(Segment)
    PROVE  /\ Folder(p) \in Proper /\ Folder(p).path = p /\ (Folder(p) = Root \/ Folder(p).slash)
           /\ Folder(p) = Root => p = <<>>
  BY DEF Proper, Name, Nowhere, Root, Folder

LEMMA RootProper == Root \in Proper
  BY DEF Proper, Name, Nowhere, Root

LEMMA Empties == \A p \in Seq(Segment) : Len(p) \in Nat /\ (p = <<>> <=> Len(p) = 0)
  BY EmptySeq, LenProperties

LEMMA Fronts ==
    ASSUME NEW p \in Seq(Segment), NEW k \in Nat, k < Len(p)
    PROVE  /\ SubSeq(p, 1, k) \in Seq(Segment) /\ Len(SubSeq(p, 1, k)) = k
           /\ k > 0 => Front(SubSeq(p, 1, k)) = SubSeq(p, 1, k - 1)
  <1>1. Len(p) \in Nat /\ DOMAIN p = 1..Len(p)
    BY LenProperties
  <1>2. SubSeq(p, 1, k) \in Seq(Segment) /\ Len(SubSeq(p, 1, k)) = k
    <2>1. CASE k = 0
      <3>1. SubSeq(p, 1, k) = <<>>
        BY <2>1, SubSeqEmpty
      <3>2. QED BY <2>1, <3>1
    <2>2. CASE k > 0
      BY <1>1, <2>2, SubSeqProperties
    <2>3. QED BY <2>1, <2>2
  <1>3. ASSUME k > 0 PROVE Front(SubSeq(p, 1, k)) = SubSeq(p, 1, k - 1)
    <2>1. Front(SubSeq(p, 1, k)) = SubSeq(SubSeq(p, 1, k), 1, k - 1)
      BY <1>2 DEF Front
    <2>2. QED BY <1>1, <1>3, <2>1, SMT
  <1>4. QED BY <1>2, <1>3

\* The directories above a name have theirs among them.
LEMMA AboveClosed ==
    ASSUME NEW n \in Proper
    PROVE  /\ n # Root => Dirname(n) \in Above(n)
           /\ \A d \in Above(n) : /\ d \in Proper /\ (d = Root \/ d.slash)
                                  /\ d # Root => Dirname(d) \in Above(n)
  <1>1. n.path \in Seq(Segment) /\ Len(n.path) \in Nat
    BY Names, LenProperties
  <1>2. n # Root => Dirname(n) \in Above(n)
    <2> SUFFICES ASSUME n # Root PROVE Dirname(n) \in Above(n)
      OBVIOUS
    <2>1. Len(n.path) # 0
      BY <1>1, Names, Empties
    <2>2. Len(n.path) - 1 \in 0..Len(n.path) - 1
      BY <1>1, <2>1
    <2>3. QED BY <2>2 DEF Dirname, Above, Front
  <1>3. ASSUME NEW d \in Above(n)
        PROVE  /\ d \in Proper /\ (d = Root \/ d.slash)
               /\ d # Root => Dirname(d) \in Above(n)
    <2>1. PICK k \in 0..Len(n.path) - 1 : d = Folder(SubSeq(n.path, 1, k))
      BY DEF Above
    <2> DEFINE p == SubSeq(n.path, 1, k)
    <2>2. /\ k \in Nat /\ k < Len(n.path) /\ p \in Seq(Segment) /\ Len(p) = k
          /\ k > 0 => Front(p) = SubSeq(n.path, 1, k - 1)
      BY <1>1, <2>1, Fronts
    <2>3. d \in Proper /\ (d = Root \/ d.slash) /\ d.path = p
      BY <2>1, <2>2, Folders
    <2>4. ASSUME d # Root PROVE Dirname(d) \in Above(n)
      <3>1. k > 0
        <4>1. k = 0 => p = <<>>
          BY <2>2, Empties
        <4>2. p # <<>>
          BY <2>1, <2>4 DEF Folder
        <4>3. QED BY <2>2, <4>1, <4>2
      <3>2. k - 1 \in 0..Len(n.path) - 1
        BY <1>1, <2>2, <3>1
      <3>3. Dirname(d) = Folder(SubSeq(n.path, 1, k - 1))
        BY <2>2, <2>3, <3>1 DEF Dirname
      <3>4. QED BY <3>2, <3>3 DEF Above
    <2>5. QED BY <2>3, <2>4
  <1>4. QED BY <1>2, <1>3

-----------------------------------------------------------------------------
\* Archives, and the groups of names of one file.

LEMMA Listing ==
    ASSUME NEW a \in Archives
    PROVE  \A n \in DOMAIN a :
              /\ n \in Proper /\ a[n] \in Item
              /\ n = Root \/ n.slash <=> a[n].type = {"dir"}
              /\ "hardlink" \in a[n].type => /\ a[n].type = {"hardlink"} /\ a[n].size = 0
                                             /\ ~a[n].link.rooted /\ a[n].link.path # <<>>
              /\ a[n].type \in {{"file"}, {"dir"}} => a[n].link = Empty
  <1>1. \A n \in DOMAIN a : n \in Proper /\ a[n] \in Entry /\ (n = Root \/ n.slash <=> a[n].type = {"dir"})
    BY IndexAssumption DEF Proper
  <1>2. ASSUME NEW i \in Entry
        PROVE  /\ i \in Item
               /\ "hardlink" \in i.type => /\ i.type = {"hardlink"} /\ i.size = 0
                                            /\ ~i.link.rooted /\ i.link.path # <<>>
               /\ i.type \in {{"file"}, {"dir"}} => i.link = Empty
    <2>1. /\ i.type \in {{}, {"dir"}, {"file"}, {"hardlink"}, {"symlink"}}
          /\ i.link # Empty => i.type \in {{"hardlink"}, {"symlink"}}
          /\ i.link.rooted => i.type = {"symlink"}
          /\ i.type = {"hardlink"} => i.link # Empty
          /\ i.size # 0 => i.type = {"file"}
          /\ i \in Item
      BY <1>2 DEF Entry
    <2>2. "hardlink" \in i.type => i.type = {"hardlink"}
      BY <2>1
    <2>3. /\ {"hardlink"} # {"symlink"} /\ {"hardlink"} # {"file"} /\ {"file"} # {"symlink"}
          /\ {"dir"} # {"symlink"} /\ {"dir"} # {"hardlink"}
      OBVIOUS
    <2>4. ~i.link.rooted /\ i.link.path = <<>> => i.link = Empty
      BY <2>1 DEF Item, Request, Empty
    <2>5. QED BY <2>1, <2>2, <2>3, <2>4
  <1>3. QED BY <1>1, <1>2

\* A hard link has a name like a file's, and so have all of its group.
LEMMA Groups ==
    ASSUME archive \in Archives, NEW m \in DOMAIN archive, m # Root, ~m.slash
    PROVE  /\ m \in Group(m)
           /\ \A n \in Group(m) : n \in DOMAIN archive /\ n \in Proper /\ ~n.slash /\ n # Root
  <1>1. \A n \in DOMAIN archive : n \in Proper /\ ("hardlink" \in archive[n].type => ~n.slash /\ n # Root)
    <2>1. {"hardlink"} # {"dir"}
      OBVIOUS
    <2>2. QED BY <2>1, Listing DEF Proper, Name
  <1>2. QED BY <1>1 DEF Group

LEMMA PreferredIsFirst ==
    ASSUME archive \in Archives, NEW m \in DOMAIN archive, m # Root, ~m.slash
    PROVE  Preferred(m) \in Group(m) /\ Preferred(m) \in Proper
  <1>1. /\ Group(m) # {}
        /\ \A n \in Group(m) : n \in DOMAIN archive /\ n \in Proper /\ ~n.slash /\ n = Plain(n.path)
    BY Groups, Names
  <1>2. \A n \in Group(m) : n.path \in Files
    BY <1>1 DEF Files
  <1>3. \A n, o \in Group(m) : n.path = o.path => n = o
    BY <1>1
  <1>4. \E n \in Group(m) : \A o \in Group(m) \ {n} : Before(n.path, o.path)
    BY <1>1, <1>2, <1>3, FirstOfGroup
  <1>5. Preferred(m) \in Group(m)
    BY <1>4 DEF Preferred
  <1>6. QED BY <1>1, <1>5

-----------------------------------------------------------------------------
\* Loading.

CatalogInv ==
    /\ archive \in Archives
    /\ pc \in {"missing", "children", "hardlinks", "loaded", "resolve", "died"}
    /\ DOMAIN archive \subseteq DOMAIN catalog
    /\ \A n \in DOMAIN catalog : /\ n \in Proper /\ catalog[n] \in Item
                                 /\ n = Root \/ n.slash => Is(n, "dir") /\ ~HasLink(n)
                                 /\ n = Root \/ n.slash \/ n \in DOMAIN archive
    /\ pc # "missing" => /\ Root \in DOMAIN catalog
                         /\ \A n \in DOMAIN catalog \ {Root} : Dirname(n) \in DOMAIN catalog

ChildInv ==
    /\ \A p \in DOMAIN child : p \in Seq(Segment) /\ child[p] \in DOMAIN catalog
    /\ pc = "missing" => DOMAIN child = {}
    /\ pc \notin {"missing", "children"} =>
          \A n \in DOMAIN catalog \ {Root} :
             /\ n.path \in DOMAIN child
             /\ \/ child[n.path] = n
                \/ /\ {Plain(n.path), Folder(n.path)} \subseteq DOMAIN catalog
                   /\ child[n.path] \in {Plain(n.path), Folder(n.path)}

\* The names that hard links lead to, and what becomes of a group.
Origins == {Plain(archive[n].link.path) : n \in {o \in DOMAIN archive : "hardlink" \in archive[o].type}}
Untouched(m) == \A n \in Group(m) : catalog[n] = archive[n]
Kept(m) ==
    /\ catalog[Preferred(m)] = archive[m]
    /\ \A n \in Group(m) \ {Preferred(m)} :
          catalog[n] = [type |-> {"hardlink"}, size |-> 0,
                        link |-> [rooted |-> FALSE, path |-> Preferred(m).path]]

MastersInv ==
    /\ \A m \in masters : m \in Origins /\ ~m.slash /\ m.path \in Seq(Segment \cup {".", ".."})
    /\ pc \notin {"hardlinks", "died"} => masters = {}
    /\ pc \in {"missing", "children"} =>
          \A n \in DOMAIN catalog : catalog[n] = IF n \in DOMAIN archive THEN archive[n] ELSE Faux
    /\ pc \in {"hardlinks", "loaded", "resolve"} /\ Straight =>
          \A m \in Origins : IF m \in masters THEN Untouched(m) ELSE Kept(m)

TreeInv == CatalogInv /\ ChildInv /\ MastersInv

LEMMA InitTree == Init => TreeInv
  <1> SUFFICES ASSUME Init PROVE TreeInv
    OBVIOUS
  <1>1. /\ archive \in Archives /\ pc = "missing" /\ catalog = archive
        /\ child = [p \in {} |-> Root] /\ masters = {}
    BY DEF Init
  <1>2. ASSUME NEW n \in DOMAIN archive
        PROVE  /\ n \in Proper /\ archive[n] \in Item
               /\ n = Root \/ n.slash => "dir" \in archive[n].type /\ archive[n].link = Empty
    BY <1>1, Listing
  <1>3. CatalogInv
    BY <1>1, <1>2 DEF CatalogInv, Is, HasLink
  <1>4. ChildInv
    BY <1>1 DEF ChildInv
  <1>5. MastersInv
    BY <1>1 DEF MastersInv
  <1>6. QED BY <1>3, <1>4, <1>5 DEF TreeInv

LEMMA AddMissingTree == ASSUME TreeInv, AddMissing PROVE TreeInv'
  <1> DEFINE above == UNION {Above(m) : m \in DOMAIN archive}
             names == DOMAIN archive \cup {Root} \cup above
  <1>1. /\ pc = "missing" /\ pc' = "children" /\ UNCHANGED <<archive, child, masters>>
        /\ catalog' = [n \in names |-> IF n \in DOMAIN archive THEN archive[n] ELSE Faux]
        /\ archive \in Archives /\ masters = {}
    BY DEF AddMissing, TreeInv, CatalogInv, MastersInv
  <1>2. \A n \in DOMAIN archive :
           /\ n \in Proper /\ archive[n] \in Item
           /\ n = Root \/ n.slash => "dir" \in archive[n].type /\ archive[n].link = Empty
    BY <1>1, Listing
  <1>3. \A d \in above : /\ d \in Proper /\ (d = Root \/ d.slash)
                         /\ d # Root => Dirname(d) \in above
    BY <1>2, AboveClosed
  <1>4. \A n \in DOMAIN archive \ {Root} : Dirname(n) \in above
    BY <1>2, AboveClosed
  <1>5. Faux \in Item /\ "dir" \in Faux.type /\ Faux.link = Empty
    <2>1. Empty \in Request
      BY EmptySeq DEF Empty, Request
    <2>2. QED BY <2>1 DEF Faux, Item
  <1> HIDE DEF above
  <1>6. DOMAIN catalog' = names
    BY <1>1
  <1>7. \A n \in names : /\ n \in Proper /\ catalog'[n] \in Item
                         /\ n = Root \/ n.slash => "dir" \in catalog'[n].type /\ catalog'[n].link = Empty
                         /\ n = Root \/ n.slash \/ n \in DOMAIN archive
    BY <1>1, <1>2, <1>3, <1>5, RootProper
  <1>8. \A n \in names \ {Root} : Dirname(n) \in names
    BY <1>3, <1>4
  <1>9. CatalogInv'
    BY <1>1, <1>6, <1>7, <1>8 DEF CatalogInv, Is, HasLink
  <1>10. ChildInv'
    <2>1. DOMAIN child = {}
      BY <1>1 DEF TreeInv, ChildInv
    <2>2. QED BY <1>1, <2>1 DEF ChildInv
  <1>11. MastersInv'
    BY <1>1, <1>6 DEF MastersInv
  <1>12. QED BY <1>9, <1>10, <1>11 DEF TreeInv

LEMMA RecordChildrenTree == ASSUME TreeInv, RecordChildren PROVE TreeInv'
  <1> DEFINE paths == {n.path : n \in DOMAIN catalog \ {Root}}
  <1>1. /\ pc = "children" /\ pc' = "hardlinks" /\ UNCHANGED <<archive, catalog>>
        /\ masters' = {Plain(catalog[n].link.path) :
                          n \in {m \in DOMAIN catalog : "hardlink" \in catalog[m].type}}
        /\ archive \in Archives /\ DOMAIN archive \subseteq DOMAIN catalog
    BY DEF RecordChildren, TreeInv, CatalogInv, Is
  <1>2. PICK folders \in SUBSET {p \in paths : {Plain(p), Folder(p)} \subseteq DOMAIN catalog} :
           child' = [p \in paths |->
                       IF p \in folders \/ Plain(p) \notin DOMAIN catalog THEN Folder(p) ELSE Plain(p)]
    BY DEF RecordChildren
  <1>3. CatalogInv'
    BY <1>1 DEF TreeInv, CatalogInv, Is, HasLink
  <1>4. \A n \in DOMAIN catalog \ {Root} :
           /\ n.path \in Seq(Segment)
           /\ n = Plain(n.path) \/ n = Folder(n.path)
    BY Names DEF TreeInv, CatalogInv, Proper, Name
  <1>5. ChildInv'
    <2>1. ASSUME NEW p \in paths
          PROVE  /\ p \in Seq(Segment) /\ child'[p] \in DOMAIN catalog
                 /\ Plain(p) \in DOMAIN catalog \/ child'[p] = Folder(p)
                 /\ Folder(p) \in DOMAIN catalog \/ child'[p] = Plain(p)
                 /\ child'[p] \in {Plain(p), Folder(p)}
      <3>1. PICK n \in DOMAIN catalog \ {Root} : p = n.path
        OBVIOUS
      <3>2. Plain(p) \in DOMAIN catalog \/ Folder(p) \in DOMAIN catalog
        BY <1>4, <3>1
      <3>3. child'[p] = IF p \in folders \/ Plain(p) \notin DOMAIN catalog THEN Folder(p) ELSE Plain(p)
        BY <1>2
      <3>4. p \in folders => Plain(p) \in DOMAIN catalog /\ Folder(p) \in DOMAIN catalog
        BY <1>2
      <3>5. QED BY <1>4, <3>1, <3>2, <3>3, <3>4
    <2>2. ASSUME NEW n \in DOMAIN catalog \ {Root}
          PROVE  \/ child'[n.path] = n
                 \/ /\ {Plain(n.path), Folder(n.path)} \subseteq DOMAIN catalog
                    /\ child'[n.path] \in {Plain(n.path), Folder(n.path)}
      BY <1>4, <2>1
    <2>3. DOMAIN child' = paths
      BY <1>2
    <2>4. QED BY <1>1, <2>1, <2>2, <2>3 DEF ChildInv
  <1>6. \A n \in DOMAIN catalog : catalog[n] = IF n \in DOMAIN archive THEN archive[n] ELSE Faux
    BY <1>1 DEF TreeInv, MastersInv
  <1>7. "hardlink" \notin Faux.type
    BY DEF Faux
  <1>8. masters' = Origins
    BY <1>1, <1>6, <1>7 DEF Origins
  <1>9. ASSUME NEW m \in Origins PROVE ~m.slash /\ m.path \in Seq(Segment \cup {".", ".."})
    <2>1. PICK n \in DOMAIN archive : m = Plain(archive[n].link.path)
      BY DEF Origins
    <2>2. archive[n].link.path \in Seq(Segment \cup {".", ".."})
      BY <1>1, Listing DEF Item, Request
    <2>3. QED BY <2>1, <2>2 DEF Plain
  <1>10. ASSUME Straight, NEW m \in Origins, NEW n \in Group(m) PROVE catalog[n] = archive[n]
    <2>1. m \in DOMAIN archive
      BY <1>10 DEF Straight, StraightIn, Origins
    <2>2. n \in DOMAIN archive
      BY <2>1 DEF Group
    <2>3. QED BY <1>1, <1>6, <2>2
  <1>11. MastersInv'
    <2>1. Origins' = Origins /\ Straight' = Straight /\ \A m : Group(m)' = Group(m)
      BY <1>1 DEF Origins, Straight, StraightIn, Group
    <2>2. \A m \in Origins : Straight => Untouched(m)'
      BY <1>1, <1>10, <2>1 DEF Untouched
    <2>3. QED BY <1>1, <1>8, <1>9, <2>1, <2>2 DEF MastersInv
  <1>12. QED BY <1>3, <1>5, <1>11 DEF TreeInv

\* Names whose files are told apart are in one group each.
LEMMA GroupsApart ==
    ASSUME archive \in Archives, Straight, NEW m \in Origins
    PROVE  /\ m \in DOMAIN archive /\ m \in Proper /\ ~m.slash /\ m # Root
           /\ archive[m] \in Item /\ archive[m].type = {"file"} /\ archive[m].link = Empty
           /\ \A n \in Group(m) \ {m} :
                 /\ n \in DOMAIN archive /\ n \notin Origins
                 /\ archive[n] = [type |-> {"hardlink"}, size |-> 0,
                                  link |-> [rooted |-> FALSE, path |-> m.path]]
           /\ \A n \in Origins \ {m} : Group(n) \cap Group(m) = {}
  <1>1. \A o \in Origins : /\ o \in DOMAIN archive /\ archive[o].type = {"file"} /\ ~o.slash
                           /\ o \in Proper /\ archive[o].link = Empty /\ archive[o] \in Item
                           /\ o # Root
    <2> SUFFICES ASSUME NEW o \in Origins
                 PROVE  /\ o \in DOMAIN archive /\ archive[o].type = {"file"} /\ ~o.slash
                        /\ o \in Proper /\ archive[o].link = Empty /\ archive[o] \in Item
                        /\ o # Root
      OBVIOUS
    <2>1. PICK n \in DOMAIN archive : "hardlink" \in archive[n].type /\ o = Plain(archive[n].link.path)
      BY DEF Origins
    <2>2. o \in DOMAIN archive /\ archive[o].type = {"file"}
      BY <2>1 DEF Straight, StraightIn
    <2>3. ~o.slash /\ o # Root
      BY <2>1, Listing DEF Plain, Root
    <2>4. QED BY <2>2, <2>3, Listing
  <1>2. ASSUME NEW o \in Origins, NEW n \in Group(o) \ {o}
        PROVE  /\ n \in DOMAIN archive /\ "hardlink" \in archive[n].type
               /\ Plain(archive[n].link.path) = o
    BY <1>2 DEF Group
  <1>3. "hardlink" \notin {"file"}
    OBVIOUS
  <1>4. ASSUME NEW o \in Origins, NEW n \in Group(o) \ {o} PROVE n \notin Origins
    BY <1>1, <1>2, <1>3, <1>4
  <1>5. ASSUME NEW n \in Group(m) \ {m}
        PROVE  archive[n] = [type |-> {"hardlink"}, link |-> [rooted |-> FALSE, path |-> m.path], size |-> 0]
    <2>1. /\ archive[n] \in Item /\ archive[n].type = {"hardlink"} /\ archive[n].size = 0
          /\ ~archive[n].link.rooted
      BY <1>2, <1>5, Listing
    <2>2. archive[n].link.path = m.path
      BY <1>2, <1>5 DEF Plain
    <2>3. archive[n].link \in Request
      BY <2>1 DEF Item
    <2>4. archive[n].link = [rooted |-> FALSE, path |-> m.path]
      BY <2>1, <2>2, <2>3 DEF Request
    <2>5. QED BY <2>1, <2>4 DEF Item
  <1>6. ASSUME NEW o \in Origins \ {m}, NEW n \in Group(o) \cap Group(m) PROVE FALSE
    <2>1. CASE n = o
      BY <1>4, <1>6, <2>1
    <2>2. CASE n = m
      BY <1>4, <1>6, <2>2
    <2>3. CASE n # o /\ n # m
      BY <1>2, <1>6, <2>3
    <2>4. QED BY <2>1, <2>2, <2>3
  <1>7. QED BY <1>1, <1>2, <1>4, <1>5, <1>6

\* Pointed leaves the names as they are, and directories directories.
LEMMA PointedKeeps ==
    ASSUME CatalogInv, NEW m \in DOMAIN catalog, ~m.slash, m # Root
    PROVE  /\ DOMAIN Pointed(m) = DOMAIN catalog
           /\ \A n \in DOMAIN catalog : /\ Pointed(m)[n] \in Item
                                        /\ "dir" \in catalog[n].type => "dir" \in Pointed(m)[n].type
                                        /\ n \notin Group(m) => Pointed(m)[n] = catalog[n]
                                        /\ n = Root \/ n.slash => Pointed(m)[n] = catalog[n]
  <1> DEFINE p == Preferred(m)
             first(n) == [type |-> (catalog[n].type \ {"hardlink"}) \cup {"file"},
                          link |-> Empty, size |-> catalog[m].size]
             other(n) == [type |-> (catalog[n].type \ {"file"}) \cup {"hardlink"},
                          link |-> [rooted |-> FALSE, path |-> p.path], size |-> 0]
  <1>1. /\ \A n \in DOMAIN catalog : n \in Proper /\ catalog[n] \in Item
        /\ archive \in Archives /\ m \in DOMAIN archive
    BY DEF CatalogInv
  <1>2. p \in Group(m) /\ p \in Proper
    BY <1>1, PreferredIsFirst
  <1>3. p.path \in Seq(Segment \cup {".", ".."})
    <2>1. p.path \in Seq(Segment) /\ Segment \subseteq Segment \cup {".", ".."}
      BY <1>2, Names
    <2>2. QED BY <2>1, SMTT(30)
  <1>4. Empty \in Request
    BY EmptySeq DEF Empty, Request
  <1>5. ASSUME NEW n \in DOMAIN catalog
        PROVE  /\ first(n) \in Item /\ other(n) \in Item
               /\ "dir" \in catalog[n].type => "dir" \in first(n).type /\ "dir" \in other(n).type
    <2>1. /\ catalog[n].type \in SUBSET {"dir", "file", "hardlink", "symlink"}
          /\ catalog[m].size \in Nat
      BY <1>1 DEF Item
    <2>2. [rooted |-> FALSE, path |-> p.path] \in Request
      BY <1>3 DEF Request
    <2>3. QED BY <1>4, <2>1, <2>2 DEF Item
  <1>6. \A n \in DOMAIN catalog :
           Pointed(m)[n] = IF p = m \/ n \notin Group(m) THEN catalog[n]
                           ELSE IF n = p THEN first(n) ELSE other(n)
    BY DEF Pointed
  <1>7. DOMAIN Pointed(m) = DOMAIN catalog
    BY DEF Pointed
  <1>8. \A n \in Group(m) : ~n.slash /\ n # Root
    BY <1>1, Groups
  <1> HIDE DEF first, other, p
  <1>9. QED BY <1>1, <1>5, <1>6, <1>7, <1>8

\* What is made of a group that nothing has touched.
LEMMA PointedGroup ==
    ASSUME CatalogInv, Straight, NEW m \in Origins, Untouched(m)
    PROVE  /\ Pointed(m)[Preferred(m)] = archive[m]
           /\ \A n \in Group(m) \ {Preferred(m)} :
                 Pointed(m)[n] = [type |-> {"hardlink"}, size |-> 0,
                                  link |-> [rooted |-> FALSE, path |-> Preferred(m).path]]
  <1> DEFINE p == Preferred(m)
  <1>1. /\ m \in DOMAIN archive /\ m \in Proper /\ ~m.slash /\ m # Root /\ m \in Group(m)
        /\ archive[m] \in Item /\ archive[m].type = {"file"} /\ archive[m].link = Empty
        /\ \A n \in Group(m) \ {m} : /\ n \in DOMAIN archive
                                     /\ archive[n] = [type |-> {"hardlink"}, size |-> 0,
                                                      link |-> [rooted |-> FALSE, path |-> m.path]]
    BY GroupsApart, Groups DEF CatalogInv
  <1>2. p \in Group(m)
    BY <1>1, PreferredIsFirst DEF CatalogInv
  <1>3. \A n \in Group(m) : n \in DOMAIN catalog /\ catalog[n] = archive[n]
    BY <1>1 DEF CatalogInv, Untouched
  <1>4. \A n \in Group(m) :
           Pointed(m)[n] = IF p = m THEN catalog[n]
                           ELSE IF n = p
                           THEN [type |-> (catalog[n].type \ {"hardlink"}) \cup {"file"},
                                 link |-> Empty, size |-> catalog[m].size]
                           ELSE [type |-> (catalog[n].type \ {"file"}) \cup {"hardlink"},
                                 link |-> [rooted |-> FALSE, path |-> p.path], size |-> 0]
    BY <1>3 DEF Pointed
  <1>5. /\ ({"hardlink"} \ {"hardlink"}) \cup {"file"} = {"file"}
        /\ ({"hardlink"} \ {"file"}) \cup {"hardlink"} = {"hardlink"}
        /\ ({"file"} \ {"file"}) \cup {"hardlink"} = {"hardlink"}
    OBVIOUS
  <1> HIDE DEF p
  <1>6. CASE p = m
    <2>1. \A n \in Group(m) : Pointed(m)[n] = archive[n]
      BY <1>3, <1>4, <1>6
    <2>2. Pointed(m)[p] = archive[p]
      BY <1>2, <2>1
    <2>3. \A n \in Group(m) \ {p} :
             Pointed(m)[n] = [type |-> {"hardlink"}, size |-> 0, link |-> [rooted |-> FALSE, path |-> p.path]]
      BY <1>1, <1>6, <2>1
    <2>4. QED BY <1>6, <2>2, <2>3 DEF p
  <1>7. CASE p # m
    <2>1. Pointed(m)[p] = archive[m]
      <3>1. /\ p \in Group(m) \ {m} /\ catalog[p] = archive[p] /\ catalog[m].size = archive[m].size
        BY <1>1, <1>2, <1>3, <1>7
      <3>2. catalog[p].type = {"hardlink"}
        BY <1>1, <3>1
      <3>3. Pointed(m)[p] = [type |-> (catalog[p].type \ {"hardlink"}) \cup {"file"},
                             link |-> Empty, size |-> catalog[m].size]
        BY <1>2, <1>4, <1>7
      <3>4. Pointed(m)[p] = [type |-> {"file"}, link |-> Empty, size |-> archive[m].size]
        BY <1>5, <3>1, <3>2, <3>3
      <3>5. archive[m] = [type |-> {"file"}, link |-> Empty, size |-> archive[m].size]
        BY <1>1 DEF Item
      <3>6. QED BY <3>4, <3>5
    <2>2. ASSUME NEW n \in Group(m) \ {p}
          PROVE  Pointed(m)[n] = [type |-> {"hardlink"}, size |-> 0,
                                  link |-> [rooted |-> FALSE, path |-> p.path]]
      <3>1. catalog[n].type \in {{"file"}, {"hardlink"}}
        BY <1>1, <1>3
      <3>2. (catalog[n].type \ {"file"}) \cup {"hardlink"} = {"hardlink"}
        BY <1>5, <3>1
      <3>3. QED BY <1>4, <1>7, <2>2, <3>2
    <2>3. QED BY <2>1, <2>2 DEF p
  <1>8. QED BY <1>6, <1>7

LEMMA PointHardLinksTree == ASSUME TreeInv, PointHardLinks PROVE TreeInv'
  <1>1. PICK m \in masters : m \in DOMAIN catalog /\ catalog' = Pointed(m) /\ masters' = masters \ {m}
    BY DEF PointHardLinks
  <1>2. /\ pc = "hardlinks" /\ UNCHANGED <<archive, pc, child>> /\ archive \in Archives
        /\ m \in Origins /\ ~m.slash /\ m # Root
    <2>1. \A o \in Origins : o # Root
      BY Listing DEF Origins, Root, Plain, TreeInv, CatalogInv
    <2>2. QED BY <1>1, <2>1 DEF PointHardLinks, TreeInv, CatalogInv, MastersInv
  <1>3. /\ DOMAIN catalog' = DOMAIN catalog
        /\ \A n \in DOMAIN catalog : /\ catalog'[n] \in Item
                                     /\ "dir" \in catalog[n].type => "dir" \in catalog'[n].type
                                     /\ n \notin Group(m) => catalog'[n] = catalog[n]
                                     /\ n = Root \/ n.slash => catalog'[n] = catalog[n]
    BY <1>1, <1>2, PointedKeeps DEF TreeInv
  <1>4. CatalogInv'
    BY <1>2, <1>3 DEF TreeInv, CatalogInv, Is, HasLink
  <1>5. ChildInv'
    BY <1>2, <1>3 DEF TreeInv, ChildInv
  <1>6. ASSUME Straight, NEW o \in Origins, o \in masters'
        PROVE  \A n \in Group(o) : catalog'[n] = archive[n]
    <2>1. o # m /\ o \in masters /\ Group(o) \cap Group(m) = {}
      BY <1>1, <1>2, <1>6, GroupsApart
    <2>2. \A n \in Group(o) : catalog[n] = archive[n] /\ n \in DOMAIN catalog
      <3>1. \A n \in Group(o) : n \in DOMAIN archive
        BY <1>2, <1>6, GroupsApart
      <3>2. QED BY <1>2, <1>6, <2>1, <3>1 DEF TreeInv, MastersInv, CatalogInv, Untouched
    <2>3. QED BY <1>3, <2>1, <2>2
  <1>7. ASSUME Straight, NEW o \in Origins, o \notin masters'
        PROVE  /\ catalog'[Preferred(o)] = archive[o]
               /\ \A n \in Group(o) \ {Preferred(o)} :
                     catalog'[n] = [type |-> {"hardlink"}, size |-> 0,
                                    link |-> [rooted |-> FALSE, path |-> Preferred(o).path]]
    <2>1. CASE o = m
      <3>1. Untouched(m)
        BY <1>1, <1>2, <1>7 DEF TreeInv, MastersInv
      <3>2. QED BY <1>1, <1>2, <1>7, <2>1, <3>1, PointedGroup DEF TreeInv
    <2>2. CASE o # m
      <3>1. Kept(o) /\ Group(o) \cap Group(m) = {}
        BY <1>1, <1>2, <1>7, <2>2, GroupsApart DEF TreeInv, MastersInv
      <3>2. \A n \in Group(o) : n \in DOMAIN catalog
        <4>1. \A n \in Group(o) : n \in DOMAIN archive
          BY <1>2, <1>7, GroupsApart
        <4>2. QED BY <4>1 DEF TreeInv, CatalogInv
      <3>3. Preferred(o) \in Group(o)
        <4>1. o \in DOMAIN archive /\ o # Root /\ ~o.slash
          BY <1>2, <1>7, GroupsApart
        <4>2. QED BY <1>2, <4>1, PreferredIsFirst
      <3>4. \A n \in Group(o) : catalog'[n] = catalog[n]
        BY <1>3, <3>1, <3>2
      <3>5. QED BY <3>1, <3>3, <3>4 DEF Kept
    <2>3. QED BY <2>1, <2>2
  <1>8. MastersInv'
    <2>1. /\ Origins' = Origins /\ Straight' = Straight
          /\ \A o : Group(o)' = Group(o) /\ Preferred(o)' = Preferred(o)
      BY <1>2 DEF Origins, Straight, StraightIn, Group, Preferred
    <2>2. \A o \in masters' : o \in Origins /\ ~o.slash /\ o.path \in Seq(Segment \cup {".", ".."})
      BY <1>1 DEF TreeInv, MastersInv
    <2>3. \A o \in Origins : /\ Straight /\ o \in masters' => Untouched(o)'
                             /\ Straight /\ o \notin masters' => Kept(o)'
      BY <1>2, <1>6, <1>7, <2>1 DEF Untouched, Kept
    <2>4. QED BY <1>2, <2>1, <2>2, <2>3 DEF MastersInv
  <1>9. QED BY <1>4, <1>5, <1>8 DEF TreeInv

\* After that the tree stays.
LEMMA TreeStays ==
    ASSUME TreeInv, UNCHANGED <<archive, tree>>, pc \notin {"missing", "children"},
           pc' \in {"hardlinks", "loaded", "resolve", "died"},
           pc' # pc => pc' = "died" \/ masters = {},
           pc' = "hardlinks" => pc = "hardlinks", pc = "died" => pc' = "died"
    PROVE  TreeInv'
  <1>1. UNCHANGED <<archive, catalog, child, masters>>
    BY DEF tree
  <1>2. CatalogInv'
    BY <1>1 DEF TreeInv, CatalogInv, Is, HasLink
  <1>3. ChildInv'
    BY <1>1 DEF TreeInv, ChildInv
  <1>4. MastersInv'
    <2>1. /\ Origins' = Origins /\ Straight' = Straight
          /\ \A o : Group(o)' = Group(o) /\ Preferred(o)' = Preferred(o)
      BY <1>1 DEF Origins, Straight, StraightIn, Group, Preferred
    <2>2. \A o : (Untouched(o) => Untouched(o)') /\ (Kept(o) => Kept(o)')
      BY <1>1, <2>1 DEF Untouched, Kept
    <2>3. ASSUME pc' \in {"hardlinks", "loaded", "resolve"}, Straight, NEW o \in Origins
          PROVE  IF o \in masters THEN Untouched(o)' ELSE Kept(o)'
      <3>1. pc \in {"hardlinks", "loaded", "resolve"}
        BY <2>3 DEF TreeInv, CatalogInv
      <3>2. QED BY <2>2, <2>3, <3>1 DEF TreeInv, MastersInv
    <2>4. pc' \notin {"hardlinks", "died"} => masters = {}
      BY DEF TreeInv, MastersInv
    <2>5. \A o \in masters : o \in Origins /\ ~o.slash /\ o.path \in Seq(Segment \cup {".", ".."})
      BY DEF TreeInv, MastersInv
    <2>6. pc' \notin {"missing", "children"}
      OBVIOUS
    <2>7. QED BY <1>1, <2>1, <2>3, <2>4, <2>5, <2>6 DEF MastersInv
  <1>5. QED BY <1>2, <1>3, <1>4 DEF TreeInv

-----------------------------------------------------------------------------
\* What is reached by the steps R within C: whatever is in all sets that hold the
\* start and are closed under the steps.

Reaches(C, R, a, c) ==
    \A S \in SUBSET C : a \in S /\ (\A s \in R : s[1] \in S => s[2] \in S) => c \in S
Stuck(R, c) == \A s \in R : s[1] # c

LEMMA ReachesFurther ==
    ASSUME NEW C, NEW R, NEW a, NEW b, NEW c, Reaches(C, R, a, b), <<b, c>> \in R
    PROVE  Reaches(C, R, a, c)
  <1> SUFFICES ASSUME NEW S \in SUBSET C, a \in S, \A s \in R : s[1] \in S => s[2] \in S
               PROVE  c \in S
    BY DEF Reaches
  <1>1. b \in S
    BY DEF Reaches
  <1>2. <<b, c>>[1] = b /\ <<b, c>>[2] = c
    OBVIOUS
  <1>3. QED BY <1>1, <1>2

LEMMA ReachesMore ==
    ASSUME NEW C, NEW R, NEW T, R \subseteq T, NEW a, NEW c, Reaches(C, R, a, c)
    PROVE  Reaches(C, T, a, c)
  BY DEF Reaches

\* Steps that leave no choice lead to one end.
LEMMA OneEnd ==
    ASSUME NEW C, NEW R \in SUBSET (C \X C), \A s, t \in R : s[1] = t[1] => s[2] = t[2],
           NEW a \in C, NEW b, NEW c, Reaches(C, R, a, b), Reaches(C, R, a, c), Stuck(R, b), Stuck(R, c)
    PROVE  b = c
  <1> DEFINE before == {x \in C : Reaches(C, R, x, c)}
  <1>1. ASSUME NEW s \in R, s[1] \in before PROVE s[2] \in before
    <2>1. s[2] \in C /\ s[1] \in C /\ s[1] # c
      BY <1>1 DEF Stuck
    <2>2. ASSUME NEW S \in SUBSET C, s[2] \in S, \A t \in R : t[1] \in S => t[2] \in S
          PROVE  c \in S
      <3>1. S \cup {s[1]} \in SUBSET C
        BY <2>1
      <3>2. \A t \in R : t[1] \in S \cup {s[1]} => t[2] \in S \cup {s[1]}
        BY <2>2
      <3>3. c \in S \cup {s[1]}
        BY <1>1, <3>1, <3>2 DEF Reaches
      <3>4. QED BY <2>1, <3>3
    <2>3. Reaches(C, R, s[2], c)
      BY <2>2 DEF Reaches
    <2>4. QED BY <2>1, <2>3
  <1>2. a \in before /\ before \in SUBSET C
    OBVIOUS
  <1> HIDE DEF before
  <1>3. b \in before
    BY <1>1, <1>2 DEF Reaches
  <1>4. b \in C /\ Reaches(C, R, b, c)
    BY <1>3 DEF before
  <1>5. {b} \in SUBSET C /\ \A s \in R : s[1] \in {b} => s[2] \in {b}
    BY <1>4 DEF Stuck
  <1>6. c \in {b}
    BY <1>4, <1>5 DEF Reaches
  <1>7. QED BY <1>6

-----------------------------------------------------------------------------
\* Resolving.  A place is an item and the path that goes on from it.

Places == (DOMAIN catalog) \X Request
Origin(x) == IF x[2].rooted THEN Root ELSE IF Is(x[1], "dir") THEN x[1] ELSE Dirname(x[1])
Further(x) == <<Leads(Origin(x), Head(x[2].path)), [rooted |-> FALSE, path |-> Tail(x[2].path)]>>
Moved(x, y) ==
    \/ HasLink(x[1]) /\ x[1] \in DOMAIN dereferenced /\ y = <<dereferenced[x[1]], x[2]>>
    \/ ~HasLink(x[1]) /\ (x[2].rooted => anchored) /\ x[2].path # <<>> /\ y = Further(x)
Moves == {s \in Places \X Places : Moved(s[1], s[2])}

\* Where a link begins, and what the call that follows it has come to.
Begin(n) == <<IF Is(n, "hardlink") THEN Root ELSE Dirname(n), catalog[n].link>>
Reached(k) == IF k = 1 THEN <<self, request>> ELSE <<frames[k - 1].item, frames[k - 1].request>>

Remaining(depth) == IF depth = 0 THEN NoBudget ELSE Limit - depth
Frame == [item : DOMAIN catalog, request : Request, maxlinks : Int]

CallInv ==
    /\ frames \in Seq(Frame)
    /\ pc # "resolve" => frames = <<>>
    /\ pc = "resolve" =>
          /\ self \in DOMAIN catalog /\ request \in Request
          /\ Len(frames) <= Limit /\ maxlinks = Remaining(Len(frames))
          /\ \A k \in 1..Len(frames) : frames[k].maxlinks = Remaining(Len(frames) - k)

LinkInv ==
    /\ pc \in {"missing", "children", "hardlinks", "died"} => DOMAIN dereferenced = {}
    /\ \A n \in DOMAIN dereferenced : /\ n \in DOMAIN catalog /\ HasLink(n)
                                      /\ dereferenced[n] \in DOMAIN catalog /\ ~HasLink(dereferenced[n])
    /\ \A k \in 1..Len(frames) : HasLink(frames[k].item) /\ frames[k].item \notin DOMAIN dereferenced

FrameInv ==
    pc = "resolve" =>
        \A k \in 1..Len(frames) : Reaches(Places, Moves, Begin(frames[k].item), Reached(k))

IInv == TreeInv /\ CallInv /\ LinkInv /\ FrameInv

LEMMA Bounds == Limit \in Nat /\ Requests \subseteq Request
  BY IndexAssumption

LEMMA NoFrames == \A S : <<>> \in Seq(S) /\ Len(<<>>) = 0
  BY EmptySeq

LEMMA InTree ==
    ASSUME TreeInv, pc \notin {"missing", "children"}
    PROVE  /\ Root \in DOMAIN catalog
           /\ \A n \in DOMAIN catalog : Dirname(n) \in DOMAIN catalog
           /\ \A d \in DOMAIN catalog : \A s : Leads(d, s) # Nowhere => Leads(d, s) \in DOMAIN catalog
  <1>1. /\ Root \in DOMAIN catalog
        /\ \A n \in DOMAIN catalog \ {Root} : Dirname(n) \in DOMAIN catalog
        /\ \A p \in DOMAIN child : child[p] \in DOMAIN catalog
    BY DEF TreeInv, CatalogInv, ChildInv
  <1>2. Dirname(Root) = Root
    <2>1. Front(<<>>) = <<>>
      <3>1. <<>> \in Seq(Segment) /\ Len(<<>>) = 0
        BY NoFrames
      <3>2. QED BY <3>1, SubSeqEmpty DEF Front
    <2>2. QED BY <2>1 DEF Dirname, Root, Folder
  <1>3. \A d \in DOMAIN catalog : \A s : Leads(d, s) # Nowhere => Leads(d, s) \in DOMAIN catalog
    BY <1>1 DEF Leads
  <1>4. QED BY <1>1, <1>2, <1>3

LEMMA MovesAreSteps ==
    /\ Moves \in SUBSET (Places \X Places)
    /\ \A s, t \in Moves : s[1] = t[1] => s[2] = t[2]
  BY DEF Moves, Moved

\* What no step changes while paths are resolved.
LEMMA PlacesStay ==
    ASSUME UNCHANGED <<anchored, archive, tree>>
    PROVE  /\ Places' = Places /\ \A n : Begin(n)' = Begin(n) /\ HasLink(n)' = HasLink(n)
           /\ Frame' = Frame /\ DOMAIN catalog' = DOMAIN catalog
  BY DEF tree, Places, Begin, HasLink, Is, Frame

LEMMA MovesStay ==
    ASSUME UNCHANGED <<anchored, archive, tree, dereferenced>> PROVE Moves' = Moves
  BY DEF tree, Places, Moves, Moved, Further, Origin, HasLink, Is, Leads

\* What is stored makes new steps and leaves the others.
LEMMA MovesGrow ==
    ASSUME UNCHANGED <<anchored, archive, tree>>, DOMAIN dereferenced \subseteq DOMAIN dereferenced',
           \A n \in DOMAIN dereferenced : dereferenced'[n] = dereferenced[n]
    PROVE  Moves \subseteq Moves'
  <1>1. /\ Places' = Places /\ \A n : HasLink(n)' = HasLink(n) /\ (Is(n, "dir"))' = Is(n, "dir")
        /\ anchored' = anchored /\ \A d, s : Leads(d, s)' = Leads(d, s)
    BY DEF tree, Places, HasLink, Is, Leads
  <1>2. ASSUME NEW x, NEW y, Moved(x, y) PROVE Moved(x, y)'
    <2>1. Origin(x)' = Origin(x)
      BY <1>1 DEF Origin
    <2>2. Further(x)' = Further(x)
      BY <1>1, <2>1 DEF Further
    <2>3. QED BY <1>1, <1>2, <2>2 DEF Moved
  <1>3. QED BY <1>1, <1>2 DEF Moves

-----------------------------------------------------------------------------
\* The steps that resolve nothing.

LEMMA InitCalls == Init => CallInv /\ LinkInv /\ FrameInv
  <1> SUFFICES ASSUME Init PROVE CallInv /\ LinkInv /\ FrameInv
    OBVIOUS
  <1>1. pc = "missing" /\ frames = <<>> /\ DOMAIN dereferenced = {}
    BY DEF Init
  <1>2. \A k \in 1..Len(frames) : FALSE
    BY <1>1, NoFrames
  <1>3. QED BY <1>1, <1>2, NoFrames DEF CallInv, LinkInv, FrameInv

\* While nothing is asked for nothing waits.
LEMMA CallsIdle ==
    ASSUME pc' # "resolve", frames' = <<>>,
           \/ DOMAIN dereferenced' = {}
           \/ LinkInv /\ pc' = "loaded" /\ UNCHANGED <<catalog, dereferenced>>
    PROVE  (CallInv /\ LinkInv /\ FrameInv)'
  <1>1. \A k \in 1..Len(frames') : FALSE
    BY NoFrames
  <1>2. CallInv' /\ FrameInv'
    BY NoFrames DEF CallInv, FrameInv
  <1>3. LinkInv'
    <2>1. CASE DOMAIN dereferenced' = {}
      BY <1>1, <2>1 DEF LinkInv
    <2>2. CASE LinkInv /\ pc' = "loaded" /\ UNCHANGED <<catalog, dereferenced>>
      BY <1>1, <2>2 DEF LinkInv, HasLink
    <2>3. QED BY <2>1, <2>2
  <1>4. QED BY <1>2, <1>3

LEMMA LoadKeeps ==
    ASSUME IInv, AddMissing \/ RecordChildren \/ PointHardLinks \/ MasterMissing \/ Loaded PROVE IInv'
  <1>1. /\ pc \in {"missing", "children", "hardlinks"} /\ pc' # "resolve"
        /\ UNCHANGED <<archive, dereferenced, frames>>
    BY DEF AddMissing, RecordChildren, PointHardLinks, MasterMissing, Loaded, call
  <1>2. frames' = <<>> /\ DOMAIN dereferenced' = {}
    BY <1>1 DEF IInv, CallInv, LinkInv
  <1>3. TreeInv'
    <2>1. CASE AddMissing
      BY <2>1, AddMissingTree DEF IInv
    <2>2. CASE RecordChildren
      BY <2>2, RecordChildrenTree DEF IInv
    <2>3. CASE PointHardLinks
      BY <2>3, PointHardLinksTree DEF IInv
    <2>4. CASE MasterMissing
      BY <2>4, TreeStays DEF IInv, MasterMissing
    <2>5. CASE Loaded
      BY <2>5, TreeStays DEF IInv, Loaded
    <2>6. QED BY <2>1, <2>2, <2>3, <2>4, <2>5
  <1>4. QED BY <1>1, <1>2, <1>3, CallsIdle DEF IInv

LEMMA FailKeeps == ASSUME IInv, TooManyLinks \/ NotAnchored \/ DeadEnd PROVE IInv'
  <1>1. /\ pc = "resolve" /\ pc' = "loaded" /\ frames' = <<>>
        /\ UNCHANGED <<archive, tree, dereferenced>>
    BY DEF TooManyLinks, NotAnchored, DeadEnd, Walking, Fail
  <1>2. masters = {}
    BY <1>1 DEF IInv, TreeInv, MastersInv
  <1>3. TreeInv'
    BY <1>1, <1>2, TreeStays DEF IInv
  <1>4. QED BY <1>1, <1>3, CallsIdle DEF IInv, tree

LEMMA AskKeeps == ASSUME IInv, Ask PROVE IInv'
  <1>1. /\ pc = "loaded" /\ pc' = "resolve" /\ frames' = <<>> /\ maxlinks' = NoBudget
        /\ self' \in DOMAIN catalog /\ request' \in Request
        /\ UNCHANGED <<archive, tree, dereferenced>>
    BY Bounds DEF Ask
  <1>2. TreeInv'
    BY <1>1, TreeStays DEF IInv, TreeInv, MastersInv
  <1>3. Len(frames') = 0 /\ \A k \in 1..Len(frames') : FALSE
    BY <1>1, NoFrames
  <1>4. CallInv'
    BY <1>1, <1>3, Bounds, NoFrames DEF CallInv, Remaining, tree
  <1>5. LinkInv' /\ FrameInv'
    BY <1>1, <1>3 DEF IInv, LinkInv, FrameInv, HasLink, tree
  <1>6. QED BY <1>2, <1>4, <1>5 DEF IInv

-----------------------------------------------------------------------------
\* Going on within one call.

LEMMA TreeResolving ==
    ASSUME IInv, pc = "resolve", pc' \in {"resolve", "loaded"}, UNCHANGED <<archive, tree>> PROVE TreeInv'
  BY TreeStays DEF IInv, TreeInv, MastersInv

LEMMA MoveKeeps ==
    ASSUME IInv, pc = "resolve", pc' = "resolve",
           UNCHANGED <<anchored, archive, tree, dereferenced, maxlinks, frames>>,
           self' \in DOMAIN catalog, request' \in Request, Moved(<<self, request>>, <<self', request'>>)
    PROVE  IInv'
  <1>1. TreeInv'
    BY TreeResolving
  <1>2. UNCHANGED <<catalog, frames, dereferenced, maxlinks, pc>>
    BY DEF tree
  <1>3. CallInv'
    BY <1>2 DEF IInv, CallInv, Frame
  <1>4. LinkInv'
    BY <1>2 DEF IInv, LinkInv, HasLink
  <1>5. Places' = Places /\ Moves' = Moves /\ \A n : Begin(n)' = Begin(n)
    BY PlacesStay, MovesStay
  <1>6. <<<<self, request>>, <<self', request'>>>> \in Moves
    <2>1. self \in DOMAIN catalog /\ request \in Request
      BY DEF IInv, CallInv
    <2>2. <<self, request>> \in Places /\ <<self', request'>> \in Places
      BY <2>1 DEF Places
    <2>3. QED BY <2>2 DEF Moves
  <1>7. FrameInv'
    <2> SUFFICES ASSUME NEW k \in 1..Len(frames)
                 PROVE  Reaches(Places, Moves, Begin(frames[k].item), Reached(k)')
      BY <1>2, <1>5 DEF FrameInv
    <2>1. Reaches(Places, Moves, Begin(frames[k].item), Reached(k))
      BY DEF IInv, FrameInv
    <2>2. CASE k = 1
      <3>1. Reached(k) = <<self, request>> /\ Reached(k)' = <<self', request'>>
        BY <2>2 DEF Reached
      <3>2. QED BY <1>6, <2>1, <3>1, ReachesFurther
    <2>3. CASE k # 1
      <3>1. Reached(k)' = Reached(k)
        BY <1>2, <2>3 DEF Reached
      <3>2. QED BY <2>1, <3>1
    <2>4. QED BY <2>2, <2>3
  <1>8. QED BY <1>1, <1>3, <1>4, <1>7 DEF IInv

LEMMA FollowAgainKeeps == ASSUME IInv, FollowAgain PROVE IInv'
  <1>1. /\ pc = "resolve" /\ pc' = "resolve" /\ self' = dereferenced[self] /\ request' = request
        /\ UNCHANGED <<anchored, archive, tree, dereferenced, maxlinks, frames>>
        /\ HasLink(self) /\ self \in DOMAIN dereferenced
    BY DEF FollowAgain
  <1>2. self' \in DOMAIN catalog /\ request' \in Request
    BY <1>1 DEF IInv, CallInv, LinkInv
  <1>3. Moved(<<self, request>>, <<self', request'>>)
    BY <1>1 DEF Moved
  <1>4. QED BY <1>1, <1>2, <1>3, MoveKeeps

LEMMA FromInTree == ASSUME IInv, pc = "resolve" PROVE From \in DOMAIN catalog
  BY InTree DEF IInv, CallInv, From

LEMMA DescendKeeps == ASSUME IInv, Descend PROVE IInv'
  <1>1. /\ pc = "resolve" /\ pc' = "resolve" /\ ~HasLink(self) /\ (request.rooted => anchored)
        /\ request.path # <<>> /\ Leads(From, Head(request.path)) # Nowhere
        /\ self' = Leads(From, Head(request.path))
        /\ request' = [rooted |-> FALSE, path |-> Tail(request.path)]
        /\ UNCHANGED <<anchored, archive, tree, dereferenced, maxlinks, frames>>
    BY DEF Descend, Walking
  <1>2. self' \in DOMAIN catalog
    BY <1>1, InTree, FromInTree DEF IInv
  <1>3. request' \in Request
    <2>1. request \in Request
      BY <1>1 DEF IInv, CallInv
    <2>2. Tail(request.path) \in Seq(Segment \cup {".", ".."})
      BY <1>1, <2>1, HeadTailProperties DEF Request
    <2>3. QED BY <1>1, <2>2 DEF Request
  <1>4. Moved(<<self, request>>, <<self', request'>>)
    <2>1. Origin(<<self, request>>) = From
      BY DEF Origin, From
    <2>2. QED BY <1>1, <2>1 DEF Moved, Further
  <1>5. QED BY <1>1, <1>2, <1>3, <1>4, MoveKeeps

-----------------------------------------------------------------------------
\* Calls: one more frame, or one less.

LEMMA Push ==
    ASSUME NEW S, NEW s \in Seq(S), NEW e \in S
    PROVE  /\ <<e>> \o s \in Seq(S) /\ Len(<<e>> \o s) = Len(s) + 1 /\ (<<e>> \o s)[1] = e
           /\ \A k \in 1..Len(s) : (<<e>> \o s)[k + 1] = s[k]
           /\ Len(s) \in Nat
  <1>1. <<e>> \in Seq(S) /\ Len(<<e>>) = 1 /\ <<e>>[1] = e
    OBVIOUS
  <1>2. QED BY <1>1, ConcatProperties, LenProperties

LEMMA FollowKeeps == ASSUME IInv, Follow PROVE IInv'
  <1> DEFINE f == [item |-> self, request |-> request, maxlinks |-> maxlinks]
  <1>1. /\ pc = "resolve" /\ pc' = "resolve" /\ HasLink(self) /\ self \notin DOMAIN dereferenced /\ Budget > 0
        /\ frames' = <<f>> \o frames /\ self' = Reference /\ request' = catalog[self].link
        /\ maxlinks' = Budget - 1
        /\ UNCHANGED <<anchored, archive, tree, dereferenced>>
    BY DEF Follow
  <1>2. TreeInv'
    BY <1>1, TreeResolving
  <1>3. /\ UNCHANGED <<catalog, dereferenced>> /\ frames \in Seq(Frame)
        /\ self \in DOMAIN catalog /\ request \in Request
        /\ Len(frames) <= Limit /\ maxlinks = Remaining(Len(frames))
    BY <1>1 DEF IInv, CallInv, tree
  <1>4. Len(frames) \in Nat /\ Limit \in Nat /\ maxlinks \in Int
    BY <1>3, Bounds, LenProperties DEF Remaining, NoBudget
  <1>5. f \in Frame
    BY <1>3, <1>4 DEF Frame
  <1>6. /\ frames' \in Seq(Frame) /\ Len(frames') = Len(frames) + 1 /\ frames'[1] = f
        /\ \A k \in 1..Len(frames) : frames'[k + 1] = frames[k]
    BY <1>1, <1>3, <1>5, Push
  <1>7. \A k \in 1..Len(frames') : k = 1 \/ (k - 1 \in 1..Len(frames) /\ frames'[k] = frames[k - 1])
    <2> SUFFICES ASSUME NEW k \in 1..Len(frames'), k # 1
                 PROVE  k - 1 \in 1..Len(frames) /\ frames'[k] = frames[k - 1]
      OBVIOUS
    <2>1. k - 1 \in 1..Len(frames) /\ (k - 1) + 1 = k
      BY <1>4, <1>6
    <2>2. QED BY <1>6, <2>1
  <1> HIDE DEF f
  <1>8. self' \in DOMAIN catalog /\ request' \in Request
    BY <1>1, <1>3, InTree DEF IInv, TreeInv, CatalogInv, Item, Reference
  <1>9. Budget = Limit - Len(frames)
    BY <1>3, <1>4 DEF Budget, Remaining, NoBudget
  <1>10. CallInv'
    <2>1. Len(frames') <= Limit /\ maxlinks' = Remaining(Len(frames'))
      BY <1>1, <1>4, <1>6, <1>9 DEF Remaining
    <2>2. ASSUME NEW k \in 1..Len(frames') PROVE frames'[k].maxlinks = Remaining(Len(frames') - k)
      <3>1. CASE k = 1
        BY <1>3, <1>4, <1>6, <3>1 DEF f
      <3>2. CASE k # 1
        <4>1. k - 1 \in 1..Len(frames) /\ frames'[k] = frames[k - 1]
          BY <1>7, <3>2
        <4>2. frames[k - 1].maxlinks = Remaining(Len(frames) - (k - 1))
          BY <1>1, <4>1 DEF IInv, CallInv
        <4>3. Len(frames) - (k - 1) = Len(frames') - k
          BY <1>4, <1>6
        <4>4. QED BY <4>1, <4>2, <4>3
      <3>3. QED BY <3>1, <3>2
    <2>3. frames' \in Seq(Frame')
      BY <1>3, <1>6 DEF Frame
    <2>4. QED BY <1>1, <1>3, <1>8, <2>1, <2>2, <2>3 DEF CallInv
  <1>11. LinkInv'
    <2>1. \A k \in 1..Len(frames') : HasLink(frames'[k].item) /\ frames'[k].item \notin DOMAIN dereferenced
      BY <1>1, <1>6, <1>7 DEF IInv, LinkInv, f
    <2>2. \A n : HasLink(n)' = HasLink(n)
      BY <1>3 DEF HasLink
    <2>3. QED BY <1>1, <1>3, <2>1, <2>2 DEF IInv, LinkInv
  <1>12. FrameInv'
    <2>1. Places' = Places /\ Moves' = Moves /\ \A n : Begin(n)' = Begin(n)
      BY <1>1, PlacesStay, MovesStay
    <2> SUFFICES ASSUME NEW k \in 1..Len(frames')
                 PROVE  Reaches(Places, Moves, Begin(frames'[k].item), Reached(k)')
      BY <2>1 DEF FrameInv
    <2>2. CASE k = 1
      <3>1. Reached(k)' = Begin(self) /\ frames'[k].item = self
        BY <1>1, <1>6, <2>2 DEF Reached, Begin, Reference, f
      <3>2. QED BY <3>1 DEF Reaches
    <2>3. CASE k # 1
      <3>1. k - 1 \in 1..Len(frames) /\ frames'[k] = frames[k - 1] /\ k \in Int
        BY <1>7, <2>3
      <3>2. Reached(k)' = <<frames'[k - 1].item, frames'[k - 1].request>>
        BY <2>3 DEF Reached
      <3>3. Reached(k)' = Reached(k - 1)
        <4>1. CASE k - 1 = 1
          BY <1>6, <3>2, <4>1 DEF Reached, f
        <4>2. CASE k - 1 # 1
          <5>1. k - 1 \in 1..Len(frames') /\ (k - 1) - 1 = k - 2
            BY <1>4, <1>6, <3>1
          <5>2. frames'[k - 1] = frames[(k - 1) - 1]
            BY <1>7, <4>2, <5>1
          <5>3. QED BY <3>2, <4>2, <5>2 DEF Reached
        <4>3. QED BY <4>1, <4>2
      <3>4. Reaches(Places, Moves, Begin(frames[k - 1].item), Reached(k - 1))
        BY <1>1, <3>1 DEF IInv, FrameInv
      <3>5. QED BY <3>1, <3>3, <3>4
    <2>4. QED BY <2>2, <2>3
  <1>13. QED BY <1>2, <1>10, <1>11, <1>12 DEF IInv

\* A link is not followed again while it is being followed, unless its path goes
\* in circles; and then nothing comes back.  Two calls for one link go the same
\* way: one cannot end where the other waits for a link.
LEMMA NotAgain ==
    ASSUME IInv, pc = "resolve", ~HasLink(self), request.path = <<>>, NEW k \in 1..Len(frames), k # 1
    PROVE  frames[k].item # frames[1].item
  <1> SUFFICES ASSUME frames[k].item = frames[1].item PROVE FALSE
    OBVIOUS
  <1>1. frames \in Seq(Frame) /\ Len(frames) \in Nat /\ 1 \in 1..Len(frames) /\ k - 1 \in 1..Len(frames)
    <2>1. frames \in Seq(Frame)
      BY DEF IInv, CallInv
    <2>2. QED BY <2>1, LenProperties
  <1> DEFINE n == frames[k - 1].item
             r == frames[k - 1].request
             b == Begin(frames[1].item)
  <1>2. HasLink(n) /\ n \notin DOMAIN dereferenced
    BY <1>1 DEF IInv, LinkInv
  <1>3. /\ Reaches(Places, Moves, b, Reached(1)) /\ Reached(1) = <<self, request>>
        /\ Reaches(Places, Moves, b, Reached(k)) /\ Reached(k) = <<n, r>>
    BY <1>1 DEF IInv, FrameInv, Reached
  <1>4. Stuck(Moves, <<self, request>>) /\ Stuck(Moves, <<n, r>>)
    BY <1>2 DEF Stuck, Moves, Moved
  <1>5. b \in Places
    <2>1. frames[1] \in Frame
      BY <1>1, ElementOfSeq
    <2>2. /\ catalog[frames[1].item] \in Item /\ Dirname(frames[1].item) \in DOMAIN catalog
          /\ Root \in DOMAIN catalog
      BY <2>1, InTree DEF IInv, TreeInv, CatalogInv, Frame
    <2>3. QED BY <2>2 DEF Begin, Places, Item
  <1> HIDE DEF b, n, r
  <1>6. <<self, request>> = <<n, r>>
    BY <1>3, <1>4, <1>5, MovesAreSteps, OneEnd
  <1>7. QED BY <1>2, <1>6

LEMMA ReturnKeeps == ASSUME IInv, Return PROVE IInv'
  <1>1. /\ pc = "resolve" /\ ~HasLink(self) /\ request.path = <<>> /\ UNCHANGED <<anchored, archive, tree>>
    BY DEF Return, Walking
  <1>2. CASE frames = <<>>
    <2>1. pc' = "loaded" /\ frames' = <<>> /\ UNCHANGED dereferenced
      BY <1>2 DEF Return, call
    <2>2. TreeInv'
      BY <1>1, <2>1, TreeResolving
    <2>3. QED BY <1>1, <2>1, <2>2, CallsIdle DEF IInv, tree
  <1>3. CASE frames # <<>>
    <2> DEFINE f == Head(frames)
    <2>1. /\ pc' = pc /\ self' = self /\ request' = f.request /\ maxlinks' = f.maxlinks
          /\ frames' = Tail(frames)
          /\ dereferenced' = [n \in DOMAIN dereferenced \cup {f.item} |->
                                 IF n = f.item THEN self ELSE dereferenced[n]]
      BY <1>3 DEF Return
    <2>2. /\ UNCHANGED catalog /\ frames \in Seq(Frame) /\ self \in DOMAIN catalog /\ Len(frames) <= Limit
          /\ \A k \in 1..Len(frames) : /\ frames[k].maxlinks = Remaining(Len(frames) - k)
                                       /\ HasLink(frames[k].item) /\ frames[k].item \notin DOMAIN dereferenced
                                       /\ Reaches(Places, Moves, Begin(frames[k].item), Reached(k))
      BY <1>1 DEF IInv, CallInv, LinkInv, FrameInv, tree
    <2>3. /\ Len(frames) \in Nat /\ Len(frames) > 0 /\ f = frames[1] /\ f \in Frame
          /\ frames' \in Seq(Frame) /\ Len(frames') = Len(frames) - 1
          /\ \A k \in 1..Len(frames') : k + 1 \in 1..Len(frames) /\ frames'[k] = frames[k + 1]
      <3>1. Len(frames) \in Nat /\ Len(frames) > 0 /\ f \in Frame /\ f = frames[1]
        BY <1>3, <2>2, EmptySeq, LenProperties, HeadTailProperties
      <3>2. /\ frames' \in Seq(Frame) /\ Len(frames') = Len(frames) - 1
            /\ \A k \in 1..Len(frames') : frames'[k] = frames[k + 1]
        BY <1>3, <2>1, <2>2, HeadTailProperties
      <3>3. QED BY <3>1, <3>2
    <2> HIDE DEF f
    <2>4. /\ f.item \in DOMAIN catalog /\ f.request \in Request
          /\ HasLink(f.item) /\ f.item \notin DOMAIN dereferenced
      BY <2>2, <2>3 DEF Frame
    <2>5. \A k \in 1..Len(frames) : k # 1 => frames[k].item # f.item
      BY <1>1, <2>3, NotAgain
    <2>6. TreeInv'
      BY <1>1, <2>1, TreeResolving
    <2>7. CallInv'
      <3>1. maxlinks' = Remaining(Len(frames'))
        BY <2>1, <2>2, <2>3
      <3>2. \A k \in 1..Len(frames') : frames'[k].maxlinks = Remaining(Len(frames') - k)
        <4> SUFFICES ASSUME NEW k \in 1..Len(frames')
                     PROVE  frames'[k].maxlinks = Remaining(Len(frames') - k)
          OBVIOUS
        <4>1. frames'[k].maxlinks = Remaining(Len(frames) - (k + 1))
          BY <2>2, <2>3
        <4>2. Len(frames) - (k + 1) = Len(frames') - k
          BY <2>3
        <4>3. QED BY <4>1, <4>2
      <3>3. Len(frames') <= Limit
        BY <2>2, <2>3, Bounds
      <3>4. frames' \in Seq(Frame')
        BY <2>2, <2>3 DEF Frame
      <3>5. QED BY <1>1, <2>1, <2>2, <2>4, <3>1, <3>2, <3>3, <3>4 DEF CallInv
    <2>8. LinkInv'
      <3>1. \A k \in 1..Len(frames') : HasLink(frames'[k].item) /\ frames'[k].item \notin DOMAIN dereferenced'
        <4> SUFFICES ASSUME NEW k \in 1..Len(frames')
                     PROVE  HasLink(frames'[k].item) /\ frames'[k].item \notin DOMAIN dereferenced'
          OBVIOUS
        <4>1. k + 1 \in 1..Len(frames) /\ frames'[k] = frames[k + 1] /\ k + 1 # 1
          BY <2>3
        <4>2. QED BY <2>1, <2>2, <2>5, <4>1
      <3>2. \A n \in DOMAIN dereferenced' : /\ n \in DOMAIN catalog /\ HasLink(n)
                                            /\ dereferenced'[n] \in DOMAIN catalog /\ ~HasLink(dereferenced'[n])
        BY <1>1, <2>1, <2>2, <2>4 DEF IInv, LinkInv
      <3>3. \A n : HasLink(n)' = HasLink(n)
        BY <2>2 DEF HasLink
      <3>4. QED BY <1>1, <2>1, <2>2, <3>1, <3>2, <3>3 DEF LinkInv
    <2>9. FrameInv'
      <3>1. Places' = Places /\ \A n : Begin(n)' = Begin(n)
        BY <1>1, PlacesStay
      <3>2. Moves \subseteq Moves'
        BY <1>1, <2>1, <2>4, MovesGrow
      <3> SUFFICES ASSUME NEW k \in 1..Len(frames')
                   PROVE  Reaches(Places, Moves', Begin(frames'[k].item), Reached(k)')
        BY <3>1 DEF FrameInv
      <3>3. /\ k + 1 \in 1..Len(frames) /\ frames'[k] = frames[k + 1] /\ k + 1 # 1 /\ (k + 1) - 1 = k
        BY <2>3
      <3>4. Reaches(Places, Moves', Begin(frames'[k].item), Reached(k + 1))
        BY <2>2, <3>2, <3>3, ReachesMore
      <3>5. Reached(k + 1) = <<frames[k].item, frames[k].request>>
        BY <3>3 DEF Reached
      <3>6. CASE k = 1
        <4>1. PICK i, q, n : i = f.item /\ q = f.request /\ n = self
          OBVIOUS
        <4>2. Reached(k + 1) = <<i, q>> /\ Reached(k)' = <<n, q>>
          BY <2>1, <2>3, <3>5, <3>6, <4>1 DEF Reached
        <4>3. <<<<i, q>>, <<n, q>>>> \in Moves'
          <5>1. <<i, q>> \in Places' /\ <<n, q>> \in Places'
            BY <2>2, <2>4, <3>1, <4>1 DEF Places
          <5>2. HasLink(i)' /\ i \in DOMAIN dereferenced' /\ dereferenced'[i] = n
            BY <2>1, <2>2, <2>4, <4>1 DEF HasLink
          <5>3. Moved(<<i, q>>, <<n, q>>)'
            BY <5>2 DEF Moved
          <5>4. QED BY <5>1, <5>3 DEF Moves
        <4>4. QED BY <3>4, <4>2, <4>3, ReachesFurther
      <3>7. CASE k # 1
        <4>1. k - 1 \in 1..Len(frames') /\ (k - 1) + 1 = k
          BY <2>3, <3>7
        <4>2. /\ Reached(k)' = <<frames'[k - 1].item, frames'[k - 1].request>>
              /\ frames'[k - 1] = frames[(k - 1) + 1]
          BY <2>3, <3>7, <4>1 DEF Reached
        <4>3. QED BY <3>4, <3>5, <4>1, <4>2
      <3>8. QED BY <3>6, <3>7
    <2>10. QED BY <2>6, <2>7, <2>8, <2>9 DEF IInv
  <1>4. QED BY <1>2, <1>3

-----------------------------------------------------------------------------
LEMMA NextKeeps == ASSUME IInv, [Next]_vars PROVE IInv'
  <1>1. CASE AddMissing \/ RecordChildren \/ PointHardLinks \/ MasterMissing \/ Loaded
    BY <1>1, LoadKeeps
  <1>2. CASE TooManyLinks \/ NotAnchored \/ DeadEnd
    BY <1>2, FailKeeps
  <1>3. CASE Ask
    BY <1>3, AskKeeps
  <1>4. CASE FollowAgain
    BY <1>4, FollowAgainKeeps
  <1>5. CASE Follow
    BY <1>5, FollowKeeps
  <1>6. CASE Descend
    BY <1>6, DescendKeeps
  <1>7. CASE Return
    BY <1>7, ReturnKeeps
  <1>8. CASE UNCHANGED vars
    <2>1. /\ UNCHANGED <<anchored, archive, pc, catalog, child, masters>>
          /\ UNCHANGED <<dereferenced, self, request, maxlinks, frames>>
      BY <1>8 DEF vars, tree, call
    <2>2. TreeInv'
      <3>1. /\ Origins' = Origins /\ Straight' = Straight
            /\ \A m : Group(m)' = Group(m) /\ Preferred(m)' = Preferred(m)
        BY <2>1 DEF Origins, Straight, StraightIn, Group, Preferred
      <3>2. \A m : (Untouched(m) => Untouched(m)') /\ (Kept(m) => Kept(m)')
        BY <2>1, <3>1 DEF Untouched, Kept
      <3>3. CatalogInv' /\ ChildInv'
        BY <2>1 DEF IInv, TreeInv, CatalogInv, ChildInv, Is, HasLink
      <3>4. MastersInv'
        BY <2>1, <3>1, <3>2 DEF IInv, TreeInv, MastersInv
      <3>5. QED BY <3>3, <3>4 DEF TreeInv
    <2>3. CallInv' /\ LinkInv'
      BY <2>1 DEF IInv, CallInv, LinkInv, Frame, HasLink
    <2>4. FrameInv'
      <3>1. Places' = Places /\ Moves' = Moves /\ \A n : Begin(n)' = Begin(n)
        BY <2>1, PlacesStay, MovesStay DEF tree
      <3>2. \A k : Reached(k)' = Reached(k)
        BY <2>1 DEF Reached
      <3>3. QED BY <2>1, <3>1, <3>2 DEF IInv, FrameInv
    <2>5. QED BY <2>2, <2>3, <2>4 DEF IInv
  <1>9. CASE Terminated
    BY <1>8, <1>9 DEF Terminated
  <1>10. QED BY <1>1, <1>2, <1>3, <1>4, <1>5, <1>6, <1>7, <1>8, <1>9 DEF Next

-----------------------------------------------------------------------------
LEMMA Invariance == Spec => []IInv
  <1>1. Init => IInv
    BY InitTree, InitCalls DEF IInv
  <1>2. QED BY <1>1, NextKeeps, PTL DEF Spec

LEMMA TypesFollow == IInv => TypeOK
  <1> SUFFICES ASSUME IInv PROVE TypeOK
    OBVIOUS
  <1>1. archive \in Archives /\ pc \in {"missing", "children", "hardlinks", "loaded", "resolve", "died"}
    BY DEF IInv, TreeInv, CatalogInv
  <1>2. \A n \in DOMAIN catalog : n \in Name /\ catalog[n] \in Item
    BY DEF IInv, TreeInv, CatalogInv, Proper
  <1>3. DOMAIN child \subseteq Seq(Segment) /\ \A p \in DOMAIN child : child[p] \in DOMAIN catalog
    BY DEF IInv, TreeInv, ChildInv
  <1>4. \A m \in masters : ~m.slash /\ m.path \in Seq(Segment \cup {".", ".."})
    BY DEF IInv, TreeInv, MastersInv
  <1>5. \A n \in DOMAIN dereferenced : n \in DOMAIN catalog /\ HasLink(n) /\ ~HasLink(dereferenced[n])
    BY DEF IInv, LinkInv
  <1>6. Len(frames) \in Nat /\ DOMAIN frames = 1..Len(frames)
    BY LenProperties DEF IInv, CallInv
  <1>7. pc = "resolve" => /\ self \in DOMAIN catalog /\ request \in Request
                          /\ maxlinks \in NoBudget..Limit /\ Len(frames) <= Limit
    <2> SUFFICES ASSUME pc = "resolve"
                 PROVE  /\ self \in DOMAIN catalog /\ request \in Request
                        /\ maxlinks \in NoBudget..Limit /\ Len(frames) <= Limit
      OBVIOUS
    <2>1. /\ self \in DOMAIN catalog /\ request \in Request
          /\ Len(frames) <= Limit /\ maxlinks = Remaining(Len(frames))
      BY DEF IInv, CallInv
    <2>2. maxlinks \in NoBudget..Limit
      BY <1>6, <2>1, Bounds DEF Remaining, NoBudget
    <2>3. QED BY <2>1, <2>2
  <1>8. pc # "resolve" => Len(frames) <= Limit
    BY NoFrames, Bounds DEF IInv, CallInv
  <1>9. \A k \in DOMAIN frames : HasLink(frames[k].item) /\ frames[k].item \notin DOMAIN dereferenced
    BY <1>6 DEF IInv, LinkInv
  <1>10. QED BY <1>1, <1>2, <1>3, <1>4, <1>5, <1>7, <1>8, <1>9 DEF TypeOK

\* Index.pm load, Item.pm follow and resolve_path: names, items and the paths that
\* go on are what they should be; links lead to what is no link; however links
\* lead to each other, no more calls wait for each other than the budget allows,
\* and none of them waits for a link that another has resolved in the meantime.
THEOREM TypesHold == Spec => []TypeOK
  BY Invariance, TypesFollow, PTL

\* Index.pm load: whatever the archive lists, every item has a directory, and is
\* found there but for a link and a directory of the same name.
THEOREM PlacesHold == Spec => []EveryItemHasItsPlace
  <1>1. IInv => EveryItemHasItsPlace
    <2> SUFFICES ASSUME IInv, pc \notin {"missing", "children"}, NEW n \in DOMAIN catalog \ {Root}
                 PROVE  /\ Dirname(n) \in DOMAIN catalog /\ Is(Dirname(n), "dir")
                        /\ \/ child[n.path] = n
                           \/ /\ {Plain(n.path), Folder(n.path)} \subseteq DOMAIN catalog
                              /\ child[n.path] \in {Plain(n.path), Folder(n.path)}
      BY DEF EveryItemHasItsPlace
    <2>1. Dirname(n) \in DOMAIN catalog
      BY DEF IInv, TreeInv, CatalogInv
    <2>2. Dirname(n) = Root \/ Dirname(n).slash
      BY DEF Dirname, Folder
    <2>3. QED BY <2>1, <2>2 DEF IInv, TreeInv, CatalogInv, ChildInv
  <1>2. QED BY <1>1, Invariance, PTL

\* Index.pm load: in whatever order the groups of hard links are handled, the
\* names of a file stay names of that file.
THEOREM HardLinksHold == Spec => []HardLinksKept
  <1>1. IInv => HardLinksKept
    BY DEF IInv, TreeInv, MastersInv, HardLinksKept, Origins, Kept
  <1>2. QED BY <1>1, Invariance, PTL

-----------------------------------------------------------------------------
\* What paths mean, with no bound on the steps that it takes: ResolvesAsMeant says
\* the same of Enough steps, as TLC can count them.

Mark == Segment \cup {".", "..", "/"}
Meant(c, d) == \A S : c \in S /\ (\A x \in S : Step(x) \in S) => d \in S
Point(n, path) == [at |-> n, path |-> path]
Enter(n, path) ==
    Point(IF SoftLink(n) THEN Dirname(n) ELSE n, (IF SoftLink(n) THEN Steps(catalog[n].link) ELSE <<>>) \o path)

LEMMA MeantStep == ASSUME NEW c, NEW d, Meant(c, d) PROVE Meant(c, Step(d))
  BY DEF Meant

LEMMA MeantOn == ASSUME NEW a, NEW b, NEW c, Meant(a, b), Meant(b, c) PROVE Meant(a, c)
  BY DEF Meant

LEMMA Concats ==
    /\ \A p, q \in Seq(Mark) : p \o q \in Seq(Mark) /\ <<>> \o p = p /\ p \o <<>> = p
    /\ \A p, q, r \in Seq(Mark) : (p \o q) \o r = p \o (q \o r)
  BY ConcatProperties, ConcatEmptySeq, ConcatAssociative

LEMMA Marked ==
    ASSUME NEW r \in Request
    PROVE  /\ r.path \in Seq(Mark) /\ Steps(r) \in Seq(Mark)
           /\ ~r.rooted => Steps(r) = r.path
           /\ r.rooted => Steps(r) = <<"/">> \o r.path
  <1>1. r.path \in Seq(Segment \cup {".", ".."}) /\ r.rooted \in BOOLEAN
    BY DEF Request
  <1>2. r.path \in Seq(Mark)
    <2>1. Segment \cup {".", ".."} \subseteq Mark
      BY DEF Mark
    <2>2. QED BY <1>1, <2>1, SMTT(30)
  <1>3. <<"/">> \in Seq(Mark) /\ <<>> \in Seq(Mark)
    BY DEF Mark
  <1>4. QED BY <1>1, <1>2, <1>3, Concats DEF Steps

\* The first of two parts, when there is one, is the first of the whole.
LEMMA HeadOfConcat ==
    ASSUME NEW p \in Seq(Mark), NEW q \in Seq(Mark), p # <<>>
    PROVE  p \o q # <<>> /\ Head(p \o q) = Head(p) /\ Tail(p \o q) = Tail(p) \o q
  <1>1. Head(p) \in Mark /\ Tail(p) \in Seq(Mark) /\ p = <<Head(p)>> \o Tail(p)
    BY HeadTailProperties, SMTT(30)
  <1>2. QED BY <1>1, HeadTailProperties

LEMMA DirsHaveNoLink ==
    ASSUME TreeInv, pc \notin {"missing", "children"}
    PROVE  /\ Root \in DOMAIN catalog /\ ~SoftLink(Root) /\ Is(Root, "dir")
           /\ \A n \in DOMAIN catalog : ~SoftLink(Dirname(n)) /\ Is(Dirname(n), "dir")
           /\ Nowhere \notin DOMAIN catalog
  <1>1. \A n \in DOMAIN catalog : Dirname(n) \in DOMAIN catalog /\ (Dirname(n) = Root \/ Dirname(n).slash)
    BY InTree DEF Dirname, Folder
  <1>2. QED BY <1>1, InTree DEF TreeInv, CatalogInv, Proper, SoftLink

\* The root is reached by its mark.
LEMMA StepToRoot ==
    ASSUME TreeInv, pc \notin {"missing", "children"}, NEW n \in DOMAIN catalog,
           anchored, NEW t \in Seq(Mark)
    PROVE  Step(Point(n, <<"/">> \o t)) = Point(Root, t)
  <1>1. n # Nowhere /\ ~SoftLink(Root)
    BY DirsHaveNoLink
  <1>2. <<"/">> \in Seq(Mark) /\ <<"/">> # <<>> /\ Head(<<"/">>) = "/" /\ Tail(<<"/">>) = <<>>
    BY DEF Mark
  <1>3. <<"/">> \o t # <<>> /\ Head(<<"/">> \o t) = "/" /\ Tail(<<"/">> \o t) = t
    <2>1. <<"/">> \o t # <<>> /\ Head(<<"/">> \o t) = "/" /\ Tail(<<"/">> \o t) = <<>> \o t
      BY <1>2, HeadOfConcat
    <2>2. <<>> \o t = t
      BY ConcatEmptySeq
    <2>3. QED BY <2>1, <2>2
  <1>4. QED BY <1>1, <1>3 DEF Step, Point

\* From a directory a segment leads to what it has, or to where its link goes.
LEMMA StepLeads ==
    ASSUME NEW d \in DOMAIN catalog, d # Nowhere, Is(d, "dir"),
           NEW p \in Seq(Segment \cup {".", ".."}), p # <<>>, p \in Seq(Mark), NEW t \in Seq(Mark)
    PROVE  LET n == Leads(d, Head(p)) IN
           /\ n = Nowhere => Step(Point(d, p \o t)) = Point(Nowhere, Tail(p) \o t)
           /\ n # Nowhere => Step(Point(d, p \o t)) = Enter(n, Tail(p) \o t)
  <1> DEFINE n == Leads(d, Head(p))
  <1>1. p \o t # <<>> /\ Head(p \o t) = Head(p) /\ Tail(p \o t) = Tail(p) \o t
    BY HeadOfConcat
  <1>2. Head(p) # "/"
    <2>1. Head(p) \in Segment \cup {".", ".."}
      BY HeadTailProperties
    <2>2. "/" \notin Segment
      BY IndexAssumption
    <2>3. QED BY <2>1, <2>2
  <1>3. <<>> \o (Tail(p) \o t) = Tail(p) \o t
    BY HeadTailProperties, Concats
  <1> HIDE DEF n
  <1>4. Step(Point(d, p \o t)) =
            IF n # Nowhere /\ SoftLink(n)
            THEN [at |-> Dirname(n), path |-> Steps(catalog[n].link) \o (Tail(p) \o t)]
            ELSE [at |-> n, path |-> Tail(p) \o t]
    BY <1>1, <1>2 DEF Step, Point, n
  <1>5. QED BY <1>3, <1>4 DEF Enter, Point, n

\* A symbolic link means what follow begins with.
LEMMA LinkMeans ==
    ASSUME TreeInv, pc \notin {"missing", "children"}, NEW n \in DOMAIN catalog, SoftLink(n),
           NEW t \in Seq(Mark)
    PROVE  Meant(Enter(n, t), Enter(Begin(n)[1], Steps(Begin(n)[2]) \o t))
  <1> DEFINE r == catalog[n].link
  <1>1. r \in Request /\ Steps(r) \in Seq(Mark) /\ Dirname(n) \in DOMAIN catalog
    BY Marked, InTree DEF TreeInv, CatalogInv, Item
  <1>2. Begin(n)[1] = Dirname(n) /\ Begin(n)[2] = r
    BY DEF Begin, SoftLink
  <1>3. ~SoftLink(Dirname(n))
    BY DirsHaveNoLink
  <1>4. Enter(n, t) = Point(Dirname(n), Steps(r) \o t)
    BY DEF Enter
  <1>5. <<>> \o (Steps(r) \o t) = Steps(r) \o t
    BY <1>1, Concats
  <1> HIDE DEF r
  <1>6. Enter(Dirname(n), Steps(r) \o t) = Enter(n, t)
    BY <1>3, <1>4, <1>5 DEF Enter
  <1>7. QED BY <1>2, <1>6 DEF Meant

\* A path that Descend or DeadEnd goes on by one segment means the same after it,
\* unless it was followed beyond a file.
LEMMA PathMeans ==
    ASSUME IInv, pc = "resolve", ~HasLink(self), request.path # <<>>, request.rooted => anchored,
           Is(self, "dir"), NEW t \in Seq(Mark)
    PROVE  LET n == Leads(From, Head(request.path))
               s == Tail(request.path) \o t
           IN  Meant(Enter(self, Steps(request) \o t), IF n = Nowhere THEN Point(Nowhere, s) ELSE Enter(n, s))
  <1> DEFINE p == request.path
             n == Leads(From, Head(p))
             s == Tail(p) \o t
             goal == IF n = Nowhere THEN Point(Nowhere, s) ELSE Enter(n, s)
  <1>1. /\ self \in DOMAIN catalog /\ request \in Request /\ TreeInv
        /\ p \in Seq(Segment \cup {".", ".."}) /\ p \in Seq(Mark) /\ p # <<>>
    <2>1. self \in DOMAIN catalog /\ request \in Request /\ TreeInv
      BY DEF IInv, CallInv
    <2>2. QED BY <2>1, Marked DEF Request
  <1>2. From \in DOMAIN catalog /\ From # Nowhere /\ Is(From, "dir")
    BY <1>1, FromInTree, DirsHaveNoLink DEF From
  <1>3. Step(Point(From, p \o t)) = goal
    <2> HIDE DEF p
    <2>1. QED BY <1>1, <1>2, StepLeads DEF n, s, goal
  <1>4. p \o t \in Seq(Mark) /\ <<>> \o (p \o t) = p \o t
    BY <1>1, Concats
  <1>5. CASE ~request.rooted
    <2>1. Steps(request) = p /\ From = self
      BY <1>1, <1>5, Marked DEF From
    <2>2. Steps(request) \o t = p \o t
      BY <2>1
    <2>3. Enter(self, Steps(request) \o t) = Point(From, p \o t)
      <3> HIDE DEF p
      <3>1. QED BY <1>4, <2>1, <2>2 DEF Enter, SoftLink
    <2> HIDE DEF goal
    <2>4. QED BY <1>3, <2>3 DEF Meant, goal
  <1>6. CASE request.rooted
    <2>1. Steps(request) = <<"/">> \o p /\ From = Root
      BY <1>1, <1>6, Marked DEF From
    <2>2. <<"/">> \in Seq(Mark)
      BY DEF Mark
    <2> HIDE DEF p
    <2>3. Steps(request) \o t = <<"/">> \o (p \o t) /\ Steps(request) \o t \in Seq(Mark)
      BY <1>1, <2>1, <2>2, Concats
    <2>4. Enter(self, Steps(request) \o t) = Point(self, <<"/">> \o (p \o t))
      BY <2>3, Concats DEF Enter, SoftLink
    <2>5. Step(Enter(self, Steps(request) \o t)) = Point(From, p \o t)
      BY <1>1, <1>4, <1>6, <2>1, <2>4, StepToRoot
    <2>6. Meant(Enter(self, Steps(request) \o t), Step(Point(From, p \o t)))
      BY <2>5 DEF Meant
    <2> HIDE DEF goal
    <2>7. QED BY <1>3, <2>6 DEF p, goal
  <1>7. QED BY <1>5, <1>6

\* What was asked, and where the call that follows the k-th frame, or the first
\* call, has come to, when t is still to come after that.
First == Enter(start, Steps(asked))
Arrived(k, t) ==
    IF k = 1 THEN Enter(self, Steps(request) \o t)
    ELSE Enter(frames[k - 1].item, Steps(frames[k - 1].request) \o t)

StoredMeant ==
    \A n \in DOMAIN dereferenced : \A t \in Seq(Mark) : Meant(Enter(n, t), Enter(dereferenced[n], t))
FramesMeant ==
    \A k \in 1..Len(frames) : \A t \in Seq(Mark) : Meant(Enter(frames[k].item, t), Arrived(k, t))
AllMeant ==
    \A k \in 1..Len(frames) + 1 : \E t \in Seq(Mark) :
       (k = Len(frames) + 1 => t = <<>>) /\ Meant(First, Arrived(k, t))
AnswerMeant ==
    IF answer = Nowhere THEN exhausted \/ \E t \in Seq(Mark) : Meant(First, Point(Nowhere, t))
    ELSE Meant(First, Point(answer, <<>>))

MeaningInv ==
    /\ pc \in {"missing", "children", "hardlinks", "died"} => asks = 0
    /\ ~beyond => /\ StoredMeant
                  /\ pc = "resolve" => FramesMeant /\ AllMeant
                  /\ pc = "loaded" /\ asks > 0 => AnswerMeant

LEMMA MeantStays ==
    ASSUME UNCHANGED <<anchored, catalog, child>>
    PROVE  /\ \A c, d : Meant(c, d) => Meant(c, d)'
           /\ \A n, t : Enter(n, t)' = Enter(n, t)
  <1>1. \A n, s : SoftLink(n)' = SoftLink(n) /\ Leads(n, s)' = Leads(n, s)
    BY DEF SoftLink, HasLink, Is, Leads
  <1>2. ASSUME NEW c PROVE Step(c)' = Step(c)
    <2>1. anchored' = anchored /\ \A n : Is(n, "dir")' = Is(n, "dir")
      BY DEF Is
    <2> DEFINE s == Head(c.path)
               n == IF s = "/" THEN IF anchored THEN Root ELSE Nowhere
                    ELSE IF Is(c.at, "dir") THEN Leads(c.at, s) ELSE Nowhere
               next(m) == IF m # Nowhere /\ SoftLink(m)
                          THEN [at |-> Dirname(m), path |-> Steps(catalog[m].link) \o Tail(c.path)]
                          ELSE [at |-> m, path |-> Tail(c.path)]
    <2>2. n' = n /\ \A m : next(m)' = next(m)
      <3>1. n' = n
        BY <1>1, <2>1
      <3>2. ASSUME NEW m PROVE next(m)' = next(m)
        BY <1>1
      <3>3. QED BY <3>1, <3>2
    <2>3. Step(c) = IF c.at = Nowhere \/ c.path = <<>> THEN c ELSE next(n)
      BY DEF Step
    <2>4. Step(c)' = IF c.at = Nowhere \/ c.path = <<>> THEN c ELSE next(n)'
      BY DEF Step
    <2>5. next(n)' = next(n)
      <3>1. PICK m : m = n
        OBVIOUS
      <3> HIDE DEF n
      <3>2. next(m)' = next(m) /\ m = n /\ m = n'
        BY <2>2, <3>1
      <3> HIDE DEF next
      <3>3. QED BY <3>2
    <2> HIDE DEF n, next
    <2>6. QED BY <2>3, <2>4, <2>5
  <1>3. \A c, d : Meant(c, d) => Meant(c, d)'
    <2>1. \A c : Step(c)' = Step(c)
      BY <1>2
    <2> HIDE <1>1, <1>2
    <2>2. QED BY <2>1 DEF Meant
  <1>4. \A n, t : Enter(n, t)' = Enter(n, t)
    BY <1>1 DEF Enter, Point
  <1>5. QED BY <1>3, <1>4

LEMMA StoredStays ==
    ASSUME UNCHANGED <<anchored, catalog, child, dereferenced>>, StoredMeant PROVE StoredMeant'
  BY MeantStays DEF StoredMeant

\* Within one call: what is to come means the same from the new place.
LEMMA MoveMeans ==
    ASSUME UNCHANGED <<anchored, catalog, child, frames, start, asked>>, FramesMeant, AllMeant,
           \A t \in Seq(Mark) : Meant(Enter(self, Steps(request) \o t), Enter(self', Steps(request') \o t))
    PROVE  FramesMeant' /\ AllMeant'
  <1>1. /\ \A c, d : Meant(c, d) => Meant(c, d)'
        /\ \A n, t : Enter(n, t)' = Enter(n, t)
    BY MeantStays
  <1>2. ASSUME NEW k, NEW t \in Seq(Mark) PROVE Meant(Arrived(k, t), Arrived(k, t)')
    <2>1. CASE k = 1
      BY <1>1, <2>1 DEF Arrived
    <2>2. CASE k # 1
      <3>1. Arrived(k, t)' = Arrived(k, t)
        BY <1>1, <2>2 DEF Arrived
      <3>2. QED BY <3>1 DEF Meant
    <2>3. QED BY <2>1, <2>2
  <1>3. FramesMeant'
    <2>1. ASSUME NEW k \in 1..Len(frames), NEW t \in Seq(Mark)
          PROVE  Meant(Enter(frames[k].item, t), Arrived(k, t)')
      BY <1>2, MeantOn DEF FramesMeant
    <2>2. QED BY <1>1, <2>1 DEF FramesMeant
  <1>4. AllMeant'
    <2>1. First' = First
      BY <1>1 DEF First
    <2>2. ASSUME NEW k \in 1..Len(frames) + 1
          PROVE  \E t \in Seq(Mark) : (k = Len(frames) + 1 => t = <<>>) /\ Meant(First, Arrived(k, t)')
      <3>1. PICK t \in Seq(Mark) : (k = Len(frames) + 1 => t = <<>>) /\ Meant(First, Arrived(k, t))
        BY DEF AllMeant
      <3>2. Meant(First, Arrived(k, t)')
        BY <1>2, <3>1, MeantOn
      <3>3. QED BY <3>1, <3>2
    <2>3. QED BY <1>1, <2>1, <2>2 DEF AllMeant
  <1>5. QED BY <1>3, <1>4

LEMMA FollowAgainMeans == ASSUME IInv, MeaningInv, FollowAgain PROVE MeaningInv'
  <1>1. /\ pc = "resolve" /\ pc' = "resolve" /\ self' = dereferenced[self] /\ request' = request
        /\ self \in DOMAIN dereferenced
        /\ UNCHANGED <<anchored, catalog, child, dereferenced, frames, start, asked, beyond>>
    BY DEF FollowAgain, tree, history
  <1> SUFFICES ASSUME ~beyond PROVE StoredMeant' /\ FramesMeant' /\ AllMeant'
    BY <1>1 DEF MeaningInv
  <1>2. StoredMeant /\ FramesMeant /\ AllMeant
    BY <1>1 DEF MeaningInv
  <1>3. ASSUME NEW t \in Seq(Mark)
        PROVE  Meant(Enter(self, Steps(request) \o t), Enter(self', Steps(request') \o t))
    <2>1. Steps(request) \o t \in Seq(Mark)
      BY <1>1, Marked, Concats DEF IInv, CallInv
    <2>2. QED BY <1>1, <1>2, <2>1 DEF StoredMeant
  <1>4. QED BY <1>1, <1>2, <1>3, MoveMeans, StoredStays

LEMMA DescendMeans == ASSUME IInv, MeaningInv, Descend PROVE MeaningInv'
  <1>1. /\ pc = "resolve" /\ pc' = "resolve" /\ ~HasLink(self) /\ (request.rooted => anchored)
        /\ request.path # <<>> /\ Leads(From, Head(request.path)) # Nowhere
        /\ self' = Leads(From, Head(request.path))
        /\ request' = [rooted |-> FALSE, path |-> Tail(request.path)]
        /\ beyond' = Beyond
        /\ UNCHANGED <<anchored, catalog, child, dereferenced, frames, start, asked>>
    BY DEF Descend, Walking, tree
  <1> SUFFICES ASSUME ~beyond' PROVE StoredMeant' /\ FramesMeant' /\ AllMeant'
    BY <1>1 DEF MeaningInv
  <1>2. ~beyond /\ Is(self, "dir")
    <2>1. ~Beyond
      BY <1>1
    <2>2. request # Empty
      BY <1>1 DEF Empty
    <2>3. QED BY <2>1, <2>2 DEF Beyond
  <1>3. StoredMeant /\ FramesMeant /\ AllMeant
    BY <1>1, <1>2 DEF MeaningInv
  <1>4. Steps(request') = Tail(request.path)
    <2>1. request \in Request
      BY <1>1 DEF IInv, CallInv
    <2>2. Tail(request.path) \in Seq(Mark)
      BY <1>1, <2>1, Marked, HeadTailProperties
    <2>3. <<>> \o Tail(request.path) = Tail(request.path)
      BY <2>2, Concats
    <2>4. QED BY <1>1, <2>3 DEF Steps
  <1>5. ASSUME NEW t \in Seq(Mark)
        PROVE  Meant(Enter(self, Steps(request) \o t), Enter(self', Steps(request') \o t))
    BY <1>1, <1>2, <1>4, PathMeans
  <1>6. QED BY <1>1, <1>3, <1>5, MoveMeans, StoredStays

LEMMA FollowMeans == ASSUME IInv, MeaningInv, Follow PROVE MeaningInv'
  <1> DEFINE f == [item |-> self, request |-> request, maxlinks |-> maxlinks]
  <1>1. /\ pc = "resolve" /\ pc' = "resolve" /\ HasLink(self)
        /\ frames' = <<f>> \o frames /\ self' = Begin(self)[1] /\ request' = Begin(self)[2]
        /\ beyond' = (beyond \/ Is(self, "hardlink"))
        /\ UNCHANGED <<anchored, catalog, child, dereferenced, start, asked>>
    BY DEF Follow, Reference, Begin, tree
  <1> SUFFICES ASSUME ~beyond' PROVE StoredMeant' /\ FramesMeant' /\ AllMeant'
    BY <1>1 DEF MeaningInv
  <1>2. StoredMeant /\ FramesMeant /\ AllMeant /\ SoftLink(self)
    BY <1>1 DEF MeaningInv, SoftLink
  <1>3. /\ TreeInv /\ self \in DOMAIN catalog /\ request \in Request
        /\ frames \in Seq(Frame) /\ maxlinks = Remaining(Len(frames))
    BY <1>1 DEF IInv, CallInv
  <1>4. /\ Len(frames) \in Nat /\ Len(frames') = Len(frames) + 1 /\ frames'[1] = f
        /\ \A k \in 1..Len(frames) : frames'[k + 1] = frames[k]
    <2>1. Len(frames) \in Nat /\ Limit \in Nat
      BY <1>3, Bounds, LenProperties
    <2>2. f \in Frame
      BY <1>3, <2>1 DEF Frame, Remaining, NoBudget
    <2> HIDE DEF f
    <2>3. QED BY <1>1, <1>3, <2>1, <2>2, Push
  <1>5. f.item = self /\ f.request = request
    OBVIOUS
  <1> HIDE DEF f
  <1>6. /\ \A c, d : Meant(c, d) => Meant(c, d)'
        /\ \A n, t : Enter(n, t)' = Enter(n, t)
        /\ First' = First
    BY <1>1, MeantStays DEF First
  <1>7. \A k \in 1..Len(frames') + 1 : k # 1 => /\ k - 1 \in 1..Len(frames) + 1
                                                /\ k \in 1..Len(frames') => /\ k - 1 \in 1..Len(frames)
                                                                            /\ frames'[k] = frames[k - 1]
    <2> SUFFICES ASSUME NEW k \in 1..Len(frames') + 1, k # 1
                 PROVE  /\ k - 1 \in 1..Len(frames) + 1
                        /\ k \in 1..Len(frames') => k - 1 \in 1..Len(frames) /\ frames'[k] = frames[k - 1]
      OBVIOUS
    <2>1. /\ k - 1 \in 1..Len(frames) + 1 /\ (k - 1) + 1 = k
          /\ k \in 1..Len(frames') => k - 1 \in 1..Len(frames)
      BY <1>4
    <2>2. QED BY <1>4, <2>1
  <1>8. ASSUME NEW k \in 1..Len(frames') + 1, k # 1, NEW t PROVE Arrived(k, t)' = Arrived(k - 1, t)
    <2>1. Arrived(k, t)' = Enter(frames'[k - 1].item, Steps(frames'[k - 1].request) \o t)
      BY <1>6, <1>8 DEF Arrived
    <2>2. CASE k - 1 = 1
      <3>1. frames'[k - 1] = f
        BY <1>4, <2>2
      <3>2. QED BY <1>5, <2>1, <2>2, <3>1 DEF Arrived
    <2>3. CASE k - 1 # 1
      <3>1. k - 1 \in 1..Len(frames') /\ k - 1 \in 1..Len(frames') + 1
        BY <1>4, <1>8
      <3>2. frames'[k - 1] = frames[(k - 1) - 1]
        BY <1>7, <2>3, <3>1
      <3>3. QED BY <2>1, <2>3, <3>2 DEF Arrived
    <2>4. QED BY <2>2, <2>3
  <1>9. ASSUME NEW t \in Seq(Mark) PROVE Meant(Enter(self, t), Arrived(1, t)')
    <2>1. Arrived(1, t)' = Enter(Begin(self)[1], Steps(Begin(self)[2]) \o t)
      BY <1>1, <1>6 DEF Arrived
    <2>2. QED BY <1>1, <1>2, <1>3, <2>1, LinkMeans
  <1>10. FramesMeant'
    <2>1. ASSUME NEW k \in 1..Len(frames'), NEW t \in Seq(Mark)
          PROVE  Meant(Enter(frames'[k].item, t), Arrived(k, t)')
      <3>1. CASE k = 1
        BY <1>4, <1>5, <1>9, <3>1
      <3>2. CASE k # 1
        <4>1. k \in 1..Len(frames') + 1
          BY <1>4
        <4>2. k - 1 \in 1..Len(frames) /\ frames'[k] = frames[k - 1] /\ Arrived(k, t)' = Arrived(k - 1, t)
          BY <1>7, <1>8, <3>2, <4>1
        <4>3. QED BY <1>2, <4>2 DEF FramesMeant
      <3>3. QED BY <3>1, <3>2
    <2>2. QED BY <1>6, <2>1 DEF FramesMeant
  <1>11. AllMeant'
    <2>1. ASSUME NEW k \in 1..Len(frames') + 1
          PROVE  \E t \in Seq(Mark) : (k = Len(frames') + 1 => t = <<>>) /\ Meant(First, Arrived(k, t)')
      <3>1. CASE k = 1
        <4>1. 1 \in 1..Len(frames) + 1 /\ k # Len(frames') + 1
          BY <1>4, <3>1
        <4>2. PICK t \in Seq(Mark) : Meant(First, Arrived(1, t))
          BY <1>2, <4>1 DEF AllMeant
        <4>3. Steps(request) \o t \in Seq(Mark) /\ Arrived(1, t) = Enter(self, Steps(request) \o t)
          BY <1>3, Marked, Concats DEF Arrived
        <4>4. PICK u \in Seq(Mark) : u = Steps(request) \o t
          BY <4>3
        <4>5. Meant(First, Arrived(1, u)')
          BY <1>9, <4>2, <4>3, <4>4, MeantOn
        <4>6. QED BY <3>1, <4>1, <4>5
      <3>2. CASE k # 1
        <4>1. k - 1 \in 1..Len(frames) + 1 /\ (k = Len(frames') + 1 => k - 1 = Len(frames) + 1)
          BY <1>4, <3>2
        <4>2. PICK t \in Seq(Mark) : (k - 1 = Len(frames) + 1 => t = <<>>) /\ Meant(First, Arrived(k - 1, t))
          BY <1>2, <4>1 DEF AllMeant
        <4>3. QED BY <1>8, <3>2, <4>1, <4>2
      <3>3. QED BY <3>1, <3>2
    <2>2. QED BY <1>6, <2>1 DEF AllMeant
  <1>12. QED BY <1>1, <1>2, <1>10, <1>11, StoredStays

\* The same place, the path after it put together in another way.
LEMMA NothingMore ==
    ASSUME request \in Request, request.path = <<>>, ~request.rooted, ~HasLink(self), NEW t \in Seq(Mark)
    PROVE  Enter(self, Steps(request) \o t) = Enter(self, t) /\ Enter(self, t) = Point(self, t)
  <1>1. Steps(request) = <<>>
    BY Marked
  <1>2. <<>> \o t = t
    BY Concats
  <1>3. Steps(request) \o t = t
    BY <1>1, <1>2
  <1> HIDE <1>1
  <1>4. QED BY <1>2, <1>3 DEF Enter, SoftLink

LEMMA ReturnMeans == ASSUME IInv, MeaningInv, Return PROVE MeaningInv'
  <1>1. /\ pc = "resolve" /\ ~HasLink(self) /\ request.path = <<>> /\ beyond' = Beyond
        /\ UNCHANGED <<anchored, catalog, child, start, asked, asks, exhausted>>
    BY DEF Return, Walking, tree
  <1>2. /\ request \in Request /\ self \in DOMAIN catalog /\ frames \in Seq(Frame) /\ Len(frames) \in Nat
        /\ TreeInv
    BY <1>1, LenProperties DEF IInv, CallInv
  <1>3. pc' \in {"loaded", "resolve"} /\ (pc' = "resolve" <=> frames # <<>>)
    BY <1>1 DEF Return
  <1> SUFFICES ASSUME ~beyond'
               PROVE  /\ StoredMeant'
                      /\ frames # <<>> => FramesMeant' /\ AllMeant'
                      /\ frames = <<>> => AnswerMeant'
    BY <1>3 DEF MeaningInv
  <1>4. ~beyond /\ ~request.rooted
    <2>1. ~Beyond
      BY <1>1
    <2>2. request # [rooted |-> TRUE, path |-> <<>>] /\ ~beyond
      BY <2>1 DEF Beyond
    <2>3. QED BY <1>1, <1>2, <2>2 DEF Request
  <1>5. StoredMeant /\ FramesMeant /\ AllMeant
    BY <1>1, <1>4 DEF MeaningInv
  <1>6. \A t \in Seq(Mark) : Arrived(1, t) = Enter(self, t)
    BY <1>1, <1>2, <1>4, NothingMore DEF Arrived
  <1>7. /\ \A c, d : Meant(c, d) => Meant(c, d)'
        /\ \A n, t : Enter(n, t)' = Enter(n, t)
        /\ First' = First
    BY <1>1, MeantStays DEF First
  <1>8. CASE frames = <<>>
    <2>1. answer' = self /\ UNCHANGED dereferenced
      BY <1>8 DEF Return
    <2>2. PICK t \in Seq(Mark) : t = <<>> /\ Meant(First, Arrived(1, t))
      <3>1. Len(frames) = 0 /\ 1 \in 1..Len(frames) + 1
        BY <1>8, NoFrames
      <3>2. QED BY <1>5, <3>1 DEF AllMeant
    <2>3. Meant(First, Point(self, <<>>))
      BY <1>1, <1>2, <1>4, <1>6, <2>2, NothingMore
    <2>4. self # Nowhere
      BY <1>2 DEF TreeInv, CatalogInv, Proper
    <2>5. AnswerMeant'
      BY <1>7, <2>1, <2>3, <2>4 DEF AnswerMeant, Point
    <2>6. QED BY <1>1, <1>5, <1>8, <2>1, <2>5, StoredStays
  <1>9. CASE frames # <<>>
    <2> DEFINE f == frames[1]
    <2>1. /\ self' = self /\ request' = f.request /\ frames' = Tail(frames)
          /\ dereferenced' = [n \in DOMAIN dereferenced \cup {f.item} |->
                                 IF n = f.item THEN self ELSE dereferenced[n]]
      BY <1>9 DEF Return
    <2>2. /\ Len(frames') = Len(frames) - 1 /\ Len(frames) > 0 /\ f \in Frame
          /\ \A k \in 1..Len(frames') : frames'[k] = frames[k + 1]
      <3>1. /\ Len(frames') = Len(frames) - 1 /\ f \in Frame
            /\ \A k \in 1..Len(frames') : frames'[k] = frames[k + 1]
        BY <1>2, <1>9, <2>1, HeadTailProperties
      <3>2. Len(frames) > 0
        BY <1>2, <1>9, EmptySeq
      <3>3. QED BY <3>1, <3>2
    <2> HIDE DEF f
    <2>3. ASSUME NEW t \in Seq(Mark) PROVE Meant(Enter(f.item, t), Enter(self, t))
      <3>1. 1 \in 1..Len(frames)
        BY <1>2, <2>2
      <3>2. QED BY <1>5, <1>6, <3>1 DEF FramesMeant, f
    <2>4. ASSUME NEW k \in 1..Len(frames') + 1, NEW t \in Seq(Mark)
          PROVE  Meant(Arrived(k + 1, t), Arrived(k, t)')
      <3>1. k + 1 # 1 /\ (k + 1) - 1 = k
        BY <1>2, <2>2
      <3>2. Arrived(k + 1, t) = Enter(frames[k].item, Steps(frames[k].request) \o t)
        BY <3>1 DEF Arrived
      <3>3. CASE k = 1
        <4>1. Steps(f.request) \o t \in Seq(Mark)
          BY <2>2, Marked, Concats DEF Frame
        <4>2. Arrived(k, t)' = Enter(self, Steps(f.request) \o t)
          BY <1>7, <2>1, <3>3 DEF Arrived
        <4>3. Arrived(k + 1, t) = Enter(f.item, Steps(f.request) \o t)
          BY <3>2, <3>3 DEF f
        <4>4. QED BY <2>3, <4>1, <4>2, <4>3
      <3>4. CASE k # 1
        <4>1. k - 1 \in 1..Len(frames') /\ (k - 1) + 1 = k
          BY <1>2, <2>2, <3>4
        <4>2. frames'[k - 1] = frames[k]
          BY <2>2, <4>1
        <4>3. Arrived(k, t)' = Arrived(k + 1, t)
          BY <1>7, <3>2, <3>4, <4>2 DEF Arrived
        <4>4. QED BY <4>3 DEF Meant
      <3>5. QED BY <3>3, <3>4
    <2>5. StoredMeant'
      <3>1. ASSUME NEW n \in DOMAIN dereferenced', NEW t \in Seq(Mark)
            PROVE  Meant(Enter(n, t), Enter(dereferenced'[n], t))
        BY <1>5, <2>1, <2>3 DEF StoredMeant
      <3>2. QED BY <1>7, <3>1 DEF StoredMeant
    <2>6. FramesMeant'
      <3>1. ASSUME NEW k \in 1..Len(frames'), NEW t \in Seq(Mark)
            PROVE  Meant(Enter(frames'[k].item, t), Arrived(k, t)')
        <4>1. frames'[k] = frames[k + 1] /\ k + 1 \in 1..Len(frames) /\ k \in 1..Len(frames') + 1
          BY <1>2, <2>2
        <4>2. Meant(Enter(frames'[k].item, t), Arrived(k + 1, t))
          BY <1>5, <4>1 DEF FramesMeant
        <4>3. QED BY <2>4, <4>1, <4>2, MeantOn
      <3>2. QED BY <1>7, <3>1 DEF FramesMeant
    <2>7. AllMeant'
      <3>1. ASSUME NEW k \in 1..Len(frames') + 1
            PROVE  \E t \in Seq(Mark) : (k = Len(frames') + 1 => t = <<>>) /\ Meant(First, Arrived(k, t)')
        <4>1. k + 1 \in 1..Len(frames) + 1 /\ (k = Len(frames') + 1 => k + 1 = Len(frames) + 1)
          BY <1>2, <2>2
        <4>2. PICK t \in Seq(Mark) : (k + 1 = Len(frames) + 1 => t = <<>>) /\ Meant(First, Arrived(k + 1, t))
          BY <1>5, <4>1 DEF AllMeant
        <4>3. Meant(First, Arrived(k, t)')
          BY <2>4, <4>2, MeantOn
        <4>4. QED BY <4>1, <4>2, <4>3
      <3>2. QED BY <1>7, <3>1 DEF AllMeant
    <2>8. QED BY <1>9, <2>5, <2>6, <2>7
  <1>10. QED BY <1>8, <1>9

-----------------------------------------------------------------------------
\* The other steps: nothing is asked yet, a question is asked, or there is no answer.

LEMMA InitMeans == Init => MeaningInv
  BY DEF Init, MeaningInv, StoredMeant

LEMMA LoadMeans ==
    ASSUME IInv, MeaningInv, AddMissing \/ RecordChildren \/ PointHardLinks \/ MasterMissing \/ Loaded
    PROVE  MeaningInv'
  <1>1. /\ pc \in {"missing", "children", "hardlinks"} /\ pc' # "resolve"
        /\ UNCHANGED <<dereferenced, asks>>
    BY DEF AddMissing, RecordChildren, PointHardLinks, MasterMissing, Loaded, history
  <1>2. DOMAIN dereferenced' = {}
    BY <1>1 DEF IInv, LinkInv
  <1>3. asks' = 0
    BY <1>1 DEF MeaningInv
  <1>4. StoredMeant'
    BY <1>2 DEF StoredMeant
  <1>5. QED BY <1>1, <1>3, <1>4 DEF MeaningInv

LEMMA AskMeans == ASSUME IInv, MeaningInv, Ask PROVE MeaningInv'
  <1>1. /\ pc = "loaded" /\ pc' = "resolve" /\ frames' = <<>>
        /\ self' = start' /\ request' = asked' /\ asked' \in Request
        /\ UNCHANGED <<anchored, catalog, child, dereferenced, beyond>>
    BY Bounds DEF Ask, tree
  <1> SUFFICES ASSUME ~beyond PROVE StoredMeant' /\ FramesMeant' /\ AllMeant'
    BY <1>1 DEF MeaningInv
  <1>2. StoredMeant'
    BY <1>1, StoredStays DEF MeaningInv
  <1>3. Len(frames') = 0
    BY <1>1, NoFrames
  <1>4. FramesMeant'
    BY <1>3 DEF FramesMeant
  <1>5. <<>> \in Seq(Mark) /\ Steps(asked') \o <<>> = Steps(asked')
    BY <1>1, Marked, Concats, NoFrames
  <1>6. Arrived(1, <<>>)' = First'
    BY <1>1, <1>5 DEF Arrived, First
  <1>7. Meant(First', Arrived(1, <<>>)')
    BY <1>6 DEF Meant
  <1>8. AllMeant'
    <2>1. \A c, d : Meant(c, d) => Meant(c, d)'
      BY <1>1, MeantStays
    <2>2. \A k \in 1..Len(frames') + 1 : k = 1
      BY <1>3
    <2>3. Meant(First, Arrived(1, <<>>))'
      BY <1>7, <2>1
    <2>4. QED BY <1>3, <1>5, <2>2, <2>3 DEF AllMeant
  <1>9. QED BY <1>2, <1>4, <1>8

\* There is no answer where the path leads nowhere.
LEMMA NowhereMeans ==
    ASSUME IInv, pc = "resolve", UNCHANGED <<anchored, catalog, child, start, asked>>, answer' = Nowhere,
           AllMeant,
           \A t \in Seq(Mark) : \E u \in Seq(Mark) : Meant(Enter(self, Steps(request) \o t), Point(Nowhere, u))
    PROVE  AnswerMeant'
  <1>1. /\ \A c, d : Meant(c, d) => Meant(c, d)'
        /\ \A n, t : Enter(n, t)' = Enter(n, t)
        /\ First' = First
    BY MeantStays DEF First
  <1>2. 1 \in 1..Len(frames) + 1
    BY LenProperties DEF IInv, CallInv
  <1>3. PICK t \in Seq(Mark) : Meant(First, Arrived(1, t))
    BY <1>2 DEF AllMeant
  <1>4. PICK u \in Seq(Mark) : Meant(Enter(self, Steps(request) \o t), Point(Nowhere, u))
    OBVIOUS
  <1>5. Meant(First, Point(Nowhere, u))
    BY <1>3, <1>4, MeantOn DEF Arrived
  <1>6. Point(Nowhere, u)' = Point(Nowhere, u)
    BY DEF Point
  <1>7. QED BY <1>1, <1>5, <1>6 DEF AnswerMeant

LEMMA FailMeans == ASSUME IInv, MeaningInv, TooManyLinks \/ NotAnchored \/ DeadEnd PROVE MeaningInv'
  <1>1. /\ pc = "resolve" /\ pc' = "loaded" /\ answer' = Nowhere
        /\ UNCHANGED <<anchored, catalog, child, dereferenced, start, asked>>
        /\ beyond' = beyond \/ beyond' = Beyond
    BY DEF TooManyLinks, NotAnchored, DeadEnd, Walking, Fail, tree
  <1> SUFFICES ASSUME ~beyond' PROVE StoredMeant' /\ AnswerMeant'
    BY <1>1 DEF MeaningInv
  <1>2. StoredMeant /\ AllMeant
    <2>1. ~beyond
      BY <1>1 DEF Beyond
    <2>2. QED BY <1>1, <2>1 DEF MeaningInv
  <1>3. StoredMeant'
    BY <1>1, <1>2, StoredStays
  <1>4. /\ TreeInv /\ self \in DOMAIN catalog /\ self # Nowhere
        /\ request \in Request /\ request.path \in Seq(Mark)
    BY <1>1, DirsHaveNoLink, Marked DEF IInv, CallInv
  <1>5. CASE TooManyLinks
    BY <1>1, <1>3, <1>5 DEF TooManyLinks, AnswerMeant
  <1>6. CASE NotAnchored
    <2>1. request.rooted /\ ~anchored /\ ~HasLink(self)
      BY <1>6 DEF NotAnchored
    <2>2. ASSUME NEW t \in Seq(Mark)
          PROVE  \E u \in Seq(Mark) : Meant(Enter(self, Steps(request) \o t), Point(Nowhere, u))
      <3> DEFINE u == request.path \o t
      <3>1. u \in Seq(Mark)
        BY <1>4, Concats
      <3>2. <<"/">> \in Seq(Mark) /\ <<"/">> # <<>> /\ Head(<<"/">>) = "/" /\ Tail(<<"/">>) = <<>>
        BY DEF Mark
      <3>3. Steps(request) \o t = <<"/">> \o u
        <4>1. Steps(request) = <<"/">> \o request.path
          BY <1>4, <2>1, Marked
        <4>2. (<<"/">> \o request.path) \o t = <<"/">> \o u
          <5>1. PICK m \in Seq(Mark), p \in Seq(Mark) : m = <<"/">> /\ p = request.path
            BY <1>4, <3>2
          <5>2. (m \o p) \o t = m \o (p \o t)
            BY Concats
          <5>3. QED BY <5>1, <5>2
        <4>3. QED BY <4>1, <4>2
      <3> HIDE DEF u
      <3>4. Steps(request) \o t \in Seq(Mark) /\ <<>> \o u = u
        BY <3>1, <3>2, <3>3, Concats
      <3>5. <<"/">> \o u # <<>> /\ Head(<<"/">> \o u) = "/" /\ Tail(<<"/">> \o u) = u
        BY <3>1, <3>2, HeadOfConcat
      <3>6. Enter(self, Steps(request) \o t) = Point(self, <<"/">> \o u)
        BY <2>1, <3>3, <3>4, Concats DEF Enter, SoftLink
      <3>7. Step(Point(self, <<"/">> \o u)) = Point(Nowhere, u)
        BY <1>4, <2>1, <3>5 DEF Step, Point
      <3>8. QED BY <3>1, <3>6, <3>7 DEF Meant
    <2>3. QED BY <1>1, <1>2, <1>3, <2>2, NowhereMeans
  <1>7. CASE DeadEnd
    <2>1. /\ ~HasLink(self) /\ (request.rooted => anchored) /\ request.path # <<>> /\ beyond' = Beyond
          /\ Leads(From, Head(request.path)) = Nowhere
      BY <1>7 DEF DeadEnd, Walking
    <2>2. Is(self, "dir")
      <3>1. ~Beyond
        BY <2>1
      <3>2. request # Empty
        BY <2>1 DEF Empty
      <3>3. QED BY <3>1, <3>2 DEF Beyond
    <2>3. ASSUME NEW t \in Seq(Mark)
          PROVE  \E u \in Seq(Mark) : Meant(Enter(self, Steps(request) \o t), Point(Nowhere, u))
      <3>1. Tail(request.path) \o t \in Seq(Mark)
        BY <1>4, <2>1, HeadTailProperties, Concats
      <3>2. Meant(Enter(self, Steps(request) \o t), Point(Nowhere, Tail(request.path) \o t))
        BY <1>1, <2>1, <2>2, PathMeans
      <3>3. QED BY <3>1, <3>2
    <2>4. QED BY <1>1, <1>2, <1>3, <2>3, NowhereMeans
  <1>8. QED BY <1>5, <1>6, <1>7

LEMMA NextMeans == ASSUME IInv, MeaningInv, [Next]_vars PROVE MeaningInv'
  <1>1. CASE AddMissing \/ RecordChildren \/ PointHardLinks \/ MasterMissing \/ Loaded
    BY <1>1, LoadMeans
  <1>2. CASE TooManyLinks \/ NotAnchored \/ DeadEnd
    BY <1>2, FailMeans
  <1>3. CASE Ask
    BY <1>3, AskMeans
  <1>4. CASE FollowAgain
    BY <1>4, FollowAgainMeans
  <1>5. CASE Follow
    BY <1>5, FollowMeans
  <1>6. CASE Descend
    BY <1>6, DescendMeans
  <1>7. CASE Return
    BY <1>7, ReturnMeans
  <1>8. CASE UNCHANGED vars
    <2>1. /\ UNCHANGED <<anchored, catalog, child, dereferenced, self, request, frames>>
          /\ UNCHANGED <<pc, answer, start, asked, asks, exhausted, beyond>>
      BY <1>8 DEF vars, tree, call, history
    <2> SUFFICES ASSUME ~beyond
                 PROVE  /\ StoredMeant'
                        /\ pc = "resolve" => FramesMeant' /\ AllMeant'
                        /\ pc = "loaded" /\ asks > 0 => AnswerMeant'
      BY <2>1 DEF MeaningInv
    <2>2. StoredMeant'
      BY <2>1, StoredStays DEF MeaningInv
    <2>3. ASSUME pc = "resolve" PROVE FramesMeant' /\ AllMeant'
      <3>1. FramesMeant /\ AllMeant
        BY <2>3 DEF MeaningInv
      <3>2. \A t \in Seq(Mark) : Meant(Enter(self, Steps(request) \o t), Enter(self', Steps(request') \o t))
        BY <2>1 DEF Meant
      <3>3. QED BY <2>1, <3>1, <3>2, MoveMeans
    <2>4. ASSUME pc = "loaded" /\ asks > 0 PROVE AnswerMeant'
      <3>1. /\ \A c, d : Meant(c, d) => Meant(c, d)'
            /\ First' = First
        BY <2>1, MeantStays DEF First
      <3>2. AnswerMeant
        BY <2>4 DEF MeaningInv
      <3>3. QED BY <2>1, <3>1, <3>2 DEF AnswerMeant, Point
    <2>5. QED BY <2>2, <2>3, <2>4
  <1>9. CASE Terminated
    BY <1>8, <1>9 DEF Terminated
  <1>10. QED BY <1>1, <1>2, <1>3, <1>4, <1>5, <1>6, <1>7, <1>8, <1>9 DEF Next

-----------------------------------------------------------------------------
\* A path means one thing at most: the steps that it takes go on in one way, and
\* those that lead to an end lead to no other.

Spots == [at : DOMAIN catalog \cup {Nowhere}, path : Seq(Mark)]
AskedInv == asks > 0 => start \in DOMAIN catalog /\ asked \in Request

LEMMA EnterSpots ==
    ASSUME TreeInv, pc \notin {"missing", "children"}, NEW n \in DOMAIN catalog, NEW t \in Seq(Mark)
    PROVE  Enter(n, t) \in Spots
  <1>1. Dirname(n) \in DOMAIN catalog
    BY InTree
  <1>2. Steps(catalog[n].link) \o t \in Seq(Mark)
    <2>1. Steps(catalog[n].link) \in Seq(Mark)
      BY Marked DEF TreeInv, CatalogInv, Item
    <2>2. QED BY <2>1, Concats
  <1>3. <<>> \o t = t
    BY Concats
  <1>4. QED BY <1>1, <1>2, <1>3 DEF Enter, Point, Spots

LEMMA StepsInSpots ==
    ASSUME TreeInv, pc \notin {"missing", "children"}, NEW c \in Spots PROVE Step(c) \in Spots
  <1>1. CASE c.at = Nowhere \/ c.path = <<>>
    BY <1>1 DEF Step
  <1>2. CASE ~(c.at = Nowhere \/ c.path = <<>>)
    <2> DEFINE s == Head(c.path)
               n == IF s = "/" THEN IF anchored THEN Root ELSE Nowhere
                    ELSE IF Is(c.at, "dir") THEN Leads(c.at, s) ELSE Nowhere
    <2>1. c.at \in DOMAIN catalog /\ c.path \in Seq(Mark) /\ Tail(c.path) \in Seq(Mark)
      BY <1>2, HeadTailProperties DEF Spots
    <2>2. n \in DOMAIN catalog \cup {Nowhere}
      <3> HIDE DEF s
      <3>1. QED BY <2>1, InTree
    <2>3. Step(c) = IF n # Nowhere /\ SoftLink(n)
                    THEN [at |-> Dirname(n), path |-> Steps(catalog[n].link) \o Tail(c.path)]
                    ELSE [at |-> n, path |-> Tail(c.path)]
      BY <1>2 DEF Step
    <2> HIDE DEF n
    <2>4. CASE n # Nowhere /\ SoftLink(n)
      <3>1. Step(c) = Enter(n, Tail(c.path))
        BY <2>3, <2>4 DEF Enter, Point
      <3>2. QED BY <2>1, <2>2, <2>4, <3>1, EnterSpots
    <2>5. CASE ~(n # Nowhere /\ SoftLink(n))
      BY <2>1, <2>2, <2>3, <2>5 DEF Spots
    <2>6. QED BY <2>4, <2>5
  <1>3. QED BY <1>1, <1>2

\* What leads to an end still does one step later.
LEMMA StillMeant ==
    ASSUME NEW c, NEW d, Meant(c, d), Step(d) = d PROVE Meant(Step(c), d)
  <1> SUFFICES ASSUME NEW S, Step(c) \in S, \A x \in S : Step(x) \in S PROVE d \in S
    BY DEF Meant
  <1>1. \A x \in S \cup {c} : Step(x) \in S \cup {c}
    OBVIOUS
  <1>2. d \in S \cup {c}
    BY <1>1 DEF Meant
  <1>3. QED BY <1>2

LEMMA OneMeaning ==
    ASSUME TreeInv, pc \notin {"missing", "children"}, NEW c \in Spots, NEW d, NEW e,
           Meant(c, d), Meant(c, e), Step(d) = d, Step(e) = e
    PROVE  d = e /\ d \in Spots
  <1> DEFINE S == {x \in Spots : Meant(x, d)}
  <1>1. c \in S /\ \A x \in S : Step(x) \in S
    BY StepsInSpots, StillMeant
  <1>2. e \in S
    BY <1>1 DEF Meant
  <1>3. Meant(e, d) /\ e \in {e} /\ \A x \in {e} : Step(x) \in {e}
    BY <1>2
  <1>4. d \in {e}
    BY <1>3 DEF Meant
  <1>5. QED BY <1>2, <1>4

LEMMA AskedKept == ASSUME IInv, MeaningInv, AskedInv, [Next]_vars PROVE AskedInv'
  <1>1. CASE AddMissing \/ RecordChildren \/ PointHardLinks \/ MasterMissing \/ Loaded
    <2>1. pc \in {"missing", "children", "hardlinks"} /\ asks' = asks
      BY <1>1 DEF AddMissing, RecordChildren, PointHardLinks, MasterMissing, Loaded, history
    <2>2. asks' = 0
      BY <2>1 DEF MeaningInv
    <2>3. QED BY <2>2 DEF AskedInv
  <1>2. CASE Ask
    BY <1>2, Bounds DEF Ask, AskedInv, tree
  <1>3. CASE UNCHANGED <<catalog, start, asked, asks>>
    BY <1>3 DEF AskedInv
  <1>4. CASE TooManyLinks \/ NotAnchored \/ DeadEnd
    BY <1>3, <1>4 DEF TooManyLinks, NotAnchored, DeadEnd, Fail, tree
  <1>5. CASE FollowAgain \/ Follow \/ Descend \/ Return
    BY <1>3, <1>5 DEF FollowAgain, Follow, Descend, Return, tree, history
  <1>6. CASE Terminated \/ UNCHANGED vars
    BY <1>3, <1>6 DEF Terminated, vars, tree, history
  <1>7. QED BY <1>1, <1>2, <1>4, <1>5, <1>6 DEF Next

\* Item.pm resolve_path: what comes out is what the path means when its links are
\* replaced one after the other, and nothing else is; and when nothing comes out,
\* the path means nothing, or the budget of links was spent.  Left out is, as in
\* ResolvesAsMeant, an index in which a path was followed beyond a file, was the
\* root alone, or a hard link was followed.
AnswersAsMeant ==
    pc = "loaded" /\ asks > 0 /\ ~beyond =>
        IF answer = Nowhere THEN exhausted \/ \A n \in DOMAIN catalog : ~Meant(First, Point(n, <<>>))
        ELSE answer \in DOMAIN catalog /\ \A n \in DOMAIN catalog : Meant(First, Point(n, <<>>)) <=> n = answer

LEMMA MeaningFollows == IInv /\ MeaningInv /\ AskedInv => AnswersAsMeant
  <1> SUFFICES ASSUME IInv, MeaningInv, AskedInv, pc = "loaded", asks > 0, ~beyond
               PROVE  IF answer = Nowhere
                      THEN exhausted \/ \A n \in DOMAIN catalog : ~Meant(First, Point(n, <<>>))
                      ELSE /\ answer \in DOMAIN catalog
                           /\ \A n \in DOMAIN catalog : Meant(First, Point(n, <<>>)) <=> n = answer
    BY DEF AnswersAsMeant
  <1>1. TreeInv /\ pc \notin {"missing", "children"} /\ AnswerMeant
    BY DEF IInv, MeaningInv
  <1>2. First \in Spots
    BY <1>1, Marked, EnterSpots DEF AskedInv, First
  <1>3. \A n : Step(Point(n, <<>>)) = Point(n, <<>>)
    BY DEF Step, Point
  <1>4. \A t : Step(Point(Nowhere, t)) = Point(Nowhere, t)
    BY DEF Step, Point
  <1>5. CASE answer = Nowhere
    <2> SUFFICES ASSUME ~exhausted, NEW n \in DOMAIN catalog, Meant(First, Point(n, <<>>)) PROVE FALSE
      BY <1>5
    <2>1. PICK t \in Seq(Mark) : Meant(First, Point(Nowhere, t))
      BY <1>1, <1>5 DEF AnswerMeant
    <2>2. Point(n, <<>>) = Point(Nowhere, t)
      BY <1>1, <1>2, <1>3, <1>4, <2>1, OneMeaning
    <2>3. n = Nowhere
      BY <2>2 DEF Point
    <2>4. QED BY <1>1, <2>3, DirsHaveNoLink
  <1>6. CASE answer # Nowhere
    <2>1. Meant(First, Point(answer, <<>>))
      BY <1>1, <1>6 DEF AnswerMeant
    <2>2. Point(answer, <<>>) \in Spots
      BY <1>1, <1>2, <1>3, <2>1, OneMeaning
    <2>3. answer \in DOMAIN catalog
      BY <1>6, <2>2 DEF Point, Spots
    <2>4. ASSUME NEW n \in DOMAIN catalog, Meant(First, Point(n, <<>>)) PROVE n = answer
      <3>1. Point(n, <<>>) = Point(answer, <<>>)
        BY <1>1, <1>2, <1>3, <2>1, <2>4, OneMeaning
      <3>2. QED BY <3>1 DEF Point
    <2>5. QED BY <1>6, <2>1, <2>3, <2>4
  <1>7. QED BY <1>5, <1>6

\* Item.pm follow and resolve_path: whatever was asked before, and is stored with
\* the links by now, the answers are what the paths mean.
THEOREM AnswersHold == Spec => []AnswersAsMeant
  <1>1. Init => MeaningInv /\ AskedInv
    BY InitMeans DEF Init, AskedInv
  <1>2. IInv /\ MeaningInv /\ AskedInv /\ [Next]_vars => MeaningInv' /\ AskedInv'
    BY NextMeans, AskedKept
  <1>3. QED BY <1>1, <1>2, Invariance, MeaningFollows, PTL DEF Spec

-----------------------------------------------------------------------------
\* The same with as many steps as TLC takes, where these are enough.

LEMMA WalkIs ==
    ASSUME NEW c, NEW N \in Nat
    PROVE  \E g : g = [k \in 0..N |-> IF k = 0 THEN c ELSE Step(g[k - 1])]
  <1> DEFINE Walk(n, g) == g = [k \in 0..n |-> IF k = 0 THEN c ELSE Step(g[k - 1])]
             Short == {n \in Nat : ~\E g : Walk(n, g)}
  <1>1. ASSUME Short # {} PROVE FALSE
    <2>1. PICK m \in Short : \A n \in Short : m <= n
      BY <1>1, Smallest
    <2>2. m # 0
      <3>1. [k \in 0..0 |-> c] = [k \in 0..0 |-> IF k = 0 THEN c ELSE Step([j \in 0..0 |-> c][k - 1])]
        OBVIOUS
      <3>2. Walk(0, [k \in 0..0 |-> c])
        BY <3>1
      <3>3. QED BY <3>2
    <2>3. m - 1 \in Nat /\ m - 1 \notin Short
      BY <2>1, <2>2
    <2>4. PICK g : Walk(m - 1, g)
      BY <2>3
    <2> DEFINE h == [k \in 0..m |-> IF k = m THEN Step(g[m - 1]) ELSE g[k]]
    <2>5. ASSUME NEW k \in 0..m PROVE h[k] = IF k = 0 THEN c ELSE Step(h[k - 1])
      <3>1. CASE k = m
        BY <2>2, <2>3, <3>1
      <3>2. CASE k # m
        <4>1. k \in 0..m - 1 /\ (k # 0 => k - 1 \in 0..m /\ k - 1 # m)
          BY <2>3, <3>2
        <4>2. g[k] = IF k = 0 THEN c ELSE Step(g[k - 1])
          BY <2>4, <4>1
        <4>3. h[k] = g[k] /\ (k # 0 => h[k - 1] = g[k - 1])
          BY <3>2, <4>1
        <4>4. QED BY <4>2, <4>3
      <3>3. QED BY <3>1, <3>2
    <2>6. Walk(m, h)
      BY <2>5
    <2>7. QED BY <2>1, <2>6
  <1>2. QED BY <1>1

LEMMA WalkedMeant == ASSUME NEW c PROVE Meant(c, Walked(c))
  <1> DEFINE N == Enough
  <1>1. N \in Nat
    BY DEF Enough
  <1> DEFINE g == CHOOSE g : g = [k \in 0..N |-> IF k = 0 THEN c ELSE Step(g[k - 1])]
             Lost == {k \in 0..N : ~Meant(c, g[k])}
  <1>2. Walked(c) = g[N]
    BY DEF Walked
  <1> HIDE DEF N
  <1>3. g = [k \in 0..N |-> IF k = 0 THEN c ELSE Step(g[k - 1])]
    BY <1>1, WalkIs
  <1> HIDE DEF g
  <1>4. \A k : k \in Lost <=> k \in 0..N /\ ~Meant(c, g[k])
    OBVIOUS
  <1> HIDE DEF Lost
  <1>5. ASSUME Lost # {} PROVE FALSE
    <2>1. PICK m \in Lost : \A n \in Lost : m <= n
      <3>1. Lost \in SUBSET Nat
        BY <1>1, <1>4
      <3>2. QED BY <1>5, <3>1, Smallest
    <2>2. m \in 0..N /\ ~Meant(c, g[m])
      BY <1>4, <2>1
    <2>3. m # 0
      BY <1>1, <1>3, <2>2 DEF Meant
    <2>4. m - 1 \in 0..N /\ m - 1 \notin Lost
      BY <1>1, <2>1, <2>2, <2>3
    <2>5. Meant(c, g[m - 1])
      BY <1>4, <2>4
    <2>6. g[m] = Step(g[m - 1])
      BY <1>1, <1>3, <2>2, <2>3
    <2>7. QED BY <2>2, <2>5, <2>6, MeantStep
  <1>6. QED BY <1>1, <1>2, <1>4, <1>5

\* The steps that Meaning takes have come to an end.
EnoughSteps == Walked(First).path = <<>> \/ Walked(First).at = Nowhere

LEMMA ResolvesFollows ==
    ASSUME IInv, MeaningInv, AskedInv, AnswersAsMeant, answer = Nowhere \/ EnoughSteps
    PROVE  ResolvesAsMeant
  <1> DEFINE last == Walked(First)
  <1> SUFFICES ASSUME pc = "loaded", asks > 0, ~beyond
               PROVE  IF answer = Nowhere THEN exhausted \/ Meaning(start, asked) = Nowhere
                      ELSE answer = Meaning(start, asked)
    BY DEF ResolvesAsMeant
  <1>1. TreeInv /\ pc \notin {"missing", "children"}
    BY DEF IInv
  <1>2. First \in Spots
    BY <1>1, Marked, EnterSpots DEF AskedInv, First
  <1>3. Steps(asked) \in Seq(Mark) /\ start \in DOMAIN catalog
    BY Marked DEF AskedInv
  <1>4. First = IF SoftLink(start)
                THEN [at |-> Dirname(start), path |-> Steps(catalog[start].link) \o Steps(asked)]
                ELSE [at |-> start, path |-> Steps(asked)]
    BY <1>3, Concats DEF First, Enter, Point
  <1>5. Meaning(start, asked) = IF last.path = <<>> THEN last.at ELSE Nowhere
    BY <1>4 DEF Meaning
  <1>6. Meant(First, last)
    BY WalkedMeant
  <1> HIDE DEF last
  <1>7. CASE last.path = <<>> \/ last.at = Nowhere
    <2>1. Step(last) = last
      BY <1>7 DEF Step
    <2>2. last \in Spots
      BY <1>1, <1>2, <1>6, <2>1, OneMeaning
    <2>3. CASE answer = Nowhere /\ ~exhausted
      <3>1. \A n \in DOMAIN catalog : ~Meant(First, Point(n, <<>>))
        BY <2>3 DEF AnswersAsMeant
      <3>2. last.path = <<>> => last = Point(last.at, <<>>)
        BY <2>2 DEF Spots, Point
      <3>3. last.at \in DOMAIN catalog => last.path # <<>>
        BY <1>6, <3>1, <3>2
      <3>4. QED BY <1>5, <2>2, <2>3, <3>3 DEF Spots
    <2>4. CASE answer # Nowhere
      <3>1. answer \in DOMAIN catalog /\ Meant(First, Point(answer, <<>>))
        BY <2>4 DEF AnswersAsMeant
      <3>2. Step(Point(answer, <<>>)) = Point(answer, <<>>)
        BY DEF Step, Point
      <3>3. last = Point(answer, <<>>)
        BY <1>1, <1>2, <1>6, <2>1, <3>1, <3>2, OneMeaning
      <3>4. QED BY <1>5, <2>4, <3>3 DEF Point
    <2>5. QED BY <2>3, <2>4
  <1>8. CASE ~(last.path = <<>> \/ last.at = Nowhere)
    <2>1. answer = Nowhere
      BY <1>8 DEF EnoughSteps, last
    <2>2. QED BY <1>5, <1>8, <2>1
  <1>9. QED BY <1>7, <1>8

\* Item.pm follow and resolve_path, once more, and with the meaning as TLC counts
\* it out: the answer is what Meaning says, wherever an answer that was given is
\* one that so many steps come to; and where none was given, in any case.
THEOREM ResolvesHold == Spec => [](answer = Nowhere \/ EnoughSteps => ResolvesAsMeant)
  <1>1. Init => MeaningInv /\ AskedInv
    BY InitMeans DEF Init, AskedInv
  <1>2. IInv /\ MeaningInv /\ AskedInv /\ [Next]_vars => MeaningInv' /\ AskedInv'
    BY NextMeans, AskedKept
  <1>3. IInv /\ MeaningInv /\ AskedInv => (answer = Nowhere \/ EnoughSteps => ResolvesAsMeant)
    BY MeaningFollows, ResolvesFollows
  <1>4. QED BY <1>1, <1>2, <1>3, Invariance, PTL DEF Spec

-----------------------------------------------------------------------------
\* Paths that begin with others.

LEMMA Joined ==
    ASSUME NEW p \in Seq(Segment), NEW q \in Seq(Segment)
    PROVE  /\ p \o q \in Seq(Segment) /\ Len(p) \in Nat /\ Len(q) \in Nat /\ Len(p \o q) = Len(p) + Len(q)
           /\ SubSeq(p \o q, 1, Len(p)) = p
           /\ SubSeq(p \o q, Len(p) + 1, Len(p \o q)) = q
           /\ <<>> \o p = p /\ p \o <<>> = p
           /\ p # <<>> => p \o q # <<>> /\ (p \o q)[1] = p[1]
           /\ q # <<>> => p \o q # <<>> /\ p \o q # p
  <1>1. /\ p \o q \in Seq(Segment) /\ Len(p) \in Nat /\ Len(q) \in Nat /\ Len(p \o q) = Len(p) + Len(q)
        /\ \A i \in 1..Len(p) + Len(q) : (p \o q)[i] = IF i <= Len(p) THEN p[i] ELSE q[i - Len(p)]
        /\ \A i \in 1..Len(p) : p[i] \in Segment
        /\ \A i \in 1..Len(q) : q[i] \in Segment
    BY ConcatProperties, LenProperties, ElementOfSeq
  <1>2. SubSeq(p \o q, 1, Len(p)) = p
    <2> DEFINE s == SubSeq(p \o q, 1, Len(p))
    <2>1. \A i \in 1..Len(p) : (p \o q)[i] = p[i] /\ p[i] \in Segment
      BY <1>1
    <2>2. /\ s \in Seq(Segment) /\ Len(s) = (IF 1 <= Len(p) THEN Len(p) - 1 + 1 ELSE 0)
          /\ \A i \in 1..Len(p) - 1 + 1 : s[i] = (p \o q)[1 + i - 1]
      BY <1>1, <2>1, SubSeqProperties
    <2> HIDE DEF s
    <2>3. Len(s) = Len(p)
      BY <1>1, <2>2
    <2>4. \A i \in 1..Len(s) : s[i] = p[i]
      BY <1>1, <2>1, <2>2, <2>3
    <2>5. QED BY <2>2, <2>3, <2>4, SeqEqual DEF s
  <1>3. SubSeq(p \o q, Len(p) + 1, Len(p \o q)) = q
    <2> DEFINE s == SubSeq(p \o q, Len(p) + 1, Len(p) + Len(q))
    <2>1. \A i \in Len(p) + 1..Len(p) + Len(q) : (p \o q)[i] = q[i - Len(p)] /\ q[i - Len(p)] \in Segment
      BY <1>1
    <2>2. /\ s \in Seq(Segment)
          /\ Len(s) = (IF Len(p) + 1 <= Len(p) + Len(q) THEN Len(p) + Len(q) - (Len(p) + 1) + 1 ELSE 0)
          /\ \A i \in 1..Len(p) + Len(q) - (Len(p) + 1) + 1 : s[i] = (p \o q)[Len(p) + 1 + i - 1]
      BY <1>1, <2>1, SubSeqProperties
    <2> HIDE DEF s
    <2>3. Len(s) = Len(q)
      BY <1>1, <2>2
    <2>4. ASSUME NEW i \in 1..Len(s) PROVE s[i] = q[i]
      <3>1. i \in Nat /\ i >= 1 /\ i <= Len(q)
        BY <1>1, <2>3
      <3>2. /\ i \in 1..Len(p) + Len(q) - (Len(p) + 1) + 1 /\ Len(p) + 1 + i - 1 = Len(p) + i
            /\ Len(p) + i \in Len(p) + 1..Len(p) + Len(q) /\ Len(p) + i - Len(p) = i
        BY <1>1, <3>1
      <3>3. s[i] = (p \o q)[Len(p) + i]
        BY <2>2, <3>2
      <3>4. (p \o q)[Len(p) + i] = q[Len(p) + i - Len(p)]
        BY <2>1, <3>2
      <3>5. QED BY <3>2, <3>3, <3>4
    <2>5. QED BY <1>1, <2>2, <2>3, <2>4, SeqEqual DEF s
  <1>4. <<>> \o p = p /\ p \o <<>> = p
    BY ConcatEmptySeq
  <1>5. p # <<>> => p \o q # <<>> /\ (p \o q)[1] = p[1]
    <2>1. p # <<>> => Len(p) > 0
      BY <1>1, Empties
    <2>2. p # <<>> => 1 <= Len(p) /\ 1 \in 1..Len(p) + Len(q) /\ Len(p \o q) # 0
      BY <1>1, <2>1
    <2>3. QED BY <1>1, <2>2, Empties
  <1>6. q # <<>> => p \o q # <<>> /\ p \o q # p
    BY <1>1, ConcatEqualIffEmpty
  <1>7. QED BY <1>1, <1>2, <1>3, <1>4, <1>5, <1>6

LEMMA Cancelled == \A p, q, r \in Seq(Segment) : p \o q = p \o r => q = r
  BY ConcatSimplifications

Regroup(p, q, r) == (p \o q) \o r = p \o (q \o r)
LEMMA Regrouped == \A p, q, r \in Seq(Segment) : Regroup(p, q, r)
  <1> TAKE p, q, r \in Seq(Segment)
  <1>1. (p \o q) \o r = p \o (q \o r)
    BY ConcatAssociative, SMTT(40)
  <1>2. QED BY <1>1 DEF Regroup

\* A path and its beginning of a given length.
LEMMA Parted ==
    ASSUME NEW p \in Seq(Segment), NEW k \in Nat, k <= Len(p)
    PROVE  /\ SubSeq(p, 1, k) \in Seq(Segment) /\ SubSeq(p, k + 1, Len(p)) \in Seq(Segment)
           /\ Len(SubSeq(p, 1, k)) = k /\ p = SubSeq(p, 1, k) \o SubSeq(p, k + 1, Len(p))
  <1>1. Len(p) \in Nat /\ \A i \in 1..Len(p) : p[i] \in Segment
    BY LenProperties, ElementOfSeq
  <1>2. SubSeq(p, 1, k) \in Seq(Segment) /\ Len(SubSeq(p, 1, k)) = k
    <2>1. \A i \in 1..k : p[i] \in Segment
      BY <1>1
    <2>2. SubSeq(p, 1, k) \in Seq(Segment) /\ Len(SubSeq(p, 1, k)) = IF 1 <= k THEN k - 1 + 1 ELSE 0
      BY <2>1, SubSeqProperties
    <2>3. QED BY <2>2
  <1>3. SubSeq(p, k + 1, Len(p)) \in Seq(Segment)
    <2>1. \A i \in k + 1..Len(p) : p[i] \in Segment
      BY <1>1
    <2>2. k + 1 \in Int /\ Len(p) \in Int
      BY <1>1
    <2>3. QED BY <2>1, <2>2, SubSeqProperties
  <1>4. p = SubSeq(p, 1, k) \o SubSeq(p, k + 1, Len(p))
    <2>1. 1 \in 1..Len(p) + 1 /\ k \in 1 - 1..Len(p) /\ Len(p) \in k..Len(p)
      BY <1>1
    <2>2. SubSeq(p, 1, k) \o SubSeq(p, k + 1, Len(p)) = SubSeq(p, 1, Len(p))
      BY <2>1, ConcatAdjacentSubSeq
    <2>3. QED BY <2>2, SubSeqFull
  <1>5. QED BY <1>2, <1>3, <1>4

LEMMA WithinIs ==
    ASSUME NEW p \in Seq(Segment), NEW q \in Seq(Segment)
    PROVE  Within(p, q) <=> \E r \in Seq(Segment) : q = p \o r
  <1>1. ASSUME Within(p, q) PROVE \E r \in Seq(Segment) : q = p \o r
    <2>1. Len(p) \in Nat /\ Len(p) <= Len(q) /\ SubSeq(q, 1, Len(p)) = p
      BY <1>1, LenProperties DEF Within
    <2>2. /\ SubSeq(q, Len(p) + 1, Len(q)) \in Seq(Segment)
          /\ q = SubSeq(q, 1, Len(p)) \o SubSeq(q, Len(p) + 1, Len(q))
      BY <2>1, Parted
    <2>3. QED BY <2>1, <2>2
  <1>2. ASSUME NEW r \in Seq(Segment), q = p \o r PROVE Within(p, q)
    <2>1. Len(p) \in Nat /\ Len(r) \in Nat /\ Len(q) = Len(p) + Len(r) /\ SubSeq(q, 1, Len(p)) = p
      BY <1>2, Joined
    <2>2. QED BY <2>1 DEF Within
  <1>3. QED BY <1>1, <1>2

LEMMA ParentsAre ==
    ASSUME NEW p \in Seq(Segment)
    PROVE  /\ \A q \in Parents(p) : /\ q \in Seq(Segment) /\ q # <<>>
                                    /\ \E r \in Seq(Segment) : r # <<>> /\ p = q \o r
           /\ \A q, r \in Seq(Segment) : q # <<>> /\ r # <<>> /\ p = q \o r => q \in Parents(p)
  <1>1. ASSUME NEW q \in Parents(p)
        PROVE  q \in Seq(Segment) /\ q # <<>> /\ \E r \in Seq(Segment) : r # <<>> /\ p = q \o r
    <2>1. PICK k \in 1..Len(p) - 1 : q = SubSeq(p, 1, k)
      BY DEF Parents
    <2>2. k \in Nat /\ k <= Len(p) /\ k > 0 /\ k # Len(p) /\ Len(p) \in Nat
      BY LenProperties
    <2>3. PICK r \in Seq(Segment) : q \in Seq(Segment) /\ Len(q) = k /\ p = q \o r
      BY <2>1, <2>2, Parted
    <2>4. q # <<>> /\ r # <<>>
      <3>1. Len(p) = Len(q) + Len(r) /\ Len(r) \in Nat
        BY <2>3, Joined
      <3>2. Len(q) # 0 /\ Len(r) # 0
        BY <2>2, <2>3, <3>1
      <3>3. QED BY <2>3, <3>2, Empties
    <2>5. QED BY <2>3, <2>4
  <1>2. ASSUME NEW q \in Seq(Segment), NEW r \in Seq(Segment), q # <<>>, r # <<>>, p = q \o r
        PROVE  q \in Parents(p)
    <2>1. /\ Len(q) \in Nat /\ Len(r) \in Nat /\ Len(p) = Len(q) + Len(r) /\ SubSeq(p, 1, Len(q)) = q
          /\ Len(q) # 0 /\ Len(r) # 0
      BY <1>2, Joined, Empties
    <2>2. Len(q) \in 1..Len(p) - 1
      BY <2>1
    <2>3. QED BY <2>1, <2>2 DEF Parents
  <1>3. QED BY <1>1, <1>2

\* Of two beginnings of a path, the shorter begins the longer.
LEMMA TwoBeginnings ==
    ASSUME NEW p \in Seq(Segment), NEW q \in Seq(Segment), NEW r \in Seq(Segment),
           Within(p, r), Within(q, r), Len(p) <= Len(q)
    PROVE  Within(p, q)
  <1>1. PICK s \in Seq(Segment) : q \o s = r
    BY WithinIs
  <1>2. /\ Len(p) \in Nat /\ Len(q) \in Nat /\ SubSeq(r, 1, Len(p)) = p
        /\ \A i \in 1..Len(p) : p[i] \in Segment
    BY LenProperties, ElementOfSeq DEF Within
  <1> DEFINE x == SubSeq(q, 1, Len(p))
             y == SubSeq(q, Len(p) + 1, Len(q))
  <1>3. x \in Seq(Segment) /\ y \in Seq(Segment) /\ Len(x) = Len(p) /\ q = x \o y
    BY <1>2, Parted
  <1> HIDE DEF x, y
  <1>4. r = x \o (y \o s) /\ y \o s \in Seq(Segment)
    <2>1. (x \o y) \o s = x \o (y \o s)
      <3>1. x \in Seq(Segment) /\ y \in Seq(Segment)
        BY <1>3
      <3>2. Regroup(x, y, s)
        BY <3>1, Regrouped
      <3>3. QED BY <3>2 DEF Regroup
    <2>2. y \o s \in Seq(Segment)
      BY <1>3, Joined
    <2>3. QED BY <1>1, <1>3, <2>1, <2>2
  <1>5. SubSeq(x \o (y \o s), 1, Len(x)) = x
    BY <1>3, <1>4, Joined
  <1>6. x = p
    BY <1>2, <1>3, <1>4, <1>5
  <1>7. q = p \o y /\ y \in Seq(Segment)
    BY <1>3, <1>6
  <1>8. QED BY <1>7, WithinIs, ZenonT(30)

LEMMA ParentsOfParents ==
    ASSUME NEW p \in Seq(Segment), NEW q \in Parents(p), NEW r \in Parents(q)
    PROVE  r \in Parents(p)
  <1>1. PICK s \in Seq(Segment) : q \in Seq(Segment) /\ q # <<>> /\ s # <<>> /\ p = q \o s
    BY ParentsAre
  <1>2. PICK t \in Seq(Segment) : r \in Seq(Segment) /\ r # <<>> /\ t # <<>> /\ q = r \o t
    BY <1>1, ParentsAre
  <1>3. p = r \o (t \o s)
    <2>1. r \in Seq(Segment)
      BY <1>2
    <2>2. (r \o t) \o s = r \o (t \o s)
      <3>1. Regroup(r, t, s)
        BY <2>1, Regrouped
      <3>2. QED BY <3>1 DEF Regroup
    <2>3. QED BY <1>1, <1>2, <2>2
  <1>4. t \o s \in Seq(Segment) /\ t \o s # <<>>
    BY <1>1, <1>2, Joined
  <1>5. QED BY <1>2, <1>3, <1>4, ParentsAre

\* What is above a path in a directory is that directory, or in it above the path.
PartWay(b, p, q) == \E e, r \in Seq(Segment) : e # <<>> /\ r # <<>> /\ q = b \o e /\ p = e \o r
LEMMA ParentsBelow ==
    ASSUME NEW b \in Seq(Segment), Len(b) <= 1, NEW p \in Seq(Segment), NEW q \in Parents(b \o p), q # b
    PROVE  PartWay(b, p, q)
  <1>1. b \o p \in Seq(Segment)
    BY Joined
  <1>2. PICK r \in Seq(Segment) : q \in Seq(Segment) /\ q # <<>> /\ r # <<>> /\ b \o p = q \o r
    BY <1>1, ParentsAre
  <1>3. Len(b) <= Len(q)
    <2>1. Len(q) \in Nat /\ Len(q) # 0 /\ Len(b) \in Nat
      BY <1>2, Joined, Empties
    <2>2. QED BY <2>1
  <1>4. PICK e \in Seq(Segment) : q = b \o e
    <2>1. Within(b, b \o p) /\ Within(q, b \o p)
      BY <1>1, <1>2, WithinIs
    <2>2. QED BY <1>1, <1>2, <1>3, <2>1, TwoBeginnings, WithinIs
  <1>5. e # <<>>
    BY <1>4, Joined
  <1>6. p = e \o r
    <2>1. b \o p = b \o (e \o r)
      <3>1. Regroup(b, e, r)
        BY <1>2, <1>4, Regrouped
      <3>2. QED BY <1>2, <1>4, <3>1 DEF Regroup
    <2>2. e \o r \in Seq(Segment)
      BY <1>2, Joined
    <2>3. QED BY <2>1, <2>2, Cancelled
  <1>7. QED BY <1>2, <1>4, <1>5, <1>6 DEF PartWay

-----------------------------------------------------------------------------
\* What is on disk, and how the names of a catalog stand for it.

Alike(i, j) == i.type = j.type /\ i.size = j.size
At(b, n) == [path |-> b \o n.path, slash |-> n.slash]
NameIn(d, p) == IF d[p].type = {"dir"} THEN Folder(p) ELSE Plain(p)

\* Whatever is there is in a directory that is there.
Standing(d) ==
    \A p \in DOMAIN d : /\ p \in Seq(Segment) /\ p # <<>>
                        /\ d[p].type = {"dir"} => d[p] = Faux
                        /\ \A q \in Parents(p) : q \in DOMAIN d /\ d[q] = Faux

\* The names of an index that is loaded from a list.
WholeOf(list) == DOMAIN list \cup {Root} \cup UNION {Above(m) : m \in DOMAIN list}
TreeOf(list) == \A n, m \in DOMAIN list : ~n.slash /\ n # Root /\ m # n => ~Within(n.path, m.path)
LeadsOn(list, n) == "hardlink" \in list[n].type => Plain(list[n].link.path) \in DOMAIN list

LEMMA ListingMore ==
    ASSUME NEW a \in Archives, NEW n \in DOMAIN a
    PROVE  /\ n \in Proper
           /\ n = Root \/ n.slash => Alike(a[n], Faux) /\ "hardlink" \notin a[n].type
           /\ ~(n = Root \/ n.slash) => a[n].type # {"dir"}
           /\ "hardlink" \in a[n].type => Plain(a[n].link.path) # Root
  <1>1. n \in Proper /\ a[n] \in Entry /\ (n = Root \/ n.slash <=> a[n].type = {"dir"})
    BY IndexAssumption DEF Proper
  <1>2. n = Root \/ n.slash => Alike(a[n], Faux) /\ "hardlink" \notin a[n].type
    <2> SUFFICES ASSUME n = Root \/ n.slash PROVE Alike(a[n], Faux) /\ "hardlink" \notin a[n].type
      OBVIOUS
    <2>1. a[n].type = {"dir"} /\ {"dir"} # {"file"}
      BY <1>1
    <2>2. a[n].size = 0
      BY <1>1, <2>1 DEF Entry
    <2>3. QED BY <2>1, <2>2 DEF Alike, Faux
  <1>3. "hardlink" \in a[n].type => Plain(a[n].link.path) # Root
    <2> SUFFICES ASSUME "hardlink" \in a[n].type, a[n].link.path = <<>> PROVE FALSE
      BY DEF Plain, Root
    <2>1. a[n].type = {"hardlink"} /\ ~a[n].link.rooted /\ a[n] \in Item
      BY Listing
    <2>2. a[n].link \in Request /\ a[n].link # Empty
      BY <1>1, <2>1 DEF Entry, Item
    <2>3. a[n].link = [rooted |-> FALSE, path |-> <<>>]
      BY <2>1, <2>2 DEF Request
    <2>4. QED BY <2>2, <2>3 DEF Empty
  <1>4. QED BY <1>1, <1>2, <1>3

\* The names of a list with those of the directories above them.
LEMMA WholeNames ==
    ASSUME NEW list \in Archives, NEW n \in WholeOf(list)
    PROVE  /\ n \in Proper
           /\ n \notin DOMAIN list => n = Root \/ n.slash
           /\ n \notin DOMAIN list /\ n # Root =>
                 \E m \in DOMAIN list \ {Root}, r \in Seq(Segment) : r # <<>> /\ m.path = n.path \o r
  <1>1. \A m \in DOMAIN list : m \in Proper
    BY ListingMore
  <1>2. CASE n \in DOMAIN list \cup {Root}
    BY <1>1, <1>2, RootProper
  <1>3. ASSUME n \notin DOMAIN list \cup {Root}
        PROVE  /\ n \in Proper /\ (n = Root \/ n.slash)
               /\ \E m \in DOMAIN list \ {Root}, r \in Seq(Segment) : r # <<>> /\ m.path = n.path \o r
    <2>1. PICK m \in DOMAIN list : n \in Above(m)
      BY <1>3 DEF WholeOf
    <2>2. m \in Proper /\ m.path \in Seq(Segment) /\ n \in Proper /\ (n = Root \/ n.slash)
      BY <1>1, <2>1, AboveClosed, Names
    <2>3. PICK k \in 0..Len(m.path) - 1 : n = Folder(SubSeq(m.path, 1, k))
      BY <2>1 DEF Above
    <2>4. /\ k \in Nat /\ k <= Len(m.path) /\ k # Len(m.path) /\ Len(m.path) \in Nat
      BY <2>2, <2>3, LenProperties
    <2> DEFINE r == SubSeq(m.path, k + 1, Len(m.path))
    <2>5. /\ SubSeq(m.path, 1, k) \in Seq(Segment) /\ r \in Seq(Segment)
          /\ Len(SubSeq(m.path, 1, k)) = k /\ m.path = SubSeq(m.path, 1, k) \o r
      BY <2>2, <2>4, Parted
    <2>6. n.path = SubSeq(m.path, 1, k)
      BY <2>3, <2>5, Folders
    <2> HIDE DEF r
    <2>7. r # <<>>
      BY <2>4, <2>5, Joined
    <2>8. m # Root
      <3>1. m.path # <<>>
        BY <2>5, <2>7, Joined
      <3>2. QED BY <3>1 DEF Root
    <2>9. QED BY <2>2, <2>5, <2>6, <2>7, <2>8
  <1>4. QED BY <1>2, <1>3

\* A beginning of a name of the list is the name of a directory.
LEMMA WholeClosed ==
    ASSUME NEW list \in Archives, NEW n \in DOMAIN list, NEW q \in Seq(Segment), NEW r \in Seq(Segment),
           q # <<>>, r # <<>>, n.path = q \o r
    PROVE  Folder(q) \in WholeOf(list) \ {Root} /\ Folder(q).path = q /\ Folder(q).slash
  <1>1. /\ Len(q) \in Nat /\ Len(r) \in Nat /\ Len(n.path) = Len(q) + Len(r)
        /\ SubSeq(n.path, 1, Len(q)) = q /\ Len(r) # 0
    BY Joined, Empties
  <1>2. Len(q) \in 0..Len(n.path) - 1
    BY <1>1
  <1>3. Folder(q) \in Above(n)
    BY <1>1, <1>2 DEF Above
  <1>4. Folder(q).path = q /\ Folder(q) # Root /\ Folder(q).slash
    BY Folders
  <1>5. QED BY <1>3, <1>4 DEF WholeOf

LEMMA ContentIs ==
    ASSUME NEW list \in Archives, NEW n \in DOMAIN list, ~n.slash, n # Root, LeadsOn(list, n)
    PROVE  Content(list, n).type # {"dir"}
  <1>1. list[n].type # {"dir"}
    BY ListingMore
  <1>2. ASSUME "hardlink" \in list[n].type PROVE list[Plain(list[n].link.path)].type # {"dir"}
    <2> DEFINE m == Plain(list[n].link.path)
    <2>1. m \in DOMAIN list /\ m # Root /\ ~m.slash
      BY <1>2, ListingMore DEF LeadsOn, Plain
    <2> HIDE DEF m
    <2>2. list[m].type # {"dir"}
      BY <2>1, ListingMore
    <2>3. QED BY <2>2 DEF m
  <1>3. QED BY <1>1, <1>2 DEF Content

\* What tar leaves behind, if nothing is in its way, is still a tree; all that is
\* listed has its place, but for a file where a directory with something in it
\* stands; and what is neither listed nor above something that is was there before.
LEMMA ExtractedIs ==
    ASSUME Standing(disk), NEW list \in Archives, TreeOf(list), NEW to \in Seq(Segment), Len(to) <= 1,
           InTheWay(list, to) = {}, Broken(list, to) = {},
           NEW D, D = Extracted(list, to)
    PROVE  /\ Standing(D) /\ DOMAIN disk \subseteq DOMAIN D
           /\ to # <<>> => to \in DOMAIN D /\ D[to] = Faux
           /\ \A n \in WholeOf(list) \ {Root} :
                 /\ n.slash => to \o n.path \in DOMAIN D /\ D[to \o n.path] = Faux
                 /\ ~n.slash /\ LeadsOn(list, n) => /\ to \o n.path \in DOMAIN D
                                                    /\ D[to \o n.path] \in {Faux, Content(list, n)}
           /\ \A p \in DOMAIN D : \/ p = to
                                  \/ \E n \in WholeOf(list) \ {Root} : NameIn(D, p) = At(to, n)
                                  \/ p \in DOMAIN disk /\ D[p] = disk[p]
  <1> DEFINE at(n) == to \o n.path
             folders == {at(n) : n \in {m \in DOMAIN list : m.slash}}
                        \cup (UNION {Parents(at(n)) : n \in DOMAIN list}) \cup ({to} \ {<<>>})
             kept == {p \in DOMAIN disk : \E q \in DOMAIN disk \ {p} : Within(p, q)}
             linked == {n \in DOMAIN list : LeadsOn(list, n)}
             files == {n \in linked : ~n.slash /\ n # Root /\ at(n) \notin kept}
  <1>1. D = [p \in DOMAIN disk \cup folders \cup {at(n) : n \in files} |->
               IF p \in folders THEN Faux
               ELSE IF \E n \in files : at(n) = p
                    THEN LET n == CHOOSE n \in files : at(n) = p IN Content(list, n)
                    ELSE disk[p]]
    <2>1. Cut(list, to) = {}
      BY DEF Cut
    <2>2. \A n \in DOMAIN list : LeadsOn(list, n)
      BY <2>1 DEF Broken, LeadsOn
    <2>3. MadeFolders(list, to) = folders
      BY <2>1 DEF MadeFolders, Implied
    <2>4. MadeFiles(list, to) = files
      BY <2>1, <2>2 DEF MadeFiles, Occupied
    <2> HIDE DEF folders, files
    <2>5. QED BY <2>3, <2>4 DEF Extracted, at
  <1> HIDE DEF at, folders, kept, linked, files
  <1>2. \A n \in DOMAIN list : /\ n \in Proper /\ n.path \in Seq(Segment) /\ at(n) \in Seq(Segment)
                               /\ ~n.slash => n = Plain(n.path)
                               /\ n # Root => n.path # <<>> /\ at(n) # <<>>
                               /\ n.slash => n # Root
    <2> SUFFICES ASSUME NEW n \in DOMAIN list
                 PROVE  /\ n \in Proper /\ n.path \in Seq(Segment) /\ at(n) \in Seq(Segment)
                        /\ ~n.slash => n = Plain(n.path)
                        /\ n # Root => n.path # <<>> /\ at(n) # <<>>
                        /\ n.slash => n # Root
      OBVIOUS
    <2>1. /\ n \in Proper /\ n.path \in Seq(Segment) /\ (~n.slash => n = Plain(n.path))
          /\ n # Root => n.path # <<>>
          /\ n.slash => n # Root
      BY ListingMore, Names DEF Root
    <2>2. at(n) \in Seq(Segment) /\ (n.path # <<>> => at(n) # <<>>)
      BY <2>1, Joined DEF at
    <2>3. QED BY <2>1, <2>2
  <1>0. \A p : p \in folders <=> \/ \E n \in DOMAIN list : n.slash /\ p = at(n)
                                 \/ \E n \in DOMAIN list : p \in Parents(at(n))
                                 \/ p = to /\ to # <<>>
    BY DEF folders
  \* Two files in one place are one; and no directory takes its place.
  <1>3. \A n, m \in files : at(n) = at(m) => n = m
    <2> SUFFICES ASSUME NEW n \in files, NEW m \in files, at(n) = at(m) PROVE n = m
      OBVIOUS
    <2>1. n.path \in Seq(Segment) /\ m.path \in Seq(Segment) /\ n = Plain(n.path) /\ m = Plain(m.path)
      BY <1>2 DEF files, linked
    <2>2. n.path = m.path
      BY <2>1, Cancelled DEF at
    <2>3. QED BY <2>1, <2>2
  <1>4. ASSUME NEW n \in DOMAIN list, ~n.slash, n # Root PROVE at(n) \notin folders
    <2>1. n.path \in Seq(Segment) /\ n.path # <<>> /\ at(n) # to /\ at(n) \in Seq(Segment)
      BY <1>2, <1>4, Joined DEF at
    <2>2. ASSUME NEW m \in DOMAIN list, m.slash, at(m) = at(n) PROVE FALSE
      <3>1. m.path \in Seq(Segment) /\ m # n
        BY <1>2, <1>4, <2>2
      <3>2. m.path = n.path
        BY <2>1, <2>2, <3>1, Cancelled DEF at
      <3>3. m.path = n.path \o <<>> /\ <<>> \in Seq(Segment)
        BY <2>1, <3>2, Joined, EmptySeq
      <3>4. Within(n.path, m.path)
        BY <2>1, <3>1, <3>3, WithinIs
      <3>5. QED BY <1>4, <3>1, <3>4 DEF TreeOf
    <2>3. ASSUME NEW m \in DOMAIN list, at(n) \in Parents(at(m)) PROVE FALSE
      <3>1. m.path \in Seq(Segment) /\ at(m) \in Seq(Segment)
        BY <1>2
      <3>2. PICK r \in Seq(Segment) : r # <<>> /\ at(m) = at(n) \o r
        BY <2>3, <3>1, ParentsAre
      <3>3. n.path \o r \in Seq(Segment) /\ n.path \o r # n.path
        BY <2>1, <3>2, Joined
      <3>4. m.path = n.path \o r
        <4>1. to \o m.path = to \o (n.path \o r)
          <5>1. Regroup(to, n.path, r)
            BY <2>1, <3>2, Regrouped
          <5>2. QED BY <2>1, <3>2, <5>1 DEF Regroup, at
        <4>2. QED BY <3>1, <3>3, <4>1, Cancelled
      <3>5. Within(n.path, m.path) /\ m # n
        BY <2>1, <3>1, <3>3, <3>4, WithinIs
      <3>6. QED BY <1>4, <3>5 DEF TreeOf
    <2>4. QED BY <1>0, <2>1, <2>2, <2>3
  <1>5. ASSUME NEW n \in files
        PROVE  /\ at(n) \in DOMAIN D /\ D[at(n)] = Content(list, n) /\ D[at(n)].type # {"dir"}
               /\ at(n) \notin folders
    <2>1. at(n) \notin folders
      BY <1>4 DEF files, linked
    <2>2. (CHOOSE m \in files : at(m) = at(n)) = n
      BY <1>3
    <2>3. at(n) \in DOMAIN D /\ D[at(n)] = Content(list, n)
      BY <1>1, <2>1, <2>2
    <2>4. n \in DOMAIN list /\ ~n.slash /\ n # Root /\ LeadsOn(list, n)
      BY DEF files, linked
    <2>5. QED BY <2>1, <2>3, <2>4, ContentIs
  <1>6. \A p \in folders : p \in DOMAIN D /\ D[p] = Faux
    BY <1>1
  <1>7. ASSUME NEW p \in DOMAIN D
        PROVE  \/ p \in folders
               \/ \E n \in files : p = at(n)
               \/ p \notin folders /\ (\A n \in files : p # at(n)) /\ p \in DOMAIN disk /\ D[p] = disk[p]
    BY <1>1
  <1>8. DOMAIN disk \subseteq DOMAIN D
    BY <1>1
  \* Where a directory comes from.
  <1>9. ASSUME NEW p \in folders
        PROVE  /\ p \in Seq(Segment) /\ p # <<>> /\ Parents(p) \subseteq folders
               /\ p = to \/ \E n \in WholeOf(list) \ {Root} : Folder(p) = At(to, n)
    <2>1. CASE p = to
      <3>1. p \in Seq(Segment) /\ p # <<>>
        <4>1. to \in folders => to # <<>>
          <5>1. ASSUME NEW n \in DOMAIN list, n.slash PROVE at(n) # <<>>
            BY <1>2, <5>1
          <5>2. ASSUME NEW n \in DOMAIN list, <<>> \in Parents(at(n)) PROVE FALSE
            BY <1>2, <5>2, ParentsAre
          <5>3. QED BY <5>1, <5>2 DEF folders
        <4>2. QED BY <2>1, <4>1
      <3>2. Parents(p) = {}
        <4>1. ASSUME NEW q \in Parents(p) PROVE FALSE
          <5>1. PICK r \in Seq(Segment) : q \in Seq(Segment) /\ q # <<>> /\ r # <<>> /\ p = q \o r
            BY <3>1, ParentsAre
          <5>2. /\ Len(p) = Len(q) + Len(r) /\ Len(q) \in Nat /\ Len(r) \in Nat
                /\ Len(q) # 0 /\ Len(r) # 0
            BY <5>1, Joined, Empties
          <5>3. QED BY <2>1, <5>2
        <4>2. QED BY <4>1
      <3>3. QED BY <2>1, <3>1, <3>2
    <2>2. ASSUME NEW n \in DOMAIN list, n.slash, p = at(n)
          PROVE  /\ p \in Seq(Segment) /\ p # <<>> /\ Parents(p) \subseteq folders
                 /\ \E m \in WholeOf(list) \ {Root} : Folder(p) = At(to, m)
      <3>1. p \in Seq(Segment) /\ p # <<>> /\ Parents(p) \subseteq folders
        BY <1>2, <2>2 DEF folders
      <3>2. n \in WholeOf(list) \ {Root}
        BY <1>2, <2>2 DEF WholeOf
      <3>3. Folder(p) = At(to, n)
        BY <2>2, <3>1 DEF Folder, At, at
      <3>4. QED BY <3>1, <3>2, <3>3
    <2>3. ASSUME NEW n \in DOMAIN list, p \in Parents(at(n)), p # to
          PROVE  /\ p \in Seq(Segment) /\ p # <<>> /\ Parents(p) \subseteq folders
                 /\ \E m \in WholeOf(list) \ {Root} : Folder(p) = At(to, m)
      <3>1. n.path \in Seq(Segment) /\ at(n) \in Seq(Segment)
        BY <1>2
      <3>2. PICK e \in Seq(Segment), r \in Seq(Segment) : e # <<>> /\ r # <<>> /\ p = to \o e /\ n.path = e \o r
        <4>1. p \in Parents(to \o n.path)
          BY <2>3 DEF at
        <4>2. p # to /\ n.path \in Seq(Segment)
          BY <2>3, <3>1
        <4>3. PartWay(to, n.path, p)
          BY <4>1, <4>2, ParentsBelow
        <4>4. QED BY <4>3 DEF PartWay
      <3>3. Parents(p) \subseteq Parents(at(n))
        BY <2>3, <3>1, ParentsOfParents
      <3>4. Parents(p) \subseteq folders
        BY <1>0, <3>3
      <3>5. p \in Seq(Segment) /\ p # <<>>
        BY <3>2, Joined
      <3>6. Folder(e) \in WholeOf(list) \ {Root} /\ Folder(e).path = e /\ Folder(e).slash
        BY <3>2, WholeClosed
      <3>7. Folder(p) = At(to, Folder(e))
        BY <3>2, <3>5, <3>6 DEF Folder, At
      <3>8. QED BY <3>4, <3>5, <3>6, <3>7
    <2>4. p = to \/ (\E n \in DOMAIN list : n.slash /\ p = at(n)) \/ \E n \in DOMAIN list : p \in Parents(at(n))
      BY <1>0, <1>9
    <2>5. QED BY <2>1, <2>2, <2>3, <2>4
  <1>10. Standing(D)
    <2> SUFFICES ASSUME NEW p \in DOMAIN D
                 PROVE  /\ p \in Seq(Segment) /\ p # <<>>
                        /\ D[p].type = {"dir"} => D[p] = Faux
                        /\ \A q \in Parents(p) : q \in DOMAIN D /\ D[q] = Faux
      BY DEF Standing
    <2>1. CASE p \in folders
      BY <1>6, <1>9, <2>1
    <2>2. ASSUME NEW n \in files, p = at(n)
          PROVE  /\ p \in Seq(Segment) /\ p # <<>>
                 /\ D[p].type # {"dir"}
                 /\ \A q \in Parents(p) : q \in DOMAIN D /\ D[q] = Faux
      <3>1. p \in Seq(Segment) /\ p # <<>> /\ Parents(p) \subseteq folders
        <4>1. n \in DOMAIN list /\ n # Root
          BY DEF files, linked
        <4>2. QED BY <1>2, <2>2, <4>1 DEF folders
      <3>2. QED BY <1>5, <1>6, <2>2, <3>1
    <2>3. CASE p \notin folders /\ (\A n \in files : p # at(n)) /\ p \in DOMAIN disk /\ D[p] = disk[p]
      <3>1. /\ p \in Seq(Segment) /\ p # <<>> /\ (disk[p].type = {"dir"} => disk[p] = Faux)
            /\ \A q \in Parents(p) : q \in DOMAIN disk /\ disk[q] = Faux
        BY <2>3 DEF Standing
      <3>2. ASSUME NEW q \in Parents(p) PROVE q \in DOMAIN D /\ D[q] = Faux
        <4>1. q \in kept
          <5>1. PICK r \in Seq(Segment) : q \in Seq(Segment) /\ r # <<>> /\ p = q \o r
            BY <3>1, ParentsAre
          <5>2. Within(q, p) /\ p # q
            BY <3>1, <5>1, WithinIs, Joined
          <5>3. QED BY <2>3, <3>1, <5>2 DEF kept
        <4>2. q \in DOMAIN disk /\ disk[q] = Faux /\ \A n \in files : q # at(n)
          BY <3>1, <4>1 DEF files
        <4>3. QED BY <1>6, <1>7, <1>8, <4>2
      <3>3. QED BY <2>3, <3>1, <3>2
    <2>4. QED BY <1>7, <2>1, <2>2, <2>3
  <1>11. to # <<>> => to \in DOMAIN D /\ D[to] = Faux
    BY <1>0, <1>6
  <1>12. ASSUME NEW n \in WholeOf(list) \ {Root}, n.slash PROVE at(n) \in DOMAIN D /\ D[at(n)] = Faux
    <2>1. CASE n \in DOMAIN list
      BY <1>6, <1>12, <2>1 DEF folders
    <2>2. CASE n \notin DOMAIN list
      <3>1. n \in Proper /\ n.path \in Seq(Segment) /\ n.path # <<>>
        BY WholeNames, Names
      <3>2. PICK m \in DOMAIN list \ {Root}, r \in Seq(Segment) : r # <<>> /\ m.path = n.path \o r
        BY <2>2, WholeNames
      <3>3. at(m) = at(n) \o r
        <4>1. (to \o n.path) \o r = to \o (n.path \o r)
          <5>1. Regroup(to, n.path, r)
            BY <3>1, Regrouped
          <5>2. QED BY <5>1 DEF Regroup
        <4>2. QED BY <3>2, <4>1 DEF at
      <3>6. at(n) # <<>> /\ at(n) \in Seq(Segment) /\ at(m) \in Seq(Segment)
        BY <1>2, <3>1, <3>2, Joined DEF at
      <3>4. at(n) \in Parents(at(m))
        BY <3>2, <3>3, <3>6, ParentsAre
      <3>5. QED BY <1>6, <3>2, <3>4 DEF folders
    <2>3. QED BY <2>1, <2>2
  <1>13. ASSUME NEW n \in WholeOf(list) \ {Root}, ~n.slash, LeadsOn(list, n)
         PROVE  at(n) \in DOMAIN D /\ D[at(n)] \in {Faux, Content(list, n)}
    <2>1. n \in DOMAIN list
      BY <1>13, WholeNames
    <2>2. CASE n \in files
      BY <1>5, <2>2
    <2>3. CASE n \notin files
      <3>1. at(n) \in kept /\ at(n) \in Seq(Segment) /\ at(n) # <<>>
        BY <1>2, <1>13, <2>1, <2>3 DEF files, linked
      <3>2. PICK q \in DOMAIN disk \ {at(n)} : Within(at(n), q)
        BY <3>1 DEF kept
      <3>3. q \in Seq(Segment)
        BY <3>2 DEF Standing
      <3>4. PICK r \in Seq(Segment) : q = at(n) \o r
        BY <3>1, <3>2, <3>3, WithinIs
      <3>5. r # <<>>
        BY <3>1, <3>2, <3>4, Joined
      <3>6. at(n) \in Parents(q)
        BY <3>1, <3>3, <3>4, <3>5, ParentsAre
      <3>7. at(n) \in DOMAIN disk /\ disk[at(n)] = Faux
        BY <3>2, <3>6 DEF Standing
      <3>8. at(n) \notin folders
        BY <1>4, <1>13, <2>1
      <3>9. \A m \in files : at(n) # at(m)
        BY <3>1 DEF files
      <3>10. QED BY <1>7, <1>8, <3>7, <3>8, <3>9
    <2>4. QED BY <2>2, <2>3
  <1>14. ASSUME NEW p \in DOMAIN D
         PROVE  \/ p = to
                \/ \E n \in WholeOf(list) \ {Root} : NameIn(D, p) = At(to, n)
                \/ p \in DOMAIN disk /\ D[p] = disk[p]
    <2>1. CASE p \in folders
      <3>1. NameIn(D, p) = Folder(p)
        BY <1>6, <2>1 DEF NameIn, Faux
      <3>2. QED BY <1>9, <2>1, <3>1
    <2>2. ASSUME NEW n \in files, p = at(n) PROVE \E m \in WholeOf(list) \ {Root} : NameIn(D, p) = At(to, m)
      <3>1. NameIn(D, p) = Plain(p)
        BY <1>5, <2>2 DEF NameIn
      <3>2. n \in WholeOf(list) \ {Root} /\ ~n.slash /\ n = Plain(n.path)
        BY <1>2 DEF WholeOf, files, linked
      <3>3. n.slash = FALSE
        BY <3>2 DEF Plain
      <3>4. Plain(p) = At(to, n)
        BY <2>2, <3>3 DEF Plain, At, at
      <3>5. QED BY <3>1, <3>2, <3>4
    <2>3. QED BY <1>7, <2>1, <2>2
  <1>15. QED BY <1>8, <1>10, <1>11, <1>12, <1>13, <1>14 DEF at

LEMMA Firsts ==
    ASSUME NEW p \in Seq(Segment), p # <<>>
    PROVE  /\ p[1] \in Segment /\ <<p[1]>> \in Seq(Segment) /\ <<p[1]>> # <<>> /\ Len(<<p[1]>>) = 1
           /\ Head(p) = p[1] /\ Tail(p) \in Seq(Segment) /\ p = <<p[1]>> \o Tail(p)
  <1>1. Len(p) \in Nat /\ Len(p) # 0
    BY Empties
  <1>2. 1 \in 1..Len(p)
    BY <1>1
  <1>3. p[1] \in Segment
    BY <1>2, ElementOfSeq
  <1>4. <<p[1]>> \in Seq(Segment) /\ Len(<<p[1]>>) = 1 /\ <<p[1]>> # <<>>
    BY <1>3
  <1>5. Head(p) = p[1] /\ Tail(p) \in Seq(Segment)
    BY HeadTailProperties
  <1>6. p = <<p[1]>> \o Tail(p)
    <2>1. SubSeq(p, 1, Len(p)) = <<p[1]>> \o SubSeq(p, 1 + 1, Len(p))
      BY <1>1, <1>2, SubSeqRecursiveFirst
    <2>2. SubSeq(p, 1, Len(p)) = p /\ Tail(p) = SubSeq(p, 2, Len(p))
      BY SubSeqFull, TailIsSubSeq
    <2>3. QED BY <2>1, <2>2
  <1>7. QED BY <1>3, <1>4, <1>5, <1>6

LEMMA WithinAll ==
    ASSUME NEW p \in Seq(Segment), NEW q \in Seq(Segment), NEW r \in Parents(q), Within(p, r)
    PROVE  Within(p, q)
  <1>1. PICK s \in Seq(Segment) : r \in Seq(Segment) /\ q = r \o s
    BY ParentsAre
  <1>2. PICK t \in Seq(Segment) : r = p \o t
    BY <1>1, WithinIs
  <1>3. q = p \o (t \o s)
    <2>1. (p \o t) \o s = p \o (t \o s)
      <3>1. Regroup(p, t, s)
        BY Regrouped
      <3>2. QED BY <3>1 DEF Regroup
    <2>2. QED BY <1>1, <1>2, <2>1
  <1>4. t \o s \in Seq(Segment)
    BY <1>1, <1>2, Joined
  <1>5. QED BY <1>3, <1>4, WithinIs

\* What is in the directory s goes up a level; what else there is stays, or makes
\* room.
LEMMA MovedUpIs ==
    ASSUME Standing(disk), NEW from \in Seq(Segment), Len(from) <= 1, NEW s \in Segment,
           from # <<>> => from \in DOMAIN disk /\ disk[from] = Faux,
           disk' = MovedUp(from, s)
    PROVE  /\ Standing(disk')
           /\ from # <<>> => from \in DOMAIN disk' /\ disk'[from] = Faux
           /\ \A r \in Seq(Segment) : r # <<>> /\ (from \o <<s>>) \o r \in DOMAIN disk =>
                 from \o r \in DOMAIN disk' /\ disk'[from \o r] = disk[(from \o <<s>>) \o r]
           /\ \A p \in DOMAIN disk' :
                 \/ \E r \in Seq(Segment) : r # <<>> /\ (from \o <<s>>) \o r \in DOMAIN disk /\ p = from \o r
                 \/ p \in DOMAIN disk /\ ~Within(from \o <<s>>, p) /\ disk'[p] = disk[p]
           /\ \A p \in DOMAIN disk : ~Within(from, p) => p \in DOMAIN disk'
  <1> DEFINE old == from \o <<s>>
             moved == {p \in DOMAIN disk : Within(old, p) /\ p # old}
             up(p) == from \o SubSeq(p, Len(old) + 1, Len(p))
             removed == {p \in DOMAIN disk : \E q \in moved : Len(q) = Len(old) + 1 /\ Within(up(q), p)}
             left == {p \in DOMAIN disk : ~Within(old, p)} \ removed
             down(p) == old \o SubSeq(p, Len(from) + 1, Len(p))
  <1>1. disk' = [p \in left \cup {up(q) : q \in moved} |-> IF p \in left THEN disk[p] ELSE disk[down(p)]]
    BY DEF MovedUp
  <1>2. /\ <<s>> \in Seq(Segment) /\ old \in Seq(Segment) /\ Len(old) = Len(from) + 1
        /\ Len(from) \in Nat /\ old # <<>>
    <2>1. <<s>> \in Seq(Segment) /\ Len(<<s>>) = 1 /\ <<s>> # <<>>
      OBVIOUS
    <2>2. QED BY <2>1, Joined
  <1> HIDE DEF old, moved, up, removed, left, down
  <1>3. \A p \in DOMAIN disk : p \in Seq(Segment) /\ p # <<>>
    BY DEF Standing
  <1>4. \A r \in Seq(Segment) : /\ up(old \o r) = from \o r /\ down(from \o r) = old \o r
                                /\ from \o r \in Seq(Segment) /\ old \o r \in Seq(Segment)
                                /\ r # <<>> => from \o r # <<>>
    <2> SUFFICES ASSUME NEW r \in Seq(Segment)
                 PROVE  /\ up(old \o r) = from \o r /\ down(from \o r) = old \o r
                        /\ from \o r \in Seq(Segment) /\ old \o r \in Seq(Segment)
                        /\ r # <<>> => from \o r # <<>>
      OBVIOUS
    <2>1. SubSeq(old \o r, Len(old) + 1, Len(old \o r)) = r /\ old \o r \in Seq(Segment)
      BY <1>2, Joined
    <2>2. /\ SubSeq(from \o r, Len(from) + 1, Len(from \o r)) = r /\ from \o r \in Seq(Segment)
          /\ r # <<>> => from \o r # <<>>
      BY <1>2, Joined
    <2>3. QED BY <2>1, <2>2 DEF up, down
  <1>5. \A q : q \in moved <=> q \in DOMAIN disk /\ \E r \in Seq(Segment) : r # <<>> /\ q = old \o r
    <2>1. ASSUME NEW q \in moved PROVE q \in DOMAIN disk /\ \E r \in Seq(Segment) : r # <<>> /\ q = old \o r
      <3>1. q \in DOMAIN disk /\ q \in Seq(Segment) /\ Within(old, q) /\ q # old
        BY <1>3 DEF moved
      <3>2. PICK r \in Seq(Segment) : q = old \o r
        BY <1>2, <3>1, WithinIs
      <3>3. r # <<>>
        BY <1>2, <3>1, <3>2, Joined
      <3>4. QED BY <3>1, <3>2, <3>3
    <2>2. ASSUME NEW q \in DOMAIN disk, NEW r \in Seq(Segment), r # <<>>, q = old \o r PROVE q \in moved
      <3>1. q \in Seq(Segment) /\ q # old
        BY <1>2, <1>3, <2>2, Joined
      <3>2. Within(old, q)
        BY <1>2, <2>2, <3>1, WithinIs
      <3>3. QED BY <3>1, <3>2 DEF moved
    <2>3. QED BY <2>1, <2>2
  \* What was there by the name of something that goes up is gone.
  <1>6. ASSUME NEW r \in Seq(Segment), r # <<>>, old \o r \in DOMAIN disk PROVE from \o r \notin left
    <2> SUFFICES ASSUME from \o r \in left PROVE FALSE
      OBVIOUS
    <2>1. from \o r \in DOMAIN disk /\ from \o r \notin removed
      BY DEF left
    <2> DEFINE f == <<r[1]>>
               t == Tail(r)
    <2>2. f \in Seq(Segment) /\ f # <<>> /\ Len(f) = 1 /\ t \in Seq(Segment) /\ r = f \o t
      BY <1>6, Firsts
    <2> HIDE DEF f, t
    <2>3. old \o f \in DOMAIN disk
      <3>1. old \o r = (old \o f) \o t
        <4>1. Regroup(old, f, t)
          BY <1>2, <2>2, Regrouped
        <4>2. QED BY <1>2, <2>2, <4>1 DEF Regroup
      <3>2. CASE t = <<>>
        <4>1. r = f
          BY <2>2, <3>2, Joined
        <4>2. QED BY <1>6, <4>1
      <3>3. CASE t # <<>>
        <4>1. old \o f \in Seq(Segment) /\ old \o f # <<>> /\ old \o r \in Seq(Segment)
          BY <1>2, <2>2, Joined
        <4>2. old \o f \in Parents(old \o r)
          BY <2>2, <3>1, <3>3, <4>1, ParentsAre
        <4>3. QED BY <1>6, <4>2 DEF Standing
      <3>4. QED BY <3>2, <3>3
    <2>4. old \o f \in moved /\ Len(old \o f) = Len(old) + 1 /\ up(old \o f) = from \o f
      <3>1. Len(old \o f) = Len(old) + 1
        <4>1. old \in Seq(Segment) /\ f \in Seq(Segment) /\ Len(f) = 1
          BY <1>2, <2>2
        <4>2. Len(old \o f) = Len(old) + Len(f)
          BY <4>1, Joined
        <4>3. QED BY <4>1, <4>2
      <3>2. QED BY <1>4, <1>5, <2>2, <2>3, <3>1
    <2>5. Within(from \o f, from \o r)
      <3>1. from \o r = (from \o f) \o t
        <4>1. Regroup(from, f, t)
          BY <2>2, Regrouped
        <4>2. QED BY <2>2, <4>1 DEF Regroup
      <3>2. QED BY <1>4, <2>2, <3>1, WithinIs
    <2>6. from \o r \in removed
      BY <2>1, <2>4, <2>5 DEF removed
    <2>7. QED BY <2>1, <2>6
  <1>7. ASSUME NEW r \in Seq(Segment), r # <<>>, old \o r \in DOMAIN disk
        PROVE  from \o r \in DOMAIN disk' /\ disk'[from \o r] = disk[old \o r]
    <2>1. old \o r \in moved /\ up(old \o r) = from \o r /\ down(from \o r) = old \o r /\ from \o r \notin left
      BY <1>4, <1>5, <1>6, <1>7
    <2>2. /\ \A p : p \in moved => up(p) \in DOMAIN disk'
          /\ \A p : p \in moved /\ up(p) \notin left => disk'[up(p)] = disk[down(up(p))]
      BY <1>1
    <2>3. QED BY <2>1, <2>2
  <1>8. \A p \in left : p \in DOMAIN disk' /\ disk'[p] = disk[p]
    BY <1>1
  <1>9. ASSUME NEW p \in DOMAIN disk'
        PROVE  \/ \E r \in Seq(Segment) : r # <<>> /\ old \o r \in DOMAIN disk /\ p = from \o r
               \/ p \in left /\ p \in DOMAIN disk /\ ~Within(old, p) /\ disk'[p] = disk[p]
    <2>1. CASE p \in left
      BY <1>8, <2>1 DEF left
    <2>2. CASE p \notin left
      <3>1. PICK q \in moved : p = up(q)
        BY <1>1, <2>2
      <3>2. PICK r \in Seq(Segment) : r # <<>> /\ q = old \o r /\ q \in DOMAIN disk
        BY <1>5
      <3>3. p = from \o r /\ old \o r \in DOMAIN disk
        BY <1>4, <3>1, <3>2
      <3>4. QED BY <3>2, <3>3
    <2>3. QED BY <2>1, <2>2
  <1>10. \A p \in removed : Within(from, p)
    <2> SUFFICES ASSUME NEW p \in removed PROVE Within(from, p)
      OBVIOUS
    <2>1. PICK q \in moved : Within(up(q), p)
      BY DEF removed
    <2>2. PICK r \in Seq(Segment) : q = old \o r /\ r # <<>>
      BY <1>5
    <2>3. p \in Seq(Segment) /\ from \o r \in Seq(Segment) /\ Within(from \o r, p)
      BY <1>3, <1>4, <2>1, <2>2 DEF removed
    <2>4. PICK t \in Seq(Segment) : p = (from \o r) \o t
      BY <2>3, WithinIs
    <2>5. p = from \o (r \o t)
      <3>1. Regroup(from, r, t)
        BY <2>4, Regrouped
      <3>2. QED BY <2>4, <3>1 DEF Regroup
    <2>6. r \o t \in Seq(Segment)
      BY <2>4, Joined
    <2>7. QED BY <2>3, <2>5, <2>6, WithinIs
  <1>11. \A p \in Seq(Segment) : Within(old, p) => Within(from, p)
    <2> SUFFICES ASSUME NEW p \in Seq(Segment), Within(old, p) PROVE Within(from, p)
      OBVIOUS
    <2>1. PICK t \in Seq(Segment) : p = old \o t
      BY <1>2, WithinIs
    <2>2. p = from \o (<<s>> \o t)
      <3>1. (from \o <<s>>) \o t = from \o (<<s>> \o t)
        <4>1. Regroup(from, <<s>>, t)
          BY <1>2, Regrouped
        <4>2. QED BY <4>1 DEF Regroup
      <3>2. QED BY <2>1, <3>1 DEF old
    <2>3. <<s>> \o t \in Seq(Segment)
      BY <1>2, Joined
    <2>4. QED BY <2>2, <2>3, WithinIs
  <1>12. \A p \in DOMAIN disk : ~Within(from, p) => p \in DOMAIN disk'
    BY <1>3, <1>8, <1>10, <1>11 DEF left
  <1>13. from # <<>> => from \in left
    <2> SUFFICES ASSUME from # <<>> PROVE from \in left
      OBVIOUS
    <2>1. ~Within(old, from)
      BY <1>2 DEF Within
    <2>2. from \notin removed
      <3> SUFFICES ASSUME NEW q \in moved, Within(up(q), from) PROVE FALSE
        BY DEF removed
      <3>1. PICK r \in Seq(Segment) : q = old \o r /\ r # <<>>
        BY <1>5
      <3>2. Len(from \o r) = Len(from) + Len(r) /\ Len(r) \in Nat /\ Len(r) # 0
        BY <3>1, Joined, Empties
      <3>3. Len(from \o r) <= Len(from)
        BY <1>4, <3>1 DEF Within
      <3>4. QED BY <1>2, <3>2, <3>3
    <2>3. QED BY <2>1, <2>2 DEF left
  <1>14. from # <<>> => from \in DOMAIN disk' /\ disk'[from] = Faux
    BY <1>8, <1>13
  <1>15. Standing(disk')
    <2> SUFFICES ASSUME NEW p \in DOMAIN disk'
                 PROVE  /\ p \in Seq(Segment) /\ p # <<>>
                        /\ disk'[p].type = {"dir"} => disk'[p] = Faux
                        /\ \A q \in Parents(p) : q \in DOMAIN disk' /\ disk'[q] = Faux
      BY DEF Standing
    <2>1. ASSUME NEW r \in Seq(Segment), r # <<>>, old \o r \in DOMAIN disk, p = from \o r
          PROVE  /\ p \in Seq(Segment) /\ p # <<>>
                 /\ disk'[p].type = {"dir"} => disk'[p] = Faux
                 /\ \A q \in Parents(p) : q \in DOMAIN disk' /\ disk'[q] = Faux
      <3>1. p \in Seq(Segment) /\ p # <<>> /\ disk'[p] = disk[old \o r]
        BY <1>4, <1>7, <2>1
      <3>2. disk'[p].type = {"dir"} => disk'[p] = Faux
        BY <2>1, <3>1 DEF Standing
      <3>3. ASSUME NEW q \in Parents(p), q # from PROVE q \in DOMAIN disk' /\ disk'[q] = Faux
        <4>1. PICK e \in Seq(Segment), t \in Seq(Segment) : e # <<>> /\ t # <<>> /\ q = from \o e /\ r = e \o t
          <5>1. q \in Parents(from \o r)
            BY <2>1
          <5>2. PartWay(from, r, q)
            BY <3>3, <5>1, ParentsBelow
          <5>3. QED BY <5>2 DEF PartWay
        <4>2. old \o r = (old \o e) \o t
          <5>1. (old \o e) \o t = old \o (e \o t)
            <6>1. Regroup(old, e, t)
              BY <1>2, Regrouped
            <6>2. QED BY <6>1 DEF Regroup
          <5>2. QED BY <4>1, <5>1
        <4>3. old \o e \in Seq(Segment) /\ old \o e # <<>> /\ old \o r \in Seq(Segment)
          BY <1>2, <4>1, Joined
        <4>4. old \o e \in Parents(old \o r)
          BY <4>1, <4>2, <4>3, ParentsAre
        <4>5. old \o e \in DOMAIN disk /\ disk[old \o e] = Faux
          BY <2>1, <4>4 DEF Standing
        <4>6. QED BY <1>7, <4>1, <4>5
      <3>4. from \in Parents(p) => from # <<>>
        BY <3>1, ParentsAre
      <3>5. QED BY <1>14, <3>1, <3>2, <3>3, <3>4
    <2>2. ASSUME p \in left, disk'[p] = disk[p]
          PROVE  /\ p \in Seq(Segment) /\ p # <<>>
                 /\ disk'[p].type = {"dir"} => disk'[p] = Faux
                 /\ \A q \in Parents(p) : q \in DOMAIN disk' /\ disk'[q] = Faux
      <3>1. /\ p \in DOMAIN disk /\ ~Within(old, p) /\ p \notin removed
            /\ p \in Seq(Segment) /\ p # <<>> /\ (disk'[p].type = {"dir"} => disk'[p] = Faux)
            /\ \A q \in Parents(p) : q \in DOMAIN disk /\ disk[q] = Faux
        BY <2>2 DEF left, Standing
      <3>2. ASSUME NEW q \in Parents(p) PROVE q \in DOMAIN disk' /\ disk'[q] = Faux
        <4>1. q \in DOMAIN disk /\ disk[q] = Faux
          BY <3>1
        <4>2. ~Within(old, q)
          BY <1>2, <3>1, WithinAll
        <4>3. ASSUME q \in removed PROVE FALSE
          <5>1. PICK x \in moved : Len(x) = Len(old) + 1 /\ Within(up(x), q)
            BY <4>3 DEF removed
          <5>2. up(x) \in Seq(Segment)
            <6>1. PICK r \in Seq(Segment) : x = old \o r
              BY <1>5
            <6>2. QED BY <1>4, <6>1
          <5>3. Within(up(x), p)
            BY <3>1, <5>1, <5>2, WithinAll
          <5>4. QED BY <3>1, <5>1, <5>3 DEF removed
        <4>4. QED BY <1>8, <4>1, <4>2, <4>3 DEF left
      <3>3. QED BY <3>1, <3>2
    <2>3. QED BY <1>9, <2>1, <2>2
  <1>16. QED BY <1>7, <1>9, <1>12, <1>14, <1>15 DEF old

-----------------------------------------------------------------------------
\* Orig: the index of the whole and what is on disk.

AllStraight == \A k \in DOMAIN tarballs : StraightIn(tarballs[k].list)
Told(p) == NameIn(disk, p) \in DOMAIN merged /\ Alike(merged[NameIn(disk, p)], disk[p])

\* Whatever is on disk is told by the catalog of the whole, or has one of the
\* names, below b.
Accounted(b, names) ==
    AllStraight /\ "around" \notin shared =>
        \A p \in DOMAIN disk : \/ p = b \/ Told(p)
                               \/ \E n \in names \ {Root} : NameIn(disk, p) = At(b, n)

\* There is nothing else in the directory around all the names.
Alone(b, names) ==
    "around" \notin shared =>
        \A s \in Segment : {n.path[1] : n \in names \ {Root}} = {s} =>
            \A p \in DOMAIN disk : Within(b \o <<s>>, p) => \E n \in names \ {Root} : NameIn(disk, p) = At(b, n)

Busy == step \notin {"unpack", "died"}
SourceInv ==
    /\ tarballs \in Sources /\ done \in Nat /\ (Busy => done < Len(tarballs))
    /\ step \in {"unpack", "load", "links", "prefix", "capture", "merge", "died"}

\* The catalog of the whole, as long as every component has found its place empty,
\* tells only of what is on disk, and of nothing in the place of the next.
MergedInv ==
    /\ \A n \in DOMAIN merged : n \in Proper
    /\ done = 0 => DOMAIN merged = {Root} /\ (step = "unpack" => DOMAIN disk = {})
    /\ shared = {} => \A n \in DOMAIN merged \ {Root} :
          /\ n.path \in DOMAIN disk
          /\ Busy => n.path[1] # Component
          /\ Len(n.path) > 1 => Dirname(n) \in DOMAIN merged /\ n.path \in DOMAIN named /\ named[n.path] = n
    /\ step = "unpack" /\ AllStraight /\ "around" \notin shared => \A p \in DOMAIN disk : Told(p)
    /\ Busy /\ Component # Main => Basedir \in DOMAIN disk /\ disk[Basedir] = Faux

\* While the index of a tarball is loaded: its names and their items, and where
\* tar has put them.
Loading ==
    /\ TreeInv /\ archive = tarballs[done + 1].list
    /\ pc # "missing" => DOMAIN catalog = WholeOf(archive)
    /\ pc \notin {"missing", "children"} =>
          /\ DOMAIN child = {n.path : n \in DOMAIN catalog \ {Root}}
          /\ Origins \subseteq masters \cup DOMAIN archive
          /\ \A n \in DOMAIN catalog : (\A m \in Origins : n \notin Group(m)) =>
                catalog[n] = IF n \in DOMAIN archive THEN archive[n] ELSE Faux
Laid ==
    /\ \A n \in WholeOf(archive) \ {Root} :
          /\ n.slash => Basedir \o n.path \in DOMAIN disk /\ disk[Basedir \o n.path] = Faux
          /\ ~n.slash /\ LeadsOn(archive, n) => /\ Basedir \o n.path \in DOMAIN disk
                                                /\ disk[Basedir \o n.path] \in {Faux, Content(archive, n)}
    /\ Accounted(Basedir, WholeOf(archive)) /\ Alone(Basedir, WholeOf(archive))

\* While its hard links are treated: each is what tar has made of it, or the name
\* of a file that is.
Settled(n) == Alike(catalog[n], Content(archive, n))
Linking(n) ==
    /\ catalog[n].type = {"hardlink"} /\ Content(archive, n).type = {"file"}
    /\ LET m == Plain(catalog[n].link.path)
       IN  m \in DOMAIN catalog /\ catalog[m].type = {"file"} /\ catalog[m].size = Content(archive, n).size
Treating ==
    /\ archive = tarballs[done + 1].list
    /\ DOMAIN catalog = WholeOf(archive)
    /\ DOMAIN child = {n.path : n \in DOMAIN catalog \ {Root}}
    /\ \A n \in DOMAIN catalog \ {Root} : n \in Proper /\ Dirname(n) \in DOMAIN catalog /\ child[n.path] = n
    /\ \A n \in DOMAIN archive : LeadsOn(archive, n)
    /\ \A n \in DOMAIN catalog : n = Root \/ n.slash => Alike(catalog[n], Faux)
    /\ StraightIn(archive) => \A n \in DOMAIN catalog \ {Root} : ~n.slash => Settled(n) \/ Linking(n)
LoadInv ==
    /\ step = "load" => Loading /\ Laid /\ pc \in {"missing", "children", "hardlinks"}
    /\ step = "links" => Treating /\ Laid

\* After that, through all the renaming: every item is found under its name, and
\* is on disk, below the directory that the names do not have yet.
Place == IF step = "merge" THEN <<>> ELSE Basedir
FoundInv ==
    /\ Root \in DOMAIN catalog /\ Alike(catalog[Root], Faux)
    /\ DOMAIN child = {n.path : n \in DOMAIN catalog \ {Root}}
    /\ \A n \in DOMAIN catalog \ {Root} :
          /\ n \in Proper /\ Dirname(n) \in DOMAIN catalog /\ child[n.path] = n
          /\ step = "prefix" /\ Len(n.path) > 1 => Folder(<<n.path[1]>>) \in DOMAIN catalog
          /\ step = "merge" /\ Component # Main => n.path[1] = Component
PlacedInv ==
    \A n \in DOMAIN catalog \ {Root} :
        /\ Place \o n.path \in DOMAIN disk
        /\ n.slash => disk[Place \o n.path] = Faux /\ Alike(catalog[n], Faux)
        /\ ~n.slash /\ AllStraight =>
              disk[Place \o n.path] = Faux \/ Alike(catalog[n], disk[Place \o n.path])
RenameInv ==
    step \in {"prefix", "capture", "merge"} =>
        /\ FoundInv /\ PlacedInv /\ Accounted(Place, DOMAIN catalog)
        /\ step = "prefix" => Alone(Place, DOMAIN catalog)

KnownInv == Standing(disk) /\ SourceInv /\ MergedInv /\ LoadInv /\ RenameInv

\* Nothing is known of the disk any more once tar has met something in its way.
Lost == {"astray", "blocked"} \cap shared # {}
OrigInv == SourceInv /\ (Lost \/ KnownInv)

Fresh ==
    /\ archive \in Archives /\ pc = "missing" /\ catalog = archive
    /\ child = [p \in {} |-> Root] /\ masters = {}
LEMMA FreshTree == Fresh => TreeInv
  <1> SUFFICES ASSUME Fresh PROVE TreeInv
    OBVIOUS
  <1>1. ASSUME NEW n \in DOMAIN archive
        PROVE  /\ n \in Proper /\ archive[n] \in Item
               /\ n = Root \/ n.slash => "dir" \in archive[n].type /\ archive[n].link = Empty
    BY Listing DEF Fresh
  <1>2. CatalogInv
    BY <1>1 DEF Fresh, CatalogInv, Is, HasLink
  <1>3. ChildInv
    BY DEF Fresh, ChildInv
  <1>4. MastersInv
    BY DEF Fresh, MastersInv
  <1>5. QED BY <1>2, <1>3, <1>4 DEF TreeInv
LEMMA FreshTreeNext == Fresh' => TreeInv'
  BY FreshTree, PTL

LEMMA Tarballs ==
    ASSUME SourceInv, Busy \/ (step = "unpack" /\ done < Len(tarballs))
    PROVE  /\ tarballs[done + 1].list \in Archives /\ TreeOf(tarballs[done + 1].list)
           /\ AllStraight => StraightIn(tarballs[done + 1].list)
           /\ Component \in Segment \cup {Main} /\ Main \notin Segment
           /\ Component = Main => done = 0 /\ Basedir = <<>>
           /\ Component # Main => Component \in Segment /\ Basedir = <<Component>>
           /\ Basedir \in Seq(Segment) /\ Len(Basedir) <= 1 /\ (Basedir = <<>> <=> Component = Main)
  <1>1. /\ tarballs \in Seq([list : Archives, component : Segment \cup {Main}])
        /\ done \in Nat /\ done < Len(tarballs)
    BY OrigAssumption DEF SourceInv
  <1>2. done + 1 \in DOMAIN tarballs
    BY <1>1, LenProperties
  <1>3. tarballs[done + 1] \in [list : Archives, component : Segment \cup {Main}]
    BY <1>1, <1>2, ElementOfSeq, LenProperties
  <1>4. /\ Main \notin Segment
        /\ tarballs[done + 1].component = Main => done + 1 = 1
        /\ TreeOf(tarballs[done + 1].list)
    BY <1>2, OrigAssumption DEF SourceInv, TreeOf
  <1>5. AllStraight => StraightIn(tarballs[done + 1].list)
    BY <1>2 DEF AllStraight
  <1>6. Component \in Segment =>
           <<Component>> \in Seq(Segment) /\ Len(<<Component>>) = 1 /\ <<Component>> # <<>>
    OBVIOUS
  <1>7. <<>> \in Seq(Segment) /\ Len(<<>>) = 0
    BY EmptySeq
  <1>8. Component \in Segment \cup {Main} /\ (Component = Main => done = 0)
    BY <1>1, <1>3, <1>4 DEF Component
  <1>9. QED BY <1>3, <1>4, <1>5, <1>6, <1>7, <1>8 DEF Basedir

LEMMA OrigStarts == OrigInit => KnownInv
  <1> SUFFICES ASSUME OrigInit PROVE KnownInv
    OBVIOUS
  <1>1. /\ tarballs \in Sources /\ done = 0 /\ step = "unpack" /\ DOMAIN merged = {Root}
        /\ DOMAIN disk = {}
    BY DEF OrigInit
  <1>2. Standing(disk) /\ SourceInv /\ MergedInv
    BY <1>1, RootProper DEF Standing, SourceInv, MergedInv, Busy
  <1>3. LoadInv /\ RenameInv
    BY <1>1 DEF LoadInv, RenameInv
  <1>4. QED BY <1>2, <1>3 DEF KnownInv

\* The first segments of the names of a list are those of the index.
LEMMA WholeTops ==
    ASSUME NEW list \in Archives
    PROVE  {n.path[1] : n \in WholeOf(list) \ {Root}} = {n.path[1] : n \in DOMAIN list \ {Root}}
  <1>1. ASSUME NEW n \in WholeOf(list) \ {Root} PROVE \E m \in DOMAIN list \ {Root} : n.path[1] = m.path[1]
    <2>1. CASE n \in DOMAIN list
      BY <2>1
    <2>2. CASE n \notin DOMAIN list
      <3>1. PICK m \in DOMAIN list \ {Root}, r \in Seq(Segment) : m.path = n.path \o r
        BY <2>2, WholeNames
      <3>2. n.path \in Seq(Segment) /\ n.path # <<>>
        BY WholeNames, Names
      <3>3. m.path[1] = n.path[1]
        BY <3>1, <3>2, Joined
      <3>4. QED BY <3>3
    <2>3. QED BY <2>1, <2>2
  <1>2. DOMAIN list \ {Root} \subseteq WholeOf(list) \ {Root}
    BY DEF WholeOf
  <1>3. QED BY <1>1, <1>2

\* Whatever is on disk is below something at the top.
LEMMA TopOnDisk ==
    ASSUME Standing(disk), NEW p \in DOMAIN disk
    PROVE  p \in Seq(Segment) /\ p # <<>> /\ p[1] \in Segment /\ <<p[1]>> \in DOMAIN disk
  <1>1. p \in Seq(Segment) /\ p # <<>>
    BY DEF Standing
  <1>2. /\ <<p[1]>> \in Seq(Segment) /\ <<p[1]>> # <<>> /\ p[1] \in Segment
        /\ Tail(p) \in Seq(Segment) /\ p = <<p[1]>> \o Tail(p)
    BY <1>1, Firsts
  <1>3. CASE Tail(p) = <<>>
    <2>1. p = <<p[1]>>
      BY <1>2, <1>3, Joined
    <2>2. QED BY <1>1, <1>2, <2>1
  <1>4. CASE Tail(p) # <<>>
    <2>1. <<p[1]>> \in Parents(p)
      BY <1>1, <1>2, <1>4, ParentsAre
    <2>2. QED BY <1>1, <1>2, <2>1 DEF Standing
  <1>5. QED BY <1>3, <1>4

LEMMA UnpackKeeps == ASSUME KnownInv, Unpack, ~Lost' PROVE KnownInv'
  <1> DEFINE list == tarballs[done + 1].list
             b == Basedir
  <1>1. /\ step = "unpack" /\ done < Len(tarballs) /\ step' = "load"
        /\ archive' = list /\ catalog' = list /\ disk' = Extracted(list, b)
        /\ pc' = "missing" /\ child' = [p \in {} |-> Root] /\ masters' = {}
        /\ UNCHANGED <<tarballs, done, merged, named>>
        /\ shared' = shared \cup
              {d \in {"own", "around"} : Component # Main /\ b \in DOMAIN disk
                 /\ (d = "around" => \E s \in Segment : /\ {n.path[1] : n \in DOMAIN list \ {Root}} = {s}
                                                       /\ b \o <<s>> \in DOMAIN disk)}
              \cup {IF LinkAt(p) THEN "astray" ELSE "blocked" : p \in InTheWay(list, b)}
              \cup {"blocked" : n \in Broken(list, b)}
    BY DEF Unpack
  <1>2. Component' = Component /\ Basedir' = b /\ AllStraight' = AllStraight
    BY <1>1 DEF Component, Basedir, AllStraight
  <1>3. /\ Standing(disk) /\ SourceInv /\ MergedInv
        /\ list \in Archives /\ TreeOf(list) /\ (AllStraight => StraightIn(list))
        /\ Component = Main => done = 0
        /\ Component # Main => Component \in Segment /\ b = <<Component>>
        /\ b \in Seq(Segment) /\ Len(b) <= 1 /\ (b = <<>> <=> Component = Main)
    BY <1>1, Tarballs DEF KnownInv
  <1> HIDE DEF list, b
  <1>4. /\ Standing(disk') /\ DOMAIN disk \subseteq DOMAIN disk'
        /\ b # <<>> => b \in DOMAIN disk' /\ disk'[b] = Faux
        /\ \A n \in WholeOf(list) \ {Root} :
              /\ n.slash => b \o n.path \in DOMAIN disk' /\ disk'[b \o n.path] = Faux
              /\ ~n.slash /\ LeadsOn(list, n) => /\ b \o n.path \in DOMAIN disk'
                                                 /\ disk'[b \o n.path] \in {Faux, Content(list, n)}
        /\ \A p \in DOMAIN disk' : \/ p = b
                                   \/ \E n \in WholeOf(list) \ {Root} : NameIn(disk', p) = At(b, n)
                                   \/ p \in DOMAIN disk /\ disk'[p] = disk[p]
    <2>1. ASSUME NEW p \in InTheWay(list, b) PROVE FALSE
      <3>1. (IF LinkAt(p) THEN "astray" ELSE "blocked") \in shared'
        BY <1>1
      <3>2. QED BY <3>1 DEF Lost
    <2>2. ASSUME NEW n \in Broken(list, b) PROVE FALSE
      BY <1>1 DEF Lost
    <2>3. QED BY <1>1, <1>3, <2>1, <2>2, ExtractedIs
  <1>5. SourceInv'
    BY <1>1, <1>3 DEF SourceInv, Busy
  \* An old place of the component counts as shared.
  <1>6. /\ shared \subseteq shared'
        /\ Component # Main /\ b \in DOMAIN disk => "own" \in shared'
    <2>1. "own" # "around"
      OBVIOUS
    <2>2. QED BY <1>1, <2>1
  <1>7. MergedInv'
    <2>1. \A n \in DOMAIN merged : n \in Proper
      BY <1>3 DEF MergedInv
    <2>2. done = 0 => DOMAIN merged = {Root}
      BY <1>3 DEF MergedInv
    <2>3. ASSUME shared' = {}, NEW n \in DOMAIN merged \ {Root}
          PROVE  /\ n.path \in DOMAIN disk' /\ n.path[1] # Component
                 /\ Len(n.path) > 1 => /\ Dirname(n) \in DOMAIN merged
                                       /\ n.path \in DOMAIN named /\ named[n.path] = n
      <3>1. shared = {}
        BY <1>6, <2>3
      <3>2. /\ n.path \in DOMAIN disk
            /\ Len(n.path) > 1 => Dirname(n) \in DOMAIN merged /\ n.path \in DOMAIN named /\ named[n.path] = n
        BY <1>3, <3>1 DEF MergedInv
      <3>3. ASSUME n.path[1] = Component PROVE FALSE
        <4>1. Component # Main
          BY <1>3, <2>2
        <4>2. b \in DOMAIN disk
          BY <1>3, <3>2, <3>3, <4>1, TopOnDisk
        <4>3. QED BY <1>6, <2>3, <4>1, <4>2
      <3>4. QED BY <1>4, <3>2, <3>3
    <2>4. Component # Main => b \in DOMAIN disk' /\ disk'[b] = Faux
      BY <1>3, <1>4
    <2>5. QED BY <1>1, <1>2, <2>1, <2>2, <2>3, <2>4 DEF MergedInv, Busy
  <1>8. Loading'
    <2>1. Fresh'
      BY <1>1, <1>3 DEF Fresh
    <2>2. TreeInv'
      BY <2>1, FreshTreeNext
    <2>3. QED BY <1>1, <2>2 DEF Loading, list
  <1>9. Accounted(Basedir, WholeOf(archive))'
    <2> SUFFICES ASSUME AllStraight, "around" \notin shared', NEW p \in DOMAIN disk'
                 PROVE  \/ p = b \/ Told(p)'
                        \/ \E n \in WholeOf(list) \ {Root} : NameIn(disk', p) = At(b, n)
      BY <1>1, <1>2 DEF Accounted
    <2>1. ASSUME p \in DOMAIN disk, disk'[p] = disk[p] PROVE Told(p)'
      <3>1. Told(p)
        BY <1>1, <1>3, <1>6, <2>1 DEF MergedInv
      <3>2. NameIn(disk', p) = NameIn(disk, p)
        BY <2>1 DEF NameIn
      <3>3. QED BY <1>1, <2>1, <3>1, <3>2 DEF Told
    <2>2. QED BY <1>4, <2>1
  <1>10. Alone(Basedir, WholeOf(archive))'
    <2> SUFFICES ASSUME "around" \notin shared', NEW s \in Segment,
                        {n.path[1] : n \in WholeOf(list) \ {Root}} = {s},
                        NEW p \in DOMAIN disk', Within(b \o <<s>>, p)
                 PROVE  \E n \in WholeOf(list) \ {Root} : NameIn(disk', p) = At(b, n)
      BY <1>1, <1>2 DEF Alone
    <2>1. /\ b \o <<s>> \in Seq(Segment) /\ <<s>> \in Seq(Segment) /\ <<s>> # <<>>
          /\ Len(b) \in Nat /\ Len(b \o <<s>>) = Len(b) + 1
      <3>1. <<s>> \in Seq(Segment) /\ Len(<<s>>) = 1 /\ <<s>> # <<>>
        OBVIOUS
      <3>2. QED BY <1>3, <3>1, Joined
    <2>2. p # b
      BY <2>1 DEF Within
    <2>3. ASSUME p \in DOMAIN disk PROVE FALSE
      <3>1. p \in Seq(Segment) /\ Standing(disk)
        BY <1>3, <2>3 DEF Standing
      <3>2. b \o <<s>> \in DOMAIN disk
        <4>1. PICK t \in Seq(Segment) : p = (b \o <<s>>) \o t
          BY <2>1, <3>1, WithinIs
        <4>2. CASE t = <<>>
          <5>1. p = b \o <<s>>
            BY <2>1, <4>1, <4>2, Joined
          <5>2. QED BY <2>3, <5>1
        <4>3. CASE t # <<>>
          <5>1. b \o <<s>> # <<>>
            BY <1>3, <2>1, Joined
          <5>2. b \o <<s>> \in Parents(p)
            BY <2>1, <3>1, <4>1, <4>3, <5>1, ParentsAre
          <5>3. QED BY <2>3, <3>1, <5>2 DEF Standing
        <4>4. QED BY <4>2, <4>3
      <3>3. Component # Main
        BY <1>1, <1>3, <2>3 DEF MergedInv
      <3>4. b \in DOMAIN disk
        <4>1. b \in Parents(b \o <<s>>)
          BY <1>3, <2>1, <3>3, ParentsAre
        <4>2. QED BY <1>3, <3>2, <4>1 DEF Standing
      <3>5. {n.path[1] : n \in DOMAIN list \ {Root}} = {s}
        BY <1>3, WholeTops
      <3>6. "around" \in shared'
        BY <1>1, <3>2, <3>3, <3>4, <3>5
      <3>7. QED BY <3>6
    <2>4. QED BY <1>4, <2>2, <2>3
  <1>11. Laid'
    <2>1. \A n \in WholeOf(list) \ {Root} :
             /\ n.slash => b \o n.path \in DOMAIN disk' /\ disk'[b \o n.path] = Faux
             /\ ~n.slash /\ LeadsOn(list, n) => /\ b \o n.path \in DOMAIN disk'
                                                /\ disk'[b \o n.path] \in {Faux, Content(list, n)}
      BY <1>4
    <2>2. QED BY <1>1, <1>2, <1>9, <1>10, <2>1 DEF Laid
  <1>12. LoadInv' /\ RenameInv'
    BY <1>1, <1>8, <1>11 DEF LoadInv, RenameInv
  <1>13. QED BY <1>4, <1>5, <1>7, <1>12 DEF KnownInv

\* Until it is merged, what a tarball brings is no matter of the whole.
LEMMA MergedStays ==
    ASSUME MergedInv, Busy, step' # "unpack", UNCHANGED <<tarballs, done, merged, named, shared>>,
           shared = {} => \A n \in DOMAIN merged \ {Root} : n.path \in DOMAIN disk',
           step' = "died" \/ Component = Main \/ (Basedir \in DOMAIN disk' /\ disk'[Basedir] = Faux)
    PROVE  MergedInv'
  <1>1. Component' = Component /\ Basedir' = Basedir /\ AllStraight' = AllStraight
    BY DEF Component, Basedir, AllStraight
  <1>2. \A n \in DOMAIN merged : n \in Proper
    BY DEF MergedInv
  <1>3. done = 0 => DOMAIN merged = {Root}
    BY DEF MergedInv
  <1>4. ASSUME shared = {}, NEW n \in DOMAIN merged \ {Root}
        PROVE  /\ n.path \in DOMAIN disk' /\ n.path[1] # Component
               /\ Len(n.path) > 1 => /\ Dirname(n) \in DOMAIN merged
                                     /\ n.path \in DOMAIN named /\ named[n.path] = n
    BY <1>4 DEF MergedInv
  <1>5. QED BY <1>1, <1>2, <1>3, <1>4 DEF MergedInv, Busy

\* What each step of load does to the names, the childnames and the hard links.
LEMMA AddMissingLoads == AddMissing => pc' = "children" /\ DOMAIN catalog' = WholeOf(archive)
  BY DEF AddMissing, WholeOf

LEMMA RecordChildrenLoads ==
    ASSUME Loading, RecordChildren
    PROVE  /\ pc' = "hardlinks" /\ UNCHANGED <<catalog, archive>> /\ pc = "children"
           /\ DOMAIN child' = {n.path : n \in DOMAIN catalog \ {Root}}
           /\ Origins \subseteq masters'
           /\ \A n \in DOMAIN catalog : catalog[n] = IF n \in DOMAIN archive THEN archive[n] ELSE Faux
  <1>1. /\ pc = "children" /\ pc' = "hardlinks" /\ UNCHANGED <<catalog, archive>>
        /\ masters' = {Plain(catalog[n].link.path) :
                          n \in {m \in DOMAIN catalog : "hardlink" \in catalog[m].type}}
    BY DEF RecordChildren, Is
  <1>2. \A n \in DOMAIN catalog : catalog[n] = IF n \in DOMAIN archive THEN archive[n] ELSE Faux
    BY <1>1 DEF Loading, TreeInv, MastersInv
  <1>3. DOMAIN archive \subseteq DOMAIN catalog
    BY DEF Loading, TreeInv, CatalogInv
  <1>4. Origins \subseteq masters'
    BY <1>1, <1>2, <1>3 DEF Origins
  <1>5. DOMAIN child' = {n.path : n \in DOMAIN catalog \ {Root}}
    BY DEF RecordChildren
  <1>6. QED BY <1>1, <1>2, <1>4, <1>5

LEMMA OriginsListed ==
    ASSUME archive \in Archives, NEW m \in Origins, m \in WholeOf(archive)
    PROVE  m \in DOMAIN archive
  <1>1. PICK n \in DOMAIN archive : "hardlink" \in archive[n].type /\ m = Plain(archive[n].link.path)
    BY DEF Origins
  <1>2. m # Root /\ ~m.slash
    BY <1>1, ListingMore DEF Plain
  <1>3. QED BY <1>2, WholeNames

LEMMA PointHardLinksLoads ==
    ASSUME Loading, PointHardLinks
    PROVE  /\ pc = "hardlinks" /\ pc' = pc /\ DOMAIN catalog' = DOMAIN catalog /\ UNCHANGED <<child, archive>>
           /\ Origins \subseteq masters' \cup DOMAIN archive
           /\ \A n \in DOMAIN catalog : (\A m \in Origins : n \notin Group(m)) => catalog'[n] = catalog[n]
  <1>1. PICK m \in masters : m \in DOMAIN catalog /\ catalog' = Pointed(m) /\ masters' = masters \ {m}
    BY DEF PointHardLinks
  <1>2. /\ pc = "hardlinks" /\ pc' = pc /\ UNCHANGED <<child, archive>>
        /\ m \in Origins /\ ~m.slash /\ CatalogInv /\ archive \in Archives
    BY <1>1 DEF PointHardLinks, Loading, TreeInv, MastersInv, CatalogInv
  <1>7. m # Root
    BY <1>2, ListingMore DEF Origins
  <1>3. /\ DOMAIN catalog' = DOMAIN catalog
        /\ \A n \in DOMAIN catalog : n \notin Group(m) => catalog'[n] = catalog[n]
    BY <1>1, <1>2, <1>7, PointedKeeps
  <1>4. m \in DOMAIN archive
    BY <1>1, <1>2, OriginsListed DEF Loading
  <1>5. Origins \subseteq masters' \cup DOMAIN archive
    BY <1>1, <1>2, <1>4 DEF Loading
  <1>6. QED BY <1>2, <1>3, <1>5

\* What holds of a list holds of it with the directories above: nothing is in what
\* is no directory.
LEMMA WholeTree ==
    ASSUME NEW list \in Archives, TreeOf(list), NEW n \in WholeOf(list) \ {Root}, ~n.slash,
           NEW m \in WholeOf(list) \ {Root}, m # n
    PROVE  ~Within(n.path, m.path)
  <1> SUFFICES ASSUME Within(n.path, m.path) PROVE FALSE
    OBVIOUS
  <1>1. n \in DOMAIN list /\ n.path \in Seq(Segment) /\ m.path \in Seq(Segment)
    BY WholeNames, Names
  <1>2. CASE m \in DOMAIN list
    BY <1>1, <1>2 DEF TreeOf
  <1>3. CASE m \notin DOMAIN list
    <2>1. PICK x \in DOMAIN list \ {Root}, r \in Seq(Segment) : r # <<>> /\ x.path = m.path \o r
      BY <1>3, WholeNames
    <2>2. PICK t \in Seq(Segment) : m.path = n.path \o t
      BY <1>1, WithinIs
    <2>3. x.path = n.path \o (t \o r)
      <3>1. (n.path \o t) \o r = n.path \o (t \o r)
        <4>1. Regroup(n.path, t, r)
          BY <1>1, <2>1, <2>2, Regrouped
        <4>2. QED BY <4>1 DEF Regroup
      <3>2. QED BY <2>1, <2>2, <3>1
    <2>4. t \o r \in Seq(Segment) /\ t \o r # <<>> /\ x.path \in Seq(Segment)
      BY <1>1, <2>1, <2>2, Joined
    <2>5. Within(n.path, x.path) /\ x.path # n.path
      <3>1. n.path \o (t \o r) # n.path
        BY <1>1, <2>4, Joined
      <3>2. QED BY <1>1, <2>3, <2>4, <3>1, WithinIs
    <2>6. QED BY <1>1, <2>1, <2>5 DEF TreeOf
  <1>4. QED BY <1>2, <1>3

LEMMA NoTwins ==
    ASSUME NEW list \in Archives, TreeOf(list), NEW n \in WholeOf(list) \ {Root},
           NEW m \in WholeOf(list) \ {Root}, n.path = m.path
    PROVE  n = m
  <1>1. n \in Proper /\ m \in Proper /\ n.path \in Seq(Segment)
    BY WholeNames, Names
  <1>2. Within(n.path, m.path) /\ Within(m.path, n.path)
    <2>1. n.path \o <<>> = n.path /\ <<>> \in Seq(Segment)
      BY <1>1, Joined, EmptySeq
    <2>2. Within(n.path, n.path)
      BY <1>1, <2>1, WithinIs
    <2>3. QED BY <2>2
  <1>3. CASE n.slash /\ m.slash
    BY <1>1, <1>3, Names
  <1>4. CASE ~n.slash
    BY <1>2, <1>4, WholeTree
  <1>5. CASE ~m.slash
    BY <1>2, <1>5, WholeTree
  <1>6. QED BY <1>3, <1>4, <1>5

\* The directory at the top that a name is in.
LEMMA WholeTop ==
    ASSUME NEW list \in Archives, NEW n \in WholeOf(list) \ {Root}, Len(n.path) > 1
    PROVE  Folder(<<n.path[1]>>) \in WholeOf(list)
  <1> DEFINE f == <<n.path[1]>>
             t == Tail(n.path)
  <1>1. n.path \in Seq(Segment) /\ n.path # <<>>
    BY WholeNames, Names
  <1>2. f \in Seq(Segment) /\ f # <<>> /\ Len(f) = 1 /\ t \in Seq(Segment) /\ n.path = f \o t
    BY <1>1, Firsts
  <1> HIDE DEF f, t
  <1>3. t # <<>>
    <2>1. t = <<>> => f \o t = f
      BY <1>2, Joined
    <2>2. QED BY <1>2, <2>1
  <1>4. PICK m \in DOMAIN list, r \in Seq(Segment) : m.path = n.path \o r
    <2>1. CASE n \in DOMAIN list
      <3>1. n.path = n.path \o <<>> /\ <<>> \in Seq(Segment)
        BY <1>1, Joined, EmptySeq
      <3>2. QED BY <2>1, <3>1
    <2>2. CASE n \notin DOMAIN list
      BY <2>2, WholeNames
    <2>3. QED BY <2>1, <2>2
  <1>5. m.path = f \o (t \o r)
    <2>1. f \in Seq(Segment) /\ t \in Seq(Segment)
      BY <1>2
    <2>2. (f \o t) \o r = f \o (t \o r)
      <3>1. Regroup(f, t, r)
        BY <2>1, Regrouped
      <3>2. QED BY <3>1 DEF Regroup
    <2>3. QED BY <1>2, <1>4, <2>2
  <1>6. t \o r \in Seq(Segment) /\ t \o r # <<>>
    BY <1>2, <1>3, <1>4, Joined
  <1>7. Folder(f) \in WholeOf(list)
    BY <1>2, <1>4, <1>5, <1>6, WholeClosed
  <1>8. QED BY <1>7 DEF f

\* When an index is loaded, every name is found by its path.
LEMMA LoadedIs ==
    ASSUME Loading, pc = "loaded", TreeOf(archive)
    PROVE  /\ archive \in Archives /\ DOMAIN catalog = WholeOf(archive) /\ Root \in DOMAIN catalog
           /\ \A n \in DOMAIN catalog \ {Root} :
                 n \in Proper /\ Dirname(n) \in DOMAIN catalog /\ child[n.path] = n
           /\ \A n \in WholeOf(archive) : n \in DOMAIN archive => LeadsOn(archive, n)
  <1>1. /\ archive \in Archives /\ DOMAIN catalog = WholeOf(archive) /\ Root \in DOMAIN catalog
        /\ \A n \in DOMAIN catalog \ {Root} : n \in Proper /\ Dirname(n) \in DOMAIN catalog
        /\ masters = {}
    BY DEF Loading, TreeInv, CatalogInv, MastersInv
  <1>2. ASSUME NEW n \in DOMAIN catalog \ {Root} PROVE child[n.path] = n
    <2>1. child[n.path] = n \/ {Plain(n.path), Folder(n.path)} \subseteq DOMAIN catalog
      BY DEF Loading, TreeInv, ChildInv
    <2>2. n.path \in Seq(Segment) /\ n.path # <<>>
      BY <1>1, Names
    <2>3. /\ Plain(n.path).path = n.path /\ Folder(n.path).path = n.path
          /\ Plain(n.path) # Root /\ Folder(n.path) # Root /\ Plain(n.path) # Folder(n.path)
      BY <2>2 DEF Plain, Folder, Root
    <2>4. QED BY <1>1, <2>1, <2>3, NoTwins
  <1>3. ASSUME NEW n \in DOMAIN archive PROVE LeadsOn(archive, n)
    <2>1. Origins \subseteq DOMAIN archive
      BY <1>1 DEF Loading
    <2>2. QED BY <2>1 DEF LeadsOn, Origins
  <1>4. QED BY <1>1, <1>2, <1>3

\* When the loading is over, a hard link is the name of the file that it was one of.
LEMMA TreatingBegins == Loading /\ pc = "loaded" /\ TreeOf(archive) => Treating
  <1> SUFFICES ASSUME Loading, pc = "loaded", TreeOf(archive) PROVE Treating
    OBVIOUS
  <1>1. /\ archive \in Archives /\ DOMAIN catalog = WholeOf(archive)
        /\ \A n \in DOMAIN catalog \ {Root} :
              n \in Proper /\ Dirname(n) \in DOMAIN catalog /\ child[n.path] = n
        /\ \A n \in DOMAIN archive : LeadsOn(archive, n)
    BY LoadedIs DEF WholeOf
  <1>2. archive = tarballs[done + 1].list /\ DOMAIN child = {n.path : n \in DOMAIN catalog \ {Root}}
    BY DEF Loading
  <1>3. \A n \in DOMAIN catalog : (\A m \in Origins : n \notin Group(m)) =>
           catalog[n] = IF n \in DOMAIN archive THEN archive[n] ELSE Faux
    BY DEF Loading
  <1>4. ASSUME NEW n \in DOMAIN catalog, n = Root \/ n.slash PROVE Alike(catalog[n], Faux)
    <2>1. ASSUME NEW m \in Origins, n \in Group(m) PROVE FALSE
      <3>1. PICK o \in DOMAIN archive : "hardlink" \in archive[o].type /\ m = Plain(archive[o].link.path)
        BY DEF Origins
      <3>2. m # Root /\ ~m.slash
        BY <1>1, <3>1, ListingMore DEF Plain
      <3>3. n \in DOMAIN archive /\ "hardlink" \in archive[n].type
        BY <1>4, <2>1, <3>2 DEF Group
      <3>4. QED BY <1>1, <1>4, <3>3, ListingMore
    <2>2. catalog[n] = IF n \in DOMAIN archive THEN archive[n] ELSE Faux
      BY <1>3, <2>1
    <2>3. n \in DOMAIN archive => Alike(archive[n], Faux)
      BY <1>1, <1>4, ListingMore
    <2>4. QED BY <2>2, <2>3 DEF Alike
  <1>5. ASSUME StraightIn(archive), NEW n \in DOMAIN catalog \ {Root}, ~n.slash
        PROVE  Settled(n) \/ Linking(n)
    <2>1. n \in DOMAIN archive /\ n \in Proper
      BY <1>1, <1>5, WholeNames
    <2>2. ASSUME NEW m \in Origins, n \in Group(m) PROVE Settled(n) \/ Linking(n)
      <3>1. /\ m \in DOMAIN archive /\ m \in Proper /\ ~m.slash /\ m # Root /\ archive[m].type = {"file"}
            /\ n # m => archive[n] = [type |-> {"hardlink"}, size |-> 0,
                                      link |-> [rooted |-> FALSE, path |-> m.path]]
        BY <1>1, <1>5, <2>2, GroupsApart DEF Straight
      <3>2. Kept(m)
        BY <1>5 DEF Loading, TreeInv, MastersInv, Straight
      <3>3. Content(archive, n) = archive[m]
        <4>1. CASE n = m
          BY <3>1, <4>1 DEF Content
        <4>2. CASE n # m
          <5>1. "hardlink" \in archive[n].type /\ archive[n].link.path = m.path
            BY <3>1, <4>2
          <5>2. Plain(m.path) = m
            BY <3>1, Names
          <5>3. QED BY <5>1, <5>2 DEF Content
        <4>3. QED BY <4>1, <4>2
      <3> DEFINE p == Preferred(m)
      <3>4. p \in Group(m)
        BY <1>1, <3>1, PreferredIsFirst
      <3>5. p \in DOMAIN archive /\ p \in DOMAIN catalog /\ Plain(p.path) = p
        <4>1. p \in DOMAIN archive /\ p \in Proper /\ ~p.slash
          BY <1>1, <3>1, <3>4, Groups
        <4>2. QED BY <1>1, <4>1, Names DEF WholeOf
      <3>6. CASE n = p
        <4>1. catalog[n] = archive[m]
          BY <3>2, <3>6 DEF Kept
        <4>2. QED BY <3>3, <4>1 DEF Settled, Alike
      <3>7. CASE n # p
        <4>1. /\ catalog[n] = [type |-> {"hardlink"}, size |-> 0,
                               link |-> [rooted |-> FALSE, path |-> p.path]]
              /\ catalog[p] = archive[m]
          BY <2>2, <3>2, <3>7 DEF Kept
        <4> HIDE DEF p
        <4>2. catalog[n].type = {"hardlink"} /\ catalog[n].link.path = p.path
          BY <4>1
        <4>3. QED BY <3>1, <3>3, <3>5, <4>1, <4>2 DEF Linking
      <3>8. QED BY <3>6, <3>7
    <2>3. ASSUME \A m \in Origins : n \notin Group(m) PROVE Settled(n)
      <3>1. catalog[n] = archive[n]
        BY <1>3, <2>1, <2>3
      <3>2. "hardlink" \notin archive[n].type
        <4>1. "hardlink" \in archive[n].type =>
                 Plain(archive[n].link.path) \in Origins /\ n \in Group(Plain(archive[n].link.path))
          BY <2>1 DEF Origins, Group
        <4>2. QED BY <2>3, <4>1
      <3>3. Content(archive, n) = archive[n]
        BY <3>2 DEF Content
      <3>4. QED BY <3>1, <3>3 DEF Settled, Alike
    <2>4. QED BY <2>2, <2>3
  <1>6. QED BY <1>1, <1>2, <1>4, <1>5 DEF Treating

LEMMA LoadsOn == ASSUME KnownInv, Load PROVE KnownInv'
  <1>1. /\ step = "load" /\ UNCHANGED <<tarballs, done, merged, named, disk, shared, archive>>
        /\ AddMissing \/ RecordChildren \/ PointHardLinks \/ Loaded
        /\ step' = IF pc' = "loaded" THEN "links" ELSE "load"
    BY DEF Load, AddMissing, RecordChildren, PointHardLinks, Loaded
  <1>2. Standing(disk) /\ SourceInv /\ MergedInv /\ Loading /\ Laid /\ Busy /\ step' \in {"load", "links"}
    BY <1>1 DEF KnownInv, LoadInv, Busy
  <1>3. Component' = Component /\ Basedir' = Basedir /\ AllStraight' = AllStraight
    BY <1>1 DEF Component, Basedir, AllStraight
  <1>4. SourceInv'
    BY <1>1, <1>2 DEF SourceInv, Busy
  <1>5. MergedInv'
    <2>1. shared = {} => \A n \in DOMAIN merged \ {Root} : n.path \in DOMAIN disk'
      BY <1>1, <1>2 DEF MergedInv
    <2>2. Component = Main \/ (Basedir \in DOMAIN disk' /\ disk'[Basedir] = Faux)
      BY <1>1, <1>2 DEF MergedInv
    <2>3. step' # "unpack"
      BY <1>2
    <2>4. QED BY <1>1, <1>2, <2>1, <2>2, <2>3, MergedStays
  <1>6. Laid'
    <2>1. \A p : Told(p)' = Told(p)
      BY <1>1 DEF Told, NameIn
    <2>2. Accounted(Basedir, WholeOf(archive))'
      BY <1>1, <1>2, <1>3, <2>1 DEF Laid, Accounted, NameIn
    <2>3. Alone(Basedir, WholeOf(archive))'
      BY <1>1, <1>2, <1>3 DEF Laid, Alone, NameIn
    <2>4. QED BY <1>1, <1>2, <1>3, <2>2, <2>3 DEF Laid
  <1>7. Loading'
    <2>1. archive' = tarballs'[done' + 1].list
      BY <1>1, <1>2 DEF Loading
    <2>2. Origins' = Origins /\ \A m : Group(m)' = Group(m)
      BY <1>1 DEF Origins, Group
    <2>3. CASE AddMissing
      <3>1. TreeInv'
        BY <1>2, <2>3, AddMissingTree DEF Loading
      <3>2. pc' = "children" /\ step' = "load"
        BY <1>1, <2>3 DEF AddMissing
      <3>3. DOMAIN catalog' = WholeOf(archive)
        BY <2>3, AddMissingLoads
      <3>4. QED BY <1>1, <2>1, <3>1, <3>2, <3>3 DEF Loading
    <2>4. CASE RecordChildren
      <3>1. TreeInv'
        BY <1>2, <2>4, RecordChildrenTree DEF Loading
      <3>2. /\ pc' = "hardlinks" /\ UNCHANGED <<catalog, archive>> /\ pc = "children"
            /\ DOMAIN child' = {n.path : n \in DOMAIN catalog \ {Root}}
            /\ Origins \subseteq masters'
            /\ \A n \in DOMAIN catalog : catalog[n] = IF n \in DOMAIN archive THEN archive[n] ELSE Faux
        BY <1>2, <2>4, RecordChildrenLoads
      <3>3. DOMAIN catalog = WholeOf(archive) /\ step' = "load"
        BY <1>1, <1>2, <3>2 DEF Loading
      <3>4. QED BY <2>1, <2>2, <3>1, <3>2, <3>3 DEF Loading
    <2>5. CASE PointHardLinks
      <3>1. TreeInv'
        BY <1>2, <2>5, PointHardLinksTree DEF Loading
      <3>2. /\ pc = "hardlinks" /\ pc' = pc /\ DOMAIN catalog' = DOMAIN catalog /\ UNCHANGED <<child, archive>>
            /\ Origins \subseteq masters' \cup DOMAIN archive
            /\ \A n \in DOMAIN catalog : (\A m \in Origins : n \notin Group(m)) => catalog'[n] = catalog[n]
        BY <1>2, <2>5, PointHardLinksLoads
      <3>3. /\ DOMAIN catalog = WholeOf(archive) /\ step' = "load"
            /\ DOMAIN child = {n.path : n \in DOMAIN catalog \ {Root}}
            /\ \A n \in DOMAIN catalog : (\A m \in Origins : n \notin Group(m)) =>
                  catalog[n] = IF n \in DOMAIN archive THEN archive[n] ELSE Faux
        BY <1>1, <1>2, <3>2 DEF Loading
      <3>4. QED BY <2>1, <2>2, <3>1, <3>2, <3>3 DEF Loading
    <2>6. CASE Loaded
      <3>1. pc = "hardlinks" /\ masters = {} /\ pc' = "loaded" /\ UNCHANGED <<archive, tree>> /\ step' = "links"
        BY <1>1, <2>6 DEF Loaded
      <3>2. TreeInv'
        BY <1>2, <3>1, TreeStays DEF Loading
      <3>3. UNCHANGED <<catalog, child, masters>>
        BY <3>1 DEF tree
      <3>4. QED BY <1>2, <2>1, <2>2, <3>1, <3>2, <3>3 DEF Loading
    <2>7. QED BY <1>1, <2>3, <2>4, <2>5, <2>6
  <1>8. pc' \in {"children", "hardlinks", "loaded"}
    BY <1>1 DEF AddMissing, RecordChildren, PointHardLinks, Loaded
  <1>9. ASSUME pc' = "loaded" PROVE Treating'
    <2>1. TreeOf(archive)'
      <3>1. TreeOf(archive)
        BY <1>2, Tarballs DEF Loading
      <3>2. QED BY <1>1, <3>1
    <2>2. (Loading /\ pc = "loaded" /\ TreeOf(archive))' => Treating'
      BY TreatingBegins, PTL
    <2>3. QED BY <1>7, <1>9, <2>1, <2>2
  <1>10. LoadInv' /\ RenameInv'
    BY <1>1, <1>2, <1>6, <1>7, <1>8, <1>9 DEF LoadInv, RenameInv
  <1>11. QED BY <1>1, <1>2, <1>4, <1>5, <1>10 DEF KnownInv

LEMMA LoadDiesKeeps == ASSUME KnownInv, LoadDies PROVE KnownInv'
  <1>1. step = "load" /\ step' = "died" /\ UNCHANGED <<tarballs, done, merged, named, disk, shared>>
    BY DEF LoadDies
  <1>2. Standing(disk) /\ SourceInv /\ MergedInv /\ Busy
    BY <1>1 DEF KnownInv, Busy
  <1>3. MergedInv'
    <2>1. shared = {} => \A n \in DOMAIN merged \ {Root} : n.path \in DOMAIN disk'
      BY <1>1, <1>2 DEF MergedInv
    <2>2. QED BY <1>1, <1>2, <2>1, MergedStays
  <1>4. SourceInv' /\ LoadInv' /\ RenameInv'
    BY <1>1, <1>2 DEF SourceInv, Busy, LoadInv, RenameInv
  <1>5. QED BY <1>1, <1>2, <1>3, <1>4 DEF KnownInv

LEMMA DiesKeeps == ASSUME KnownInv, Dies PROVE KnownInv'
  <1>1. step' = "died" /\ UNCHANGED <<tarballs, done, merged, named, disk, shared>>
    BY DEF Dies
  <1>2. Standing(disk) /\ SourceInv /\ MergedInv
    BY DEF KnownInv
  <1>3. MergedInv'
    BY <1>1, <1>2 DEF MergedInv, Busy
  <1>4. SourceInv' /\ LoadInv' /\ RenameInv'
    BY <1>1, <1>2 DEF SourceInv, Busy, LoadInv, RenameInv
  <1>5. QED BY <1>1, <1>2, <1>3, <1>4 DEF KnownInv

\* What is settled is no hard link; one that is treated is settled, and what else
\* linked to its file still does.
LEMMA TreatingGoesOn == ASSUME Treating, archive \in Archives, TreatHardLink PROVE Treating'
  <1>1. /\ UNCHANGED <<archive, child, tarballs, done>>
        /\ \E k \in HardLinks : catalog' = [catalog EXCEPT ![k] = Turned(k)]
    BY DEF TreatHardLink, orig
  <1>2. PICK k \in DOMAIN catalog : /\ "hardlink" \in catalog[k].type
                                   /\ catalog' = [catalog EXCEPT ![k] = Turned(k)]
    BY <1>1 DEF HardLinks, Is
  <1>3. /\ DOMAIN catalog' = DOMAIN catalog /\ catalog'[k] = Turned(k)
        /\ \A n \in DOMAIN catalog \ {k} : catalog'[n] = catalog[n]
    BY <1>2
  <1>4. k # Root /\ ~k.slash
    <2>1. "hardlink" \notin Faux.type
      BY DEF Faux
    <2>2. QED BY <1>2, <2>1 DEF Treating, Alike
  <1>5. \A n \in DOMAIN catalog : n = Root \/ n.slash => Alike(catalog'[n], Faux)
    BY <1>3, <1>4 DEF Treating
  <1>6. ASSUME StraightIn(archive), NEW n \in DOMAIN catalog \ {Root}, ~n.slash
        PROVE  Settled(n)' \/ Linking(n)'
    <2>1. Content(archive', n) = Content(archive, n)
      BY <1>1
    <2>2. CASE n = k
      <3>1. ~Settled(k)
        <4>1. k \in DOMAIN archive
          BY <1>4, WholeNames DEF Treating
        <4>2. "hardlink" \notin Content(archive, k).type
          <5>1. "hardlink" \notin {"file"}
            OBVIOUS
          <5>2. QED BY <1>6, <4>1, <5>1 DEF StraightIn, Content
        <4>3. QED BY <1>2, <4>2 DEF Settled, Alike
      <3>2. Linking(k)
        BY <1>6, <2>2, <3>1 DEF Treating
      <3>3. Turned(k).type = {"file"} /\ Turned(k).size = Content(archive, k).size
        <4>1. ({"hardlink"} \ {"hardlink"}) \cup {"file"} = {"file"}
          OBVIOUS
        <4>2. QED BY <3>2, <4>1 DEF Linking, Turned
      <3>4. QED BY <1>3, <2>1, <2>2, <3>2, <3>3 DEF Settled, Linking, Alike
    <2>3. CASE n # k
      <3>1. catalog'[n] = catalog[n]
        BY <1>3, <2>3
      <3>2. Settled(n) => Settled(n)'
        BY <2>1, <3>1 DEF Settled
      <3>3. Linking(n) => Linking(n)'
        <4> SUFFICES ASSUME Linking(n) PROVE Linking(n)'
          OBVIOUS
        <4> DEFINE m == Plain(catalog[n].link.path)
        <4>1. m \in DOMAIN catalog /\ catalog[m].type = {"file"}
          BY DEF Linking
        <4>2. m # k
          <5>1. "hardlink" \notin {"file"}
            OBVIOUS
          <5>2. QED BY <1>2, <4>1, <5>1
        <4>3. catalog'[m] = catalog[m]
          BY <1>3, <4>1, <4>2
        <4> HIDE DEF m
        <4>4. m' = m
          BY <3>1 DEF m
        <4>5. QED BY <1>3, <2>1, <3>1, <4>1, <4>3 DEF Linking, m
      <3>4. QED BY <1>6, <3>2, <3>3 DEF Treating
    <2>4. QED BY <2>2, <2>3
  <1>7. QED BY <1>1, <1>3, <1>5, <1>6 DEF Treating

LEMMA TreatHardLinkKeeps == ASSUME KnownInv, TreatHardLink PROVE KnownInv'
  <1>1. step = "links" /\ UNCHANGED <<archive, orig>>
    BY DEF TreatHardLink
  <1>2. /\ Standing(disk) /\ SourceInv /\ MergedInv /\ Treating /\ Laid /\ Busy
        /\ UNCHANGED <<tarballs, done, step, merged, named, disk, shared>>
    BY <1>1 DEF KnownInv, LoadInv, Busy, orig
  <1>3. /\ Component' = Component /\ Basedir' = Basedir /\ AllStraight' = AllStraight /\ Busy' = Busy
        /\ \A p : Told(p)' = Told(p) /\ NameIn(disk', p) = NameIn(disk, p)
    BY <1>2 DEF Component, Basedir, AllStraight, Busy, Told, NameIn
  <1>4. Standing(disk)' /\ SourceInv' /\ MergedInv'
    BY <1>2, <1>3 DEF SourceInv, MergedInv
  <1>5. Treating'
    <2>1. archive \in Archives
      BY <1>2, Tarballs DEF Treating
    <2>2. QED BY <1>2, <2>1, TreatingGoesOn
  <1>6. Laid'
    BY <1>1, <1>2, <1>3 DEF Laid, Accounted, Alone
  <1>7. LoadInv' /\ RenameInv'
    BY <1>1, <1>2, <1>5, <1>6 DEF LoadInv, RenameInv
  <1>8. QED BY <1>4, <1>7 DEF KnownInv

LEMMA LinksTreatedKeeps == ASSUME KnownInv, LinksTreated PROVE KnownInv'
  <1>1. /\ step = "links" /\ step' = "prefix" /\ HardLinks = {}
        /\ UNCHANGED <<archive, catalog, child, tarballs, done, merged, named, disk, shared>>
    BY DEF LinksTreated, vars, tree
  <1>2. /\ Standing(disk) /\ SourceInv /\ MergedInv /\ Treating /\ Laid /\ Busy
        /\ archive = tarballs[done + 1].list
    BY <1>1 DEF KnownInv, LoadInv, Busy, Treating
  <1>3. archive \in Archives /\ TreeOf(archive) /\ (AllStraight => StraightIn(archive))
    BY <1>2, Tarballs
  <1>4. Component' = Component /\ Basedir' = Basedir /\ AllStraight' = AllStraight /\ Place' = Basedir
    BY <1>1 DEF Component, Basedir, AllStraight, Place
  <1>5. /\ DOMAIN catalog = WholeOf(archive) /\ Root \in DOMAIN catalog
        /\ \A n \in DOMAIN catalog \ {Root} :
              n \in Proper /\ Dirname(n) \in DOMAIN catalog /\ child[n.path] = n
        /\ \A n \in DOMAIN archive : LeadsOn(archive, n)
    BY <1>2 DEF Treating, WholeOf
  <1>6. /\ \A n \in DOMAIN catalog : n = Root \/ n.slash => Alike(catalog[n], Faux)
        /\ StraightIn(archive) => \A n \in DOMAIN catalog \ {Root} :
              ~n.slash => Alike(catalog[n], Content(archive, n))
    <2>1. \A n \in DOMAIN catalog : ~Linking(n)
      BY <1>1 DEF HardLinks, Is, Linking
    <2>2. QED BY <1>2, <2>1 DEF Treating, Settled
  <1>7. SourceInv'
    BY <1>1, <1>2 DEF SourceInv, Busy
  <1>8. MergedInv'
    <2>1. shared = {} => \A n \in DOMAIN merged \ {Root} : n.path \in DOMAIN disk'
      BY <1>1, <1>2 DEF MergedInv
    <2>2. Component = Main \/ (Basedir \in DOMAIN disk' /\ disk'[Basedir] = Faux)
      BY <1>1, <1>2 DEF MergedInv
    <2>3. step' # "unpack"
      BY <1>1
    <2>4. QED BY <1>1, <1>2, <2>1, <2>2, <2>3, MergedStays
  <1>9. FoundInv'
    <2>1. DOMAIN child = {n.path : n \in DOMAIN catalog \ {Root}}
      BY <1>2 DEF Treating
    <2>2. \A n \in DOMAIN catalog \ {Root} : Len(n.path) > 1 => Folder(<<n.path[1]>>) \in DOMAIN catalog
      BY <1>3, <1>5, WholeTop
    <2>3. Alike(catalog[Root], Faux)
      BY <1>5, <1>6
    <2>4. step' # "merge"
      BY <1>1
    <2>5. QED BY <1>1, <1>5, <1>6, <2>1, <2>2, <2>3, <2>4 DEF FoundInv
  <1>10. PlacedInv'
    <2> SUFFICES ASSUME NEW n \in DOMAIN catalog \ {Root}
                 PROVE  /\ Basedir \o n.path \in DOMAIN disk
                        /\ n.slash => disk[Basedir \o n.path] = Faux /\ Alike(catalog[n], Faux)
                        /\ ~n.slash /\ AllStraight =>
                              disk[Basedir \o n.path] = Faux \/ Alike(catalog[n], disk[Basedir \o n.path])
      BY <1>1, <1>4, <1>6 DEF PlacedInv
    <2>1. CASE n.slash
      BY <1>2, <1>5, <1>6, <2>1 DEF Laid
    <2>2. CASE ~n.slash
      <3>1. n \in DOMAIN archive /\ LeadsOn(archive, n)
        BY <1>3, <1>5, <2>2, WholeNames
      <3>2. Basedir \o n.path \in DOMAIN disk /\ disk[Basedir \o n.path] \in {Faux, Content(archive, n)}
        BY <1>2, <1>5, <2>2, <3>1 DEF Laid
      <3>3. QED BY <1>3, <1>6, <2>2, <3>2
    <2>3. QED BY <2>1, <2>2
  <1>11. Accounted(Place, DOMAIN catalog)'
    <2>1. \A p : Told(p)' = Told(p) /\ NameIn(disk', p) = NameIn(disk, p)
      BY <1>1 DEF Told, NameIn
    <2>2. Accounted(Basedir, WholeOf(archive))
      BY <1>2 DEF Laid
    <2>3. QED BY <1>1, <1>4, <1>5, <1>6, <2>1, <2>2 DEF Accounted
  <1>12. Alone(Place, DOMAIN catalog)'
    <2>1. \A p : NameIn(disk', p) = NameIn(disk, p)
      BY <1>1 DEF NameIn
    <2>2. Alone(Basedir, WholeOf(archive))
      BY <1>2 DEF Laid
    <2>3. QED BY <1>1, <1>4, <1>5, <1>6, <2>1, <2>2 DEF Alone
  <1>13. LoadInv' /\ RenameInv'
    BY <1>1, <1>9, <1>10, <1>11, <1>12 DEF LoadInv, RenameInv
  <1>14. QED BY <1>1, <1>2, <1>7, <1>8, <1>13 DEF KnownInv

LEMMA KeepPrefixKeeps == ASSUME KnownInv, KeepPrefix PROVE KnownInv'
  <1>1. /\ step = "prefix" /\ step' = "capture"
        /\ UNCHANGED <<catalog, child, tarballs, done, merged, named, disk, shared>>
    BY DEF KeepPrefix, tree
  <1>2. /\ Standing(disk) /\ SourceInv /\ MergedInv /\ Busy /\ Place = Basedir
        /\ FoundInv /\ PlacedInv /\ Accounted(Place, DOMAIN catalog)
    BY <1>1 DEF KnownInv, RenameInv, Busy, Place
  <1>3. /\ Component' = Component /\ Basedir' = Basedir /\ AllStraight' = AllStraight /\ Place' = Place
        /\ step' # "merge" /\ step' # "prefix"
    BY <1>1, <1>2 DEF Component, Basedir, AllStraight, Place
  <1>4. SourceInv'
    BY <1>1, <1>2 DEF SourceInv, Busy
  <1>5. MergedInv'
    <2>1. shared = {} => \A n \in DOMAIN merged \ {Root} : n.path \in DOMAIN disk'
      BY <1>1, <1>2 DEF MergedInv
    <2>2. Component = Main \/ (Basedir \in DOMAIN disk' /\ disk'[Basedir] = Faux)
      BY <1>1, <1>2 DEF MergedInv
    <2>3. step' # "unpack"
      BY <1>1
    <2>4. QED BY <1>1, <1>2, <2>1, <2>2, <2>3, MergedStays
  <1>6. FoundInv' /\ PlacedInv'
    BY <1>1, <1>2, <1>3 DEF FoundInv, PlacedInv
  <1>7. Accounted(Place, DOMAIN catalog)'
    <2>1. \A p : Told(p)' = Told(p) /\ NameIn(disk', p) = NameIn(disk, p)
      BY <1>1 DEF Told, NameIn
    <2>2. QED BY <1>1, <1>2, <1>3, <2>1 DEF Accounted
  <1>8. LoadInv' /\ RenameInv'
    BY <1>1, <1>3, <1>6, <1>7 DEF LoadInv, RenameInv
  <1>9. QED BY <1>1, <1>2, <1>4, <1>5, <1>8 DEF KnownInv

-----------------------------------------------------------------------------
\* drop_common_prefix: the names without their first segment.

LEMMA FrontOf ==
    ASSUME NEW p \in Seq(Segment), NEW q \in Seq(Segment), q # <<>>
    PROVE  Front(q) \in Seq(Segment) /\ Front(p \o q) = p \o Front(q)
  <1>1. Len(q) \in Nat /\ Len(q) # 0
    BY Empties
  <1> DEFINE k == Len(q) - 1
             f == SubSeq(q, 1, k)
             x == SubSeq(q, k + 1, Len(q))
  <1>2. k \in Nat /\ k <= Len(q)
    BY <1>1
  <1>3. f \in Seq(Segment) /\ x \in Seq(Segment) /\ Len(f) = k /\ q = f \o x
    BY <1>2, Parted
  <1>4. Front(q) = f
    BY DEF Front
  <1> HIDE DEF f, x
  <1>5. p \o q = (p \o f) \o x
    <2>1. (p \o f) \o x = p \o (f \o x)
      <3>1. Regroup(p, f, x)
        BY <1>3, Regrouped
      <3>2. QED BY <3>1 DEF Regroup
    <2>2. QED BY <1>3, <2>1
  <1>6. p \o f \in Seq(Segment) /\ Len(p \o f) = Len(p \o q) - 1
    <2>1. p \o f \in Seq(Segment) /\ Len(p) \in Nat /\ Len(p \o f) = Len(p) + Len(f)
      BY <1>3, Joined
    <2>2. Len(p \o q) = Len(p) + Len(q)
      BY Joined
    <2>3. Len(f) = Len(q) - 1
      BY <1>3
    <2>4. Len(p \o f) = Len(p \o q) - 1
      BY <1>1, <2>1, <2>2, <2>3
    <2>5. QED BY <2>1, <2>4
  <1>7. SubSeq((p \o f) \o x, 1, Len(p \o f)) = p \o f
    BY <1>3, <1>6, Joined
  <1>8. Front(p \o q) = p \o f
    BY <1>5, <1>6, <1>7 DEF Front
  <1>9. QED BY <1>3, <1>4, <1>8

LEMMA NameInIs ==
    ASSUME NEW d, NEW p, p # <<>>
    PROVE  NameIn(d, p) = [path |-> p, slash |-> d[p].type = {"dir"}]
  BY DEF NameIn, Folder, Plain

LEMMA OneMore ==
    ASSUME NEW s \in Segment, NEW q \in Seq(Segment)
    PROVE  /\ <<s>> \o q \in Seq(Segment) /\ <<s>> \o q # <<>> /\ (<<s>> \o q)[1] = s
           /\ Tail(<<s>> \o q) = q
           /\ Len(<<s>> \o q) = 1 <=> q = <<>>
  <1> DEFINE f == <<s>>
  <1>1. f \in Seq(Segment) /\ f # <<>> /\ Len(f) = 1 /\ f[1] = s
    OBVIOUS
  <1> HIDE DEF f
  <1>2. f \o q \in Seq(Segment) /\ f \o q # <<>> /\ (f \o q)[1] = s
    BY <1>1, Joined
  <1>3. Tail(f \o q) = q
    <2>1. Tail(f \o q) \in Seq(Segment) /\ f \o q = <<s>> \o Tail(f \o q)
      BY <1>2, Firsts
    <2>2. f \o q = f \o Tail(f \o q)
      BY <2>1 DEF f
    <2>3. QED BY <1>1, <2>1, <2>2, Cancelled
  <1>4. Len(f \o q) = 1 <=> q = <<>>
    <2>1. Len(f \o q) = Len(f) + Len(q) /\ Len(q) \in Nat /\ (q = <<>> <=> Len(q) = 0)
      BY <1>1, Joined, Empties
    <2>2. QED BY <1>1, <2>1
  <1>5. QED BY <1>2, <1>3, <1>4 DEF f

LEMMA RaisedIs ==
    ASSUME NEW s \in Segment, NEW n \in Proper \ {Root}, n.path[1] = s, n # Plain(<<s>>)
    PROVE  /\ Raised(n) \in Proper /\ Below(s, Raised(n)) = n /\ n.path = <<s>> \o Raised(n).path
           /\ Raised(n) = Root <=> Len(n.path) = 1
           /\ Raised(n) = Root => n = Folder(<<s>>)
           /\ Raised(n) # Root => /\ Raised(n).path = Tail(n.path) /\ Raised(n).slash = n.slash
                                  /\ Len(n.path) > 1
                                  /\ Dirname(n) # Root /\ Raised(Dirname(n)) = Dirname(Raised(n))
  <1>1. /\ n.path \in Seq(Segment) /\ n.path # <<>> /\ n.slash \in BOOLEAN
        /\ n.slash => n = Folder(n.path)
        /\ ~n.slash => n = Plain(n.path)
    BY Names
  <1> DEFINE f == <<s>>
             t == Tail(n.path)
  <1>2. f \in Seq(Segment) /\ f # <<>> /\ Len(f) = 1 /\ t \in Seq(Segment) /\ n.path = f \o t
    BY <1>1, Firsts
  <1>3. \A q \in Seq(Segment) : f \o q # <<>> /\ Tail(f \o q) = q
    BY OneMore
  <1>4. \A q \in Seq(Segment) : Len(f \o q) = 1 <=> q = <<>>
    BY OneMore
  <1> HIDE DEF f, t
  <1>5. f \o <<>> = f /\ <<>> \in Seq(Segment)
    BY <1>2, Joined, EmptySeq
  <1>6. CASE t = <<>>
    <2>1. Len(n.path) = 1 /\ n.path = f
      BY <1>2, <1>4, <1>5, <1>6
    <2>2. n = Folder(f)
      BY <1>1, <2>1 DEF f
    <2>3. Raised(n) = Root
      BY <2>1 DEF Raised
    <2>4. Root.path = <<>>
      BY DEF Root
    <2>5. QED BY <1>2, <1>5, <2>1, <2>2, <2>3, <2>4, RootProper DEF Below, f
  <1>7. CASE t # <<>>
    <2>1. Raised(n) = [path |-> t, slash |-> n.slash] /\ Len(n.path) # 1
      BY <1>2, <1>4, <1>7 DEF Raised, t
    <2>2. Raised(n) \in Proper /\ Raised(n) # Root
      BY <1>1, <1>2, <1>7, <2>1 DEF Proper, Name, Nowhere, Root
    <2>3. Below(s, Raised(n)) = n
      <3>1. Below(s, Raised(n)) = [path |-> n.path, slash |-> n.slash]
        BY <1>2, <2>1, <2>2 DEF Below, f
      <3>2. n \in Name
        BY DEF Proper
      <3>3. QED BY <3>1, <3>2 DEF Name
    <2>4. Len(n.path) > 1
      BY <1>1, <2>1, Empties
    <2>5. Front(t) \in Seq(Segment) /\ Front(n.path) = f \o Front(t)
      BY <1>2, <1>7, FrontOf
    <2>6. f \o Front(t) # <<>> /\ f \o Front(t) \in Seq(Segment)
      BY <1>2, <2>5, Joined
    <2>7. Dirname(n) = [path |-> f \o Front(t), slash |-> TRUE]
      BY <2>5, <2>6 DEF Dirname, Folder
    <2>8. Dirname(Raised(n)) = Folder(Front(t))
      BY <2>1 DEF Dirname
    <2>9. Raised(Dirname(n)) = Folder(Front(t))
      <3> DEFINE d == Dirname(n)
      <3>1. d.path = f \o Front(t) /\ d.slash = TRUE
        BY <2>7
      <3> HIDE DEF d
      <3>2. CASE Front(t) = <<>>
        <4>1. Len(d.path) = 1
          BY <1>4, <2>5, <3>1, <3>2
        <4>2. Raised(d) = Root /\ Folder(Front(t)) = Root
          BY <3>2, <4>1 DEF Raised, Folder
        <4>3. QED BY <4>2 DEF d
      <3>3. CASE Front(t) # <<>>
        <4>1. Len(d.path) # 1 /\ Tail(d.path) = Front(t)
          BY <1>3, <1>4, <2>5, <3>1, <3>3
        <4>2. Raised(d) = [path |-> Front(t), slash |-> TRUE]
          BY <3>1, <4>1 DEF Raised
        <4>3. QED BY <3>3, <4>2 DEF d, Folder
      <3>4. QED BY <3>2, <3>3
    <2>10. Dirname(n) # Root
      BY <2>6, <2>7 DEF Root
    <2>11. QED BY <1>2, <2>1, <2>2, <2>3, <2>4, <2>8, <2>9, <2>10 DEF f, t
  <1>8. QED BY <1>6, <1>7

Dropped(s) ==
    [n \in {Raised(m) : m \in DOMAIN catalog \ {Root}} |->
        LET item == catalog[Below(s, n)] IN
        IF ~item.link.rooted /\ Len(item.link.path) > 1 /\ item.link.path[1] = s
        THEN Linked(item, [rooted |-> FALSE, path |-> Tail(item.link.path)]) ELSE item]
DroppedNames(s) == [p \in {Tail(q) : q \in {q \in DOMAIN child : Len(q) > 1}} |-> Raised(child[<<s>> \o p])]

\* The directory around all the files is in the catalog, and every item loses it.
LEMMA DroppedIs ==
    ASSUME FoundInv, PlacedInv, step = "prefix", NEW s \in Around,
           catalog' = Dropped(s), child' = DroppedNames(s)
    PROVE  /\ s \in Segment /\ {n.path[1] : n \in DOMAIN catalog \ {Root}} = {s}
           /\ \A n \in DOMAIN catalog \ {Root} :
                 /\ n \in Proper /\ n.path \in Seq(Segment) /\ n.path = <<s>> \o Raised(n).path
                 /\ Raised(n) \in DOMAIN catalog' /\ Alike(catalog'[Raised(n)], catalog[n])
                 /\ Raised(n) # Root => Raised(n).slash = n.slash
           /\ Root \in DOMAIN catalog' /\ Alike(catalog'[Root], Faux)
           /\ DOMAIN child' = {n.path : n \in DOMAIN catalog' \ {Root}}
           /\ \A n \in DOMAIN catalog' : \E m \in DOMAIN catalog \ {Root} : n = Raised(m)
           /\ \A n \in DOMAIN catalog' \ {Root} :
                 n \in Proper /\ Dirname(n) \in DOMAIN catalog' /\ child'[n.path] = n
  <1>1. Tops = {s} /\ Plain(<<s>>) \notin DOMAIN catalog /\ s \in Tops
    BY DEF Around
  <1>2. \A n \in DOMAIN catalog \ {Root} : /\ n \in Proper /\ n.path \in Seq(Segment) /\ n.path # <<>>
                                           /\ n.path[1] = s /\ n # Plain(<<s>>)
    BY <1>1, Names DEF Tops, FoundInv
  <1>3. PICK x \in DOMAIN catalog \ {Root} : x.path[1] = s
    BY <1>1 DEF Tops
  <1>4. s \in Segment
    BY <1>2, <1>3, Firsts
  <1>5. ASSUME NEW n \in DOMAIN catalog \ {Root}
        PROVE  /\ Raised(n) \in Proper /\ Below(s, Raised(n)) = n /\ n.path = <<s>> \o Raised(n).path
               /\ Raised(n) = Root <=> Len(n.path) = 1
               /\ Raised(n) = Root => n = Folder(<<s>>)
               /\ Raised(n) # Root => /\ Raised(n).path = Tail(n.path) /\ Raised(n).slash = n.slash
                                      /\ Len(n.path) > 1
                                      /\ Dirname(n) # Root /\ Raised(Dirname(n)) = Dirname(Raised(n))
    BY <1>2, <1>4, RaisedIs
  <1>6. ASSUME NEW n \in DOMAIN catalog \ {Root}
        PROVE  Raised(n) \in DOMAIN catalog' /\ Alike(catalog'[Raised(n)], catalog[n])
    <2> DEFINE r == Raised(n)
    <2>1. /\ r \in DOMAIN catalog'
          /\ catalog'[r] = IF /\ ~catalog[n].link.rooted
                              /\ Len(catalog[n].link.path) > 1 /\ catalog[n].link.path[1] = s
                           THEN Linked(catalog[n], [rooted |-> FALSE, path |-> Tail(catalog[n].link.path)])
                           ELSE catalog[n]
      BY <1>5 DEF Dropped
    <2> HIDE DEF r
    <2>2. Alike(catalog'[r], catalog[n])
      BY <2>1 DEF Alike, Linked
    <2>3. QED BY <2>1, <2>2 DEF r
  <1>7. Folder(<<s>>) \in DOMAIN catalog \ {Root} /\ Folder(<<s>>).slash /\ Raised(Folder(<<s>>)) = Root
    <2>1. /\ <<s>> \in Seq(Segment) /\ <<s>> # <<>> /\ Len(<<s>>) = 1
          /\ Folder(<<s>>) # Root /\ Folder(<<s>>).slash /\ Folder(<<s>>).path = <<s>>
      BY <1>4 DEF Folder, Root
    <2>2. Folder(<<s>>) \in DOMAIN catalog
      <3>1. CASE Raised(x) = Root
        BY <1>5, <3>1
      <3>2. CASE Raised(x) # Root
        BY <1>3, <1>5, <3>2 DEF FoundInv
      <3>3. QED BY <3>1, <3>2
    <2>3. QED BY <2>1, <2>2 DEF Raised
  <1>8. Root \in DOMAIN catalog' /\ Alike(catalog'[Root], Faux)
    <2>1. Alike(catalog[Folder(<<s>>)], Faux)
      BY <1>7 DEF PlacedInv
    <2>2. QED BY <1>6, <1>7, <2>1 DEF Alike
  <1>9. \A n \in DOMAIN catalog' : \E m \in DOMAIN catalog \ {Root} : n = Raised(m)
    BY DEF Dropped
  <1>10. ASSUME NEW n \in DOMAIN catalog \ {Root}, Raised(n) # Root
         PROVE  Raised(n).path \in DOMAIN child' /\ child'[Raised(n).path] = Raised(n)
    <2>1. n.path \in DOMAIN child /\ child[n.path] = n
      BY DEF FoundInv
    <2>2. Raised(n).path = Tail(n.path) /\ Len(n.path) > 1 /\ <<s>> \o Raised(n).path = n.path
      BY <1>5, <1>10
    <2>3. QED BY <2>1, <2>2 DEF DroppedNames
  <1>11. DOMAIN child' = {n.path : n \in DOMAIN catalog' \ {Root}}
    <2>1. ASSUME NEW p \in DOMAIN child' PROVE \E n \in DOMAIN catalog' \ {Root} : p = n.path
      <3>1. PICK q \in DOMAIN child : Len(q) > 1 /\ p = Tail(q)
        BY DEF DroppedNames
      <3>2. PICK n \in DOMAIN catalog \ {Root} : q = n.path
        BY DEF FoundInv
      <3>3. Raised(n) # Root
        BY <1>5, <3>1, <3>2
      <3>4. p = Raised(n).path /\ Raised(n) \in DOMAIN catalog'
        BY <1>5, <1>6, <3>1, <3>2, <3>3
      <3>5. QED BY <3>3, <3>4
    <2>2. \A n \in DOMAIN catalog' \ {Root} : n.path \in DOMAIN child'
      BY <1>9, <1>10
    <2>3. QED BY <2>1, <2>2
  <1>12. ASSUME NEW n \in DOMAIN catalog' \ {Root}
         PROVE  n \in Proper /\ Dirname(n) \in DOMAIN catalog' /\ child'[n.path] = n
    <2>1. PICK m \in DOMAIN catalog \ {Root} : n = Raised(m)
      BY <1>9
    <2>2. Dirname(m) \in DOMAIN catalog \ {Root} /\ Raised(Dirname(m)) = Dirname(n)
      BY <1>5, <2>1 DEF FoundInv
    <2>3. QED BY <1>5, <1>6, <1>10, <2>1, <2>2
  <1>13. {n.path[1] : n \in DOMAIN catalog \ {Root}} = {s}
    BY <1>1 DEF Tops
  <1>14. QED BY <1>2, <1>4, <1>5, <1>6, <1>8, <1>9, <1>11, <1>12, <1>13

LEMMA DropPrefixKeeps == ASSUME KnownInv, DropPrefix PROVE KnownInv'
  <1> DEFINE b == Basedir
  <1>1. /\ step = "prefix" /\ step' = "capture"
        /\ UNCHANGED <<tarballs, done, merged, named, shared>>
    BY DEF DropPrefix
  <1>2. PICK s \in Around : catalog' = Dropped(s) /\ child' = DroppedNames(s) /\ disk' = MovedUp(b, s)
    BY DEF DropPrefix, Dropped, DroppedNames
  <1>3. /\ Standing(disk) /\ SourceInv /\ MergedInv /\ Busy /\ Place = b
        /\ FoundInv /\ PlacedInv /\ Accounted(b, DOMAIN catalog) /\ Alone(b, DOMAIN catalog)
    BY <1>1 DEF KnownInv, RenameInv, Busy, Place
  <1>4. /\ Component' = Component /\ Basedir' = b /\ AllStraight' = AllStraight /\ Place' = b
        /\ step' # "merge" /\ step' # "prefix"
    BY <1>1 DEF Component, Basedir, AllStraight, Place
  <1>5. /\ Component = Main => done = 0
        /\ Component # Main => Component \in Segment /\ b = <<Component>>
        /\ b \in Seq(Segment) /\ Len(b) <= 1 /\ (b = <<>> <=> Component = Main)
    BY <1>3, Tarballs
  <1> HIDE DEF b
  <1>6. /\ s \in Segment /\ {n.path[1] : n \in DOMAIN catalog \ {Root}} = {s}
        /\ \A n \in DOMAIN catalog \ {Root} :
              /\ n \in Proper /\ n.path \in Seq(Segment) /\ n.path = <<s>> \o Raised(n).path
              /\ Raised(n) \in DOMAIN catalog' /\ Alike(catalog'[Raised(n)], catalog[n])
              /\ Raised(n) # Root => Raised(n).slash = n.slash
        /\ Root \in DOMAIN catalog' /\ Alike(catalog'[Root], Faux)
        /\ DOMAIN child' = {n.path : n \in DOMAIN catalog' \ {Root}}
        /\ \A n \in DOMAIN catalog' : \E m \in DOMAIN catalog \ {Root} : n = Raised(m)
        /\ \A n \in DOMAIN catalog' \ {Root} :
              n \in Proper /\ Dirname(n) \in DOMAIN catalog' /\ child'[n.path] = n
    BY <1>1, <1>2, <1>3, DroppedIs
  <1>7. /\ Standing(disk')
        /\ b # <<>> => b \in DOMAIN disk' /\ disk'[b] = Faux
        /\ \A r \in Seq(Segment) : r # <<>> /\ (b \o <<s>>) \o r \in DOMAIN disk =>
              b \o r \in DOMAIN disk' /\ disk'[b \o r] = disk[(b \o <<s>>) \o r]
        /\ \A p \in DOMAIN disk' :
              \/ \E r \in Seq(Segment) : r # <<>> /\ (b \o <<s>>) \o r \in DOMAIN disk /\ p = b \o r
              \/ p \in DOMAIN disk /\ ~Within(b \o <<s>>, p) /\ disk'[p] = disk[p]
        /\ \A p \in DOMAIN disk : ~Within(b, p) => p \in DOMAIN disk'
    <2>1. b # <<>> => b \in DOMAIN disk /\ disk[b] = Faux
      BY <1>3, <1>5 DEF MergedInv, b
    <2>2. Standing(disk) /\ b \in Seq(Segment) /\ Len(b) <= 1 /\ s \in Segment /\ disk' = MovedUp(b, s)
      BY <1>2, <1>3, <1>5, <1>6
    <2>3. QED BY <2>1, <2>2, MovedUpIs
  <1>8. SourceInv'
    BY <1>1, <1>3 DEF SourceInv, Busy
  <1>9. MergedInv'
    <2>1. ASSUME shared = {}, NEW n \in DOMAIN merged \ {Root} PROVE n.path \in DOMAIN disk'
      <3>1. n.path \in DOMAIN disk /\ n.path[1] # Component /\ done # 0
        BY <1>3, <2>1 DEF MergedInv
      <3>2. n.path \in Seq(Segment)
        BY <1>3, <3>1 DEF Standing
      <3>3. ASSUME Within(b, n.path) PROVE FALSE
        <4>1. PICK r \in Seq(Segment) : n.path = b \o r
          BY <1>5, <3>2, <3>3, WithinIs
        <4>2. b # <<>> /\ b[1] = Component
          BY <1>5, <3>1
        <4>3. (b \o r)[1] = b[1]
          BY <1>5, <4>1, <4>2, Joined
        <4>4. QED BY <3>1, <4>1, <4>2, <4>3
      <3>4. QED BY <1>7, <3>1, <3>3
    <2>2. Component = Main \/ (Basedir \in DOMAIN disk' /\ disk'[Basedir] = Faux)
      BY <1>5, <1>7 DEF b
    <2>3. step' # "unpack"
      BY <1>1
    <2>4. QED BY <1>1, <1>3, <2>1, <2>2, <2>3, MergedStays
  <1>10. FoundInv'
    BY <1>4, <1>6 DEF FoundInv
  \* Where an item is after this, and where it was.
  <1>11. ASSUME NEW m \in DOMAIN catalog \ {Root}
         PROVE  /\ Raised(m).path \in Seq(Segment)
                /\ b \o m.path = (b \o <<s>>) \o Raised(m).path
    <2>1. <<s>> \in Seq(Segment)
      BY <1>6
    <2>2. Raised(m).path \in Seq(Segment)
      <3>1. CASE Raised(m) = Root
        BY <3>1, EmptySeq DEF Root
      <3>2. CASE Raised(m) # Root
        BY <1>6, <3>2, Names
      <3>3. QED BY <3>1, <3>2
    <2>3. (b \o <<s>>) \o Raised(m).path = b \o (<<s>> \o Raised(m).path)
      <3>1. Regroup(b, <<s>>, Raised(m).path)
        BY <1>5, <2>1, <2>2, Regrouped
      <3>2. QED BY <3>1 DEF Regroup
    <2>4. QED BY <1>6, <2>2, <2>3
  <1>12. PlacedInv'
    <2> SUFFICES ASSUME NEW n \in DOMAIN catalog' \ {Root}
                 PROVE  /\ b \o n.path \in DOMAIN disk'
                        /\ n.slash => disk'[b \o n.path] = Faux /\ Alike(catalog'[n], Faux)
                        /\ ~n.slash /\ AllStraight =>
                              disk'[b \o n.path] = Faux \/ Alike(catalog'[n], disk'[b \o n.path])
      BY <1>4 DEF PlacedInv
    <2>1. PICK m \in DOMAIN catalog \ {Root} : n = Raised(m)
      BY <1>6
    <2>2. /\ b \o m.path \in DOMAIN disk
          /\ m.slash => disk[b \o m.path] = Faux /\ Alike(catalog[m], Faux)
          /\ ~m.slash /\ AllStraight => disk[b \o m.path] = Faux \/ Alike(catalog[m], disk[b \o m.path])
      BY <1>3 DEF PlacedInv
    <2>3. n.path \in Seq(Segment) /\ b \o m.path = (b \o <<s>>) \o n.path /\ n.path # <<>>
      BY <1>6, <1>11, <2>1, Names
    <2>4. b \o n.path \in DOMAIN disk' /\ disk'[b \o n.path] = disk[b \o m.path]
      BY <1>7, <2>2, <2>3
    <2>5. Alike(catalog'[n], catalog[m]) /\ n.slash = m.slash
      BY <1>6, <2>1
    <2>6. QED BY <2>2, <2>4, <2>5 DEF Alike
  <1>13. Accounted(Place, DOMAIN catalog)'
    <2> SUFFICES ASSUME AllStraight, "around" \notin shared, NEW p \in DOMAIN disk'
                 PROVE  \/ p = b \/ Told(p)'
                        \/ \E n \in DOMAIN catalog' \ {Root} : NameIn(disk', p) = At(b, n)
      BY <1>1, <1>4 DEF Accounted
    <2>1. p # <<>> /\ p \in Seq(Segment)
      BY <1>7 DEF Standing
    <2>2. ASSUME NEW r \in Seq(Segment), r # <<>>, (b \o <<s>>) \o r \in DOMAIN disk, p = b \o r
          PROVE  \E n \in DOMAIN catalog' \ {Root} : NameIn(disk', p) = At(b, n)
      <3> DEFINE q == (b \o <<s>>) \o r
      <3>1. q \in Seq(Segment) /\ q # <<>> /\ q \in DOMAIN disk
        BY <1>3, <2>2 DEF Standing
      <3>2. b \o <<s>> \in Seq(Segment)
        BY <1>5, <1>6, Joined
      <3>3. Within(b \o <<s>>, q)
        BY <2>2, <3>1, <3>2, WithinIs
      <3> HIDE DEF q
      <3>4. PICK m \in DOMAIN catalog \ {Root} : NameIn(disk, q) = At(b, m)
        BY <1>3, <1>6, <2>2, <3>1, <3>3 DEF Alone
      <3>5. q = b \o m.path /\ m.slash = (disk[q].type = {"dir"})
        <4>1. NameIn(disk, q) = [path |-> q, slash |-> disk[q].type = {"dir"}]
          BY <3>1, NameInIs
        <4>2. NameIn(disk, q) = [path |-> b \o m.path, slash |-> m.slash]
          BY <3>4 DEF At
        <4>3. QED BY <4>1, <4>2
      <3>6. Raised(m).path = r
        <4>1. (b \o <<s>>) \o Raised(m).path = (b \o <<s>>) \o r
          BY <1>11, <3>5 DEF q
        <4>2. QED BY <1>11, <2>2, <3>2, <4>1, Cancelled
      <3>7. Raised(m) # Root
        BY <2>2, <3>6 DEF Root
      <3>8. disk'[p] = disk[q]
        BY <1>7, <2>2 DEF q
      <3>9. NameIn(disk', p) = At(b, Raised(m))
        <4>1. NameIn(disk', p) = [path |-> p, slash |-> disk'[p].type = {"dir"}]
          BY <2>1, NameInIs
        <4>2. Raised(m).slash = (disk'[p].type = {"dir"})
          BY <1>6, <3>5, <3>7, <3>8
        <4>3. QED BY <2>2, <3>6, <4>1, <4>2 DEF At
      <3>10. QED BY <1>6, <3>7, <3>9
    <2>3. ASSUME p \in DOMAIN disk, ~Within(b \o <<s>>, p), disk'[p] = disk[p]
          PROVE  p = b \/ Told(p)'
      <3>1. NameIn(disk', p) = NameIn(disk, p)
        BY <2>3 DEF NameIn
      <3>2. ASSUME NEW m \in DOMAIN catalog \ {Root}, NameIn(disk, p) = At(b, m) PROVE FALSE
        <4>1. p = (b \o <<s>>) \o Raised(m).path /\ Raised(m).path \in Seq(Segment)
          <5>1. p = b \o m.path
            BY <2>1, <3>2, NameInIs DEF At
          <5>2. QED BY <1>11, <5>1
        <4>2. b \o <<s>> \in Seq(Segment)
          BY <1>5, <1>6, Joined
        <4>3. QED BY <2>1, <2>3, <4>1, <4>2, WithinIs
      <3>3. p = b \/ Told(p)
        BY <1>3, <2>3, <3>2 DEF Accounted
      <3>4. Told(p) => Told(p)'
        BY <1>1, <2>3, <3>1 DEF Told
      <3>5. QED BY <3>3, <3>4
    <2>4. QED BY <1>7, <2>2, <2>3
  <1>14. LoadInv' /\ RenameInv'
    BY <1>1, <1>4, <1>10, <1>12, <1>13 DEF LoadInv, RenameInv
  <1>15. QED BY <1>7, <1>8, <1>9, <1>14 DEF KnownInv

-----------------------------------------------------------------------------
\* capture_common_prefix: the names with the component before them.

LEMMA BelowIs ==
    ASSUME NEW s \in Segment, NEW n \in Proper
    PROVE  /\ Below(s, n) \in Proper /\ Below(s, n) # Root /\ Below(s, n).path = <<s>> \o n.path
           /\ Below(s, n).path[1] = s /\ Raised(Below(s, n)) = n
           /\ n = Root => Below(s, n) = Folder(<<s>>) /\ Below(s, n).slash /\ Dirname(Below(s, n)) = Root
           /\ n # Root => Below(s, n).slash = n.slash /\ Dirname(Below(s, n)) = Below(s, Dirname(n))
  <1> DEFINE f == <<s>>
             m == Below(s, n)
  <1>1. f \in Seq(Segment) /\ f # <<>> /\ Len(f) = 1 /\ f[1] = s
    OBVIOUS
  <1>2. \A q \in Seq(Segment) : /\ f \o q \in Seq(Segment) /\ f \o q # <<>> /\ (f \o q)[1] = s
                                /\ Tail(f \o q) = q /\ (Len(f \o q) = 1 <=> q = <<>>)
    BY OneMore
  <1>3. n.path \in Seq(Segment) /\ n.slash \in BOOLEAN /\ (n # Root => n.path # <<>>)
    BY Names
  <1> HIDE DEF f
  <1>4. f \o <<>> = f /\ <<>> \in Seq(Segment)
    BY <1>1, Joined, EmptySeq
  <1>5. CASE n = Root
    <2>1. m = [path |-> f, slash |-> TRUE] /\ m = Folder(f) /\ n.path = <<>>
      BY <1>1, <1>5 DEF Below, Folder, Root, f
    <2>2. m \in Proper /\ m # Root
      BY <1>1, <2>1 DEF Proper, Name, Nowhere, Root
    <2>3. Raised(m) = n
      BY <1>1, <1>5, <2>1 DEF Raised
    <2>4. Dirname(m) = Root
      <3>1. Front(f) = SubSeq(f, 1, 0)
        BY <1>1 DEF Front
      <3>2. 0 \in Nat /\ 0 <= Len(f)
        BY <1>1
      <3>3. SubSeq(f, 1, 0) \in Seq(Segment) /\ Len(SubSeq(f, 1, 0)) = 0
        BY <1>1, <3>2, Parted
      <3>4. Front(f) = <<>>
        BY <3>1, <3>3, Empties
      <3>5. QED BY <2>1, <3>4 DEF Dirname, Folder
    <2>5. m.path = f /\ m.slash
      BY <2>1
    <2>6. QED BY <1>1, <1>4, <1>5, <2>1, <2>2, <2>3, <2>4, <2>5 DEF f
  <1>6. CASE n # Root
    <2>1. m = [path |-> f \o n.path, slash |-> n.slash]
      BY <1>6 DEF Below, f
    <2>2. m \in Proper /\ m # Root
      BY <1>2, <1>3, <2>1 DEF Proper, Name, Nowhere, Root
    <2>3. m.path = f \o n.path /\ m.slash = n.slash /\ m.path[1] = s
      BY <1>2, <1>3, <2>1
    <2>4. Raised(m) = n
      <3>1. Len(m.path) # 1 /\ Tail(m.path) = n.path
        BY <1>2, <1>3, <1>6, <2>3
      <3>2. Raised(m) = [path |-> n.path, slash |-> n.slash]
        BY <2>3, <3>1 DEF Raised
      <3>3. n \in Name
        BY DEF Proper
      <3>4. QED BY <3>2, <3>3 DEF Name
    <2>5. Dirname(m) = Below(s, Dirname(n))
      <3>1. Front(n.path) \in Seq(Segment) /\ Front(f \o n.path) = f \o Front(n.path)
        BY <1>1, <1>3, <1>6, FrontOf
      <3>2. Dirname(m) = [path |-> f \o Front(n.path), slash |-> TRUE]
        BY <1>2, <2>3, <3>1 DEF Dirname, Folder
      <3>3. CASE Front(n.path) = <<>>
        <4>1. Dirname(n) = Root
          BY <3>3 DEF Dirname, Folder
        <4>2. Below(s, Root) = [path |-> f, slash |-> TRUE]
          BY <1>1 DEF Below, Folder, f
        <4>3. QED BY <1>4, <3>2, <3>3, <4>1, <4>2
      <3>4. CASE Front(n.path) # <<>>
        <4>1. /\ Dirname(n) = [path |-> Front(n.path), slash |-> TRUE]
              /\ Dirname(n).path = Front(n.path) /\ Dirname(n).slash = TRUE
          BY <3>4 DEF Dirname, Folder
        <4>2. Dirname(n) # Root
          BY <3>4, <4>1 DEF Root
        <4>3. Below(s, Dirname(n)) = [path |-> f \o Front(n.path), slash |-> TRUE]
          BY <4>1, <4>2 DEF Below, f
        <4>4. QED BY <3>2, <4>3
      <3>5. QED BY <3>3, <3>4
    <2>6. QED BY <1>6, <2>2, <2>3, <2>4, <2>5 DEF f
  <1>7. QED BY <1>5, <1>6

LEMMA CapturedIs ==
    ASSUME FoundInv, CapturePrefix, Component # Main, Component \in Segment, Basedir = <<Component>>
    PROVE  /\ DOMAIN catalog' = {Root} \cup {Captured(m) : m \in DOMAIN catalog}
           /\ catalog'[Root] = Faux
           /\ \A m \in DOMAIN catalog : /\ m \in Proper
                                        /\ Captured(m) \in DOMAIN catalog' \ {Root}
                                        /\ Alike(catalog'[Captured(m)], catalog[m])
           /\ DOMAIN child' = {n.path : n \in DOMAIN catalog' \ {Root}}
           /\ \A n \in DOMAIN catalog' \ {Root} :
                 /\ n \in Proper /\ n.path[1] = Component
                 /\ Dirname(n) \in DOMAIN catalog' /\ child'[n.path] = n
  <1>1. /\ catalog' = [n \in {Root} \cup {Captured(m) : m \in DOMAIN catalog} |->
              IF n = Root THEN Faux
              ELSE LET item == catalog[Raised(n)] IN
                   IF item.link = Empty THEN item
                   ELSE Linked(item, [rooted |-> FALSE, path |-> Basedir \o item.link.path])]
        /\ child' = [p \in {Basedir} \cup {Basedir \o q : q \in DOMAIN child} |->
              IF p = Basedir THEN Folder(p) ELSE Captured(child[Tail(p)])]
    BY DEF CapturePrefix
  <1>2. /\ Root \in DOMAIN catalog /\ DOMAIN child = {n.path : n \in DOMAIN catalog \ {Root}}
        /\ \A m \in DOMAIN catalog \ {Root} : Dirname(m) \in DOMAIN catalog /\ child[m.path] = m
        /\ \A m \in DOMAIN catalog : m \in Proper
    BY RootProper DEF FoundInv
  <1>3. ASSUME NEW m \in Proper
        PROVE  /\ Captured(m) \in Proper /\ Captured(m) # Root /\ Captured(m).path = Basedir \o m.path
               /\ Captured(m).path[1] = Component /\ Raised(Captured(m)) = m
               /\ m = Root => Captured(m) = Folder(Basedir) /\ Dirname(Captured(m)) = Root
               /\ m # Root => Dirname(Captured(m)) = Captured(Dirname(m))
    BY <1>3, BelowIs DEF Captured
  <1>4. /\ DOMAIN catalog' = {Root} \cup {Captured(m) : m \in DOMAIN catalog}
        /\ catalog'[Root] = Faux
        /\ \A m \in DOMAIN catalog : Captured(m) \in DOMAIN catalog'
        /\ \A n \in DOMAIN catalog' \ {Root} : \E m \in DOMAIN catalog : n = Captured(m)
    BY <1>1
  <1>5. ASSUME NEW m \in DOMAIN catalog PROVE Alike(catalog'[Captured(m)], catalog[m])
    <2> DEFINE n == Captured(m)
    <2>1. n # Root /\ Raised(n) = m /\ n \in DOMAIN catalog'
      BY <1>2, <1>3, <1>4
    <2> HIDE DEF n
    <2>2. catalog'[n] = IF catalog[m].link = Empty THEN catalog[m]
                        ELSE Linked(catalog[m], [rooted |-> FALSE, path |-> Basedir \o catalog[m].link.path])
      BY <1>1, <2>1
    <2>3. Alike(catalog'[n], catalog[m])
      BY <2>2 DEF Alike, Linked
    <2>4. QED BY <2>3 DEF n
  <1>6. Basedir \in Seq(Segment) /\ Captured(Root).path = Basedir
    <2>1. Basedir \in Seq(Segment)
      OBVIOUS
    <2>2. Basedir \o Root.path = Basedir
      BY <2>1, Joined, EmptySeq DEF Root
    <2>3. QED BY <1>3, <2>1, <2>2, RootProper
  <1>7. ASSUME NEW m \in DOMAIN catalog
        PROVE  Captured(m).path \in DOMAIN child' /\ child'[Captured(m).path] = Captured(m)
    <2>1. CASE m = Root
      <3>1. Captured(m) = Folder(Basedir) /\ Captured(m).path = Basedir
        BY <1>2, <1>3, <1>6, <2>1
      <3>2. Basedir \in DOMAIN child' /\ child'[Basedir] = Folder(Basedir)
        BY <1>1
      <3>3. QED BY <3>1, <3>2
    <2>2. CASE m # Root
      <3>1. m.path \in Seq(Segment) /\ m.path # <<>> /\ m.path \in DOMAIN child /\ child[m.path] = m
        BY <1>2, <2>2, Names
      <3>2. Captured(m).path = Basedir \o m.path
        BY <1>2, <1>3
      <3>3. Tail(Basedir \o m.path) = m.path
        BY <3>1, OneMore
      <3>4. Basedir \o m.path # Basedir
        BY <1>6, <3>1, Joined
      <3>5. Basedir \o m.path \in DOMAIN child' /\ child'[Basedir \o m.path] = Captured(child[m.path])
        BY <1>1, <3>1, <3>3, <3>4
      <3>6. QED BY <3>1, <3>2, <3>5
    <2>3. QED BY <2>1, <2>2
  <1>8. DOMAIN child' = {n.path : n \in DOMAIN catalog' \ {Root}}
    <2>1. ASSUME NEW p \in DOMAIN child' PROVE \E n \in DOMAIN catalog' \ {Root} : p = n.path
      <3>1. CASE p = Basedir
        BY <1>2, <1>3, <1>4, <1>6, <3>1
      <3>2. CASE p # Basedir
        <4>1. PICK q \in DOMAIN child : p = Basedir \o q
          BY <1>1, <3>2
        <4>2. PICK m \in DOMAIN catalog \ {Root} : q = m.path
          BY <1>2
        <4>3. Captured(m).path = p /\ Captured(m) \in DOMAIN catalog' \ {Root}
          BY <1>2, <1>3, <1>4, <4>1, <4>2
        <4>4. QED BY <4>3
      <3>3. QED BY <3>1, <3>2
    <2>2. ASSUME NEW n \in DOMAIN catalog' \ {Root} PROVE n.path \in DOMAIN child'
      BY <1>4, <1>7
    <2>3. QED BY <2>1, <2>2
  <1>9. ASSUME NEW n \in DOMAIN catalog' \ {Root}
        PROVE  /\ n \in Proper /\ n.path[1] = Component
               /\ Dirname(n) \in DOMAIN catalog' /\ child'[n.path] = n
    <2>1. PICK m \in DOMAIN catalog : n = Captured(m)
      BY <1>4
    <2>2. m \in Proper /\ (m # Root => Dirname(m) \in DOMAIN catalog)
      BY <1>2
    <2>3. Dirname(n) \in DOMAIN catalog'
      BY <1>3, <1>4, <2>1, <2>2
    <2>4. n \in Proper /\ n.path[1] = Component
      BY <1>3, <2>1, <2>2
    <2>5. QED BY <1>7, <2>1, <2>3, <2>4
  <1>10. QED BY <1>2, <1>3, <1>4, <1>5, <1>8, <1>9

LEMMA CapturePrefixKeeps == ASSUME KnownInv, CapturePrefix PROVE KnownInv'
  <1> DEFINE b == Basedir
  <1>1. /\ step = "capture" /\ step' = "merge"
        /\ UNCHANGED <<tarballs, done, merged, named, disk, shared>>
    BY DEF CapturePrefix
  <1>2. /\ Standing(disk) /\ SourceInv /\ MergedInv /\ Busy /\ Place = b
        /\ FoundInv /\ PlacedInv /\ Accounted(b, DOMAIN catalog)
    BY <1>1 DEF KnownInv, RenameInv, Busy, Place
  <1>3. /\ Component' = Component /\ Basedir' = b /\ AllStraight' = AllStraight /\ Place' = <<>>
        /\ step' # "prefix" /\ step # "merge"
    BY <1>1 DEF Component, Basedir, AllStraight, Place
  <1>4. /\ Component # Main => Component \in Segment /\ b = <<Component>>
        /\ b \in Seq(Segment) /\ (b = <<>> <=> Component = Main)
    BY <1>2, Tarballs
  <1>5. SourceInv'
    BY <1>1, <1>2 DEF SourceInv, Busy
  <1>6. MergedInv'
    <2>1. shared = {} => \A n \in DOMAIN merged \ {Root} : n.path \in DOMAIN disk'
      BY <1>1, <1>2 DEF MergedInv
    <2>2. Component = Main \/ (Basedir \in DOMAIN disk' /\ disk'[Basedir] = Faux)
      BY <1>1, <1>2 DEF MergedInv
    <2>3. step' # "unpack"
      BY <1>1
    <2>4. QED BY <1>1, <1>2, <2>1, <2>2, <2>3, MergedStays
  <1>7. \A p : Told(p)' = Told(p) /\ NameIn(disk', p) = NameIn(disk, p)
    BY <1>1 DEF Told, NameIn
  <1>8. ASSUME Component = Main PROVE FoundInv' /\ PlacedInv' /\ Accounted(Place, DOMAIN catalog)'
    <2>1. UNCHANGED <<catalog, child>> /\ b = <<>>
      BY <1>4, <1>8 DEF CapturePrefix
    <2>2. FoundInv'
      BY <1>2, <1>3, <1>8, <2>1 DEF FoundInv
    <2>3. PlacedInv'
      BY <1>1, <1>2, <1>3, <2>1 DEF PlacedInv
    <2>4. Accounted(Place, DOMAIN catalog)'
      BY <1>1, <1>2, <1>3, <1>7, <2>1 DEF Accounted
    <2>5. QED BY <2>2, <2>3, <2>4
  <1>9. ASSUME Component # Main PROVE FoundInv' /\ PlacedInv' /\ Accounted(Place, DOMAIN catalog)'
    <2>1. /\ DOMAIN catalog' = {Root} \cup {Captured(m) : m \in DOMAIN catalog}
          /\ catalog'[Root] = Faux
          /\ \A m \in DOMAIN catalog : /\ m \in Proper
                                       /\ Captured(m) \in DOMAIN catalog' \ {Root}
                                       /\ Alike(catalog'[Captured(m)], catalog[m])
          /\ DOMAIN child' = {n.path : n \in DOMAIN catalog' \ {Root}}
          /\ \A n \in DOMAIN catalog' \ {Root} :
                /\ n \in Proper /\ n.path[1] = Component
                /\ Dirname(n) \in DOMAIN catalog' /\ child'[n.path] = n
      BY <1>2, <1>4, <1>9, CapturedIs
    <2>2. ASSUME NEW m \in DOMAIN catalog
          PROVE  /\ Captured(m).path = b \o m.path /\ Captured(m).path \in Seq(Segment)
                 /\ <<>> \o Captured(m).path = Captured(m).path
                 /\ m = Root => Captured(m) = Folder(b) /\ Captured(m).slash /\ Captured(m).path = b
                 /\ m # Root => Captured(m).slash = m.slash
      <3>1. /\ Captured(m).path = b \o m.path /\ Captured(m) \in Proper
            /\ m = Root => Captured(m) = Folder(b) /\ Captured(m).slash
            /\ m # Root => Captured(m).slash = m.slash
        <4>1. m \in Proper /\ Component \in Segment /\ b = <<Component>>
          BY <1>4, <1>9, <2>1
        <4>2. Captured(m) = Below(Component, m)
          BY DEF Captured
        <4>3. QED BY <4>1, <4>2, BelowIs
      <3>2. Captured(m).path \in Seq(Segment)
        BY <3>1, Names
      <3>3. m = Root => Captured(m).path = b
        BY <1>4, <1>9, <3>1 DEF Folder
      <3>4. <<>> \o Captured(m).path = Captured(m).path
        BY <3>2, Joined
      <3>5. QED BY <3>1, <3>2, <3>3, <3>4
    <2>3. FoundInv'
      <3>1. Root \in DOMAIN catalog' /\ Alike(catalog'[Root], Faux)
        BY <2>1 DEF Alike
      <3>2. QED BY <1>3, <2>1, <3>1 DEF FoundInv
    <2>4. b \in DOMAIN disk /\ disk[b] = Faux /\ b # <<>>
      BY <1>2, <1>4, <1>9 DEF MergedInv
    <2>5. Root \in DOMAIN catalog /\ Alike(catalog[Root], Faux)
      BY <1>2 DEF FoundInv
    <2>6. PlacedInv'
      <3> SUFFICES ASSUME NEW n \in DOMAIN catalog' \ {Root}
                   PROVE  /\ <<>> \o n.path \in DOMAIN disk
                          /\ n.slash => disk[<<>> \o n.path] = Faux /\ Alike(catalog'[n], Faux)
                          /\ ~n.slash /\ AllStraight =>
                                disk[<<>> \o n.path] = Faux \/ Alike(catalog'[n], disk[<<>> \o n.path])
        BY <1>1, <1>3 DEF PlacedInv
      <3>1. PICK m \in DOMAIN catalog : n = Captured(m)
        BY <2>1
      <3>2. CASE m = Root
        BY <2>1, <2>2, <2>4, <2>5, <3>1, <3>2 DEF Alike
      <3>3. CASE m # Root
        <4>1. <<>> \o n.path = b \o m.path /\ n.slash = m.slash /\ Alike(catalog'[n], catalog[m])
          BY <2>1, <2>2, <3>1, <3>3
        <4>2. /\ b \o m.path \in DOMAIN disk
              /\ m.slash => disk[b \o m.path] = Faux /\ Alike(catalog[m], Faux)
              /\ ~m.slash /\ AllStraight => disk[b \o m.path] = Faux \/ Alike(catalog[m], disk[b \o m.path])
          BY <1>2, <3>3 DEF PlacedInv
        <4>3. QED BY <4>1, <4>2 DEF Alike
      <3>4. QED BY <3>2, <3>3
    <2>7. Accounted(Place, DOMAIN catalog)'
      <3> SUFFICES ASSUME AllStraight, "around" \notin shared, NEW p \in DOMAIN disk
                   PROVE  Told(p) \/ \E n \in DOMAIN catalog' \ {Root} : NameIn(disk, p) = At(<<>>, n)
        BY <1>1, <1>3, <1>7 DEF Accounted
      <3>1. CASE p = b
        <4>1. NameIn(disk, p) = [path |-> b, slash |-> TRUE]
          BY <2>4, <3>1 DEF NameIn, Folder, Faux
        <4>2. /\ Captured(Root) \in DOMAIN catalog' \ {Root} /\ <<>> \o Captured(Root).path = b
              /\ Captured(Root) = Folder(b)
          BY <2>1, <2>2, <2>5
        <4>3. Captured(Root).slash = TRUE
          BY <2>4, <4>2 DEF Folder
        <4>4. At(<<>>, Captured(Root)) = [path |-> b, slash |-> TRUE]
          BY <4>2, <4>3 DEF At
        <4>5. QED BY <4>1, <4>2, <4>4
      <3>2. ASSUME NEW m \in DOMAIN catalog \ {Root}, NameIn(disk, p) = At(b, m)
            PROVE  \E n \in DOMAIN catalog' \ {Root} : NameIn(disk, p) = At(<<>>, n)
        <4>1. /\ Captured(m) \in DOMAIN catalog' \ {Root} /\ <<>> \o Captured(m).path = b \o m.path
              /\ Captured(m).slash = m.slash
          BY <2>1, <2>2
        <4>2. At(<<>>, Captured(m)) = At(b, m)
          BY <4>1 DEF At
        <4>3. QED BY <3>2, <4>1, <4>2
      <3>3. QED BY <1>2, <3>1, <3>2 DEF Accounted
    <2>8. QED BY <2>3, <2>6, <2>7
  <1>10. LoadInv' /\ RenameInv'
    BY <1>1, <1>3, <1>8, <1>9 DEF LoadInv, RenameInv
  <1>11. QED BY <1>1, <1>2, <1>5, <1>6, <1>10 DEF KnownInv

-----------------------------------------------------------------------------
\* Merging, and the whole.

LEMMA MergedIs ==
    ASSUME MergeIn
    PROVE  /\ \A n : n \in DOMAIN merged' <=>
                 \/ n \in DOMAIN catalog \ {Root}
                 \/ n \in DOMAIN merged /\ \A m \in DOMAIN catalog \ {Root} : m.slash => n # Plain(m.path)
           /\ \A n \in DOMAIN catalog \ {Root} : merged'[n] = catalog[n]
           /\ \A n \in DOMAIN merged :
                 n \in DOMAIN merged' /\ n \notin DOMAIN catalog \ {Root} => merged'[n] = merged[n]
           /\ \A p : p \in DOMAIN child => p \in DOMAIN named' /\ (Len(p) > 1 => named'[p] = child[p])
           /\ \A p \in DOMAIN named :
                 p \notin DOMAIN child /\ (\A m \in DOMAIN catalog \ {Root} : Front(p) # m.path) =>
                    p \in DOMAIN named' /\ named'[p] = named[p]
  <1>1. merged' = Merged
    BY DEF MergeIn
  <1> DEFINE replaced == {n.path : n \in {n \in DOMAIN catalog \ {Root} : n.slash}}
             stay == {p \in DOMAIN named : Front(p) \notin replaced}
  <1>2. named' = [p \in stay \cup DOMAIN child |->
              IF p \notin DOMAIN child THEN named[p]
              ELSE IF Len(p) > 1 THEN child[p]
              ELSE IF Plain(p) \in DOMAIN Merged THEN Object ELSE Undefined]
    BY DEF MergeIn
  <1>3. \A p \in DOMAIN named : (\A m \in DOMAIN catalog \ {Root} : Front(p) # m.path) => p \in stay
    OBVIOUS
  <1> HIDE DEF stay, replaced
  <1>4. /\ \A p : p \in DOMAIN child => p \in DOMAIN named' /\ (Len(p) > 1 => named'[p] = child[p])
        /\ \A p : p \in stay /\ p \notin DOMAIN child => p \in DOMAIN named' /\ named'[p] = named[p]
    BY <1>2
  <1> DEFINE gone == {Plain(m.path) : m \in {m \in DOMAIN catalog \ {Root} : m.slash}}
  <1>5. \A n : n \in gone <=> \E m \in DOMAIN catalog \ {Root} : m.slash /\ n = Plain(m.path)
    OBVIOUS
  <1>6. merged' = [n \in (DOMAIN merged \ gone) \cup (DOMAIN catalog \ {Root}) |->
                     IF n \in DOMAIN catalog \ {Root} THEN catalog[n] ELSE merged[n]]
    BY <1>1 DEF Merged
  <1> HIDE DEF gone
  <1>7. /\ \A n : n \in DOMAIN merged' <=>
                    n \in DOMAIN catalog \ {Root} \/ (n \in DOMAIN merged /\ n \notin gone)
        /\ \A n \in DOMAIN merged' :
              merged'[n] = IF n \in DOMAIN catalog \ {Root} THEN catalog[n] ELSE merged[n]
    BY <1>6
  <1>8. QED BY <1>3, <1>4, <1>5, <1>7

LEMMA MergeInKeeps == ASSUME KnownInv, MergeIn PROVE KnownInv'
  <1>1. step = "merge" /\ step' = "unpack" /\ done' = done + 1 /\ UNCHANGED <<tarballs, disk, shared>>
    BY DEF MergeIn
  <1>2. /\ Standing(disk) /\ SourceInv /\ MergedInv /\ Busy /\ done \in Nat /\ tarballs \in Sources
        /\ FoundInv /\ PlacedInv /\ Accounted(<<>>, DOMAIN catalog) /\ Place = <<>>
    BY <1>1 DEF KnownInv, RenameInv, SourceInv, Busy, Place
  <1>3. AllStraight' = AllStraight /\ ~Busy' /\ done' # 0 /\ done' \in Nat
    BY <1>1, <1>2 DEF AllStraight, Busy
  <1>4. /\ Component = Main => done = 0
        /\ Component \in Segment \cup {Main}
    BY <1>2, Tarballs
  <1>5. /\ \A n : n \in DOMAIN merged' <=>
              \/ n \in DOMAIN catalog \ {Root}
              \/ n \in DOMAIN merged /\ \A m \in DOMAIN catalog \ {Root} : m.slash => n # Plain(m.path)
        /\ \A n \in DOMAIN catalog \ {Root} : merged'[n] = catalog[n]
        /\ \A n \in DOMAIN merged :
              n \in DOMAIN merged' /\ n \notin DOMAIN catalog \ {Root} => merged'[n] = merged[n]
        /\ \A p : p \in DOMAIN child => p \in DOMAIN named' /\ (Len(p) > 1 => named'[p] = child[p])
        /\ \A p \in DOMAIN named :
              p \notin DOMAIN child /\ (\A m \in DOMAIN catalog \ {Root} : Front(p) # m.path) =>
                 p \in DOMAIN named' /\ named'[p] = named[p]
    BY MergedIs
  <1>6. ASSUME NEW n \in DOMAIN catalog \ {Root}
        PROVE  /\ n \in Proper /\ n.path \in Seq(Segment) /\ n.path # <<>> /\ n = At(<<>>, n)
               /\ n.path \in DOMAIN disk /\ Dirname(n) \in DOMAIN catalog
               /\ n.path \in DOMAIN child /\ child[n.path] = n
               /\ Component # Main => n.path[1] = Component
               /\ n.slash => disk[n.path] = Faux /\ Alike(catalog[n], Faux)
               /\ ~n.slash /\ AllStraight => disk[n.path] = Faux \/ Alike(catalog[n], disk[n.path])
    <2>1. n \in Proper /\ n.path \in Seq(Segment) /\ n.path # <<>> /\ n.slash \in BOOLEAN
      BY <1>2, Names DEF FoundInv
    <2>2. <<>> \o n.path = n.path
      BY <2>1, Joined
    <2>3. n = At(<<>>, n)
      <3>1. n \in Name
        BY <2>1 DEF Proper
      <3>2. QED BY <2>2, <3>1 DEF Name, At
    <2>4. /\ n.path \in DOMAIN child /\ child[n.path] = n /\ Dirname(n) \in DOMAIN catalog
          /\ Component # Main => n.path[1] = Component
      BY <1>1, <1>2 DEF FoundInv
    <2>5. /\ n.path \in DOMAIN disk
          /\ n.slash => disk[n.path] = Faux /\ Alike(catalog[n], Faux)
          /\ ~n.slash /\ AllStraight => disk[n.path] = Faux \/ Alike(catalog[n], disk[n.path])
      BY <1>2, <2>2 DEF PlacedInv
    <2>6. QED BY <2>1, <2>3, <2>4, <2>5
  <1>7. \A n \in DOMAIN merged' : n \in Proper
    BY <1>2, <1>5, <1>6 DEF MergedInv
  <1>8. ASSUME NEW n \in Proper, Len(n.path) > 1
        PROVE  Dirname(n) # Root /\ Dirname(n).slash /\ Front(n.path)[1] = n.path[1]
    <2> DEFINE f == <<n.path[1]>>
               t == Tail(n.path)
    <2>1. n.path \in Seq(Segment)
      BY Names
    <2>2. n.path # <<>> /\ Len(n.path) # 1
      <3> DEFINE l == Len(n.path)
      <3>1. l \in Nat /\ l > 1 /\ (n.path = <<>> <=> l = 0)
        BY <1>8, <2>1, Empties
      <3> HIDE DEF l
      <3>2. l # 0 /\ l # 1
        BY <3>1
      <3>3. QED BY <3>1, <3>2 DEF l
    <2>3. n.path[1] \in Segment /\ f \in Seq(Segment) /\ t \in Seq(Segment) /\ n.path = f \o t
      BY <2>1, <2>2, Firsts
    <2> HIDE DEF t
    <2>4. t # <<>>
      <3>1. Len(f \o t) = 1 <=> t = <<>>
        BY <2>3, OneMore
      <3>2. QED BY <2>2, <2>3, <3>1
    <2>5. Front(t) \in Seq(Segment) /\ Front(n.path) = f \o Front(t)
      BY <2>3, <2>4, FrontOf
    <2>6. Front(n.path) # <<>> /\ Front(n.path)[1] = n.path[1]
      BY <2>3, <2>5, OneMore
    <2>7. QED BY <2>6 DEF Dirname, Folder, Root
  <1>9. ASSUME shared = {}, NEW n \in DOMAIN merged' \ {Root}
        PROVE  /\ n.path \in DOMAIN disk
               /\ Len(n.path) > 1 => /\ Dirname(n) \in DOMAIN merged'
                                     /\ n.path \in DOMAIN named' /\ named'[n.path] = n
    <2>1. CASE n \in DOMAIN catalog \ {Root}
      BY <1>5, <1>6, <1>8, <2>1
    <2>2. CASE n \notin DOMAIN catalog \ {Root}
      <3>1. n \in DOMAIN merged \ {Root} /\ n \in Proper
        BY <1>5, <1>7, <2>2
      <3>2. /\ n.path \in DOMAIN disk /\ n.path[1] # Component /\ Component # Main
            /\ Len(n.path) > 1 => Dirname(n) \in DOMAIN merged /\ n.path \in DOMAIN named /\ named[n.path] = n
        BY <1>2, <1>4, <1>9, <3>1 DEF MergedInv
      <3>3. ASSUME Len(n.path) > 1
            PROVE  Dirname(n) \in DOMAIN merged' /\ n.path \in DOMAIN named' /\ named'[n.path] = n
        <4>1. Dirname(n) # Root /\ Dirname(n).slash /\ Front(n.path)[1] = n.path[1]
          BY <1>8, <3>1, <3>3
        <4>2. \A m : ~Plain(m).slash
          BY DEF Plain
        <4>3. Dirname(n) \in DOMAIN merged'
          BY <1>5, <3>2, <3>3, <4>1, <4>2
        <4>4. n.path \notin DOMAIN child
          <5>1. DOMAIN child = {m.path : m \in DOMAIN catalog \ {Root}}
            BY <1>2 DEF FoundInv
          <5>2. QED BY <1>6, <3>2, <5>1
        <4>5. \A m \in DOMAIN catalog \ {Root} : Front(n.path) # m.path
          BY <1>6, <3>2, <4>1
        <4>6. QED BY <1>5, <3>2, <3>3, <4>3, <4>4, <4>5
      <3>4. QED BY <3>2, <3>3
    <2>3. QED BY <2>1, <2>2
  <1>10. ASSUME AllStraight, "around" \notin shared, NEW p \in DOMAIN disk PROVE Told(p)'
    <2> DEFINE n == NameIn(disk, p)
    <2>1. p # <<>> /\ p \in Seq(Segment)
      BY <1>2 DEF Standing
    <2>2. n = [path |-> p, slash |-> disk[p].type = {"dir"}]
      BY <2>1, NameInIs
    <2>4. NameIn(disk', p) = n
      BY <1>1 DEF NameIn
    <2> HIDE DEF n
    <2>3. n.path = p /\ n.slash = (disk[p].type = {"dir"}) /\ (disk[p] = Faux => n.slash)
      <3>1. n.path = p /\ n.slash = (disk[p].type = {"dir"})
        BY <2>2
      <3>2. disk[p] = Faux => disk[p].type = {"dir"}
        BY DEF Faux
      <3>3. QED BY <3>1, <3>2
    <2>5. n \in DOMAIN merged' /\ Alike(merged'[n], disk[p]) => Told(p)'
      BY <1>1, <2>4 DEF Told
    <2>6. CASE n \in DOMAIN catalog \ {Root}
      <3>1. Alike(catalog[n], disk[p])
        BY <1>6, <1>10, <2>3, <2>6 DEF Alike
      <3>2. QED BY <1>5, <2>5, <2>6, <3>1
    <2>7. CASE n \notin DOMAIN catalog \ {Root}
      <3>1. \A m \in DOMAIN catalog \ {Root} : n # At(<<>>, m)
        BY <1>6, <2>7
      <3>2. Told(p)
        BY <1>2, <1>10, <2>1, <3>1 DEF Accounted, n
      <3>3. n \in DOMAIN merged /\ Alike(merged[n], disk[p])
        BY <3>2 DEF Told, n
      <3>4. ASSUME NEW m \in DOMAIN catalog \ {Root}, m.slash, n = Plain(m.path) PROVE FALSE
        <4>1. n.path = m.path /\ ~n.slash
          BY <3>4 DEF Plain
        <4>2. QED BY <1>6, <2>3, <3>4, <4>1
      <3>5. n \in DOMAIN merged' /\ merged'[n] = merged[n]
        BY <1>5, <2>7, <3>3, <3>4
      <3>6. QED BY <2>5, <3>3, <3>5
    <2>8. QED BY <2>6, <2>7
  <1>11. SourceInv'
    BY <1>1, <1>2, <1>3 DEF SourceInv
  <1>12. MergedInv'
    BY <1>1, <1>3, <1>7, <1>9, <1>10 DEF MergedInv
  <1>13. LoadInv' /\ RenameInv'
    BY <1>1 DEF LoadInv, RenameInv
  <1>14. QED BY <1>1, <1>2, <1>11, <1>12, <1>13 DEF KnownInv

\* Nothing of the invariant is about the paths asked for.
LEMMA OrigStutters == ASSUME KnownInv, UNCHANGED <<vars, orig>> PROVE KnownInv'
  <1>1. UNCHANGED <<archive, pc, catalog, child, masters, tarballs, done, step, merged, named, disk, shared>>
    BY DEF vars, tree, orig
  <1>2. /\ Component' = Component /\ Basedir' = Basedir /\ AllStraight' = AllStraight /\ Place' = Place
        /\ Origins' = Origins /\ Busy' = Busy /\ \A m : Group(m)' = Group(m)
    BY <1>1 DEF Component, Basedir, AllStraight, Place, Origins, Busy, Group
  <1>3. \A p : Told(p)' = Told(p) /\ NameIn(disk', p) = NameIn(disk, p)
    BY <1>1 DEF Told, NameIn
  <1>4. Standing(disk)' /\ SourceInv' /\ MergedInv'
    BY <1>1, <1>2, <1>3 DEF KnownInv, SourceInv, MergedInv
  <1>5. TreeInv => TreeInv'
    <2>1. CatalogInv => CatalogInv'
      BY <1>1 DEF CatalogInv, Is, HasLink
    <2>2. ChildInv => ChildInv'
      BY <1>1 DEF ChildInv
    <2>3. MastersInv => MastersInv'
      <3>1. /\ Straight' = Straight
            /\ \A m : Preferred(m)' = Preferred(m) /\ Untouched(m)' = Untouched(m) /\ Kept(m)' = Kept(m)
        BY <1>1 DEF Straight, Group, Preferred, Untouched, Kept
      <3>2. QED BY <1>1, <1>2, <3>1 DEF MastersInv
    <2>4. QED BY <2>1, <2>2, <2>3 DEF TreeInv
  <1>6. LoadInv'
    BY <1>1, <1>2, <1>3, <1>5
    DEF KnownInv, LoadInv, Loading, Treating, Settled, Linking, Laid, Accounted, Alone
  <1>7. RenameInv'
    BY <1>1, <1>2, <1>3 DEF KnownInv, RenameInv, FoundInv, PlacedInv, Accounted, Alone
  <1>8. QED BY <1>4, <1>6, <1>7 DEF KnownInv

\* The tarballs are done one after the other, whatever they hold.
LEMMA SourceKeeps ==
    ASSUME SourceInv, [OrigNext]_<<vars, orig>>
    PROVE  SourceInv' /\ shared \subseteq shared'
  <1>1. /\ tarballs \in Sources /\ done \in Nat /\ (Busy => done < Len(tarballs))
        /\ Len(tarballs) \in Nat
    BY OrigAssumption, LenProperties DEF SourceInv
  <1>2. CASE Unpack
    BY <1>1, <1>2 DEF Unpack, SourceInv, Busy
  <1>3. CASE UnpackDies \/ LinksDie \/ DropDies
    BY <1>1, <1>3 DEF UnpackDies, LinksDie, DropDies, Dies, SourceInv, Busy
  <1>4. CASE Load \/ LoadDies
    BY <1>1, <1>4 DEF Load, LoadDies, SourceInv, Busy
  <1>5. CASE LinksTreated
    BY <1>1, <1>5 DEF LinksTreated, SourceInv, Busy
  <1>6. CASE KeepPrefix \/ DropPrefix \/ CapturePrefix
    BY <1>1, <1>6 DEF KeepPrefix, DropPrefix, CapturePrefix, SourceInv, Busy
  <1>7. CASE MergeIn
    BY <1>1, <1>7 DEF MergeIn, SourceInv, Busy
  <1>8. CASE TreatHardLink \/ UNCHANGED <<vars, orig>>
    <2>1. UNCHANGED <<tarballs, done, step, shared>>
      BY <1>8 DEF TreatHardLink, orig
    <2>2. QED BY <2>1 DEF SourceInv, Busy
  <1>9. QED BY <1>2, <1>3, <1>4, <1>5, <1>6, <1>7, <1>8 DEF OrigNext, OrigTerminated

LEMMA OrigStepKeeps == ASSUME OrigInv, [OrigNext]_<<vars, orig>> PROVE OrigInv'
  <1>1. SourceInv' /\ shared \subseteq shared'
    BY SourceKeeps DEF OrigInv
  <1> SUFFICES ASSUME ~Lost' PROVE KnownInv'
    BY <1>1 DEF OrigInv
  <1>2. KnownInv
    BY <1>1 DEF OrigInv, Lost
  <1>3. CASE Unpack
    BY <1>2, <1>3, UnpackKeeps
  <1>4. CASE UnpackDies \/ LinksDie \/ DropDies
    BY <1>2, <1>4, DiesKeeps DEF UnpackDies, LinksDie, DropDies
  <1>5. CASE Load
    BY <1>2, <1>5, LoadsOn
  <1>6. CASE LoadDies
    BY <1>2, <1>6, LoadDiesKeeps
  <1>7. CASE TreatHardLink
    BY <1>2, <1>7, TreatHardLinkKeeps
  <1>8. CASE LinksTreated
    BY <1>2, <1>8, LinksTreatedKeeps
  <1>9. CASE KeepPrefix
    BY <1>2, <1>9, KeepPrefixKeeps
  <1>10. CASE DropPrefix
    BY <1>2, <1>10, DropPrefixKeeps
  <1>11. CASE CapturePrefix
    BY <1>2, <1>11, CapturePrefixKeeps
  <1>12. CASE MergeIn
    BY <1>2, <1>12, MergeInKeeps
  <1>13. CASE UNCHANGED <<vars, orig>>
    BY <1>2, <1>13, OrigStutters
  <1>14. QED BY <1>3, <1>4, <1>5, <1>6, <1>7, <1>8, <1>9, <1>10, <1>11, <1>12, <1>13
           DEF OrigNext, OrigTerminated

\* The inductive invariant of the merge of the upstream tarballs (Orig.pm, the
\* loop over the components): at every step of it the names, the childnames, the
\* hard links and the disk fit together, until tar meets a file or a link where it
\* needs a directory, or cannot make a hard link.
THEOREM OrigInvariance == OrigSpec => []OrigInv
  <1>1. OrigInit => OrigInv
    BY OrigStarts DEF OrigInv, KnownInv
  <1>2. OrigInv /\ [OrigNext]_<<vars, orig>> => OrigInv'
    BY OrigStepKeeps
  <1>3. QED BY <1>1, <1>2, PTL DEF OrigSpec

\* Below the top every item of the merged index is found by its directory under
\* its name, however many tarballs were renamed and merged, as long as the place
\* of each component was empty when it came (drop_common_prefix,
\* capture_common_prefix, merge_in).
THEOREM ItemsFoundHold == OrigSpec => []ItemsAreFoundBelow
  <1>1. OrigInv => ItemsAreFoundBelow
    <2> SUFFICES ASSUME OrigInv, Built, shared = {}, NEW n \in DOMAIN merged, Len(n.path) > 1
                 PROVE  Dirname(n) \in DOMAIN merged /\ n.path \in DOMAIN named /\ named[n.path] = n
      BY DEF ItemsAreFoundBelow
    <2>1. n # Root
      BY EmptySeq DEF Root
    <2>2. KnownInv
      BY DEF OrigInv, Lost
    <2>3. QED BY <2>1, <2>2 DEF KnownInv, MergedInv
  <1>2. QED BY OrigInvariance, <1>1, PTL

\* What is on disk in the end is told by the merged index, under the name it has
\* there, as what it is and with its size, if hard links lead to files; and the
\* index tells of nothing else, if every component found its place empty.  (Where
\* tar met a file or a link in place of a directory, nothing is claimed.)
THEOREM CatalogHolds == OrigSpec => []CatalogIsTheDisk
  <1>1. OrigInv => CatalogIsTheDisk
    <2> SUFFICES ASSUME OrigInv, Built, {"around", "blocked", "astray"} \cap shared = {}
                 PROVE  CatalogIsTheDisk
      BY DEF CatalogIsTheDisk
    <2>1. MergedInv /\ step = "unpack" /\ "around" \notin shared
      BY DEF OrigInv, Lost, KnownInv, Built
    <2>2. ASSUME AllStraight, NEW p \in DOMAIN disk
          PROVE  LET n == IF disk[p].type = {"dir"} THEN Folder(p) ELSE Plain(p)
                 IN  n \in DOMAIN merged /\ merged[n].type = disk[p].type /\ merged[n].size = disk[p].size
      BY <2>1, <2>2 DEF MergedInv, Told, NameIn, Alike
    <2>3. shared = {} => {n.path : n \in DOMAIN merged \ {Root}} \subseteq DOMAIN disk
      BY <2>1 DEF MergedInv
    <2>4. QED BY <2>2, <2>3 DEF CatalogIsTheDisk, AllStraight
  <1>2. QED BY OrigInvariance, <1>1, PTL
=============================================================================
