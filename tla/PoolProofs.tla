------------------------------ MODULE PoolProofs ------------------------------
(***************************************************************************)
(* Proofs about Pool, for all files, packages, command lines and hints.    *)
(***************************************************************************)
EXTENDS Pool, TLAPS

-----------------------------------------------------------------------------
\* Groups.

\* What makes a group that of one upload; what is not named yet is empty.
Upload(g) ==
    /\ g \in Group /\ KindsFit(g)
    /\ g.source_name = Empty => g.source_version = Empty
    /\ \A f \in Processables(g) :
          /\ f \notin Tainted /\ SourceName[f] = g.source_name
          /\ SourceVersion[f] \in {g.source_version, Empty}
    /\ \A e, f \in g.installables : Identifier[e] = Identifier[f] => e = f

LEMMA InGroup ==
    ASSUME NEW g \in Group, KindsFit(g), NEW f
    PROVE  /\ f \in Processables(g) => f \in File
           /\ f \in Processables(g) /\ Kind[f] \in Single => g.single[Kind[f]] = f
           /\ f \in Processables(g) /\ Kind[f] \notin Single => f \in g.installables /\ Kind[f] \in Installable
           /\ f \in g.installables => f \in Processables(g)
           /\ \A k \in Single : g.single[k] # NoFile => g.single[k] \in Processables(g)
  <1>1. Installable \cap Single = {}
    BY DEF Installable, Single
  <1>2. g.installables \subseteq File /\ g.single \in [Single -> File \cup {NoFile}]
    BY DEF Group
  <1>3. QED BY <1>1, <1>2 DEF Processables, KindsFit

LEMMA NewIsUpload == Upload(NewGroup)
  <1>1. NewGroup \in Group
    BY DEF NewGroup, Group
  <1>2. Processables(NewGroup) = {} /\ KindsFit(NewGroup)
    BY DEF NewGroup, Processables, KindsFit
  <1>3. QED BY <1>1, <1>2 DEF Upload, NewGroup

\* A group that takes its name from one more file stays one upload.
LEMMA NamedIsUpload ==
    ASSUME NEW g, Upload(g), NEW f \in File
    PROVE  /\ Upload(Named(g, f)) /\ Processables(Named(g, f)) = Processables(g)
           /\ Named(g, f).single = g.single /\ Named(g, f).installables = g.installables
           /\ Named(g, f).source_name # Empty
  <1> DEFINE h == Named(g, f)
  <1>1. /\ h.source_name = IF g.source_name = Empty THEN SourceName[f] ELSE g.source_name
        /\ h.source_version = IF g.source_version = Empty THEN SourceVersion[f] ELSE g.source_version
        /\ h.single = g.single /\ h.installables = g.installables
    BY DEF Named
  <1>2. h \in Group
    BY DEF Named, Upload, Group
  <1>3. h.source_name # Empty
    BY <1>1, PoolAssumption
  <1>4. Processables(h) = Processables(g) /\ KindsFit(h)
    BY <1>1 DEF Processables, KindsFit, Upload
  <1> HIDE DEF h
  <1>5. ASSUME NEW e \in Processables(g)
        PROVE  /\ e \notin Tainted /\ SourceName[e] = h.source_name
               /\ SourceVersion[e] \in {h.source_version, Empty}
    <2>1. e \in File /\ SourceName[e] # Empty
      BY InGroup, PoolAssumption DEF Upload
    <2>2. QED BY <1>1, <2>1 DEF Upload
  <1>6. \A d, e \in h.installables : Identifier[d] = Identifier[e] => d = e
    BY <1>1 DEF Upload
  <1>7. Upload(h)
    BY <1>2, <1>3, <1>4, <1>5, <1>6 DEF Upload
  <1>8. QED BY <1>1, <1>3, <1>4, <1>7 DEF h

LEMMA StoredIsUpload ==
    ASSUME NEW g, Upload(g), NEW f \in File, f \notin Tainted,
           SourceName[f] = g.source_name, SourceVersion[f] = g.source_version
    PROVE  /\ Upload(Stored(g, f)) /\ g.installables \subseteq Stored(g, f).installables
           /\ \A k \in Single : g.single[k] # NoFile => Stored(g, f).single[k] # NoFile
           /\ Kind[f] \in Single => Stored(g, f).single[Kind[f]] # NoFile
           /\ Kind[f] \in Installable => \E e \in Stored(g, f).installables : Identifier[e] = Identifier[f]
           /\ Stored(g, f).source_name = g.source_name /\ Stored(g, f).source_version = g.source_version
  <1> DEFINE h == Stored(g, f)
  <1>1. /\ h.source_name = g.source_name /\ h.source_version = g.source_version
        /\ h.single = IF Kind[f] \in Single /\ g.single[Kind[f]] = NoFile
                      THEN [g.single EXCEPT ![Kind[f]] = f] ELSE g.single
        /\ h.installables =
              IF Kind[f] \in Installable /\ \A i \in g.installables : Identifier[i] # Identifier[f]
              THEN g.installables \cup {f} ELSE g.installables
    BY DEF Stored
  <1>2. /\ g.single \in [Single -> File \cup {NoFile}] /\ g.installables \subseteq File
        /\ g.source_name \in {SourceName[e] : e \in File} \cup {Empty}
        /\ g.source_version \in {SourceVersion[e] : e \in File} \cup {Empty}
    BY DEF Upload, Group
  <1>3. h.single \in [Single -> File \cup {NoFile}] /\ h.installables \subseteq File
    BY <1>1, <1>2
  <1>4. h \in Group
    BY <1>1, <1>2, <1>3 DEF Stored, Group
  <1> HIDE DEF h
  <1>5. /\ \A k \in Single : h.single[k] # NoFile =>
              h.single[k] = g.single[k] \/ (h.single[k] = f /\ Kind[f] = k)
        /\ \A e \in h.installables : e \in g.installables \/ (e = f /\ Kind[f] \in Installable)
    BY <1>1, <1>2
  <1>6. KindsFit(h)
    BY <1>5 DEF KindsFit, Upload
  <1>7. ASSUME NEW e \in Processables(h)
        PROVE  /\ e \notin Tainted /\ SourceName[e] = h.source_name
               /\ SourceVersion[e] \in {h.source_version, Empty}
    <2>1. e = f \/ e \in Processables(g)
      BY <1>5 DEF Processables
    <2>2. QED BY <1>1, <2>1 DEF Upload
  <1>8. \A d, e \in h.installables : Identifier[d] = Identifier[e] => d = e
    BY <1>1 DEF Upload
  <1>9. h.source_name = Empty => h.source_version = Empty
    BY <1>1 DEF Upload
  <1>10. Upload(h)
    BY <1>4, <1>6, <1>7, <1>8, <1>9 DEF Upload
  <1>11. /\ \A k \in Single : g.single[k] # NoFile => h.single[k] # NoFile
         /\ Kind[f] \in Single => h.single[Kind[f]] # NoFile
    BY <1>1, <1>2, PoolAssumption
  <1>12. /\ g.installables \subseteq h.installables
         /\ Kind[f] \in Installable => \E e \in h.installables : Identifier[e] = Identifier[f]
    BY <1>1
  <1>13. QED BY <1>1, <1>10, <1>11, <1>12 DEF h

\* add_processable keeps a group one upload and loses nothing that is in it; and
\* it takes in whatever belongs to the group, unless something like it is there.
LEMMA AddKeepsUpload ==
    ASSUME NEW g, Upload(g), NEW f \in File
    PROVE  LET h == AddProcessable(g, f) IN
           /\ Upload(h) /\ g.installables \subseteq h.installables
           /\ \A k \in Single : g.single[k] # NoFile => h.single[k] # NoFile
           /\ \/ f \in Tainted /\ h = g
              \/ h.source_name = Named(g, f).source_name /\ h.source_version = Named(g, f).source_version
           /\ Fits(g, f) /\ Kind[f] \in Single => h.single[Kind[f]] # NoFile
           /\ Fits(g, f) /\ Kind[f] \in Installable => \E e \in h.installables : Identifier[e] = Identifier[f]
  <1> DEFINE m == Named(g, f)
             h == AddProcessable(g, f)
  <1>1. Upload(m) /\ m.single = g.single /\ m.installables = g.installables
    BY NamedIsUpload
  <1>2. CASE f \in Tainted
    BY <1>2 DEF AddProcessable, Fits
  <1>3. CASE Fits(g, f)
    <2>1. h = Stored(m, f) /\ f \notin Tainted /\ SourceName[f] = m.source_name /\ SourceVersion[f] = m.source_version
      BY <1>3 DEF AddProcessable, Fits
    <2> HIDE DEF m, h
    <2>2. /\ Upload(h) /\ m.installables \subseteq h.installables
          /\ \A k \in Single : m.single[k] # NoFile => h.single[k] # NoFile
          /\ Kind[f] \in Single => h.single[Kind[f]] # NoFile
          /\ Kind[f] \in Installable => \E e \in h.installables : Identifier[e] = Identifier[f]
          /\ h.source_name = m.source_name /\ h.source_version = m.source_version
      BY <1>1, <2>1, StoredIsUpload
    <2>3. QED BY <1>1, <2>2 DEF m, h
  <1>4. CASE f \notin Tainted /\ ~Fits(g, f)
    <2>1. h = m
      BY <1>4 DEF AddProcessable
    <2>2. QED BY <1>1, <1>4, <2>1
  <1>5. QED BY <1>2, <1>3, <1>4

\* What is merged comes from a group of the same name, which is then that of the
\* pool's group, whether they have one or not.
LEMMA AddKeepsName ==
    ASSUME NEW old, Upload(old), NEW new, Upload(new), Name(old) = Name(new), NEW f \in Processables(new)
    PROVE  /\ Name(AddProcessable(old, f)) = Name(old)
           /\ SourceVersion[f] # Empty =>
                 Fits(old, f) /\ Name(old) = <<SourceName[f], SourceVersion[f]>>
  <1> DEFINE h == AddProcessable(old, f)
  <1>1. /\ f \in File /\ f \notin Tainted /\ SourceName[f] # Empty
        /\ SourceName[f] = new.source_name /\ SourceVersion[f] \in {new.source_version, Empty}
    BY InGroup, PoolAssumption DEF Upload
  <1>2. h.source_name = Named(old, f).source_name /\ h.source_version = Named(old, f).source_version
    <2>1. \/ f \in Tainted /\ h = old
          \/ h.source_name = Named(old, f).source_name /\ h.source_version = Named(old, f).source_version
      BY <1>1, AddKeepsUpload
    <2>2. QED BY <1>1, <2>1
  <1>3. /\ Named(old, f).source_name = IF old.source_name = Empty THEN SourceName[f] ELSE old.source_name
        /\ Named(old, f).source_version = IF old.source_version = Empty THEN SourceVersion[f] ELSE old.source_version
    BY DEF Named
  <1>4. CASE SourceVersion[f] # Empty
    <2>1. Name(new) = <<SourceName[f], SourceVersion[f]>> /\ Name(new) # Nameless
      BY <1>1, <1>4 DEF Name, Nameless
    <2>2. old.source_name = SourceName[f] /\ old.source_version = SourceVersion[f]
      BY <2>1 DEF Name, Nameless
    <2>3. Name(h) = Name(old)
      BY <1>1, <1>2, <1>3, <1>4, <2>2 DEF Name
    <2>4. Fits(old, f)
      BY <1>1, <1>3, <1>4, <2>2 DEF Fits
    <2>5. QED BY <2>1, <2>3, <2>4
  <1>5. CASE SourceVersion[f] = Empty
    <2>1. CASE old.source_version = Empty
      BY <1>2, <1>3, <1>5, <2>1 DEF Name
    <2>2. CASE old.source_version # Empty
      <3>1. old.source_name # Empty
        BY <2>2 DEF Upload
      <3>2. QED BY <1>5, <1>2, <1>3, <2>2, <3>1 DEF Name
    <2>3. QED BY <1>5, <2>1, <2>2
  <1>6. QED BY <1>4, <1>5

\* What a merge leaves of the pool's group.
Grown(old, h) ==
    /\ Upload(h) /\ Name(h) = Name(old) /\ old.installables \subseteq h.installables
    /\ \A k \in Single : old.single[k] # NoFile => h.single[k] # NoFile

LEMMA AddGrows ==
    ASSUME NEW old, Upload(old), NEW new, Upload(new), Name(old) = Name(new), NEW f \in Processables(new)
    PROVE  Grown(old, AddProcessable(old, f))
  <1>1. f \in File
    BY InGroup DEF Upload
  <1>2. QED BY <1>1, AddKeepsName, AddKeepsUpload DEF Grown

\* A single kind that the new group has with a version is there afterwards.
Has(h, new, k) ==
    new.single[k] # NoFile /\ SourceVersion[new.single[k]] # Empty => h.single[k] # NoFile

LEMMA MergeSingleGrows ==
    ASSUME NEW old, Upload(old), NEW new, Upload(new), Name(old) = Name(new), NEW k \in Single
    PROVE  Grown(old, MergeSingle(old, new, k)) /\ Has(MergeSingle(old, new, k), new, k)
  <1>1. CASE old.single[k] = NoFile /\ new.single[k] # NoFile
    <2> DEFINE f == new.single[k]
    <2>1. f \in Processables(new) /\ f \in File /\ Kind[f] = k
      BY <1>1, InGroup DEF Upload, KindsFit
    <2>2. MergeSingle(old, new, k) = AddProcessable(old, f)
      BY <1>1 DEF MergeSingle
    <2>3. Grown(old, AddProcessable(old, f))
      BY <2>1, AddGrows
    <2>4. SourceVersion[f] # Empty => AddProcessable(old, f).single[k] # NoFile
      BY <2>1, AddKeepsName, AddKeepsUpload
    <2>5. QED BY <2>2, <2>3, <2>4 DEF Has
  <1>2. CASE ~(old.single[k] = NoFile /\ new.single[k] # NoFile)
    BY <1>2 DEF MergeSingle, Grown, Has
  <1>3. QED BY <1>1, <1>2

LEMMA MergeSinglesGrows ==
    ASSUME NEW old, Upload(old), NEW new, Upload(new), Name(old) = Name(new)
    PROVE  /\ Grown(old, MergeSingles(old, new))
           /\ \A k \in Single : Has(MergeSingles(old, new), new, k)
  <1> DEFINE a == MergeSingle(old, new, "source")
             b == MergeSingle(a, new, "buildinfo")
             c == MergeSingle(b, new, "changes")
  <1>1. Single = {"source", "buildinfo", "changes"}
    BY DEF Single
  <1>2. Grown(old, a) /\ Has(a, new, "source")
    BY <1>1, MergeSingleGrows
  <1> HIDE DEF a
  <1>3. Grown(a, b) /\ Has(b, new, "buildinfo")
    BY <1>1, <1>2, MergeSingleGrows DEF Grown
  <1> HIDE DEF b
  <1>4. Grown(b, c) /\ Has(c, new, "changes")
    BY <1>1, <1>2, <1>3, MergeSingleGrows DEF Grown
  <1> HIDE DEF c
  <1>5. Grown(old, c)
    BY <1>2, <1>3, <1>4 DEF Grown
  <1>6. Has(c, new, "source") /\ Has(c, new, "buildinfo")
    BY <1>1, <1>2, <1>3, <1>4 DEF Grown, Has
  <1>7. MergeSingles(old, new) = c
    BY DEF MergeSingles, a, b, c
  <1>8. QED BY <1>1, <1>4, <1>5, <1>6, <1>7

-----------------------------------------------------------------------------
\* The steps of the program.

\* The groups of the pool are uploads, filed under their names, and a group that
\* is being merged has one of its name there.
FiledInv ==
    /\ TypeOK /\ Upload(group)
    /\ \A n \in DOMAIN groups : Upload(groups[n]) /\ Name(groups[n]) = n
    /\ phase = "merge" => Name(group) \in DOMAIN groups /\ merging \subseteq group.installables
    /\ merging # {} => phase = "merge"

\* What was delivered is in the group of its name, or is still to be merged.
Own(f) == <<SourceName[f], SourceVersion[f]>>
DeliveredInv ==
    \A f \in delivered : SourceVersion[f] # Empty =>
        /\ Own(f) \in DOMAIN groups
        /\ IF Kind[f] \in Single THEN groups[Own(f)].single[Kind[f]] # NoFile
           ELSE \/ \E g \in groups[Own(f)].installables : Identifier[g] = Identifier[f]
                \/ f \in merging /\ Name(group) = Own(f) /\ Kind[f] \in Installable

LEMMA FiledInit == Init => FiledInv /\ DeliveredInv
  <1> SUFFICES ASSUME Init PROVE FiledInv /\ DeliveredInv
    OBVIOUS
  <1>1. subjects \in Seq(File) /\ selected \in Selection
    BY PoolAssumption DEF Init
  <1>2. Upload(group) /\ group \in Group /\ KindsFit(group)
    BY NewIsUpload DEF Init, Upload
  <1>3. DOMAIN groups = {} /\ delivered = {} /\ merging = {} /\ phase = "subjects"
    BY DEF Init
  <1>4. TypeOK
    BY <1>1, <1>2, <1>3 DEF Init, TypeOK
  <1>5. QED BY <1>2, <1>3, <1>4 DEF FiledInv, DeliveredInv

\* A step that leaves the groups alone, and where none is assembled or merged.
LEMMA FiledAway ==
    ASSUME FiledInv, DeliveredInv, UNCHANGED <<groups, delivered, merging>>, merging = {},
           TypeOK', Upload(group'), phase' # "merge"
    PROVE  FiledInv' /\ DeliveredInv'
  <1>1. FiledInv'
    BY DEF FiledInv
  <1>2. DeliveredInv'
    BY DEF DeliveredInv
  <1>3. QED BY <1>1, <1>2

LEMMA StartKeeps ==
    ASSUME FiledInv, DeliveredInv, StartSubject
    PROVE  FiledInv' /\ DeliveredInv'
  <1>1. subjects[next] \in File
    BY DEF FiledInv, TypeOK, StartSubject
  <1>2. Upload(group')
    BY <1>1, NewIsUpload, AddKeepsUpload DEF StartSubject
  <1>3. merging = {} /\ phase' = "pull" /\ UNCHANGED <<groups, delivered, merging>>
    BY DEF StartSubject, FiledInv, history
  <1>4. pulling' \subseteq File
    BY <1>1, PoolAssumption DEF StartSubject
  <1>5. TypeOK'
    BY <1>2, <1>3, <1>4 DEF FiledInv, TypeOK, StartSubject, Upload, results
  <1>6. QED BY <1>2, <1>3, <1>5, FiledAway

LEMMA PullKeeps ==
    ASSUME FiledInv, DeliveredInv, PullFile
    PROVE  FiledInv' /\ DeliveredInv'
  <1>1. PICK f \in pulling : /\ group' = IF Wanted(f) THEN AddProcessable(group, f) ELSE group
                             /\ pulling' = pulling \ {f}
    BY DEF PullFile
  <1>2. f \in File /\ Upload(group)
    BY DEF FiledInv, TypeOK
  <1>3. Upload(group')
    BY <1>1, <1>2, AddKeepsUpload
  <1>4. merging = {} /\ phase' = "pull" /\ UNCHANGED <<groups, delivered, merging>>
    BY DEF PullFile, FiledInv, history
  <1>5. TypeOK'
    BY <1>1, <1>3, <1>4 DEF FiledInv, TypeOK, PullFile, Upload, results
  <1>6. QED BY <1>3, <1>4, <1>5, FiledAway

LEMMA SkipKeeps ==
    ASSUME FiledInv, DeliveredInv, SkipSubject
    PROVE  FiledInv' /\ DeliveredInv'
  <1>1. Upload(group') /\ merging = {} /\ phase' = "subjects" /\ UNCHANGED <<groups, delivered, merging>>
    BY NewIsUpload DEF SkipSubject, PullDies, FiledInv
  <1>2. TypeOK'
    BY <1>1 DEF FiledInv, TypeOK, SkipSubject, Upload, results
  <1>3. QED BY <1>1, <1>2, FiledAway

LEMMA NextKeeps ==
    ASSUME FiledInv, DeliveredInv, NextSubject
    PROVE  FiledInv' /\ DeliveredInv'
  <1>1. Upload(group') /\ merging = {} /\ phase' = "subjects" /\ UNCHANGED <<groups, delivered, merging>>
    BY NewIsUpload DEF NextSubject, FiledInv, history
  <1>2. TypeOK'
    BY <1>1 DEF FiledInv, TypeOK, NextSubject, Upload, results
  <1>3. QED BY <1>1, <1>2, FiledAway

\* Merging changes one group, which grows; what else it has to bring is said of it.
LEMMA GroupGrows ==
    ASSUME FiledInv, NEW n \in DOMAIN groups, NEW h, Grown(groups[n], h),
           groups' = [groups EXCEPT ![n] = h]
    PROVE  /\ DOMAIN groups' = DOMAIN groups /\ groups'[n] = h
           /\ \A m \in DOMAIN groups : /\ Upload(groups'[m]) /\ Name(groups'[m]) = m
                                       /\ Grown(groups[m], groups'[m])
  <1>1. \A m \in DOMAIN groups : Grown(groups[m], groups[m])
    BY DEF FiledInv, Grown
  <1>2. QED BY <1>1 DEF FiledInv, Grown

LEMMA MergeKeeps ==
    ASSUME FiledInv, DeliveredInv, MergeInstallable
    PROVE  FiledInv' /\ DeliveredInv'
  <1> DEFINE n == Name(group)
  <1>1. PICK f \in merging : /\ groups' = [groups EXCEPT ![n] = AddProcessable(groups[n], f)]
                             /\ merging' = merging \ {f}
    BY DEF MergeInstallable
  <1>2. /\ n \in DOMAIN groups /\ merging \subseteq group.installables /\ phase = "merge"
        /\ Upload(group) /\ Upload(groups[n]) /\ Name(groups[n]) = Name(group)
    BY DEF FiledInv, MergeInstallable
  <1>3. f \in Processables(group) /\ f \in File
    BY <1>1, <1>2, InGroup DEF Upload, Processables
  <1>4. Grown(groups[n], AddProcessable(groups[n], f))
    BY <1>2, <1>3, AddGrows
  <1>5. /\ DOMAIN groups' = DOMAIN groups
        /\ \A m \in DOMAIN groups : /\ Upload(groups'[m]) /\ Name(groups'[m]) = m
                                    /\ Grown(groups[m], groups'[m])
    BY <1>1, <1>2, <1>4, GroupGrows
  <1>6. UNCHANGED <<subjects, selected, phase, next, group, pulling, to_process, results, exit_code, history>>
    BY DEF MergeInstallable
  <1>7. TypeOK'
    BY <1>1, <1>5, <1>6 DEF FiledInv, TypeOK, Upload, results
  <1>8. FiledInv'
    BY <1>1, <1>2, <1>5, <1>6, <1>7 DEF FiledInv
  <1>9. ASSUME NEW d \in delivered', SourceVersion[d] # Empty
        PROVE  /\ Own(d) \in DOMAIN groups'
               /\ IF Kind[d] \in Single THEN groups'[Own(d)].single[Kind[d]] # NoFile
                  ELSE \/ \E g \in groups'[Own(d)].installables : Identifier[g] = Identifier[d]
                       \/ d \in merging' /\ Name(group') = Own(d) /\ Kind[d] \in Installable
    <2>1. /\ Own(d) \in DOMAIN groups
          /\ IF Kind[d] \in Single THEN groups[Own(d)].single[Kind[d]] # NoFile
             ELSE \/ \E g \in groups[Own(d)].installables : Identifier[g] = Identifier[d]
                  \/ d \in merging /\ n = Own(d) /\ Kind[d] \in Installable
      BY <1>6, <1>9 DEF DeliveredInv, history
    <2>2. Grown(groups[Own(d)], groups'[Own(d)])
      BY <1>5, <2>1
    <2>3. CASE Kind[d] \in Single \/ \E g \in groups[Own(d)].installables : Identifier[g] = Identifier[d]
      BY <1>5, <2>1, <2>2, <2>3 DEF Grown
    <2>4. CASE Kind[d] \notin Single /\ d \in merging /\ n = Own(d) /\ Kind[d] \in Installable /\ d # f
      BY <1>1, <1>5, <1>6, <2>1, <2>4
    <2>5. CASE Kind[d] \notin Single /\ n = Own(d) /\ Kind[d] \in Installable /\ d = f
      <3>1. Fits(groups[n], f)
        BY <1>2, <1>3, <1>9, <2>5, AddKeepsName
      <3>2. \E e \in AddProcessable(groups[n], f).installables : Identifier[e] = Identifier[f]
        BY <1>2, <1>3, <2>5, <3>1, AddKeepsUpload
      <3>3. groups'[n] = AddProcessable(groups[n], f)
        BY <1>1, <1>2
      <3>4. QED BY <1>5, <2>1, <2>5, <3>2, <3>3
    <2>6. QED BY <2>1, <2>3, <2>4, <2>5
  <1>10. DeliveredInv'
    BY <1>9 DEF DeliveredInv
  <1>11. QED BY <1>8, <1>10

\* What the pool has of a file that was delivered.
There(d) ==
    /\ Own(d) \in DOMAIN groups
    /\ IF Kind[d] \in Single THEN groups[Own(d)].single[Kind[d]] # NoFile
       ELSE \/ \E g \in groups[Own(d)].installables : Identifier[g] = Identifier[d]
            \/ d \in merging /\ Name(group) = Own(d) /\ Kind[d] \in Installable

LEMMA AddGroupKeeps ==
    ASSUME FiledInv, DeliveredInv, AddGroup
    PROVE  FiledInv' /\ DeliveredInv'
  <1> DEFINE n == Name(group)
  <1>1. /\ Upload(group) /\ merging = {} /\ phase' = "merge"
        /\ delivered' = delivered \cup Processables(group)
        /\ UNCHANGED <<subjects, selected, next, group, pulling, to_process, results, exit_code>>
    BY DEF AddGroup, FiledInv
  <1>2. ASSUME NEW d \in Processables(group), SourceVersion[d] # Empty
        PROVE  Own(d) = n /\ d \notin Tainted /\ d \in File
    <2>1. SourceName[d] = group.source_name /\ SourceVersion[d] = group.source_version
          /\ d \notin Tainted /\ d \in File /\ SourceName[d] # Empty
      BY <1>1, <1>2, InGroup, PoolAssumption DEF Upload
    <2>2. QED BY <1>2, <2>1 DEF Own, Name
  <1>3. CASE n \in DOMAIN groups
    <2> DEFINE h == MergeSingles(groups[n], group)
    <2>1. groups' = [groups EXCEPT ![n] = h] /\ merging' = group.installables
      BY <1>3 DEF AddGroup
    <2>2. Upload(groups[n]) /\ Name(groups[n]) = Name(group)
      BY <1>3 DEF FiledInv
    <2>3. Grown(groups[n], h) /\ \A k \in Single : Has(h, group, k)
      BY <1>1, <2>2, MergeSinglesGrows
    <2> HIDE DEF h
    <2>4. /\ DOMAIN groups' = DOMAIN groups /\ groups'[n] = h
          /\ \A m \in DOMAIN groups : /\ Upload(groups'[m]) /\ Name(groups'[m]) = m
                                      /\ Grown(groups[m], groups'[m])
      BY <1>3, <2>1, <2>3, GroupGrows
    <2>5. merging' \subseteq File
      BY <1>1, <2>1 DEF Upload, Group
    <2>6. TypeOK'
      BY <1>1, <2>4, <2>5 DEF FiledInv, TypeOK, Upload, results
    <2>7. FiledInv'
      BY <1>1, <1>3, <2>1, <2>4, <2>6 DEF FiledInv
    <2>8. ASSUME NEW d \in delivered', SourceVersion[d] # Empty
          PROVE  There(d)'
      <3>1. CASE d \in delivered
        <4>1. There(d)
          BY <2>8, <3>1 DEF DeliveredInv, There
        <4>2. Own(d) \in DOMAIN groups /\ Grown(groups[Own(d)], groups'[Own(d)])
          BY <2>4, <4>1 DEF There
        <4>3. Own(d)' = Own(d)
          BY DEF Own
        <4>4. QED BY <1>1, <2>4, <4>1, <4>2, <4>3 DEF There, Grown
      <3>2. CASE d \in Processables(group)
        <4>1. Own(d) = n /\ Own(d)' = Own(d)
          BY <1>2, <2>8, <3>2 DEF Own
        <4>2. CASE Kind[d] \in Single
          <5>1. group.single[Kind[d]] = d /\ d # NoFile
            BY <1>1, <1>2, <2>8, <3>2, <4>2, InGroup, PoolAssumption DEF Upload
          <5>2. h.single[Kind[d]] # NoFile
            BY <2>3, <2>8, <4>2, <5>1 DEF Has
          <5>3. QED BY <1>3, <2>4, <4>1, <4>2, <5>2 DEF There
        <4>3. CASE Kind[d] \notin Single
          <5>1. d \in group.installables /\ Kind[d] \in Installable
            BY <1>1, <3>2, <4>3, InGroup DEF Upload
          <5>2. QED BY <1>1, <1>3, <2>1, <2>4, <4>1, <4>3, <5>1 DEF There
        <4>4. QED BY <4>2, <4>3
      <3>3. QED BY <1>1, <3>1, <3>2
    <2>9. QED BY <2>7, <2>8 DEF DeliveredInv, There
  <1>4. CASE n \notin DOMAIN groups
    <2>1. groups' = [m \in DOMAIN groups \cup {n} |-> IF m = n THEN group ELSE groups[m]] /\ merging' = {}
      BY <1>4 DEF AddGroup
    <2>2. /\ DOMAIN groups' = DOMAIN groups \cup {n} /\ groups'[n] = group
          /\ \A m \in DOMAIN groups : groups'[m] = groups[m]
      BY <1>4, <2>1
    <2>3. \A m \in DOMAIN groups' : Upload(groups'[m]) /\ Name(groups'[m]) = m
      BY <1>1, <2>2 DEF FiledInv
    <2>4. TypeOK'
      BY <1>1, <2>1, <2>2, <2>3 DEF FiledInv, TypeOK, Upload, results
    <2>5. FiledInv'
      BY <1>1, <2>1, <2>2, <2>3, <2>4 DEF FiledInv
    <2>6. ASSUME NEW d \in delivered', SourceVersion[d] # Empty
          PROVE  There(d)'
      <3>0. Own(d)' = Own(d)
        BY DEF Own
      <3>1. CASE d \in delivered
        <4>1. There(d)
          BY <2>6, <3>1 DEF DeliveredInv, There
        <4>2. QED BY <1>1, <2>2, <3>0, <4>1 DEF There
      <3>2. CASE d \in Processables(group)
        <4>1. Own(d) = n /\ d \in File
          BY <1>2, <2>6, <3>2
        <4>2. Kind[d] \in Single => group.single[Kind[d]] # NoFile
          BY <1>1, <3>2, <4>1, InGroup, PoolAssumption DEF Upload
        <4>3. Kind[d] \notin Single => d \in group.installables
          BY <1>1, <3>2, InGroup DEF Upload
        <4>4. QED BY <2>2, <3>0, <4>1, <4>2, <4>3 DEF There
      <3>3. QED BY <1>1, <3>1, <3>2
    <2>7. QED BY <2>5, <2>6 DEF DeliveredInv, There
  <1>5. QED BY <1>3, <1>4

LEMMA ProcessKeeps ==
    ASSUME FiledInv, DeliveredInv,
           Abort \/ StartProcess \/ ProcessGroup \/ EndProcess \/ Terminated \/ UNCHANGED vars
    PROVE  FiledInv' /\ DeliveredInv'
  <1>1. UNCHANGED <<group, groups, delivered, merging>>
    BY DEF Abort, StartProcess, ProcessGroup, EndProcess, Terminated, vars, assembly, history
  <1>2. UNCHANGED <<subjects, selected, next, pulling>>
    BY DEF Abort, StartProcess, ProcessGroup, EndProcess, Terminated, vars, assembly
  <1>3. (phase' \in {"process", "done", "aborted"} /\ merging = {})
        \/ UNCHANGED phase
    BY DEF Abort, StartProcess, ProcessGroup, EndProcess, Terminated, vars, FiledInv
  <1>4. /\ to_process' \subseteq DOMAIN groups /\ reported' \subseteq Condition
        /\ hints' \in [File -> SUBSET Hint] /\ exit_code' \in {0, 1, 2}
    <2>1. CASE ProcessGroup
      <3>1. PICK n \in to_process, success \in BOOLEAN :
            \E chosen \in [Processables(groups[n]) \cap Hinted -> Outcomes] :
                Processed(n, success, chosen)
        BY <2>1 DEF ProcessGroup
      <3>2. PICK chosen \in [Processables(groups[n]) \cap Hinted -> Outcomes] :
                Processed(n, success, chosen)
        BY <3>1
      <3> DEFINE members == Processables(groups[n])
      <3> DEFINE kept == [f \in members |-> {h \in IF f \in Hinted THEN chosen[f] ELSE {} : Displayed(h)}]
      <3>3. \A f \in members : kept[f] \subseteq Hint
        BY PoolAssumption
      <3>4. /\ hints' = [f \in File |-> IF f \in members THEN hints[f] \cup kept[f] ELSE hints[f]]
            /\ reported' = reported \cup UNION {Conditions(h) : h \in UNION {kept[f] : f \in members}}
        BY <3>2 DEF Processed
      <3>5. \A h \in Hint : Conditions(h) \subseteq Condition
        BY DEF Hint, Conditions, Condition
      <3> HIDE DEF members, kept
      <3>6. hints' \in [File -> SUBSET Hint]
        BY <3>3, <3>4 DEF FiledInv, TypeOK
      <3>7. reported' \subseteq Condition
        BY <3>3, <3>4, <3>5 DEF FiledInv, TypeOK
      <3>8. QED BY <3>2, <3>6, <3>7 DEF FiledInv, TypeOK, Processed
    <2>2. CASE Abort \/ StartProcess \/ EndProcess \/ Terminated \/ UNCHANGED vars
      BY <2>2 DEF Abort, StartProcess, EndProcess, Terminated, vars, results, FiledInv, TypeOK
    <2>3. QED BY <2>1, <2>2
  <1>5. TypeOK'
    BY <1>1, <1>2, <1>3, <1>4 DEF FiledInv, TypeOK
  <1>6. FiledInv'
    BY <1>1, <1>3, <1>5 DEF FiledInv
  <1>7. DeliveredInv'
    BY <1>1 DEF DeliveredInv
  <1>8. QED BY <1>6, <1>7

LEMMA NextKeepsFiled == FiledInv /\ DeliveredInv /\ [Next]_vars => FiledInv' /\ DeliveredInv'
  <1> SUFFICES ASSUME FiledInv, DeliveredInv, [Next]_vars PROVE FiledInv' /\ DeliveredInv'
    OBVIOUS
  <1>1. CASE StartSubject
    BY <1>1, StartKeeps
  <1>2. CASE PullFile
    BY <1>2, PullKeeps
  <1>3. CASE SkipSubject
    BY <1>3, SkipKeeps
  <1>4. CASE AddGroup
    BY <1>4, AddGroupKeeps
  <1>5. CASE MergeInstallable
    BY <1>5, MergeKeeps
  <1>6. CASE NextSubject
    BY <1>6, NextKeeps
  <1>7. CASE Abort \/ StartProcess \/ ProcessGroup \/ EndProcess \/ Terminated \/ UNCHANGED vars
    BY <1>7, ProcessKeeps
  <1>8. QED BY <1>1, <1>2, <1>3, <1>4, <1>5, <1>6, <1>7 DEF Next

\* However the command line, the lists and the order of the files may be: the
\* pool holds uploads, filed under their names, and what was delivered is in the
\* group of its name or is about to be merged into it.
THEOREM Filed == Spec => [](FiledInv /\ DeliveredInv)
  <1>1. Init => FiledInv /\ DeliveredInv
    BY FiledInit
  <1>2. FiledInv /\ DeliveredInv /\ [Next]_vars => (FiledInv /\ DeliveredInv)'
    BY NextKeepsFiled
  <1>3. QED BY <1>1, <1>2, PTL DEF Spec

\* Every variable of the main program and of the pool has its type: in a group,
\* each file is where its kind belongs.
THEOREM TypesHold == Spec => []TypeOK
  <1>1. FiledInv => TypeOK
    BY DEF FiledInv
  <1>2. QED BY <1>1, Filed, PTL

\* A group of the pool is one upload (add_processable, add_group).
THEOREM UploadsHold == Spec => []GroupsAreUploads
  <1>1. FiledInv => GroupsAreUploads
    BY DEF FiledInv, GroupsAreUploads, Upload
  <1>2. QED BY <1>1, Filed, PTL

\* Between two subjects, and from then on, every processable that add_group was
\* given is in the pool, itself or as one of its identifier or single kind.
THEOREM MergingHolds == Spec => []MergingLosesNothing
  <1>1. FiledInv /\ DeliveredInv => MergingLosesNothing
    <2> SUFFICES ASSUME FiledInv, DeliveredInv, phase \in {"subjects", "process", "done"}
                 PROVE  MergingLosesNothing
      BY DEF MergingLosesNothing
    <2>1. merging = {}
      BY DEF FiledInv
    <2>2. QED BY <2>1 DEF DeliveredInv, MergingLosesNothing, Own
  <1>2. QED BY <1>1, Filed, PTL

-----------------------------------------------------------------------------
\* The exit status.

LEMMA DetectedIsCounted ==
    ASSUME NEW h \in Hint
    PROVE  Detected(h) <=> selected.fail_on \cap Conditions(h) # {}
  BY DEF Detected, Conditions

\* The counters tell what is kept, and the exit status tells the counters.
ExitInv ==
    /\ \A f \in File : \A h \in hints[f] : Displayed(h) /\ Conditions(h) \subseteq reported
    /\ \A c \in reported : \E f \in File : \E h \in hints[f] : c \in Conditions(h)
    /\ exit_code = 0 => skipped = {} /\ failed = {} /\ selected.fail_on \cap reported = {}
    /\ exit_code = 2 => selected.fail_on \cap reported # {}

LEMMA ExitInit == Init => ExitInv
  BY DEF Init, ExitInv

LEMMA NextKeepsExit == FiledInv /\ ExitInv /\ [Next]_vars => ExitInv'
  <1> SUFFICES ASSUME FiledInv, ExitInv, [Next]_vars PROVE ExitInv'
    OBVIOUS
  <1>1. CASE ProcessGroup
    <2>1. PICK n \in to_process, success \in BOOLEAN :
              \E chosen \in [Processables(groups[n]) \cap Hinted -> Outcomes] : Processed(n, success, chosen)
      BY <1>1 DEF ProcessGroup
    <2>2. PICK chosen \in [Processables(groups[n]) \cap Hinted -> Outcomes] : Processed(n, success, chosen)
      BY <2>1
    <2> DEFINE members == Processables(groups[n])
               kept == [f \in members |-> {h \in IF f \in Hinted THEN chosen[f] ELSE {} : Displayed(h)}]
    <2>3. /\ hints' = [f \in File |-> IF f \in members THEN hints[f] \cup kept[f] ELSE hints[f]]
          /\ reported' = reported \cup UNION {Conditions(h) : h \in UNION {kept[f] : f \in members}}
          /\ exit_code' = IF ~success THEN 1
                          ELSE IF selected.fail_on \cap reported' # {} THEN 2 ELSE exit_code
          /\ failed' = IF success THEN failed ELSE failed \cup {n}
      BY <2>2 DEF Processed
    <2>4. selected' = selected /\ skipped' = skipped
      BY <1>1 DEF ProcessGroup
    <2>5. \A f \in members : f \in File /\ \A h \in kept[f] : Displayed(h)
      <3>1. groups[n] \in Group /\ KindsFit(groups[n])
        BY DEF FiledInv, TypeOK
      <3>2. QED BY <3>1, InGroup
    <2> HIDE DEF members, kept
    <2>6. \A h : Displayed(h) => Displayed(h)'
      BY <2>4 DEF Displayed
    <2>7. \A h : Conditions(h)' = Conditions(h)
      BY DEF Conditions
    <2>8. ASSUME NEW f \in File, NEW h \in hints'[f]
          PROVE  Displayed(h)' /\ Conditions(h)' \subseteq reported'
      <3>1. h \in hints[f] \/ (f \in members /\ h \in kept[f])
        BY <2>3, <2>8
      <3>2. QED BY <2>3, <2>5, <2>6, <2>7, <3>1 DEF ExitInv
    <2>9. ASSUME NEW c \in reported'
          PROVE  \E f \in File : \E h \in hints'[f] : c \in Conditions(h)'
      <3>1. CASE c \in reported
        <4>1. PICK f \in File : \E h \in hints[f] : c \in Conditions(h)
          BY <3>1 DEF ExitInv
        <4>2. hints[f] \subseteq hints'[f]
          BY <2>3
        <4>3. QED BY <2>7, <4>1, <4>2
      <3>2. CASE c \notin reported
        <4>1. PICK f \in members : \E h \in kept[f] : c \in Conditions(h)
          BY <2>3, <3>2
        <4>2. f \in File /\ kept[f] \subseteq hints'[f]
          BY <2>3, <2>5
        <4>3. QED BY <2>7, <4>1, <4>2
      <3>3. QED BY <3>1, <3>2
    <2>10. /\ exit_code' = 0 => skipped' = {} /\ failed' = {} /\ selected'.fail_on \cap reported' = {}
           /\ exit_code' = 2 => selected'.fail_on \cap reported' # {}
      BY <2>3, <2>4 DEF ExitInv
    <2>11. QED BY <2>8, <2>9, <2>10 DEF ExitInv
  <1>2. CASE SkipSubject
    <2>1. UNCHANGED <<selected, hints, reported>> /\ exit_code' = 1
      BY <1>2 DEF SkipSubject, results
    <2>2. QED BY <2>1 DEF ExitInv, Displayed, Conditions
  <1>3. CASE \/ Abort \/ StartSubject \/ PullFile \/ AddGroup \/ MergeInstallable \/ NextSubject
             \/ StartProcess \/ EndProcess \/ Terminated \/ UNCHANGED vars
    <2>1. UNCHANGED <<selected, hints, reported, exit_code, skipped, failed>>
      BY <1>3 DEF Abort, StartSubject, PullFile, AddGroup, MergeInstallable, NextSubject,
                  StartProcess, EndProcess, Terminated, vars, results, history
    <2>2. QED BY <2>1 DEF ExitInv, Displayed, Conditions
  <1>4. QED BY <1>1, <1>2, <1>3 DEF Next

\* Exit status 0 promises that everything was read and processed and nothing
\* that --fail-on asks for is shown; exit status 2 has a shown hint as a reason
\* (bin/lintian, Pool::process), whatever the order of the groups.
THEOREM ExitStatusHolds == Spec => []ExitStatusIsTrue
  <1>1. FiledInv /\ ExitInv => ExitStatusIsTrue
    <2> SUFFICES ASSUME FiledInv, ExitInv PROVE ExitStatusIsTrue
      OBVIOUS
    <2>1. \A f \in File : \A h \in hints[f] : h \in Hint
      BY DEF FiledInv, TypeOK
    <2>2. \A f \in File : \A h \in hints[f] : Detected(h) <=> selected.fail_on \cap Conditions(h) # {}
      BY <2>1, DetectedIsCounted
    <2>3. exit_code = 0 => /\ skipped = {} /\ failed = {}
                           /\ \A f \in File : \A h \in hints[f] : ~Detected(h)
      BY <2>2 DEF ExitInv
    <2>4. ASSUME exit_code = 2
          PROVE  \E f \in File : \E h \in hints[f] : Detected(h) /\ Displayed(h)
      <3>1. PICK c \in selected.fail_on : c \in reported
        BY <2>4 DEF ExitInv
      <3>2. PICK f \in File : \E h \in hints[f] : c \in Conditions(h)
        BY <3>1 DEF ExitInv
      <3>3. QED BY <2>2, <3>1, <3>2 DEF ExitInv
    <2>5. QED BY <2>3, <2>4 DEF ExitStatusIsTrue
  <1>2. Init => ExitInv
    BY ExitInit
  <1>3. FiledInv /\ ExitInv /\ [Next]_vars => ExitInv'
    BY NextKeepsExit
  <1>4. QED BY <1>1, <1>2, <1>3, Filed, PTL DEF Spec
=============================================================================
