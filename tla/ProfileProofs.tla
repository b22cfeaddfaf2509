---------------------------- MODULE ProfileProofs ----------------------------
(***************************************************************************)
(* Proofs about Profile: its types, what the counters of enabled tags      *)
(* guarantee, what may be overridden, and that it implements TagSelection. *)
(***************************************************************************)
EXTENDS ProfileImplementsSelection, FiniteSetTheorems, SequenceTheorems, TLAPS

\* The call stack of read_profile is not empty while a profile is read, and
\* every profile on it but the one about to be opened exists.
Reading == {"read", "header", "disable", "sections"}
StackInv ==
    phase \in Reading =>
        /\ loading # <<>>
        /\ \A i \in DOMAIN loading : (phase = "read" /\ i = 1) \/ loading[i] \in DOMAIN disk

\* A profile that is being read is a profile.
LEMMA CurrentIsProfile ==
    ASSUME TypeOK, loading # <<>>, Head(loading) \in DOMAIN disk
    PROVE  Current \in ProfileFile
  BY ProfileAssumption DEF TypeOK, Current

\* Unshifting an element onto a list.
LEMMA Unshift ==
    ASSUME NEW S, NEW s \in Seq(S), NEW e \in S
    PROVE  /\ <<e>> \o s \in Seq(S) /\ <<e>> \o s # <<>>
           /\ Len(<<e>> \o s) = Len(s) + 1
           /\ \A i \in 1..(Len(s) + 1) : (<<e>> \o s)[i] = IF i = 1 THEN e ELSE s[i - 1]
  <1>1. <<e>> \in Seq(S) /\ Len(<<e>>) = 1 /\ <<e>>[1] = e /\ Len(s) \in Nat
    BY LenProperties
  <1>2. /\ <<e>> \o s \in Seq(S) /\ Len(<<e>> \o s) = 1 + Len(s)
        /\ \A i \in 1..(1 + Len(s)) : (<<e>> \o s)[i] = IF i <= 1 THEN <<e>>[i] ELSE s[i - 1]
    BY <1>1, ConcatProperties
  <1>3. <<e>> \o s # <<>>
    BY <1>1, <1>2, EmptySeq
  <1>4. QED BY <1>1, <1>2, <1>3

\* The names the loops run over are names.
LEMMA ListsAreNames ==
    /\ \A p \in ProfileFile : EnableList(p) \subseteq Name /\ DisableList(p) \subseteq Name
    /\ \A checks : TagNamesForCheck(checks) \subseteq Tag
    /\ \A names : CurrentTags(names) \subseteq Tag
  BY ProfileAssumption DEF EnableList, DisableList, TagNamesForCheck, CurrentTags, ProfileFile

\* Options are what the command line says.
LEMMA SelectedIsCommandLine == ASSUME TypeOK PROVE selected \in CommandLine
  BY ProfileAssumption DEF TypeOK

\* enable_tag keeps the types of the tables it changes.
LEMMA EnableTypes ==
    ASSUME TypeOK, NEW t \in Tag, EnableTag(t)
    PROVE  /\ enabled_checks' \in [DOMAIN enabled_checks' -> Int]
           /\ DOMAIN enabled_checks' \subseteq Check
           /\ enabled_tags' \subseteq Tag /\ durable_tags' \subseteq Name /\ stray' \in BOOLEAN
  BY ProfileAssumption DEF TypeOK, EnableTag, WithEntry, Counter

\* So does disable_tag.
LEMMA DisableTypes ==
    ASSUME TypeOK, NEW t \in Tag, DisableTag(t)
    PROVE  /\ enabled_checks' \in [DOMAIN enabled_checks' -> Int]
           /\ DOMAIN enabled_checks' \subseteq Check
           /\ enabled_tags' \subseteq Tag /\ durable_tags' \subseteq Name /\ stray' \in BOOLEAN
  <1> DEFINE left == Counter(CheckOf[t]) - 1
  <1>1. CheckOf[t] \in Check /\ left \in Int
    BY ProfileAssumption DEF TypeOK, Counter
  <1>2. CASE t \in enabled_tags /\ left # 0
    BY <1>1, <1>2 DEF TypeOK, DisableTag, WithEntry
  <1>3. CASE ~(t \in enabled_tags /\ left # 0)
    BY <1>1, <1>3 DEF TypeOK, DisableTag, WithoutEntry
  <1>4. QED BY <1>2, <1>3

TypeInv == TypeOK /\ StackInv

\* The types hold in every initial state.
LEMMA TypeInit == Init => TypeInv
  <1> SUFFICES ASSUME Init PROVE TypeInv OBVIOUS
  <1>1. selected.profile \in File
    BY ProfileAssumption DEF Init, CommandLine
  <1>2. TypeOK
    <2>1. enabled_checks \in [DOMAIN enabled_checks -> Int] /\ DOMAIN enabled_checks \subseteq Check
      BY DEF Init
    <2>2. loading \in Seq(File) /\ profile_list \in Seq(ProfileName)
      BY <1>1 DEF Init
    <2>3. loop \in [op : {"enable", "disable"}, todo : SUBSET Name]
      BY DEF Init
    <2>4. <<disk, selected>> \in Setups /\ phase \in Phases
      BY ProfileAssumption DEF Init, Phases
    <2>5. section \in Nat \ {0} /\ name \in ProfileName \cup {NoName}
      <3>1. section = 1 /\ name = NoName BY DEF Init
      <3>2. QED BY <3>1
    <2>6. parent_map \subseteq ProfileName /\ enabled_tags \subseteq Tag /\ durable_tags \subseteq Name
      BY DEF Init
    <2>7. stray \in BOOLEAN BY DEF Init
    <2>8. QED BY <2>1, <2>2, <2>3, <2>4, <2>5, <2>6, <2>7 DEF TypeOK
  <1>3. StackInv BY <1>1 DEF Init, StackInv
  <1>4. QED BY <1>2, <1>3 DEF TypeInv

\* A step of a loop keeps the types.
LEMMA TypeLoopStep == ASSUME TypeInv, LoopStep PROVE TypeInv'
  <1>1. PICK n \in loop.todo :
            /\ Known(n)
            /\ IF loop.op = "enable" THEN EnableTag(CurrentName(n))
                                     ELSE DisableTag(CurrentName(n))
            /\ loop' = [op |-> loop.op, todo |-> loop.todo \ {n}]
    BY DEF LoopStep
  <1>2. TypeOK /\ CurrentName(n) \in Tag
    BY <1>1 DEF TypeInv, Known
  <1>3. /\ enabled_checks' \in [DOMAIN enabled_checks' -> Int]
        /\ DOMAIN enabled_checks' \subseteq Check
        /\ enabled_tags' \subseteq Tag /\ durable_tags' \subseteq Name /\ stray' \in BOOLEAN
    BY <1>1, <1>2, EnableTypes, DisableTypes
  <1>4. loop' \in [op : {"enable", "disable"}, todo : SUBSET Name]
    BY <1>1, <1>2 DEF TypeOK
  <1>5. TypeOK'
    BY <1>2, <1>3, <1>4 DEF LoopStep, TypeOK, inputs, reader
  <1>6. StackInv'
    BY DEF TypeInv, StackInv, LoopStep, inputs, reader
  <1>7. QED BY <1>5, <1>6 DEF TypeInv

\* Dying keeps the types.
LEMMA TypeDie == ASSUME TypeInv, Die PROVE TypeInv'
  <1>1. TypeOK' BY DEF TypeInv, Die, TypeOK, Phases, inputs, reader, tables
  <1>2. StackInv'
    BY DEF TypeInv, Die, StackInv, inputs, reader, Reading
  <1>3. QED BY <1>1, <1>2 DEF TypeInv

\* Reading profiles keeps the types.
LEMMA TypeLoad == ASSUME TypeInv, Load PROVE TypeInv'
  <1> USE DEF TypeInv, At, Run
  <1> loop \in [op : {"enable", "disable"}, todo : SUBSET Name] BY DEF TypeOK
  <1>1. CASE CroakFile \/ CroakHeader \/ CroakSection
    BY <1>1, TypeDie DEF CroakFile, CroakHeader, CroakSection
  <1>2. CASE ReadFile
    <2>1. /\ loading \in Seq(File) /\ loading # <<>> /\ Head(loading) \in DOMAIN disk
          /\ Current \in ProfileFile
      BY <1>2, CurrentIsProfile DEF ReadFile, StackInv, Reading, TypeOK
    <2>2. Current.profile \in ProfileName /\ Current.extends \in File \cup {NoFile}
      BY <2>1 DEF ProfileFile
    <2>3. loading' \in Seq(File) /\ loading' # <<>>
      <3>1. CASE Current.extends = NoFile
        BY <1>2, <2>1, <3>1 DEF ReadFile
      <3>2. CASE Current.extends # NoFile
        <4>1. loading' = <<Current.extends>> \o loading /\ Current.extends \in File
          BY <1>2, <2>2, <3>2 DEF ReadFile
        <4>2. QED BY <2>1, <4>1, Unshift
      <3>3. QED BY <3>1, <3>2
    <2>4. TypeOK'
      BY <1>2, <2>2, <2>3 DEF ReadFile, TypeOK, Phases, inputs, tables
    <2>5. \A i \in DOMAIN loading' : (phase' = "read" /\ i = 1) \/ loading'[i] \in DOMAIN disk'
      <3>1. \A i \in 1..Len(loading) : loading[i] \in DOMAIN disk
        BY <1>2, <2>1, LenProperties, HeadTailProperties DEF ReadFile, StackInv, Reading
      <3>2. CASE Current.extends = NoFile
        BY <1>2, <2>1, <3>1, <3>2, LenProperties DEF ReadFile, inputs
      <3>3. CASE Current.extends # NoFile
        <4>1. /\ loading' = <<Current.extends>> \o loading /\ phase' = "read" /\ disk' = disk
              /\ Current.extends \in File
          BY <1>2, <2>2, <3>3 DEF ReadFile, inputs
        <4>2. Len(loading) \in Nat /\ DOMAIN loading' = 1..(Len(loading) + 1)
          BY <2>1, <2>3, <4>1, Unshift, LenProperties
        <4>3. \A i \in 1..(Len(loading) + 1) : i # 1 => loading'[i] = loading[i - 1]
          BY <2>1, <4>1, Unshift
        <4>4. QED BY <3>1, <4>1, <4>2, <4>3
      <3>4. QED BY <3>2, <3>3
    <2>6. QED BY <2>3, <2>4, <2>5 DEF StackInv
  <1>3. CASE ReadHeader \/ DisableAfterEnabling
    <2>1. /\ loading \in Seq(File) /\ loading # <<>> /\ Head(loading) \in DOMAIN disk
      BY <1>3 DEF ReadHeader, DisableAfterEnabling, StackInv, Reading, TypeOK
    <2>2. /\ Current.profile \in ProfileName
          /\ EnableList(Current) \subseteq Name /\ DisableList(Current) \subseteq Name
      BY <2>1, CurrentIsProfile, ListsAreNames DEF ProfileFile
    <2>3. CASE ReadHeader
      <3>1. profile_list' \in Seq(ProfileName)
        BY <2>2, <2>3, Unshift DEF ReadHeader, TypeOK
      <3>2. loop' \in [op : {"enable", "disable"}, todo : SUBSET Name]
        BY <2>2, <2>3 DEF ReadHeader
      <3>3. QED
        BY <2>3, <3>1, <3>2 DEF ReadHeader, TypeOK, StackInv, Phases, Reading, inputs, tables
    <2>4. CASE DisableAfterEnabling
      <3>1. loop' \in [op : {"enable", "disable"}, todo : SUBSET Name]
        BY <2>2, <2>4 DEF DisableAfterEnabling
      <3>2. QED
        BY <2>4, <3>1 DEF DisableAfterEnabling, TypeOK, StackInv, Phases, Reading, inputs, tables
    <2>5. QED BY <1>3, <2>3, <2>4
  <1>4. CASE ReadSection
    <2>1. loading # <<>> /\ Head(loading) \in DOMAIN disk /\ Current \in ProfileFile
      BY <1>4, CurrentIsProfile DEF ReadSection, StackInv, Reading, TypeOK
    <2>2. Current.sections[section] \in Section
      BY <1>4, <2>1, ElementOfSeq, LenProperties DEF ReadSection, TypeOK, ProfileFile
    <2>3. durable_tags' \subseteq Name
      BY <1>4, <2>2 DEF ReadSection, TypeOK, Section
    <2>4. QED
      BY <1>4, <2>3 DEF ReadSection, TypeOK, StackInv, inputs
  <1>5. CASE EndProfile
    <2>1. loading \in Seq(File) /\ loading # <<>>
      BY <1>5 DEF EndProfile, StackInv, Reading, TypeOK
    <2>2. Tail(loading) \in Seq(File) /\ DOMAIN Tail(loading) = 1..(Len(loading) - 1)
      BY <2>1, LenProperties, HeadTailProperties
    <2>3. \A i \in DOMAIN Tail(loading) : Tail(loading)[i] \in DOMAIN disk
      BY <1>5, <2>1, <2>2, LenProperties, HeadTailProperties DEF EndProfile, StackInv, Reading
    <2>4. durable_tags' \subseteq Name
      BY <1>5, ProfileAssumption DEF EndProfile, TypeOK
    <2>5. QED
      BY <1>5, <2>2, <2>3, <2>4 DEF EndProfile, TypeOK, StackInv, Phases, Reading, inputs
  <1>6. QED BY <1>1, <1>2, <1>3, <1>4, <1>5 DEF Load

\* So do the options.
LEMMA TypeOptions == ASSUME TypeInv, Options PROVE TypeInv'
  <1> USE DEF TypeInv, At, Run
  <1>1. selected \in CommandLine BY SelectedIsCommandLine
  <1>2. CASE CroakUnknownCheck
    BY <1>2, TypeDie DEF CroakUnknownCheck
  <1>3. CASE FtpMasterRejects \/ FtpEnable \/ FtpDurable \/ Select \/ SelectEnable
             \/ SuppressTags
    <2>1. loop' \in [op : {"enable", "disable"}, todo : SUBSET Name]
      BY <1>1, <1>3, ProfileAssumption, ListsAreNames
      DEF FtpMasterRejects, FtpEnable, FtpDurable, Select, SelectEnable, SuppressTags,
          PartTags, TypeOK, CommandLine
    <2>2. phase' \in Phases \ Reading
      BY <1>3 DEF FtpMasterRejects, FtpEnable, FtpDurable, Select, SelectEnable,
          SuppressTags, Phases, Reading
    <2>3. durable_tags' \subseteq Name
      BY <1>3, ProfileAssumption, ListsAreNames
      DEF FtpMasterRejects, FtpEnable, FtpDurable, Select, SelectEnable, SuppressTags,
          TypeOK, tables
    <2>4. UNCHANGED <<inputs, reader, enabled_checks, enabled_tags, stray>>
      BY <1>3 DEF FtpMasterRejects, FtpEnable, FtpDurable, Select, SelectEnable,
          SuppressTags, tables
    <2>5. QED BY <2>1, <2>2, <2>3, <2>4 DEF TypeOK, StackInv, inputs, reader
  <1>4. QED BY <1>2, <1>3 DEF Options

\* Every step keeps the types.
LEMMA TypeNext == TypeInv /\ [Next]_vars => TypeInv'
  <1> SUFFICES ASSUME TypeInv, [Next]_vars PROVE TypeInv' OBVIOUS
  <1>1. CASE LoopStep BY <1>1, TypeLoopStep
  <1>2. CASE CroakUnknownTag BY <1>2, TypeDie DEF CroakUnknownTag
  <1>3. CASE Load BY <1>3, TypeLoad
  <1>4. CASE Options BY <1>4, TypeOptions
  <1>5. CASE Terminated \/ UNCHANGED vars
    BY <1>5 DEF Terminated, vars, inputs, reader, tables, TypeInv, TypeOK, StackInv
  <1>6. QED BY <1>1, <1>2, <1>3, <1>4, <1>5 DEF Next

\* TypeOK is an invariant: the tables stay tables of known checks and tags,
\* and the stack of read_profile is never popped empty while one is read.
THEOREM TypesHold == Spec => []TypeOK
  <1>1. TypeInv => TypeOK BY DEF TypeInv
  <1>2. QED BY TypeInit, TypeNext, <1>1, PTL DEF Spec

-----------------------------------------------------------------------------
\* The counters.

\* The enabled tags of a check are finitely many.
LEMMA EnabledTagsFinite ==
    ASSUME TypeOK, NEW c
    PROVE  IsFiniteSet(EnabledTagsOf(c)) /\ Cardinality(EnabledTagsOf(c)) \in Nat
  <1>1. EnabledTagsOf(c) \in SUBSET Tag BY DEF TypeOK, EnabledTagsOf
  <1>2. QED BY <1>1, FS_Subset, FS_CardinalityType, ProfileAssumption

\* A tag that becomes enabled counts for its own check only.
LEMMA CountEnabled ==
    ASSUME TypeOK, NEW t \in Tag, t \notin enabled_tags,
           enabled_tags' = enabled_tags \cup {t}
    PROVE  /\ Cardinality(EnabledTagsOf(CheckOf[t]))' = Cardinality(EnabledTagsOf(CheckOf[t])) + 1
           /\ \A c : c # CheckOf[t] => EnabledTagsOf(c)' = EnabledTagsOf(c)
  <1>1. EnabledTagsOf(CheckOf[t])' = EnabledTagsOf(CheckOf[t]) \cup {t}
        /\ t \notin EnabledTagsOf(CheckOf[t])
    BY DEF EnabledTagsOf
  <1>2. Cardinality(EnabledTagsOf(CheckOf[t]) \cup {t}) = Cardinality(EnabledTagsOf(CheckOf[t])) + 1
    BY <1>1, EnabledTagsFinite, FS_AddElement
  <1>3. \A c : c # CheckOf[t] => EnabledTagsOf(c)' = EnabledTagsOf(c)
    BY DEF EnabledTagsOf
  <1>4. QED BY <1>1, <1>2, <1>3

\* So does a tag that is no longer enabled.
LEMMA CountDisabled ==
    ASSUME TypeOK, NEW t \in enabled_tags, enabled_tags' = enabled_tags \ {t}
    PROVE  /\ Cardinality(EnabledTagsOf(CheckOf[t]))' = Cardinality(EnabledTagsOf(CheckOf[t])) - 1
           /\ \A c : c # CheckOf[t] => EnabledTagsOf(c)' = EnabledTagsOf(c)
           /\ (EnabledTagsOf(CheckOf[t]) # {})
  <1>1. EnabledTagsOf(CheckOf[t])' = EnabledTagsOf(CheckOf[t]) \ {t}
        /\ t \in EnabledTagsOf(CheckOf[t])
    BY DEF EnabledTagsOf
  <1>2. Cardinality(EnabledTagsOf(CheckOf[t]) \ {t}) = Cardinality(EnabledTagsOf(CheckOf[t])) - 1
    BY <1>1, EnabledTagsFinite, FS_RemoveElement
  <1>3. \A c : c # CheckOf[t] => EnabledTagsOf(c)' = EnabledTagsOf(c)
    BY DEF EnabledTagsOf
  <1>4. QED BY <1>1, <1>2, <1>3

\* What the counters of the checks guarantee, with the domain of the table
\* stated check by check.
Exact ==
    \A c \in Check : /\ c \in DOMAIN enabled_checks <=> EnabledTagsOf(c) # {}
                     /\ Counter(c) = Cardinality(EnabledTagsOf(c))
CountInv == CountAtMostEnabled /\ (~stray => Exact)

\* enable_tag keeps them.
LEMMA CountEnableTag ==
    ASSUME TypeOK, CountInv, NEW t \in Tag, EnableTag(t)
    PROVE  CountInv'
  <1> DEFINE k == CheckOf[t]
  <1>0. k \in Check /\ stray' = stray /\ DOMAIN enabled_checks \subseteq Check
    BY ProfileAssumption DEF EnableTag, TypeOK
  <1>1. CASE t \in enabled_tags
    <2>1. enabled_tags' = enabled_tags /\ enabled_checks' = enabled_checks
      BY <1>1 DEF EnableTag
    <2>2. QED
      BY <1>0, <2>1 DEF CountInv, CountAtMostEnabled, Exact, Counter, EnabledTagsOf
  <1>2. CASE t \notin enabled_tags
    <2>1. enabled_tags' = enabled_tags \cup {t} /\ enabled_checks' = WithEntry(k, Counter(k) + 1)
      BY <1>2 DEF EnableTag
    <2>2. /\ Cardinality(EnabledTagsOf(k))' = Cardinality(EnabledTagsOf(k)) + 1
          /\ \A c : c # k => EnabledTagsOf(c)' = EnabledTagsOf(c)
      BY <1>2, <2>1, CountEnabled
    <2>3. /\ DOMAIN enabled_checks' = DOMAIN enabled_checks \cup {k}
          /\ enabled_checks'[k] = Counter(k) + 1
          /\ \A c \in DOMAIN enabled_checks : c # k => enabled_checks'[c] = enabled_checks[c]
      BY <2>1 DEF WithEntry
    <2>4. Counter(k) \in Int /\ Cardinality(EnabledTagsOf(k)) \in Nat
      BY EnabledTagsFinite DEF TypeOK, Counter
    <2>5. Counter(k) <= Cardinality(EnabledTagsOf(k))
      BY <2>4 DEF CountInv, CountAtMostEnabled, Counter
    <2>6. CountAtMostEnabled'
      <3>1. SUFFICES ASSUME NEW c \in DOMAIN enabled_checks'
                     PROVE  enabled_checks'[c] <= Cardinality(EnabledTagsOf(c))'
        BY DEF CountAtMostEnabled
      <3>2. CASE c = k BY <2>2, <2>3, <2>4, <2>5, <3>2
      <3>3. CASE c # k BY <2>2, <2>3, <3>3 DEF CountInv, CountAtMostEnabled
      <3>4. QED BY <3>2, <3>3
    <2>7. ASSUME Exact PROVE Exact'
      <3>1. t \in EnabledTagsOf(k)' BY <2>1 DEF EnabledTagsOf
      <3>2. SUFFICES ASSUME NEW c \in Check
                     PROVE  /\ c \in DOMAIN enabled_checks' <=> EnabledTagsOf(c)' # {}
                            /\ Counter(c)' = Cardinality(EnabledTagsOf(c))'
        BY DEF Exact
      <3>3. CASE c = k
        BY <1>0, <2>2, <2>3, <2>7, <3>1, <3>3 DEF Exact, Counter
      <3>4. CASE c # k
        BY <2>2, <2>3, <2>7, <3>4 DEF Exact, Counter
      <3>5. QED BY <3>3, <3>4
    <2>8. QED BY <1>0, <2>6, <2>7 DEF CountInv
  <1>3. QED BY <1>1, <1>2

\* disable_tag keeps them: for a tag that was not enabled the entry goes, and
\* the history says so.
LEMMA CountDisableTag ==
    ASSUME TypeOK, CountInv, NEW t \in Tag, DisableTag(t)
    PROVE  CountInv'
  <1> DEFINE k == CheckOf[t]
             left == Counter(k) - 1
  <1>0. k \in Check /\ DOMAIN enabled_checks \subseteq Check
        /\ Counter(k) \in Int /\ Cardinality(EnabledTagsOf(k)) \in Nat
    BY ProfileAssumption, EnabledTagsFinite DEF TypeOK, Counter
  <1>1. CASE t \notin enabled_tags
    <2>1. enabled_tags' = enabled_tags /\ stray' /\ enabled_checks' = WithoutEntry(k)
      BY <1>1 DEF DisableTag
    <2>2. /\ DOMAIN enabled_checks' = DOMAIN enabled_checks \ {k}
          /\ \A c \in DOMAIN enabled_checks' : enabled_checks'[c] = enabled_checks[c]
      BY <2>1 DEF WithoutEntry
    <2>3. CountAtMostEnabled'
      BY <2>1, <2>2 DEF CountInv, CountAtMostEnabled, EnabledTagsOf
    <2>4. QED BY <2>1, <2>3 DEF CountInv
  <1>2. CASE t \in enabled_tags
    <2>1. enabled_tags' = enabled_tags \ {t} /\ (~stray' => ~stray)
      BY <1>2 DEF DisableTag
    <2>2. /\ Cardinality(EnabledTagsOf(k))' = Cardinality(EnabledTagsOf(k)) - 1
          /\ \A c : c # k => EnabledTagsOf(c)' = EnabledTagsOf(c)
          /\ EnabledTagsOf(k) # {}
      BY <1>2, <2>1, CountDisabled
    <2>3. \/ left # 0 /\ enabled_checks' = WithEntry(k, left)
          \/ left = 0 /\ enabled_checks' = WithoutEntry(k)
      BY <1>2 DEF DisableTag
    <2>4. /\ \A c \in Check : c # k => (c \in DOMAIN enabled_checks' <=> c \in DOMAIN enabled_checks)
          /\ \A c \in DOMAIN enabled_checks' : c # k => enabled_checks'[c] = enabled_checks[c]
          /\ k \in DOMAIN enabled_checks' <=> left # 0
          /\ k \in DOMAIN enabled_checks' => enabled_checks'[k] = left
          /\ DOMAIN enabled_checks' \subseteq Check
      BY <1>0, <2>3 DEF WithEntry, WithoutEntry
    <2>5. Counter(k) <= Cardinality(EnabledTagsOf(k))
      BY <1>0 DEF CountInv, CountAtMostEnabled, Counter
    <2>6. CountAtMostEnabled'
      <3>1. SUFFICES ASSUME NEW c \in DOMAIN enabled_checks'
                     PROVE  enabled_checks'[c] <= Cardinality(EnabledTagsOf(c))'
        BY DEF CountAtMostEnabled
      <3>2. CASE c = k BY <1>0, <2>2, <2>4, <2>5, <3>2
      <3>3. CASE c # k
        BY <2>2, <2>4, <3>3 DEF CountInv, CountAtMostEnabled
      <3>4. QED BY <3>2, <3>3
    <2>7. ASSUME Exact PROVE Exact'
      <3>1. Counter(k) = Cardinality(EnabledTagsOf(k)) BY <1>0, <2>7 DEF Exact
      <3>2. IsFiniteSet(EnabledTagsOf(k)') /\ Cardinality(EnabledTagsOf(k)') = left
        <4>1. EnabledTagsOf(k)' \subseteq EnabledTagsOf(k) BY <2>1 DEF EnabledTagsOf
        <4>2. QED BY <2>2, <3>1, <4>1, EnabledTagsFinite, FS_Subset
      <3>3. left # 0 <=> EnabledTagsOf(k)' # {}
        BY <3>2, FS_EmptySet
      <3>4. SUFFICES ASSUME NEW c \in Check
                     PROVE  /\ c \in DOMAIN enabled_checks' <=> EnabledTagsOf(c)' # {}
                            /\ Counter(c)' = Cardinality(EnabledTagsOf(c))'
        BY DEF Exact
      <3>5. CASE c = k
        BY <2>4, <3>2, <3>3, <3>5 DEF Counter
      <3>6. CASE c # k
        BY <2>2, <2>4, <2>7, <3>6 DEF Exact, Counter
      <3>7. QED BY <3>5, <3>6
    <2>8. QED BY <2>1, <2>6, <2>7 DEF CountInv
  <1>3. QED BY <1>1, <1>2

\* Every step keeps them: only the loops touch the tables.
LEMMA CountNext == TypeInv /\ CountInv /\ [Next]_vars => CountInv'
  <1> SUFFICES ASSUME TypeInv, CountInv, [Next]_vars PROVE CountInv' OBVIOUS
  <1>1. CASE LoopStep
    <2>1. PICK n \in loop.todo :
            Known(n) /\ (EnableTag(CurrentName(n)) \/ DisableTag(CurrentName(n)))
      BY <1>1 DEF LoopStep
    <2>2. QED BY <2>1, CountEnableTag, CountDisableTag DEF TypeInv, Known
  <1>2. CASE UNCHANGED <<enabled_checks, enabled_tags, stray>>
    BY <1>2 DEF CountInv, CountAtMostEnabled, Exact, Counter, EnabledTagsOf
  <1>3. CASE Next /\ ~LoopStep
    BY <1>2, <1>3 DEF Next, Load, Options, CroakUnknownTag, ReadFile, CroakFile, ReadHeader,
       CroakHeader, DisableAfterEnabling, ReadSection, CroakSection, EndProfile,
       FtpMasterRejects, FtpEnable, FtpDurable, Select, SelectEnable, CroakUnknownCheck,
       SuppressTags, Terminated, Die, vars, tables
  <1>4. QED BY <1>1, <1>2, <1>3 DEF vars, tables

\* In the words of the property.
LEMMA CountInvImplies == ASSUME TypeOK, CountInv PROVE CountAtMostEnabled /\ CountsExactUnlessStray
  <1>1. ASSUME ~stray PROVE DOMAIN enabled_checks = {CheckOf[t] : t \in enabled_tags}
    <2>1. Exact BY <1>1 DEF CountInv
    <2>2. \A t \in enabled_tags : CheckOf[t] \in Check /\ t \in EnabledTagsOf(CheckOf[t])
      BY ProfileAssumption DEF TypeOK, EnabledTagsOf
    <2>3. \A c \in DOMAIN enabled_checks : c \in Check /\ EnabledTagsOf(c) # {}
      BY <2>1 DEF TypeOK, Exact
    <2>4. QED BY <2>1, <2>2, <2>3 DEF Exact, EnabledTagsOf
  <1>2. ASSUME ~stray, NEW c \in DOMAIN enabled_checks
        PROVE  enabled_checks[c] = Cardinality(EnabledTagsOf(c))
    BY <1>2 DEF CountInv, Exact, Counter, TypeOK
  <1>3. QED BY <1>1, <1>2 DEF CountInv, CountsExactUnlessStray

\* No history of enable_tag and disable_tag overcounts, and without a stray
\* disable_tag the entries are exactly the checks with enabled tags.
THEOREM CountersHold == Spec => []CountersTellTheTags
  <1>1. Init => CountInv
    <2> SUFFICES ASSUME Init PROVE CountInv OBVIOUS
    <2>1. /\ enabled_checks = [c \in {} |-> 0] /\ enabled_tags = {}
      BY DEF Init
    <2>2. \A c : EnabledTagsOf(c) = {} BY <2>1 DEF EnabledTagsOf
    <2>3. \A c : Counter(c) = 0 /\ c \notin DOMAIN enabled_checks BY <2>1 DEF Counter
    <2>4. QED BY <2>2, <2>3, FS_EmptySet DEF CountInv, CountAtMostEnabled, Exact
  <1>2. TypeInv /\ CountInv => CountersTellTheTags
    BY CountInvImplies DEF TypeInv, CountersTellTheTags
  <1>3. QED BY TypeInit, TypeNext, CountNext, <1>1, <1>2, PTL DEF Spec

-----------------------------------------------------------------------------
\* Options that list what to run.

Covered(tags) == \A t \in tags : CheckOf[t] \in DOMAIN enabled_checks
Excluded == TagNamesForCheck(selected.dont_check_part)
Selecting == Listing \/ selected.ftp_master_rejects
NothingSuppressed == selected.tags # {} \/ selected.suppress_tags = {}

\* While everything is being disabled the entries mean nothing, but no enabled
\* tag escapes the loop; from then on every enable_tag leaves an entry, and
\* --dont-check-part takes a check away only with all of its tags.
SelectInv ==
    /\ phase = "ftp_enable" =>
          loop.op = "disable" /\ loop.todo \subseteq Tag /\ enabled_tags \subseteq loop.todo
    /\ phase = "ftp_durable" => loop.op = "enable" /\ Covered(enabled_tags)
    /\ phase = "select" /\ selected.ftp_master_rejects =>
          loop.todo = {} /\ Covered(enabled_tags)
    /\ phase = "select_enable" =>
          /\ Listing /\ loop.op = "disable"
          /\ loop.todo \subseteq Tag /\ enabled_tags \subseteq loop.todo
    /\ phase = "suppress" /\ Listing => loop.op = "enable" /\ Covered(enabled_tags)
    /\ phase = "suppress" /\ ~Listing /\ selected.ftp_master_rejects =>
          /\ loop.op = "disable" /\ loop.todo \subseteq Excluded
          /\ enabled_tags \cap Excluded \subseteq loop.todo
          /\ Covered(enabled_tags \ Excluded)
    /\ phase = "ready" /\ Selecting /\ NothingSuppressed =>
          loop.todo = {} /\ Covered(enabled_tags)

\* A tag goes under its own name.
LEMMA TagsAreCurrent == \A t \in Tag : CurrentName(t) = t
  BY ProfileAssumption DEF CurrentName

\* enable_tag leaves an entry for the tag's check and takes none away.
LEMMA EnableCovers ==
    ASSUME TypeOK, NEW t \in Tag, EnableTag(t), Covered(enabled_tags)
    PROVE  Covered(enabled_tags)'
  BY DEF EnableTag, Covered, WithEntry

\* disable_tag touches the entry of the tag's check only.
LEMMA DisableKeepsOthers ==
    ASSUME TypeOK, NEW t \in Tag, DisableTag(t)
    PROVE  \A c \in DOMAIN enabled_checks : c # CheckOf[t] => c \in DOMAIN enabled_checks'
  BY DEF DisableTag, WithEntry, WithoutEntry

\* A step of a loop.
LEMMA SelectLoopStep == ASSUME TypeOK, SelectInv, LoopStep PROVE SelectInv'
  <1>1. PICK n \in loop.todo :
            /\ Known(n)
            /\ IF loop.op = "enable" THEN EnableTag(CurrentName(n))
                                     ELSE DisableTag(CurrentName(n))
            /\ loop' = [op |-> loop.op, todo |-> loop.todo \ {n}]
    BY DEF LoopStep
  <1>2. /\ UNCHANGED <<selected, phase>> /\ CurrentName(n) \in Tag
        /\ loop'.op = loop.op /\ loop'.todo = loop.todo \ {n}
    BY <1>1 DEF LoopStep, inputs, Known
  <1>3. CASE phase \in {"ftp_enable", "select_enable"}
    <2>1. n \in Tag /\ CurrentName(n) = n /\ loop.op = "disable"
          /\ enabled_tags \subseteq loop.todo /\ loop.todo \subseteq Tag
      BY <1>3, TagsAreCurrent DEF SelectInv
    <2>2. enabled_tags' = enabled_tags \ {n}
      BY <1>1, <2>1 DEF DisableTag
    <2>3. QED
      BY <1>2, <1>3, <2>1, <2>2 DEF SelectInv, Listing
  <1>4. CASE phase = "ftp_durable" \/ (phase = "suppress" /\ Listing)
    <2>1. loop.op = "enable" /\ Covered(enabled_tags) BY <1>4 DEF SelectInv
    <2>2. Covered(enabled_tags)' BY <1>1, <1>2, <2>1, EnableCovers
    <2>3. QED BY <1>2, <1>4, <2>1, <2>2 DEF SelectInv, Listing
  <1>5. CASE phase = "suppress" /\ ~Listing /\ selected.ftp_master_rejects
    <2>1. /\ loop.op = "disable" /\ loop.todo \subseteq Excluded
          /\ enabled_tags \cap Excluded \subseteq loop.todo
          /\ Covered(enabled_tags \ Excluded)
      BY <1>5 DEF SelectInv
    <2>2. n \in Tag /\ CurrentName(n) = n /\ CheckOf[n] \in selected.dont_check_part
      BY <2>1, TagsAreCurrent DEF Excluded, TagNamesForCheck
    <2>3. DisableTag(n) /\ enabled_tags' = enabled_tags \ {n}
      BY <1>1, <2>1, <2>2 DEF DisableTag
    <2>4. Covered(enabled_tags \ Excluded)'
      BY <1>2, <2>1, <2>2, <2>3, DisableKeepsOthers DEF Covered, Excluded, TagNamesForCheck, TypeOK
    <2>5. QED BY <1>2, <1>5, <2>1, <2>3, <2>4 DEF SelectInv, Listing, Excluded
  <1>6. CASE phase \notin {"ftp_enable", "ftp_durable", "select_enable", "suppress"}
    BY <1>1, <1>2, <1>6 DEF SelectInv, Listing, Selecting, NothingSuppressed
  <1>7. CASE phase = "suppress" /\ ~Listing /\ ~selected.ftp_master_rejects
    <2>1. selected' = selected /\ phase' = "suppress" BY <1>2, <1>7
    <2>2. ~Listing' BY <2>1, <1>7 DEF Listing
    <2>3. ~selected'.ftp_master_rejects BY <2>1, <1>7
    <2>4. QED BY <2>1, <2>2, <2>3 DEF SelectInv
  <1>8. QED BY <1>3, <1>4, <1>5, <1>6, <1>7

\* The code between the loops.
LEMMA SelectOptions == ASSUME TypeOK, SelectInv, Options PROVE SelectInv'
  <1> USE DEF At, Run
  <1>0. UNCHANGED <<selected, enabled_checks, enabled_tags>>
    BY DEF Options, FtpMasterRejects, FtpEnable, FtpDurable, Select, SelectEnable,
       CroakUnknownCheck, SuppressTags, Die, inputs, tables
  <1>1. CASE FtpMasterRejects
    BY <1>0, <1>1 DEF FtpMasterRejects, SelectInv, TypeOK
  <1>2. CASE FtpEnable
    BY <1>0, <1>2 DEF FtpEnable, SelectInv, Covered
  <1>3. CASE FtpDurable
    BY <1>0, <1>3 DEF FtpDurable, SelectInv, Covered
  <1>4. CASE Select
    BY <1>0, <1>4 DEF Select, SelectInv, Covered, TypeOK, Excluded, Listing
  <1>5. CASE SelectEnable
    BY <1>0, <1>5 DEF SelectEnable, SelectInv, Covered, Listing
  <1>6. CASE CroakUnknownCheck
    BY <1>0, <1>6 DEF CroakUnknownCheck, Die, SelectInv
  <1>7. CASE SuppressTags
    BY <1>0, <1>7 DEF SuppressTags, SelectInv, Covered, Listing, Selecting, NothingSuppressed
  <1>8. QED BY <1>1, <1>2, <1>3, <1>4, <1>5, <1>6, <1>7 DEF Options

\* Every step.
LEMMA SelectNext == TypeInv /\ SelectInv /\ [Next]_vars => SelectInv'
  <1> SUFFICES ASSUME TypeInv, SelectInv, [Next]_vars PROVE SelectInv' OBVIOUS
  <1>1. CASE LoopStep BY <1>1, SelectLoopStep DEF TypeInv
  <1>2. CASE Options BY <1>2, SelectOptions DEF TypeInv
  <1>3. CASE Load
    BY <1>3 DEF Load, ReadFile, CroakFile, ReadHeader, CroakHeader, DisableAfterEnabling,
       ReadSection, CroakSection, EndProfile, Die, At, Run, SelectInv
  <1>4. CASE CroakUnknownTag
    BY <1>4 DEF CroakUnknownTag, Die, SelectInv
  <1>5. CASE Terminated \/ UNCHANGED vars
    BY <1>5 DEF Terminated, vars, inputs, tables, SelectInv, Covered, Excluded, Listing,
       Selecting, NothingSuppressed
  <1>6. QED BY <1>1, <1>2, <1>3, <1>4, <1>5 DEF Next

\* With --tags, --check-part or --ftp-master-rejects the checks of all enabled
\* tags run, whatever the profiles did to the counters.
THEOREM SelectionHolds == Spec => []SelectionRunsItsChecks
  <1>1. Init => SelectInv BY DEF Init, SelectInv
  <1>2. SelectInv => SelectionRunsItsChecks
    BY DEF SelectInv, SelectionRunsItsChecks, Loaded, At, Selecting, NothingSuppressed, Covered
  <1>3. QED BY TypeInit, TypeNext, SelectNext, <1>1, <1>2, PTL DEF Spec

-----------------------------------------------------------------------------
\* What may be overridden.

\* After the two lists are applied nothing touches the durable tags any more.
Decided == \A t \in CurrentTags(Certain \cup Preventable) :
              IsDurable(t) <=> t \in ShowAlways \/ t \notin CurrentTags(Preventable)
DecidedInv ==
    phase \in {"select", "select_enable", "suppress", "ready"} /\ selected.ftp_master_rejects
    => Decided

LEMMA JoinedLists == CurrentTags(Certain \cup Preventable) = CurrentTags(Certain) \cup CurrentTags(Preventable)
  BY DEF CurrentTags

LEMMA DecidedNext == DecidedInv /\ [Next]_vars => DecidedInv'
  <1> SUFFICES ASSUME DecidedInv, [Next]_vars,
                      phase' \in {"select", "select_enable", "suppress", "ready"},
                      selected'.ftp_master_rejects
               PROVE  Decided'
    BY DEF DecidedInv
  <1>1. UNCHANGED selected
    BY DEF Next, LoopStep, CroakUnknownTag, Load, ReadFile, CroakFile, ReadHeader, CroakHeader,
       DisableAfterEnabling, ReadSection, CroakSection, EndProfile, Options, FtpMasterRejects,
       FtpEnable, FtpDurable, Select, SelectEnable, CroakUnknownCheck, SuppressTags, Terminated,
       Die, inputs, vars
  <1>2. CASE FtpDurable
    <2>1. durable_tags' = (durable_tags \cup CurrentTags(Certain)) \ (CurrentTags(Preventable) \ ShowAlways)
      BY <1>2 DEF FtpDurable
    <2>2. QED BY <2>1, JoinedLists DEF Decided, IsDurable
  <1>3. CASE ~FtpDurable
    <2>1. /\ UNCHANGED durable_tags
          /\ phase \in {"select", "select_enable", "suppress", "ready"}
      <3>1. CASE LoopStep
        BY <3>1 DEF LoopStep, EnableTag, DisableTag
      <3>2. CASE Load
        BY <3>2 DEF Load, ReadFile, CroakFile, ReadHeader, CroakHeader, DisableAfterEnabling,
           ReadSection, CroakSection, EndProfile, Die, At, Run
      <3>3. CASE Options
        BY <1>1, <1>3, <3>3 DEF Options, FtpMasterRejects, FtpEnable, Select, SelectEnable,
           CroakUnknownCheck, SuppressTags, Die, At, Run, tables
      <3>4. CASE CroakUnknownTag
        BY <3>4 DEF CroakUnknownTag, Die
      <3>5. CASE Terminated \/ UNCHANGED vars
        BY <3>5 DEF Terminated, vars, tables
      <3>6. QED BY <3>1, <3>2, <3>3, <3>4, <3>5 DEF Next
    <2>2. Decided
      BY <1>1, <2>1 DEF DecidedInv
    <2>3. QED BY <2>1, <2>2 DEF Decided, IsDurable
  <1>4. QED BY <1>2, <1>3

\* After --ftp-master-rejects its two lists and Show-Always alone decide which
\* of their tags may be overridden, whatever the profiles said.
THEOREM OverridesDecided == Spec => []AutoRejectDecidesOverrides
  <1>1. Init => DecidedInv BY DEF Init, DecidedInv
  <1>2. DecidedInv => AutoRejectDecidesOverrides
    BY DEF DecidedInv, Decided, AutoRejectDecidesOverrides, Loaded, At
  <1>3. QED BY DecidedNext, <1>1, <1>2, PTL DEF Spec

-----------------------------------------------------------------------------
\* The refinement of TagSelection.

\* The profile on the stack at i, those that were opened, and whether its name
\* is not yet in the list.
NameAt(i) == disk[loading[i]].profile
Opened == {i \in DOMAIN loading : phase = "read" => i # 1}
Unlisted(i) == \A k \in DOMAIN profile_list : profile_list[k] # NameAt(i)

\* The stack is the part of the Extends chain from the profile asked for that
\* was not applied; all names on it differ, and those in the list differ from
\* them: the next profile applied extends the last one.
ChainInv ==
    /\ phase = "read" => profile_list = <<>>
    /\ phase \in Reading =>
         /\ loading[Len(loading)] = selected.profile
         /\ \A i \in DOMAIN loading : i # 1 => disk[loading[i]].extends = loading[i - 1]
         /\ \A i \in Opened : NameAt(i) \in parent_map
         /\ \A i, j \in Opened : NameAt(i) = NameAt(j) => i = j
    /\ phase = "header" => Selection!IsNext(loading[1]) /\ \A i \in DOMAIN loading : Unlisted(i)
    /\ phase \in {"disable", "sections"} =>
         /\ profile_list # <<>> /\ Head(profile_list) = NameAt(1)
         /\ \A i \in DOMAIN loading : i # 1 => Unlisted(i)
    /\ phase = "loaded" =>
         profile_list # <<>> /\ Head(profile_list) = disk[selected.profile].profile

LEMMA ChainInit == Init => ChainInv
  <1> SUFFICES ASSUME Init PROVE ChainInv OBVIOUS
  <1>1. /\ phase = "read" /\ profile_list = <<>> /\ loading = <<selected.profile>>
        /\ DOMAIN loading = {1} /\ Len(loading) = 1
    BY DEF Init
  <1>2. Opened = {}
    BY <1>1 DEF Opened
  <1>3. QED BY <1>1, <1>2 DEF ChainInv

\* What is known of the stack while a profile is read.
LEMMA StackTop ==
    ASSUME TypeInv, phase \in Reading
    PROVE  /\ loading \in Seq(File) /\ loading # <<>> /\ Len(loading) \in Nat /\ Len(loading) > 0
           /\ DOMAIN loading = 1..Len(loading) /\ Head(loading) = loading[1]
           /\ Current = disk[loading[1]]
  <1>1. loading \in Seq(File) /\ loading # <<>>
    BY DEF TypeInv, TypeOK, StackInv
  <1>2. QED BY <1>1, LenProperties, EmptySeq DEF Current

LEMMA ChainReadFile == ASSUME TypeInv, ChainInv, ReadFile PROVE ChainInv'
  <1> DEFINE n == Len(loading)
  <1>1. phase = "read" /\ phase \in Reading /\ Current.profile \notin parent_map
    BY DEF ReadFile, At, Reading
  <1>2. /\ loading \in Seq(File) /\ loading # <<>> /\ n \in Nat /\ n > 0
        /\ DOMAIN loading = 1..n /\ Current = disk[loading[1]]
    BY <1>1, StackTop
  <1>3. /\ profile_list = <<>> /\ loading[n] = selected.profile
        /\ \A i \in 1..n : i # 1 => disk[loading[i]].extends = loading[i - 1]
        /\ Opened = 2..n
        /\ \A i \in 2..n : NameAt(i) \in parent_map
        /\ \A i, j \in 2..n : NameAt(i) = NameAt(j) => i = j
    BY <1>1, <1>2 DEF ChainInv, Opened
  <1>4. /\ UNCHANGED <<disk, selected, profile_list>>
        /\ parent_map' = parent_map \cup {Current.profile}
    BY DEF ReadFile, inputs
  <1>5. /\ \A i \in 1..n : NameAt(i) \in parent_map'
        /\ \A i, j \in 1..n : NameAt(i) = NameAt(j) => i = j
    <2>1. NameAt(1) = Current.profile
      BY <1>2 DEF NameAt
    <2>2. \A i \in 1..n : i = 1 \/ i \in 2..n
      BY <1>2
    <2>3. QED BY <1>1, <1>3, <1>4, <2>1, <2>2
  <1>6. CASE Current.extends = NoFile
    <2>1. phase' = "header" /\ UNCHANGED loading
      BY <1>6 DEF ReadFile
    <2>2. Opened' = 1..n /\ \A i \in 1..n : NameAt(i)' = NameAt(i)
      BY <1>2, <1>4, <2>1 DEF Opened, NameAt
    <2>3. (Selection!IsNext(loading[1]))'
      BY <1>2, <1>3, <1>4, <1>6, <2>1 DEF Selection!IsNext
    <2>4. \A i \in DOMAIN loading' : Unlisted(i)'
      BY <1>3, <1>4 DEF Unlisted
    <2>5. QED BY <1>2, <1>3, <1>4, <1>5, <2>1, <2>2, <2>3, <2>4 DEF ChainInv
  <1>7. CASE Current.extends # NoFile
    <2>1. phase' = "read" /\ loading' = <<Current.extends>> \o loading
      BY <1>7 DEF ReadFile, At, Run
    <2>2. Current.extends \in File
      BY <1>2, <1>7, CurrentIsProfile DEF ReadFile, TypeInv, ProfileFile
    <2>3. /\ Len(loading') = n + 1 /\ DOMAIN loading' = 1..n + 1
          /\ loading'[1] = Current.extends
          /\ \A i \in 2..n + 1 : loading'[i] = loading[i - 1]
      <3>1. /\ loading' \in Seq(File) /\ Len(loading') = n + 1
            /\ \A i \in 1..n + 1 : loading'[i] = IF i = 1 THEN Current.extends ELSE loading[i - 1]
        BY <1>2, <2>1, <2>2, Unshift
      <3>2. QED BY <1>2, <3>1, LenProperties
    <2>4. Opened' = 2..n + 1
      BY <1>2, <2>1, <2>3 DEF Opened
    <2>5. \A i \in 2..n + 1 : i - 1 \in 1..n /\ NameAt(i)' = NameAt(i - 1)
      BY <1>2, <1>4, <2>3 DEF NameAt
    <2>6. \A i \in Opened' : NameAt(i)' \in parent_map'
      BY <1>5, <2>4, <2>5
    <2>7. \A i, j \in Opened' : NameAt(i)' = NameAt(j)' => i = j
      <3>1. SUFFICES ASSUME NEW i \in 2..n + 1, NEW j \in 2..n + 1, NameAt(i)' = NameAt(j)'
                     PROVE  i = j
        BY <2>4
      <3>2. i - 1 = j - 1
        BY <1>5, <2>5, <3>1
      <3>3. QED BY <1>2, <3>2
    <2>8. \A i \in DOMAIN loading' : i # 1 => disk'[loading'[i]].extends = loading'[i - 1]
      <3>1. SUFFICES ASSUME NEW i \in 2..n + 1
                     PROVE  disk[loading[i - 1]].extends = loading'[i - 1]
        BY <1>2, <1>4, <2>3
      <3>2. CASE i = 2
        BY <1>2, <2>3, <3>2
      <3>3. CASE i # 2
        <4>1. i - 1 \in 2..n /\ i - 1 \in 2..n + 1 /\ i - 1 # 1 /\ i - 1 \in 1..n
          BY <1>2, <3>3
        <4>2. QED BY <1>3, <2>3, <4>1
      <3>4. QED BY <3>2, <3>3
    <2>9. loading'[n + 1] = selected'.profile
      BY <1>2, <1>3, <1>4, <2>3
    <2>10. profile_list' = <<>>
      BY <1>3, <1>4
    <2>11. QED BY <2>1, <2>3, <2>6, <2>7, <2>8, <2>9, <2>10 DEF ChainInv
  <1>8. QED BY <1>6, <1>7

\* The list of a profile that is applied.
LEMMA ChainReadHeader == ASSUME TypeInv, ChainInv, ReadHeader PROVE ChainInv'
  <1> DEFINE n == Len(loading)
             p == Len(profile_list)
  <1>1. phase = "header" /\ phase \in Reading /\ phase' = "disable"
    BY DEF ReadHeader, At, Run, Reading
  <1>2. /\ loading \in Seq(File) /\ n \in Nat /\ n > 0 /\ DOMAIN loading = 1..n
        /\ loading # <<>> /\ Head(loading) \in DOMAIN disk /\ Current = disk[loading[1]]
    BY <1>1, StackTop DEF TypeInv, StackInv
  <1>3. /\ UNCHANGED <<disk, selected, loading, parent_map>>
        /\ profile_list' = <<Current.profile>> \o profile_list
    BY DEF ReadHeader, inputs
  <1>4. /\ profile_list \in Seq(ProfileName) /\ Current.profile \in ProfileName
        /\ p \in Nat /\ DOMAIN profile_list = 1..p
    BY <1>2, CurrentIsProfile, LenProperties DEF TypeInv, TypeOK, ProfileFile
  <1>5. /\ profile_list' \in Seq(ProfileName) /\ profile_list' # <<>>
        /\ DOMAIN profile_list' = 1..p + 1 /\ Head(profile_list') = Current.profile
        /\ \A k \in 1..p + 1 : profile_list'[k] = IF k = 1 THEN Current.profile ELSE profile_list[k - 1]
    <2>1. /\ profile_list' \in Seq(ProfileName) /\ profile_list' # <<>> /\ Len(profile_list') = p + 1
          /\ \A k \in 1..p + 1 : profile_list'[k] = IF k = 1 THEN Current.profile ELSE profile_list[k - 1]
      BY <1>3, <1>4, Unshift
    <2>2. Head(profile_list') = profile_list'[1] /\ DOMAIN profile_list' = 1..p + 1
      BY <2>1, LenProperties
    <2>3. QED BY <1>4, <2>1, <2>2
  <1>6. /\ Opened = 1..n
        /\ \A i, j \in 1..n : NameAt(i) = NameAt(j) => i = j
        /\ \A i \in 1..n : NameAt(i) \in parent_map
        /\ \A i \in 1..n : Unlisted(i)
        /\ loading[n] = selected.profile
        /\ \A i \in 1..n : i # 1 => disk[loading[i]].extends = loading[i - 1]
    BY <1>1, <1>2 DEF ChainInv, Opened
  <1>7. \A i : NameAt(i)' = NameAt(i)
    BY <1>3 DEF NameAt
  <1>8. Opened' = 1..n
    BY <1>1, <1>2, <1>3 DEF Opened
  <1>9. ASSUME NEW i \in 1..n, i # 1, NEW k \in 1..p + 1 PROVE profile_list'[k] # NameAt(i)
    <2>1. CASE k = 1
      <3>1. NameAt(1) = Current.profile /\ 1 \in 1..n
        BY <1>2 DEF NameAt
      <3>2. QED BY <1>5, <1>6, <1>9, <2>1, <3>1
    <2>2. CASE k # 1
      <3>1. k - 1 \in 1..p
        BY <1>4, <2>2
      <3>2. profile_list'[k] = profile_list[k - 1]
        BY <1>5, <2>2
      <3>3. QED BY <1>4, <1>6, <3>1, <3>2 DEF Unlisted
    <2>3. QED BY <2>1, <2>2
  <1>10. \A i \in DOMAIN loading' : i # 1 => Unlisted(i)'
    BY <1>2, <1>3, <1>5, <1>7, <1>9 DEF Unlisted
  <1>11. Head(profile_list') = NameAt(1)'
    BY <1>2, <1>5, <1>7 DEF NameAt
  <1>12. QED BY <1>1, <1>2, <1>3, <1>5, <1>6, <1>7, <1>8, <1>10, <1>11 DEF ChainInv

\* Back to the profile that extends the one just read, or to the caller.
LEMMA ChainEndProfile == ASSUME TypeInv, ChainInv, EndProfile PROVE ChainInv'
  <1> DEFINE n == Len(loading)
  <1>1. phase = "sections" /\ phase \in Reading
    BY DEF EndProfile, At, Reading
  <1>2. /\ loading \in Seq(File) /\ loading # <<>> /\ n \in Nat /\ n > 0
        /\ DOMAIN loading = 1..n /\ loading' = Tail(loading)
        /\ \A i \in 1..n : loading[i] \in DOMAIN disk
    BY <1>1, StackTop DEF EndProfile, TypeInv, StackInv
  <1>3. /\ UNCHANGED <<disk, selected, profile_list, parent_map>>
        /\ phase' = IF loading' = <<>> THEN "loaded" ELSE "header"
    BY DEF EndProfile, inputs
  <1>4. /\ Opened = 1..n /\ profile_list # <<>> /\ Head(profile_list) = NameAt(1)
        /\ \A i, j \in 1..n : NameAt(i) = NameAt(j) => i = j
        /\ \A i \in 1..n : NameAt(i) \in parent_map
        /\ \A i \in 1..n : i # 1 => Unlisted(i)
        /\ loading[n] = selected.profile
        /\ \A i \in 1..n : i # 1 => disk[loading[i]].extends = loading[i - 1]
    BY <1>1, <1>2 DEF ChainInv, Opened
  <1>5. /\ Len(loading') = n - 1 /\ DOMAIN loading' = 1..n - 1
        /\ \A i \in 1..n - 1 : loading'[i] = loading[i + 1]
    BY <1>2, HeadTailProperties, LenProperties
  <1>6. CASE n = 1
    <2>1. loading' = <<>>
      BY <1>2, <1>5, <1>6, EmptySeq, HeadTailProperties
    <2>2. phase' = "loaded"
      BY <1>3, <2>1
    <2>3. Head(profile_list) = disk[selected.profile].profile
      BY <1>4, <1>6 DEF NameAt
    <2>4. QED BY <1>3, <1>4, <2>2, <2>3 DEF ChainInv, Reading
  <1>7. CASE n # 1
    <2>1. n - 1 \in Nat /\ n - 1 > 0 /\ \A i \in 1..n - 1 : i + 1 \in 1..n /\ i + 1 # 1
      BY <1>2, <1>7
    <2>2. loading' # <<>> /\ phase' = "header"
      BY <1>2, <1>3, <1>5, <2>1
    <2>3. \A i \in 1..n - 1 : NameAt(i)' = NameAt(i + 1)
      BY <1>3, <1>5 DEF NameAt
    <2>4. Opened' = 1..n - 1
      BY <1>5, <2>2 DEF Opened
    <2>5. /\ \A i \in 1..n - 1 : NameAt(i)' \in parent_map'
          /\ \A i \in DOMAIN loading' : Unlisted(i)'
      BY <1>3, <1>4, <1>5, <2>1, <2>3 DEF Unlisted
    <2>6. ASSUME NEW i \in 1..n - 1, NEW j \in 1..n - 1, NameAt(i)' = NameAt(j)' PROVE i = j
      <3>1. i + 1 = j + 1
        BY <1>4, <2>1, <2>3, <2>6
      <3>2. QED BY <1>2, <3>1
    <2>7. loading'[n - 1] = selected'.profile
      <3>1. n - 1 \in 1..n - 1 /\ (n - 1) + 1 = n
        BY <1>2, <2>1
      <3>2. QED BY <1>3, <1>4, <1>5, <3>1
    <2>8. ASSUME NEW i \in 1..n - 1, i # 1 PROVE disk[loading'[i]].extends = loading'[i - 1]
      <3>1. i - 1 \in 1..n - 1 /\ (i - 1) + 1 = i /\ (i + 1) - 1 = i
        BY <1>2, <2>8
      <3>2. loading'[i - 1] = loading[i] /\ loading'[i] = loading[i + 1]
        BY <1>5, <3>1
      <3>3. QED BY <1>4, <2>1, <3>1, <3>2
    <2>9. (Selection!IsNext(loading[1]))'
      <3>1. 2 \in 1..n /\ 1 \in 1..n - 1 /\ 2 # 1 /\ 2 - 1 = 1 /\ 1 + 1 = 2
        BY <1>2, <1>7
      <3>2. loading'[1] = loading[2] /\ disk[loading[2]].extends = loading[1]
        BY <1>4, <1>5, <3>1
      <3>3. loading[1] \in DOMAIN disk /\ loading[1] \in File /\ loading[1] # NoFile
        BY <1>2, <3>1, ProfileAssumption, ElementOfSeq
      <3>4. Head(profile_list) = disk[loading[1]].profile
        BY <1>4 DEF NameAt
      <3>5. QED BY <1>3, <1>4, <3>2, <3>3, <3>4 DEF Selection!IsNext
    <2>10. \A i, j \in Opened' : NameAt(i)' = NameAt(j)' => i = j
      BY <2>4, <2>6
    <2>11. \A i \in DOMAIN loading' : i # 1 => disk'[loading'[i]].extends = loading'[i - 1]
      BY <1>3, <1>5, <2>8
    <2>12. QED BY <1>5, <2>2, <2>4, <2>5, <2>7, <2>9, <2>10, <2>11 DEF ChainInv
  <1>8. QED BY <1>6, <1>7

LEMMA ChainNext == TypeInv /\ ChainInv /\ [Next]_vars => ChainInv'
  <1> SUFFICES ASSUME TypeInv, ChainInv, [Next]_vars PROVE ChainInv' OBVIOUS
  <1>1. CASE Die
    BY <1>1 DEF Die, ChainInv, Reading
  <1>2. ASSUME UNCHANGED <<disk, selected, loading, parent_map, profile_list>>,
               \/ phase' = phase
               \/ phase = "disable" /\ phase' = "sections"
               \/ phase' \notin Reading \cup {"loaded"}
        PROVE  ChainInv'
    <2>1. \A i : NameAt(i)' = NameAt(i) /\ Unlisted(i)' = Unlisted(i)
      BY <1>2 DEF NameAt, Unlisted
    <2>2. CASE phase' = phase
      <3>1. Opened' = Opened
        BY <1>2, <2>2 DEF Opened
      <3>2. QED BY <1>2, <2>1, <2>2, <3>1 DEF ChainInv, Selection!IsNext
    <2>3. CASE phase = "disable" /\ phase' = "sections"
      <3>1. Opened' = Opened
        BY <1>2, <2>3 DEF Opened
      <3>2. QED BY <1>2, <2>1, <2>3, <3>1 DEF ChainInv, Reading
    <2>4. CASE phase' \notin Reading \cup {"loaded"}
      BY <2>4 DEF ChainInv, Reading
    <2>5. QED BY <1>2, <2>2, <2>3, <2>4
  <1>3. CASE LoopStep \/ Terminated \/ UNCHANGED vars
    BY <1>2, <1>3 DEF LoopStep, Terminated, vars, inputs, reader
  <1>4. CASE CroakUnknownTag
    BY <1>1, <1>4 DEF CroakUnknownTag
  <1>5. CASE Load
    <2>1. CASE CroakFile \/ CroakHeader \/ CroakSection
      BY <1>1, <2>1 DEF CroakFile, CroakHeader, CroakSection
    <2>2. CASE DisableAfterEnabling \/ ReadSection
      BY <1>2, <2>2 DEF DisableAfterEnabling, ReadSection, At, Run, inputs
    <2>3. QED
      BY <1>5, <2>1, <2>2, ChainReadFile, ChainReadHeader, ChainEndProfile DEF Load
  <1>6. CASE Options
    <2>1. CASE CroakUnknownCheck
      BY <1>1, <2>1 DEF CroakUnknownCheck
    <2>2. CASE ~CroakUnknownCheck
      BY <1>2, <1>6, <2>2 DEF Options, FtpMasterRejects, FtpEnable, FtpDurable, Select,
         SelectEnable, SuppressTags, At, Run, Reading, inputs, reader
    <2>3. QED BY <2>1, <2>2
  <1>7. QED BY <1>3, <1>4, <1>5, <1>6 DEF Next

\* The names of the two modules mean the same.
LEMMA SameTags ==
    /\ \A names : Selection!Current(names) = CurrentTags(names)
    /\ \A T \in SUBSET Tag : CurrentTags(T) = T
    /\ CurrentTags({}) = {}
    /\ \A p : Selection!Enables(p) = EnableList(p) /\ Selection!Disables(p) = DisableList(p)
    /\ \A p \in ProfileFile : EnableList(p) \subseteq Tag /\ DisableList(p) \subseteq Tag
    /\ \A checks : TagNamesForCheck(checks) \subseteq Tag /\ Selection!TagsOf(checks) = TagNamesForCheck(checks)
  <1>1. ASSUME NEW names PROVE Selection!Current(names) = CurrentTags(names)
    BY ProfileAssumption DEF Selection!Current, CurrentTags, CurrentName
  <1>2. \A T \in SUBSET Tag : CurrentTags(T) = T
    BY TagsAreCurrent DEF CurrentTags
  <1>3. QED
    BY <1>1, <1>2 DEF Selection!Enables, Selection!Disables, Selection!TagsOf, EnableList,
       DisableList, TagNamesForCheck, ProfileFile, CurrentTags

\* A step of a loop is a stutter: the loop in progress counts as finished.
LEMMA LoopStutters == ASSUME TypeInv, LoopStep PROVE UNCHANGED Selection!vars
  <1>1. PICK n \in loop.todo :
            /\ Known(n)
            /\ IF loop.op = "enable" THEN EnableTag(CurrentName(n))
                                     ELSE DisableTag(CurrentName(n))
            /\ loop' = [op |-> loop.op, todo |-> loop.todo \ {n}]
    BY DEF LoopStep
  <1>2. /\ loop'.op = loop.op /\ loop'.todo = loop.todo \ {n}
        /\ UNCHANGED <<disk, selected, phase, loading, profile_list>>
    BY <1>1 DEF LoopStep, inputs, reader
  <1>3. CurrentTags(loop.todo) \ {CurrentName(n)} \subseteq CurrentTags(loop'.todo)
    BY <1>2 DEF CurrentTags
  <1>4. CurrentTags(loop'.todo) \subseteq CurrentTags(loop.todo) /\ CurrentName(n) \in CurrentTags(loop.todo)
    BY <1>1, <1>2 DEF CurrentTags, Known
  <1>5. AfterLoop' = AfterLoop
    <2>1. (CurrentTags(loop.todo))' = CurrentTags(loop'.todo)
      BY DEF CurrentTags
    <2>2. CASE loop.op = "enable"
      BY <1>1, <1>2, <1>3, <1>4, <2>1, <2>2 DEF EnableTag, AfterLoop
    <2>3. CASE loop.op # "enable"
      BY <1>1, <1>2, <1>3, <1>4, <2>1, <2>3 DEF DisableTag, AfterLoop
    <2>4. QED BY <2>2, <2>3
  <1>6. Enabled' = Enabled /\ Stage' = Stage
    BY <1>2, <1>5 DEF Enabled, Stage, Current, PartTags
  <1>7. QED BY <1>2, <1>6 DEF Selection!vars

\* Dying rejects the profile or the command line.
LEMMA DieRejects == ASSUME TypeInv, Die PROVE [Selection!Next]_Selection!vars
  <1>1. /\ Stage' = "rejected" /\ Enabled' = {}
        /\ UNCHANGED <<disk, selected, profile_list>>
    BY DEF Die, Stage, Enabled, inputs, reader
  <1>2. CASE Stage = "rejected"
    <2>1. phase \in Phases
      BY DEF TypeInv, TypeOK
    <2>2. phase = "died"
      BY <1>2, <2>1 DEF Stage, Phases
    <2>3. Enabled = {}
      BY <2>2 DEF Enabled
    <2>4. QED BY <1>1, <1>2, <2>3 DEF Selection!vars
  <1>3. CASE Stage # "rejected"
    BY <1>1, <1>3 DEF Selection!Next, Selection!Reject
  <1>4. QED BY <1>2, <1>3

\* Reading a profile is a stutter until its list is applied.
LEMMA LoadRefines ==
    ASSUME TypeInv, ChainInv, Load PROVE [Selection!Next]_Selection!vars
  <1> USE DEF At, Run
  <1>1. CASE CroakFile \/ CroakHeader \/ CroakSection
    BY <1>1, DieRejects DEF CroakFile, CroakHeader, CroakSection
  <1>2. CASE ReadFile \/ ReadSection \/ EndProfile
    <2>1. /\ phase \in {"read", "sections"} /\ phase' \in {"read", "header", "sections", "loaded"}
          /\ UNCHANGED <<disk, selected, profile_list, loop, enabled_tags>>
      BY <1>2 DEF ReadFile, ReadSection, EndProfile, inputs, tables
    <2>2. UNCHANGED AfterLoop
      BY <2>1 DEF AfterLoop, CurrentTags
    <2>3. UNCHANGED Stage /\ UNCHANGED Enabled
      BY <2>1, <2>2 DEF Stage, Enabled
    <2>4. QED BY <2>1, <2>3 DEF Selection!vars
  <1>3. CASE DisableAfterEnabling
    <2>1. /\ phase = "disable" /\ loop.todo = {} /\ phase' = "sections"
          /\ loop'.op = "disable" /\ loop'.todo = DisableList(Current)
          /\ UNCHANGED <<disk, selected, profile_list, loading, enabled_tags>>
      BY <1>3 DEF DisableAfterEnabling, inputs, tables
    <2>2. Current \in ProfileFile
      BY <2>1, StackTop, CurrentIsProfile DEF TypeInv, StackInv, Reading
    <2>3. AfterLoop = enabled_tags /\ AfterLoop' = enabled_tags \ DisableList(Current)
      <3>1. CurrentTags(DisableList(Current)) = DisableList(Current) /\ CurrentTags({}) = {}
        BY <2>2, SameTags
      <3>2. AfterLoop = enabled_tags
        BY <2>1, <3>1 DEF AfterLoop
      <3>3. AfterLoop' = enabled_tags \ CurrentTags(DisableList(Current))
        BY <2>1 DEF AfterLoop, CurrentTags
      <3>4. QED BY <3>1, <3>2, <3>3
    <2>4. Enabled = AfterLoop \ DisableList(Current) /\ Enabled' = AfterLoop'
      BY <2>1 DEF Enabled
    <2>5. UNCHANGED Stage
      BY <2>1 DEF Stage
    <2>6. QED BY <2>1, <2>3, <2>4, <2>5 DEF Selection!vars
  <1>4. CASE ReadHeader
    <2> DEFINE f == loading[1]
    <2>1. /\ phase = "header" /\ loop.todo = {} /\ phase' = "disable"
          /\ loop'.op = "enable" /\ loop'.todo = EnableList(Current)
          /\ UNCHANGED <<disk, selected, loading, enabled_tags>>
          /\ profile_list' = <<Current.profile>> \o profile_list
      BY <1>4 DEF ReadHeader, inputs, tables
    <2>2. Current \in ProfileFile /\ Current = disk[f] /\ f \in DOMAIN disk /\ 1 \in DOMAIN loading
      BY <2>1, StackTop, CurrentIsProfile DEF TypeInv, StackInv, Reading
    <2>3. Selection!IsNext(f) /\ \A i \in DOMAIN profile_list : profile_list[i] # disk[f].profile
      BY <2>1, <2>2 DEF ChainInv, Unlisted, NameAt
    <2>4. Enabled = enabled_tags
      <3>1. AfterLoop = enabled_tags
        BY <2>1, SameTags DEF AfterLoop
      <3>2. QED BY <2>1, <3>1 DEF Enabled
    <2>5. Enabled' = (enabled_tags \cup EnableList(Current)) \ DisableList(Current)
      <3>1. CurrentTags(EnableList(Current)) = EnableList(Current)
        BY <2>2, SameTags
      <3>2. AfterLoop' = enabled_tags \cup CurrentTags(EnableList(Current))
        BY <2>1 DEF AfterLoop, CurrentTags
      <3>3. Enabled' = AfterLoop' \ DisableList(Current)
        BY <2>1 DEF Enabled, Current
      <3>4. QED BY <3>1, <3>2, <3>3
    <2>6. Enabled' = (Enabled \cup Selection!Enables(disk[f])) \ Selection!Disables(disk[f])
      BY <2>2, <2>4, <2>5, SameTags
    <2>7. Stage = "loading" /\ Stage' = "loading"
      BY <2>1 DEF Stage
    <2>10. /\ {} \in SUBSET Selection!Contested(disk[f])
           /\ Enabled' = ((Enabled \cup Selection!Enables(disk[f])) \ Selection!Disables(disk[f])) \cup {}
      BY <2>6
    <2>8. Selection!Apply(f)
      BY <2>1, <2>2, <2>3, <2>7, <2>10 DEF Selection!Apply
    <2>9. QED BY <2>2, <2>8 DEF Selection!Next
  <1>5. QED BY <1>1, <1>2, <1>3, <1>4 DEF Load

\* Each option is one change of the set, made where its code begins.
LEMMA OptionsRefine ==
    ASSUME TypeInv, SelectInv, ChainInv, Options PROVE [Selection!Next]_Selection!vars
  <1> USE DEF At, Run
  <1>1. CASE CroakUnknownCheck
    BY <1>1, DieRejects DEF CroakUnknownCheck
  <1>2. CASE ~CroakUnknownCheck
    <2>1. /\ loop.todo = {} /\ UNCHANGED <<disk, selected, profile_list, enabled_tags>>
      BY <1>2 DEF Options, FtpMasterRejects, FtpEnable, FtpDurable, Select, SelectEnable,
         SuppressTags, inputs, reader, tables
    <2>2. AfterLoop = enabled_tags
      BY <2>1, SameTags DEF AfterLoop
    <2>3. CASE FtpMasterRejects
      <3>1. phase = "loaded" /\ Enabled = enabled_tags /\ Stage = "loading" /\ Stage' = "loaded"
        BY <2>2, <2>3 DEF FtpMasterRejects, Enabled, Stage
      <3>2. Enabled' = IF selected.ftp_master_rejects THEN CurrentTags(Certain \cup Preventable)
                       ELSE enabled_tags
        <4>1. CASE selected.ftp_master_rejects
          BY <2>3, <4>1 DEF FtpMasterRejects, Enabled
        <4>2. CASE ~selected.ftp_master_rejects
          <5>1. AfterLoop' = enabled_tags /\ phase' = "select"
            BY <2>1, <2>3, <4>2, SameTags DEF FtpMasterRejects, AfterLoop
          <5>2. QED BY <4>2, <5>1 DEF Enabled
        <4>3. QED BY <4>1, <4>2
      <3>3. profile_list # <<>> /\ Head(profile_list) = disk[selected.profile].profile
        BY <3>1 DEF ChainInv
      <3>4. Selection!Rejects
        BY <2>1, <3>1, <3>2, <3>3, SameTags DEF Selection!Rejects
      <3>5. QED BY <3>4 DEF Selection!Next
    <2>4. CASE FtpEnable
      <3>1. /\ phase = "ftp_enable" /\ phase' = "ftp_durable" /\ enabled_tags = {}
            /\ loop' = [op |-> "enable", todo |-> Certain \cup Preventable]
        BY <2>1, <2>4 DEF FtpEnable, SelectInv
      <3>2. AfterLoop' = CurrentTags(Certain \cup Preventable)
        BY <2>1, <3>1 DEF AfterLoop
      <3>3. Enabled' = Enabled /\ Stage' = Stage
        BY <3>1, <3>2 DEF Enabled, Stage
      <3>4. QED BY <2>1, <3>3 DEF Selection!vars
    <2>5. CASE FtpDurable
      <3>1. /\ phase = "ftp_durable" /\ phase' = "select" /\ loop'.todo = {}
        BY <2>5 DEF FtpDurable
      <3>2. AfterLoop' = enabled_tags
        BY <2>1, <3>1, SameTags DEF AfterLoop
      <3>3. Enabled' = Enabled /\ Stage' = Stage
        BY <2>2, <3>1, <3>2 DEF Enabled, Stage
      <3>4. QED BY <2>1, <3>3 DEF Selection!vars
    <2>6. CASE Select
      <3>1. phase = "select" /\ Enabled = enabled_tags /\ Stage = "loaded" /\ Stage' = "chosen"
        BY <2>2, <2>6 DEF Select, Enabled, Stage
      <3>2. Enabled' = IF selected.tags # {} THEN CurrentTags(selected.tags)
                       ELSE IF All \in selected.check_part THEN Tag
                       ELSE IF selected.check_part # {} THEN TagNamesForCheck(selected.check_part)
                       ELSE enabled_tags \ TagNamesForCheck(selected.dont_check_part)
        <4>1. CASE Listing
          <5>1. phase' = "select_enable"
            BY <2>6, <4>1 DEF Select
          <5>2. Enabled' = IF selected.tags # {} THEN CurrentTags(selected.tags) ELSE PartTags
            BY <2>1, <5>1 DEF Enabled, PartTags
          <5>3. QED BY <4>1, <5>2 DEF Listing, PartTags
        <4>2. CASE ~Listing
          <5>1. /\ phase' = "suppress"
                /\ loop' = [op |-> "disable", todo |-> TagNamesForCheck(selected.dont_check_part)]
            BY <2>6, <4>2 DEF Select
          <5>2. AfterLoop' = enabled_tags \ CurrentTags(TagNamesForCheck(selected.dont_check_part))
            BY <2>1, <5>1 DEF AfterLoop
          <5>3. AfterLoop' = enabled_tags \ TagNamesForCheck(selected.dont_check_part)
            BY <5>2, SameTags
          <5>4. Enabled' = AfterLoop'
            BY <5>1 DEF Enabled
          <5>5. QED BY <4>2, <5>3, <5>4 DEF Listing
        <4>3. QED BY <4>1, <4>2
      <3>3. Selection!Choose
        BY <2>1, <3>1, <3>2, SameTags DEF Selection!Choose
      <3>4. QED BY <3>3 DEF Selection!Next
    <2>7. CASE SelectEnable
      <3> DEFINE list == IF selected.tags # {} THEN selected.tags ELSE PartTags
      <3>1. /\ phase = "select_enable" /\ phase' = "suppress" /\ enabled_tags = {}
            /\ loop' = [op |-> "enable", todo |-> list]
        BY <2>1, <2>7 DEF SelectEnable, SelectInv
      <3>2. AfterLoop' = CurrentTags(list)
        BY <2>1, <3>1 DEF AfterLoop
      <3>3. PartTags \subseteq Tag
        BY SameTags DEF PartTags
      <3>4. Enabled = CurrentTags(list)
        BY <3>1, <3>3, SameTags DEF Enabled
      <3>5. Enabled' = Enabled /\ Stage' = Stage
        BY <3>1, <3>2, <3>4 DEF Enabled, Stage
      <3>6. QED BY <2>1, <3>5 DEF Selection!vars
    <2>8. CASE SuppressTags
      <3>1. phase = "suppress" /\ Enabled = enabled_tags /\ Stage = "chosen"
        BY <2>2, <2>8 DEF SuppressTags, Enabled, Stage
      <3>2. /\ phase' = "ready" /\ Stage' = "done"
            /\ loop' = [op |-> "disable",
                        todo |-> IF selected.tags # {} THEN {} ELSE selected.suppress_tags]
        BY <2>8 DEF SuppressTags, Stage
      <3>3. AfterLoop' = IF selected.tags # {} THEN enabled_tags
                         ELSE enabled_tags \ CurrentTags(selected.suppress_tags)
        BY <2>1, <3>2, SameTags DEF AfterLoop
      <3>4. Enabled' = AfterLoop'
        BY <3>2 DEF Enabled
      <3>5. Selection!Suppress
        BY <2>1, <3>1, <3>2, <3>3, <3>4, SameTags DEF Selection!Suppress
      <3>6. QED BY <3>5 DEF Selection!Next
    <2>9. QED BY <1>2, <2>3, <2>4, <2>5, <2>6, <2>7, <2>8 DEF Options
  <1>3. QED BY <1>1, <1>2

\* Every profile of the chain, from its root, and then every option makes the
\* one change of the set of enabled tags that TagSelection says it makes, for
\* every installation and command line and in whatever order the loops run.
THEOREM SelectionImplemented == Spec => ImplementsTagSelection
  <1>1. Init => Selection!Init
    <2> SUFFICES ASSUME Init PROVE Selection!Init OBVIOUS
    <2>1. Stage = "loading" /\ Enabled = AfterLoop
      BY DEF Init, Stage, Enabled
    <2>2. AfterLoop = {}
      BY SameTags DEF Init, AfterLoop
    <2>3. QED BY <2>1, <2>2 DEF Init, Selection!Init
  <1>2. TypeInv /\ SelectInv /\ ChainInv /\ [Next]_vars => [Selection!Next]_Selection!vars
    <2> SUFFICES ASSUME TypeInv, SelectInv, ChainInv, [Next]_vars
                 PROVE  [Selection!Next]_Selection!vars
      OBVIOUS
    <2>1. CASE LoopStep BY <2>1, LoopStutters
    <2>2. CASE CroakUnknownTag BY <2>2, DieRejects DEF CroakUnknownTag
    <2>3. CASE Load BY <2>3, LoadRefines
    <2>4. CASE Options BY <2>4, OptionsRefine
    <2>5. CASE Terminated \/ UNCHANGED vars
      <3>1. UNCHANGED <<inputs, phase, loop, reader, tables>>
        BY <2>5 DEF Terminated, vars
      <3>2. UNCHANGED Selection!vars
        BY <3>1 DEF Selection!vars, Stage, Enabled, AfterLoop, Current, PartTags, inputs, reader, tables
      <3>3. QED BY <3>2
    <2>6. QED BY <2>1, <2>2, <2>3, <2>4, <2>5 DEF Next
  <1>3. Init => TypeInv /\ SelectInv /\ ChainInv
    BY TypeInit, ChainInit DEF Init, SelectInv
  <1>4. QED
    BY <1>1, <1>2, <1>3, TypeNext, SelectNext, ChainNext, PTL
    DEF Spec, ImplementsTagSelection, Selection!Spec
=============================================================================
