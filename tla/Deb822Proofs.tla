---------------------------- MODULE Deb822Proofs ------------------------------
(***************************************************************************)
(* Proofs about Deb822, for files of any length: its types, the positions  *)
(* of fields where nothing is signed, what becomes a paragraph, what the   *)
(* signature covers, and that no line of a value is lost.                  *)
(***************************************************************************)
EXTENDS Deb822, SequenceTheorems, WellFoundedInduction, TLAPS

Table(V) == UNION {[D -> V] : D \in SUBSET Field}

\* The counters: while nothing was signed, position is the number of the next
\* line; it never runs ahead of it.
CounterInv ==
    /\ flags \subseteq Flag /\ lines \in Seq(Line) /\ Len(lines) <= MaxLines
    /\ position \in 1..Len(lines) + 1
    /\ pc \in {"paragraphs", "headers", "signature", "done", "died"}
    /\ signed \in 0..MaxLines /\ signature \in 0..MaxLines /\ (signature > 0 => signed > 0)
    /\ pc \in {"headers", "signature"} => signed > 0
    /\ signed > 0 => IsSigned
    /\ pc = "paragraphs" /\ signed = 0 => position = Len(lines) + 1

\* A paragraph: its values are lines that were read, and while nothing was
\* signed each field is recorded at the first line of its value.
Recorded(s, starts) ==
    /\ s \in Table(SUBSET Nat) /\ starts \in Table(Nat)
    /\ DOMAIN s # {} /\ DOMAIN starts = DOMAIN s
    /\ \A f \in DOMAIN s : s[f] \subseteq 1..Len(lines)
    /\ signed = 0 => \A f \in DOMAIN s : starts[f] \in s[f] /\ \A i \in s[f] : starts[f] <= i

OpenInv ==
    /\ open_section \in BOOLEAN /\ last_tag \in Field \cup {NoField}
    /\ open_section => Recorded(section, field_starts) /\ last_tag \in DOMAIN section
    /\ ~open_section => section = Nothing /\ field_starts = Nothing

VisitedInv ==
    /\ visited \in Seq(Table(SUBSET Nat) \X Table(Nat))
    /\ \A k \in DOMAIN visited : Recorded(visited[k][1], visited[k][2])

IInv == CounterInv /\ OpenInv /\ VisitedInv

-----------------------------------------------------------------------------
\* Reading a line adds a line, and a file that is signed stays so.
LEMMA Reading ==
    ASSUME CounterInv, NEW l \in Line, Shift(l)
    PROVE  /\ lines' \in Seq(Line) /\ Len(lines') = Len(lines) + 1 /\ Len(lines') <= MaxLines
           /\ flags' \subseteq Flag /\ Len(lines) \in Nat
           /\ Len(lines') \in Nat /\ Len(lines) <= Len(lines')
           /\ IsSigned \/ l.kind = "BEGIN MESSAGE" => IsSigned'
  <1>1. /\ lines' \in Seq(Line) /\ Len(lines') = Len(lines) + 1 /\ Len(lines) \in Nat
        /\ \A i \in 1..Len(lines) : lines'[i] = lines[i]
        /\ lines'[Len(lines) + 1] = l
    BY AppendProperties, LenProperties DEF CounterInv, Shift
  <1>2. DOMAIN lines = 1..Len(lines) /\ DOMAIN lines' = 1..Len(lines) + 1
    BY <1>1, LenProperties DEF CounterInv
  <1>3. Len(lines') <= MaxLines
    BY <1>1, Deb822Assumption DEF Shift, CounterInv
  <1>4. IsSigned \/ l.kind = "BEGIN MESSAGE" => IsSigned'
    <2>1. ASSUME NEW i \in 1..Len(lines) + 1, lines'[i].kind = "BEGIN MESSAGE" PROVE IsSigned'
      <3>1. i \in {j \in DOMAIN lines' : lines'[j].kind \in {"BEGIN MESSAGE"}}
        BY <2>1, <1>2
      <3>2. QED BY <3>1 DEF IsSigned, Of
    <2>2. l.kind = "BEGIN MESSAGE" => IsSigned'
      <3>1. Len(lines) + 1 \in 1..Len(lines) + 1
        BY <1>1
      <3>2. ASSUME l.kind = "BEGIN MESSAGE" PROVE lines'[Len(lines) + 1].kind = "BEGIN MESSAGE"
        BY <3>2, <1>1
      <3>3. QED BY <2>1, <3>1, <3>2
    <2>3. IsSigned => \E i \in 1..Len(lines) : lines[i].kind = "BEGIN MESSAGE"
      BY <1>2 DEF IsSigned, Of
    <2>4. IsSigned => IsSigned'
      <3>1. ASSUME NEW i \in 1..Len(lines), lines[i].kind = "BEGIN MESSAGE"
            PROVE  i \in 1..Len(lines) + 1 /\ lines'[i].kind = "BEGIN MESSAGE"
        <4>1. i \in 1..Len(lines) + 1 /\ lines'[i] = lines[i]
          BY <1>1
        <4>2. QED BY <4>1, <3>1
      <3>2. QED BY <2>1, <2>3, <3>1
    <2>5. QED BY <2>2, <2>4
  <1>5. Len(lines') \in Nat /\ Len(lines) <= Len(lines')
    BY <1>1
  <1>6. QED BY <1>1, <1>3, <1>4, <1>5 DEF Shift, CounterInv

\* What was recorded stays recorded when more lines are read.
LEMMA RecordedStays ==
    ASSUME NEW s, NEW starts, Recorded(s, starts), Len(lines) \in Nat, Len(lines') \in Nat,
           Len(lines) <= Len(lines'), signed' = 0 => signed = 0
    PROVE  /\ s \in Table(SUBSET Nat) /\ starts \in Table(Nat)
           /\ DOMAIN s # {} /\ DOMAIN starts = DOMAIN s
           /\ \A f \in DOMAIN s : s[f] \subseteq 1..Len(lines')
           /\ signed' = 0 => \A f \in DOMAIN s : starts[f] \in s[f] /\ \A i \in s[f] : starts[f] <= i
  <1>1. \A f \in DOMAIN s : s[f] \subseteq 1..Len(lines')
    BY DEF Recorded
  <1>2. QED BY <1>1 DEF Recorded

LEMMA OpenStays ==
    ASSUME OpenInv, UNCHANGED paragraph, Len(lines) \in Nat, Len(lines') \in Nat,
           Len(lines) <= Len(lines'), signed' = 0 => signed = 0
    PROVE  OpenInv'
  <1>1. UNCHANGED <<last_tag, open_section, section, field_starts>>
    BY DEF paragraph
  <1>2. CASE open_section
    <2>1. Recorded(section, field_starts) /\ last_tag \in DOMAIN section
      BY <1>2 DEF OpenInv
    <2>2. /\ section \in Table(SUBSET Nat) /\ field_starts \in Table(Nat)
          /\ DOMAIN section # {} /\ DOMAIN field_starts = DOMAIN section
          /\ \A f \in DOMAIN section : section[f] \subseteq 1..Len(lines')
          /\ signed' = 0 => \A f \in DOMAIN section :
                field_starts[f] \in section[f] /\ \A i \in section[f] : field_starts[f] <= i
      BY <2>1, RecordedStays
    <2>3. Recorded(section, field_starts)'
      BY <2>2, <1>1 DEF Recorded
    <2>4. QED BY <2>1, <2>3, <1>1, <1>2 DEF OpenInv
  <1>3. CASE ~open_section
    BY <1>1, <1>3 DEF OpenInv
  <1>4. QED BY <1>2, <1>3 DEF OpenInv

LEMMA VisitedStays ==
    ASSUME VisitedInv, UNCHANGED visited, Len(lines) \in Nat, Len(lines') \in Nat,
           Len(lines) <= Len(lines'), signed' = 0 => signed = 0
    PROVE  VisitedInv'
  <1>1. ASSUME NEW k \in DOMAIN visited
        PROVE  Recorded(visited[k][1], visited[k][2])'
    <2> DEFINE s == visited[k][1]
               starts == visited[k][2]
    <2>1. Recorded(s, starts)
      BY <1>1 DEF VisitedInv
    <2>2. /\ s \in Table(SUBSET Nat) /\ starts \in Table(Nat)
          /\ DOMAIN s # {} /\ DOMAIN starts = DOMAIN s
          /\ \A f \in DOMAIN s : s[f] \subseteq 1..Len(lines')
          /\ signed' = 0 => \A f \in DOMAIN s : starts[f] \in s[f] /\ \A i \in s[f] : starts[f] <= i
      <3> HIDE DEF s, starts
      <3>1. QED BY <2>1, RecordedStays
    <2>3. QED BY <2>2 DEF Recorded
  <1>2. QED BY <1>1 DEF VisitedInv
-----------------------------------------------------------------------------
\* Storing a field keeps a table a table.
LEMMA StoreTable ==
    ASSUME NEW V, NEW t \in Table(V), NEW f \in Field, NEW v \in V
    PROVE  /\ Store(t, f, v) \in Table(V) /\ DOMAIN Store(t, f, v) = DOMAIN t \cup {f}
           /\ Store(t, f, v)[f] = v
           /\ \A g \in DOMAIN t : g # f => Store(t, f, v)[g] = t[g]
  <1>1. PICK D \in SUBSET Field : t \in [D -> V]
    BY DEF Table
  <1>2. Store(t, f, v) \in [D \cup {f} -> V]
    BY <1>1 DEF Store
  <1>3. Store(t, f, v) \in Table(V)
    BY <1>2 DEF Table
  <1>4. QED BY <1>3 DEF Store

LEMMA StoreValue ==
    ASSUME NEW t \in Table(SUBSET Nat), NEW f \in Field, NEW v \in SUBSET Nat
    PROVE  /\ Store(t, f, v) \in Table(SUBSET Nat) /\ DOMAIN Store(t, f, v) = DOMAIN t \cup {f}
           /\ Store(t, f, v)[f] = v
           /\ \A g \in DOMAIN t : g # f => Store(t, f, v)[g] = t[g]
  <1> DEFINE V == SUBSET Nat
  <1>1. t \in Table(V) /\ v \in V
    OBVIOUS
  <1> HIDE DEF V
  <1>2. Store(t, f, v) \in Table(V)
    BY <1>1, StoreTable
  <1>3. QED BY <1>2 DEF V, Store

LEMMA StoreStart ==
    ASSUME NEW t \in Table(Nat), NEW f \in Field, NEW v \in Nat
    PROVE  /\ Store(t, f, v) \in Table(Nat) /\ DOMAIN Store(t, f, v) = DOMAIN t \cup {f}
           /\ Store(t, f, v)[f] = v
           /\ \A g \in DOMAIN t : g # f => Store(t, f, v)[g] = t[g]
  <1> DEFINE V == Nat
  <1>1. t \in Table(V) /\ v \in V
    OBVIOUS
  <1> HIDE DEF V
  <1>2. Store(t, f, v) \in Table(V)
    BY <1>1, StoreTable
  <1>3. QED BY <1>2 DEF V, Store

LEMMA NothingIsTable == ASSUME NEW V PROVE Nothing \in Table(V) /\ DOMAIN Nothing = {}
  <1>1. Nothing \in [{} -> V]
    BY DEF Nothing
  <1>2. QED BY <1>1 DEF Table, Nothing

\* A field that starts is recorded where it starts.
LEMMA FieldStarts ==
    ASSUME CounterInv, OpenInv, NEW l \in Line, Shift(l), NEW f \in Field, pc = "paragraphs",
           StartField(f)
    PROVE  OpenInv'
  <1>1. Len(lines) \in Nat /\ Len(lines') = Len(lines) + 1 /\ position \in Nat
    <2>1. Len(lines) \in Nat /\ Len(lines') = Len(lines) + 1
      BY Reading
    <2>2. QED BY <2>1 DEF CounterInv
  <1>2. UNCHANGED signed /\ (signed = 0 => position = Number)
    BY DEF StartField, armour, CounterInv, Number
  <1>3. /\ section \in Table(SUBSET Nat) /\ field_starts \in Table(Nat)
        /\ DOMAIN field_starts = DOMAIN section
        /\ \A g \in DOMAIN section : section[g] \subseteq 1..Len(lines)
        /\ signed = 0 => \A g \in DOMAIN section :
              field_starts[g] \in section[g] /\ \A i \in section[g] : field_starts[g] <= i
    BY NothingIsTable DEF OpenInv, Recorded
  <1>4. {Number} \in SUBSET Nat /\ {Number} \subseteq 1..Len(lines')
    BY <1>1 DEF Number
  <1>5. /\ section' \in Table(SUBSET Nat) /\ DOMAIN section' = DOMAIN section \cup {f}
        /\ section'[f] = {Number} /\ \A g \in DOMAIN section : g # f => section'[g] = section[g]
    <2>1. section' = Store(section, f, {Number})
      BY DEF StartField
    <2>2. section \in Table(SUBSET Nat)
      BY <1>3
    <2> DEFINE stored == Store(section, f, {Number})
    <2>3. /\ stored \in Table(SUBSET Nat) /\ DOMAIN stored = DOMAIN section \cup {f}
          /\ stored[f] = {Number} /\ \A g \in DOMAIN section : g # f => stored[g] = section[g]
      BY <2>2, <1>4, StoreValue
    <2>4. section' = stored
      BY <2>1
    <2> HIDE DEF stored
    <2>5. QED BY <2>3, <2>4
  <1>6. /\ field_starts' \in Table(Nat) /\ DOMAIN field_starts' = DOMAIN section \cup {f}
        /\ field_starts'[f] = position
        /\ \A g \in DOMAIN section : g # f => field_starts'[g] = field_starts[g]
    <2>1. field_starts' = Store(field_starts, f, position)
      BY DEF StartField
    <2>2. field_starts \in Table(Nat) /\ position \in Nat
      BY <1>1, <1>3
    <2> DEFINE stored == Store(field_starts, f, position)
    <2>3. /\ stored \in Table(Nat) /\ DOMAIN stored = DOMAIN field_starts \cup {f}
          /\ stored[f] = position
          /\ \A g \in DOMAIN field_starts : g # f => stored[g] = field_starts[g]
      BY <2>2, StoreStart
    <2>4. field_starts' = stored /\ DOMAIN field_starts = DOMAIN section
      BY <2>1, <1>3
    <2> HIDE DEF stored
    <2>5. QED BY <2>3, <2>4
  <1>7. ASSUME NEW g \in DOMAIN section'
        PROVE  /\ section'[g] \subseteq 1..Len(lines')
               /\ signed' = 0 => field_starts'[g] \in section'[g]
                                 /\ \A i \in section'[g] : field_starts'[g] <= i
    <2>1. CASE g = f
      BY <2>1, <1>1, <1>2, <1>4, <1>5, <1>6
    <2>2. CASE g # f
      <3>1. g \in DOMAIN section /\ section'[g] = section[g] /\ field_starts'[g] = field_starts[g]
        BY <2>2, <1>5, <1>6
      <3>2. 1..Len(lines) \subseteq 1..Len(lines')
        BY <1>1
      <3>3. QED BY <3>1, <3>2, <1>2, <1>3
    <2>3. QED BY <2>1, <2>2
  <1>8. Recorded(section, field_starts)'
    BY <1>5, <1>6, <1>7 DEF Recorded
  <1>9. QED BY <1>5, <1>8 DEF OpenInv, StartField

\* A line that continues a value comes after the line where it starts.
LEMMA FieldContinues ==
    ASSUME CounterInv, OpenInv, open_section, NEW l \in Line, Shift(l),
           section' = Store(section, last_tag, section[last_tag] \cup {Number}),
           UNCHANGED <<armour, last_tag, open_section, field_starts>>
    PROVE  OpenInv'
  <1>1. Len(lines) \in Nat /\ Len(lines') = Len(lines) + 1 /\ UNCHANGED signed
    BY Reading DEF armour
  <1>2. /\ Recorded(section, field_starts) /\ last_tag \in DOMAIN section
        /\ section \in Table(SUBSET Nat) /\ field_starts \in Table(Nat)
        /\ DOMAIN field_starts = DOMAIN section
    BY DEF OpenInv, Recorded
  <1>3. last_tag \in Field /\ section[last_tag] \subseteq Nat
    BY <1>2 DEF Table
  <1>4. section[last_tag] \cup {Number} \in SUBSET Nat
    BY <1>1, <1>3 DEF Number
  <1>5. /\ section' \in Table(SUBSET Nat) /\ DOMAIN section' = DOMAIN section
        /\ section'[last_tag] = section[last_tag] \cup {Number}
        /\ \A g \in DOMAIN section : g # last_tag => section'[g] = section[g]
    <2> DEFINE value == section[last_tag] \cup {Number}
    <2>1. section' = Store(section, last_tag, value) /\ value \in SUBSET Nat
      BY <1>4
    <2> HIDE DEF value
    <2>2. section \in Table(SUBSET Nat) /\ last_tag \in Field
      BY <1>2, <1>3
    <2> DEFINE stored == Store(section, last_tag, value)
    <2>3. /\ stored \in Table(SUBSET Nat) /\ DOMAIN stored = DOMAIN section \cup {last_tag}
          /\ stored[last_tag] = value
          /\ \A g \in DOMAIN section : g # last_tag => stored[g] = section[g]
      BY <2>1, <2>2, StoreValue
    <2>4. section' = stored
      BY <2>1
    <2> HIDE DEF stored
    <2>5. QED BY <2>3, <2>4, <1>2 DEF value
  <1>6. \A g \in DOMAIN section : section'[g] \subseteq section[g] \cup {Number}
                                   /\ section[g] \subseteq section'[g]
    BY <1>5
  <1>7. ASSUME NEW g \in DOMAIN section
        PROVE  /\ section'[g] \subseteq 1..Len(lines')
               /\ signed = 0 => field_starts[g] \in section'[g]
                                /\ \A i \in section'[g] : field_starts[g] <= i
    <2>1. section[g] \subseteq 1..Len(lines)
      BY <1>2 DEF Recorded
    <2>2. section'[g] \subseteq 1..Len(lines')
      <3>1. 1..Len(lines) \subseteq 1..Len(lines') /\ Number \in 1..Len(lines')
        BY <1>1 DEF Number
      <3>2. QED BY <3>1, <2>1, <1>6
    <2>3. ASSUME signed = 0 PROVE field_starts[g] \in section[g] /\ \A i \in section[g] : field_starts[g] <= i
      BY <2>3, <1>2 DEF Recorded
    <2>4. ASSUME signed = 0 PROVE field_starts[g] <= Number
      BY <2>1, <2>3, <2>4, <1>1 DEF Number
    <2>5. QED BY <2>2, <2>3, <2>4, <1>6
  <1>8. Recorded(section, field_starts)'
    BY <1>1, <1>2, <1>5, <1>7 DEF Recorded
  <1>9. QED BY <1>2, <1>5, <1>8 DEF OpenInv

\* Passing an open paragraph on.
LEMMA PassedOn ==
    ASSUME OpenInv, VisitedInv, open_section, visited' = Append(visited, <<section, field_starts>>),
           Len(lines) \in Nat, Len(lines') \in Nat, Len(lines) <= Len(lines'), UNCHANGED signed
    PROVE  VisitedInv'
  <1>1. Recorded(section, field_starts)
    BY DEF OpenInv
  <1>2. <<section, field_starts>> \in Table(SUBSET Nat) \X Table(Nat)
    BY <1>1 DEF Recorded
  <1>3. /\ visited' \in Seq(Table(SUBSET Nat) \X Table(Nat))
        /\ Len(visited) \in Nat /\ Len(visited') = Len(visited) + 1
        /\ \A k \in 1..Len(visited) : visited'[k] = visited[k]
        /\ visited'[Len(visited) + 1] = <<section, field_starts>>
    BY <1>2, AppendProperties, LenProperties DEF VisitedInv
  <1>4. DOMAIN visited = 1..Len(visited) /\ DOMAIN visited' = 1..Len(visited) + 1
    BY <1>3, LenProperties DEF VisitedInv
  <1>5. ASSUME NEW s, NEW starts, Recorded(s, starts)
        PROVE  /\ s \in Table(SUBSET Nat) /\ starts \in Table(Nat)
               /\ DOMAIN s # {} /\ DOMAIN starts = DOMAIN s
               /\ \A f \in DOMAIN s : s[f] \subseteq 1..Len(lines')
               /\ signed' = 0 => \A f \in DOMAIN s : starts[f] \in s[f] /\ \A i \in s[f] : starts[f] <= i
    BY <1>5, RecordedStays
  <1>6. ASSUME NEW k \in DOMAIN visited'
        PROVE  Recorded(visited[k][1], visited[k][2])'
    <2>1. CASE k = Len(visited) + 1
      <3>1. visited'[k][1] = section /\ visited'[k][2] = field_starts
        BY <2>1, <1>3
      <3>2. QED BY <1>1, <1>5, <3>1 DEF Recorded
    <2>2. CASE k \in 1..Len(visited)
      <3>1. visited'[k] = visited[k] /\ Recorded(visited[k][1], visited[k][2])
        BY <2>2, <1>3, <1>4 DEF VisitedInv
      <3>2. QED BY <1>5, <3>1 DEF Recorded
    <2>3. QED BY <2>1, <2>2, <1>3, <1>4
  <1>7. QED BY <1>3, <1>6 DEF VisitedInv

-----------------------------------------------------------------------------
\* Where neither the open paragraph nor those passed on change.
LEMMA NoParagraphs ==
    ASSUME IInv, NEW l \in Line, Shift(l), UNCHANGED <<paragraph, visited>>, signed' = 0 => signed = 0
    PROVE  OpenInv' /\ VisitedInv'
  <1>1. Len(lines) \in Nat /\ Len(lines') \in Nat /\ Len(lines) <= Len(lines')
    BY Reading DEF IInv
  <1>2. QED BY <1>1, OpenStays, VisitedStays DEF IInv

LEMMA InitInv == Init => IInv
  <1> SUFFICES ASSUME Init PROVE IInv OBVIOUS
  <1>1. lines = <<>> /\ Len(lines) = 0 /\ lines \in Seq(Line)
    BY EmptySeq DEF Init
  <1>2. CounterInv
    BY <1>1, Deb822Assumption DEF Init, CounterInv
  <1>3. OpenInv
    BY DEF Init, OpenInv
  <1>4. VisitedInv
    BY EmptySeq DEF Init, VisitedInv
  <1>5. QED BY <1>2, <1>3, <1>4 DEF IInv

\* A line that ends the parser.
LEMMA DieInv ==
    ASSUME IInv, NEW l \in Line, Shift(l), Die PROVE IInv'
  <1>1. /\ lines' \in Seq(Line) /\ Len(lines') = Len(lines) + 1 /\ Len(lines') <= MaxLines
        /\ flags' \subseteq Flag /\ Len(lines) \in Nat /\ (IsSigned => IsSigned')
    BY Reading DEF IInv
  <1>2. pc' = "died" /\ UNCHANGED <<position, signed, signature, paragraph, visited>>
    BY DEF Die, armour
  <1>3. CounterInv'
    BY <1>1, <1>2 DEF IInv, CounterInv
  <1>4. QED BY <1>2, <1>3, NoParagraphs DEF IInv

\* A line that is counted, and changes neither the state of the signature nor
\* the loop that is in control.
LEMMA CountedInv ==
    ASSUME CounterInv, NEW l \in Line, Shift(l), Continue, UNCHANGED armour,
           pc' = pc \/ (pc \in {"headers", "signature"} /\ pc' = "paragraphs")
    PROVE  CounterInv' /\ UNCHANGED signed
  <1>1. /\ lines' \in Seq(Line) /\ Len(lines') = Len(lines) + 1 /\ Len(lines') <= MaxLines
        /\ flags' \subseteq Flag /\ Len(lines) \in Nat /\ (IsSigned => IsSigned')
    BY Reading
  <1>2. position' = position + 1 /\ UNCHANGED <<signed, signature>>
    BY DEF Continue, armour
  <1>3. position' \in 1..Len(lines') + 1
    BY <1>1, <1>2 DEF CounterInv
  <1>4. QED BY <1>1, <1>2, <1>3 DEF CounterInv

\* Every step keeps the invariant.
LEMMA NextInv == IInv /\ [Next]_vars => IInv'
  <1> SUFFICES ASSUME IInv, [Next]_vars PROVE IInv' OBVIOUS
  <1> USE DEF IInv
  <1>1. CASE Comment
    <2>1. PICK l \in Line : Turn(l) /\ (IF "DCTRL_NO_COMMENTS" \in flags THEN Die
                                       ELSE Continue /\ UNCHANGED <<pc, armour, paragraph, visited>>)
      BY <1>1 DEF Comment
    <2>2. CASE Die
      BY <2>1, <2>2, DieInv DEF Turn
    <2>3. CASE Continue /\ UNCHANGED <<pc, armour, paragraph, visited>>
      BY <2>1, <2>3, CountedInv, NoParagraphs DEF Turn
    <2>4. QED BY <2>1, <2>2, <2>3
  <1>2. CASE Blank
    <2>1. PICK l \in Line : Turn(l)
      BY <1>2 DEF Blank
    <2>2. Continue /\ UNCHANGED <<pc, armour, last_tag>>
      BY <1>2 DEF Blank
    <2>3. CounterInv' /\ UNCHANGED signed
      BY <2>1, <2>2, CountedInv DEF Turn
    <2>4. Len(lines) \in Nat /\ Len(lines') \in Nat /\ Len(lines) <= Len(lines')
      BY <2>1, Reading DEF Turn
    <2>5. CASE open_section
      <3>1. Visit
        BY <1>2, <2>5 DEF Blank
      <3>2. VisitedInv'
        BY <3>1, <2>3, <2>4, <2>5, PassedOn DEF Visit
      <3>3. OpenInv'
        BY <3>1, <2>2 DEF Visit, OpenInv
      <3>4. QED BY <2>3, <3>2, <3>3
    <2>6. CASE ~open_section
      <3>1. UNCHANGED <<paragraph, visited>>
        BY <1>2, <2>2, <2>6 DEF Blank, paragraph
      <3>2. QED BY <2>1, <2>3, <3>1, NoParagraphs DEF Turn
    <2>7. QED BY <2>5, <2>6 DEF OpenInv
  <1>3. CASE BeginSignature
    <2>1. PICK l \in Line : Turn(l) /\ (IF signed = 0 \/ signature > 0 THEN Die
             ELSE /\ signature' = position /\ pc' = "signature"
                  /\ UNCHANGED <<position, signed, paragraph, visited>>)
      BY <1>3 DEF BeginSignature
    <2>2. CASE signed = 0 \/ signature > 0
      BY <2>1, <2>2, DieInv DEF Turn
    <2>3. CASE ~(signed = 0 \/ signature > 0)
      <3>1. /\ lines' \in Seq(Line) /\ Len(lines') = Len(lines) + 1 /\ Len(lines') <= MaxLines
            /\ flags' \subseteq Flag /\ Len(lines) \in Nat /\ (IsSigned => IsSigned')
        BY <2>1, Reading DEF Turn
      <3>2. CounterInv'
        BY <2>1, <2>3, <3>1, Deb822Assumption DEF CounterInv
      <3>3. QED BY <2>1, <2>3, <3>2, NoParagraphs DEF Turn
    <2>4. QED BY <2>2, <2>3
  <1>4. CASE SkipSignature
    <2>1. PICK l \in Line : /\ Shift(l) /\ Continue /\ UNCHANGED <<armour, paragraph, visited>>
                            /\ pc = "signature" /\ (pc' = pc \/ pc' = "paragraphs")
      BY <1>4 DEF SkipSignature
    <2>2. QED BY <2>1, CountedInv, NoParagraphs
  <1>5. CASE OtherArmour
    BY <1>5, DieInv DEF OtherArmour, Turn
  <1>6. CASE BeginMessage
    <2>1. PICK l \in Line : /\ Turn(l) /\ l.kind = "BEGIN MESSAGE"
                            /\ IF signed > 0 \/ IsTrue(last_tag) THEN Die
                               ELSE /\ signed' = position /\ pc' = "headers"
                                    /\ UNCHANGED <<position, signature, paragraph, visited>>
      BY <1>6 DEF BeginMessage
    <2>2. CASE signed > 0 \/ IsTrue(last_tag)
      BY <2>1, <2>2, DieInv DEF Turn
    <2>3. CASE ~(signed > 0 \/ IsTrue(last_tag))
      <3>1. /\ lines' \in Seq(Line) /\ Len(lines') = Len(lines) + 1 /\ Len(lines') <= MaxLines
            /\ flags' \subseteq Flag /\ Len(lines) \in Nat /\ IsSigned'
        BY <2>1, Reading DEF Turn
      <3>2. signed' = position /\ pc' = "headers" /\ UNCHANGED <<position, signature, paragraph, visited>>
        BY <2>1, <2>3
      <3>3. signed' \in 1..MaxLines /\ position' \in 1..Len(lines') + 1
        BY <3>1, <3>2, Deb822Assumption DEF CounterInv
      <3>4. CounterInv' /\ (signed' = 0 => signed = 0)
        BY <3>1, <3>2, <3>3, Deb822Assumption DEF CounterInv
      <3>5. QED BY <2>1, <3>2, <3>4, NoParagraphs DEF Turn
    <2>4. QED BY <2>2, <2>3
  <1>7. CASE SkipHeaders
    <2>1. PICK l \in Line : /\ Shift(l) /\ Continue /\ UNCHANGED <<armour, paragraph, visited>>
                            /\ pc = "headers" /\ (pc' = pc \/ pc' = "paragraphs")
      BY <1>7 DEF SkipHeaders
    <2>2. QED BY <2>1, CountedInv, NoParagraphs
  <1>8. CASE AfterSignature
    <2>1. PICK l \in Line : Shift(l) /\ (\/ Continue /\ UNCHANGED <<pc, armour, paragraph, visited>>
                                         \/ Die)
      BY <1>8 DEF AfterSignature, Text, Turn
    <2>2. CASE Die
      BY <2>1, <2>2, DieInv
    <2>3. CASE Continue /\ UNCHANGED <<pc, armour, paragraph, visited>>
      BY <2>1, <2>3, CountedInv, NoParagraphs
    <2>4. QED BY <2>1, <2>2, <2>3
  <1>9. ASSUME NEW l \in Line, Turn(l), NEW f \in Field, StartField(f) PROVE IInv'
    <2>1. CounterInv' /\ UNCHANGED signed
      BY <1>9, CountedInv DEF Turn, StartField
    <2>2. OpenInv'
      BY <1>9, FieldStarts DEF Turn
    <2>3. Len(lines) \in Nat /\ Len(lines') \in Nat /\ Len(lines) <= Len(lines')
      BY <1>9, Reading DEF Turn
    <2>4. VisitedInv'
      BY <1>9, <2>1, <2>3, VisitedStays DEF StartField
    <2>5. QED BY <2>1, <2>2, <2>4
  <1>10. CASE EmptyField
    <2>1. PICK l \in Line : Turn(l) /\ l.kind = "empty field" /\ StartField(l.name)
      BY <1>10 DEF EmptyField, Text
    <2>2. l.name \in Field
      BY <2>1 DEF Line, Marker
    <2>3. QED BY <1>9, <2>1, <2>2
  <1>11. CASE NewField
    <2>1. PICK l \in Line : Turn(l) /\ l.kind = "field" /\ (Die \/ StartField(l.name))
      BY <1>11 DEF NewField, Text
    <2>2. l.name \in Field
      BY <2>1 DEF Line, Marker
    <2>3. CASE Die
      BY <2>1, <2>3, DieInv DEF Turn
    <2>4. QED BY <1>9, <2>1, <2>2, <2>3
  <1>12. CASE Continued
    <2>1. PICK l \in Line : Turn(l) /\ (IF ~open_section THEN Die ELSE
             /\ section' = Store(section, last_tag, section[last_tag] \cup {Number})
             /\ Continue /\ UNCHANGED <<pc, armour, last_tag, open_section, field_starts, visited>>)
      BY <1>12 DEF Continued, Text
    <2>2. CASE ~open_section
      BY <2>1, <2>2, DieInv DEF Turn
    <2>3. CASE open_section
      <3>1. CounterInv' /\ UNCHANGED signed
        BY <2>1, <2>3, CountedInv DEF Turn
      <3>2. OpenInv'
        BY <2>1, <2>3, FieldContinues DEF Turn
      <3>3. Len(lines) \in Nat /\ Len(lines') \in Nat /\ Len(lines) <= Len(lines')
        BY <2>1, Reading DEF Turn
      <3>4. VisitedInv'
        BY <2>1, <2>3, <3>1, <3>3, VisitedStays
      <3>5. QED BY <3>1, <3>2, <3>4
    <2>4. QED BY <2>2, <2>3
  <1>13. CASE SyntaxError
    BY <1>13, DieInv DEF SyntaxError, Text, Turn
  <1>14. CASE EndOfFile
    <2>1. /\ UNCHANGED <<flags, lines, position, armour, paragraph, signed>>
          /\ pc' \in {"done", "died"}
      BY <1>14 DEF EndOfFile, armour
    <2>2. Len(lines) \in Nat /\ Len(lines') \in Nat /\ Len(lines) <= Len(lines')
      BY <2>1, LenProperties DEF CounterInv
    <2>3. CounterInv'
      BY <2>1 DEF CounterInv, armour, IsSigned, Of
    <2>4. OpenInv'
      BY <2>1, <2>2, OpenStays
    <2>5. VisitedInv'
      <3>1. CASE open_section
        BY <1>14, <2>1, <2>2, <3>1, PassedOn DEF EndOfFile
      <3>2. CASE ~open_section
        BY <1>14, <2>1, <2>2, <3>2, VisitedStays DEF EndOfFile
      <3>3. QED BY <3>1, <3>2
    <2>6. QED BY <2>3, <2>4, <2>5
  <1>15. ASSUME UNCHANGED <<flags, lines, position, armour, paragraph, visited>>, pc' \in {pc, "died"}
         PROVE  IInv'
    <2>1. Len(lines) \in Nat /\ Len(lines') \in Nat /\ Len(lines) <= Len(lines') /\ UNCHANGED signed
      BY <1>15, LenProperties DEF CounterInv, armour
    <2>2. CounterInv'
      BY <1>15 DEF CounterInv, armour, IsSigned, Of
    <2>3. QED BY <1>15, <2>1, <2>2, OpenStays, VisitedStays
  <1>16. CASE EndInSignature
    BY <1>15, <1>16 DEF EndInSignature, Die
  <1>17. CASE Terminated
    BY <1>15, <1>17 DEF Terminated, vars
  <1>18. CASE UNCHANGED vars
    BY <1>15, <1>18 DEF vars
  <1>19. QED
    BY <1>1, <1>2, <1>3, <1>4, <1>5, <1>6, <1>7, <1>8, <1>10, <1>11, <1>12, <1>13, <1>14,
       <1>16, <1>17, <1>18 DEF Next

-----------------------------------------------------------------------------
LEMMA FirstExists ==
    ASSUME NEW S \in SUBSET Nat, S # {} PROVE \E m \in S : \A i \in S : m <= i
  <1>1. PICK m \in S : \A i \in S : ~(<<i, m>> \in OpToRel(<, Nat))
    BY NatLessThanWellFounded, WFMin
  <1>2. \A i \in S : ~(i < m)
    BY <1>1 DEF OpToRel
  <1>3. QED BY <1>2

LEMMA FirstIsLeast ==
    ASSUME NEW S \in SUBSET Nat, NEW m \in S, \A i \in S : m <= i PROVE First(S) = m
  <1>1. \E i \in S : \A j \in S : i <= j
    OBVIOUS
  <1>2. First(S) \in S /\ \A j \in S : First(S) <= j
    BY <1>1, Zenon DEF First
  <1>3. First(S) <= m /\ m <= First(S) /\ First(S) \in Nat
    BY <1>2
  <1>4. QED BY <1>3

LEMMA PositionsFollow == IInv => PositionsUnlessSigned
  <1> SUFFICES ASSUME IInv, ~IsSigned, NEW k \in DOMAIN visited, NEW f \in DOMAIN visited[k][1]
               PROVE  visited[k][2][f] = First(visited[k][1][f])
    BY DEF PositionsUnlessSigned, RightPosition
  <1>1. signed = 0 /\ Recorded(visited[k][1], visited[k][2])
    BY DEF IInv, CounterInv, VisitedInv
  <1> DEFINE value == visited[k][1][f]
             start == visited[k][2][f]
  <1>2. value \subseteq 1..Len(lines) /\ start \in value /\ \A i \in value : start <= i
    BY <1>1 DEF Recorded
  <1>3. value \subseteq Nat
    BY <1>2, LenProperties DEF IInv, CounterInv
  <1> HIDE DEF value, start
  <1>4. start = First(value)
    BY <1>2, <1>3, FirstIsLeast
  <1>5. QED BY <1>4 DEF value, start

LEMMA TypesFollow == IInv => TypeOK
  <1> SUFFICES ASSUME IInv PROVE TypeOK OBVIOUS
  <1>1. DOMAIN lines = 1..Len(lines) /\ Len(lines) \in Nat
    BY LenProperties DEF IInv, CounterInv
  <1>2. position \in 1..MaxLines + 1
    BY <1>1, Deb822Assumption DEF IInv, CounterInv
  <1>3. (open_section <=> DOMAIN section # {}) /\ (open_section => last_tag \in DOMAIN section)
    BY NothingIsTable DEF IInv, OpenInv, Recorded
  <1>4. \A f \in DOMAIN section : section[f] \subseteq DOMAIN lines
    BY <1>1, NothingIsTable DEF IInv, OpenInv, Recorded
  <1>5. ASSUME NEW k \in DOMAIN visited
        PROVE  /\ DOMAIN visited[k][1] # {} /\ DOMAIN visited[k][1] \subseteq Field
               /\ DOMAIN visited[k][2] = DOMAIN visited[k][1]
               /\ \A f \in DOMAIN visited[k][1] : visited[k][1][f] \subseteq DOMAIN lines
    <2>1. Recorded(visited[k][1], visited[k][2])
      BY DEF IInv, VisitedInv
    <2>2. QED BY <2>1, <1>1 DEF Recorded, Table
  <1>6. \A s \in Paragraphs \cup {section} : \A f \in DOMAIN s : s[f] \subseteq DOMAIN lines
    BY <1>4, <1>5 DEF Paragraphs
  <1>7. QED
    BY <1>2, <1>3, <1>5, <1>6 DEF IInv, CounterInv, OpenInv, TypeOK

\* Whatever the file, however long: the tables of the parser are tables of
\* fields whose values are lines that were read, and a continuation line finds
\* the field that it continues.
THEOREM TypesHold == Spec => []TypeOK
  <1>1. Spec => []IInv
    BY InitInv, NextInv, PTL DEF Spec
  <1>2. QED BY <1>1, TypesFollow, PTL

\* In every file without a signed message the position of each field is the
\* number of the line where it starts.
THEOREM PositionsHold == Spec => []PositionsUnlessSigned
  <1>1. Spec => []IInv
    BY InitInv, NextInv, PTL DEF Spec
  <1>2. QED BY <1>1, PositionsFollow, PTL

-----------------------------------------------------------------------------
(***************************************************************************)
(* The lines and the paragraphs.  What the properties say of a whole file  *)
(* with First, said of a part that was read: StageInv follows the message, *)
(* its headers and its signature by the lines that begin and end them, and *)
(* says that all content in the text so far, and nothing else, is in a     *)
(* value; BlockInv says where paragraphs are cut.                          *)
(***************************************************************************)
Quiet == {"empty", "space", "comment"}
FieldKinds == {"field", "empty field"}
ContentKinds == {"field", "empty field", "indented"}
MessageBegin == {"BEGIN MESSAGE"}
HeadersEnd == {"empty", "space"}
SignatureBegin == {"BEGIN SIGNATURE"}
SignatureClose == {"END SIGNATURE"}
Begin == MessageBegin \cup SignatureBegin

\* m is the first line after a that is one of K; there is none.
Mark(a, K, m) ==
    /\ m \in DOMAIN lines /\ a < m /\ lines[m].kind \in K
    /\ \A i \in DOMAIN lines : a < i /\ i < m => lines[i].kind \notin K
Without(a, K) == \A i \in DOMAIN lines : a < i => lines[i].kind \notin K
QuietBefore(n) == \A i \in DOMAIN lines : i < n => lines[i].kind \in Quiet
QuietAfter(n) == \A i \in DOMAIN lines : n < i => lines[i].kind \in Quiet

\* What was passed to the handler, and what is collected for it.
Sections == Paragraphs \cup {section}

\* f is the last field named up to line i.
Owned(i, f) ==
    \E j \in 1..i : /\ lines[j].kind \in FieldKinds /\ lines[j].name = f
                    /\ \A k \in j + 1..i : lines[k].kind \notin FieldKinds
Replaced(i, f, z) ==
    \E j \in DOMAIN lines : /\ i < j /\ j < z /\ lines[j].kind = "empty field" /\ lines[j].name = f
                            /\ ~Cut(i, j)
Placed(i, z) ==
    \E f \in Field : /\ Owned(i, f)
                     /\ \/ \E s \in Sections : f \in DOMAIN s /\ i \in s[f]
                        \/ Replaced(i, f, z)

\* The values are made of lines between a and z, and all content there is in its place.
Kept(a, z) ==
    /\ \A s \in Sections : \A i \in Used(s) : a < i /\ i < z
    /\ \A i \in DOMAIN lines : a < i /\ i < z /\ lines[i].kind \in ContentKinds => Placed(i, z)

\* What is read of the file, by what it says.
Plain ==
    /\ signed = 0 /\ signature = 0 /\ pc \in {"paragraphs", "done"}
    /\ Without(0, MessageBegin) /\ Kept(0, Len(lines) + 1)
    /\ last_tag = NoField => QuietAfter(0)
Begun(b) == signed > 0 /\ Mark(0, MessageBegin, b) /\ QuietBefore(b)
InHeaders(b) ==
    /\ Begun(b) /\ signature = 0 /\ pc = "headers" /\ Without(b, HeadersEnd)
    /\ visited = <<>> /\ ~open_section
InMessage(b, t) ==
    /\ Begun(b) /\ signature = 0 /\ pc = "paragraphs" /\ Mark(b, HeadersEnd, t)
    /\ Without(t, SignatureBegin) /\ Kept(t, Len(lines) + 1)
Ended(b, t, e) ==
    /\ Begun(b) /\ signature > 0 /\ Mark(b, HeadersEnd, t) /\ Mark(t, SignatureBegin, e)
    /\ Kept(t, e)
InSignature(b, t, e) == Ended(b, t, e) /\ pc = "signature" /\ Without(e, SignatureClose)
After(b, t, e, x) ==
    /\ Ended(b, t, e) /\ pc \in {"paragraphs", "done"} /\ Mark(e, SignatureClose, x) /\ QuietAfter(x)

StageInv ==
    pc # "died" =>
       \/ Plain
       \/ \E b \in DOMAIN lines : InHeaders(b)
       \/ \E b, t \in DOMAIN lines : InMessage(b, t)
       \/ \E b, t, e \in DOMAIN lines : InSignature(b, t, e)
       \/ \E b, t, e, x \in DOMAIN lines : After(b, t, e, x)

\* The last tag is that of the open paragraph's last field.
TagInv ==
    /\ last_tag = NoField => visited = <<>>
    /\ pc = "paragraphs" /\ open_section /\ signature = 0 => Owned(Len(lines), last_tag)
    /\ pc = "done" /\ open_section => section \in Paragraphs

Whole(S) == \A i, j \in S : i < j => ~Cut(i, j)
Apart(S, T) == \A i \in S, j \in T : Cut(i, j)
Part(k) == Used(visited[k][1])
Going == pc \notin {"done", "died"}
BlockInv ==
    /\ \A k \in DOMAIN visited : Whole(Part(k))
    /\ \A k, m \in DOMAIN visited : k < m => Apart(Part(k), Part(m))
    /\ Going => /\ Whole(Used(section))
                /\ \A k \in DOMAIN visited : Apart(Part(k), Used(section))
                /\ \A k \in DOMAIN visited : \A i \in Part(k) : Cut(i, Len(lines))
    /\ Going /\ signature = 0 => \A i \in Used(section) : ~Cut(i, Len(lines))

TextInv == StageInv /\ TagInv /\ BlockInv

-----------------------------------------------------------------------------
\* What a line more leaves of the lines before it.
LEMMA Longer ==
    ASSUME CounterInv, NEW l \in Line, Shift(l)
    PROVE  /\ Len(lines) \in Nat /\ DOMAIN lines = 1..Len(lines)
           /\ DOMAIN lines' = 1..Len(lines) + 1 /\ Len(lines') = Len(lines) + 1
           /\ \A i \in 1..Len(lines) : lines'[i] = lines[i]
           /\ lines'[Len(lines) + 1] = l /\ flags' = flags
  <1>1. /\ lines' \in Seq(Line) /\ Len(lines') = Len(lines) + 1 /\ Len(lines) \in Nat
        /\ \A i \in 1..Len(lines) : lines'[i] = lines[i]
        /\ lines'[Len(lines) + 1] = l /\ flags' = flags
    BY AppendProperties, LenProperties DEF CounterInv, Shift
  <1>2. QED BY <1>1, LenProperties DEF CounterInv

LEMMA MarkStays ==
    ASSUME CounterInv, NEW l \in Line, Shift(l), NEW a \in Nat, NEW K, NEW m, Mark(a, K, m)
    PROVE  Mark(a, K, m)'
  BY Longer DEF Mark

LEMMA MarkNew ==
    ASSUME CounterInv, NEW l \in Line, Shift(l), NEW a \in Nat, NEW K, Without(a, K), l.kind \in K,
           NEW n, n = Len(lines) + 1, a < n
    PROVE  Mark(a, K, n)'
  BY Longer DEF Mark, Without

LEMMA WithoutStays ==
    ASSUME CounterInv, NEW l \in Line, Shift(l), NEW a \in Nat, NEW K, Without(a, K), l.kind \notin K
    PROVE  Without(a, K)'
  <1>1. \A i \in 1..Len(lines) + 1 : i \in 1..Len(lines) \/ i = Len(lines) + 1
    BY Longer
  <1>2. QED BY <1>1, Longer DEF Without

LEMMA WithoutNew ==
    ASSUME CounterInv, NEW l \in Line, Shift(l), NEW K, NEW n, n = Len(lines) + 1
    PROVE  Without(n, K)' /\ QuietAfter(n)'
  BY Longer DEF Without, QuietAfter

LEMMA QuietStays ==
    ASSUME CounterInv, NEW l \in Line, Shift(l), NEW a \in Nat
    PROVE  /\ QuietBefore(a) /\ a \in DOMAIN lines => QuietBefore(a)'
           /\ QuietAfter(a) /\ l.kind \in Quiet => QuietAfter(a)'
  <1>1. \A i \in 1..Len(lines) + 1 : i \in 1..Len(lines) \/ i = Len(lines) + 1
    BY Longer
  <1>2. QuietBefore(a) /\ a \in DOMAIN lines => QuietBefore(a)'
    BY <1>1, Longer DEF QuietBefore
  <1>3. QuietAfter(a) /\ l.kind \in Quiet => QuietAfter(a)'
    BY <1>1, Longer DEF QuietAfter
  <1>4. QED BY <1>2, <1>3

\* Where paragraphs are cut.
Separates(l) == \/ l.kind \in {"empty", "BEGIN MESSAGE", "BEGIN SIGNATURE"}
                \/ l.kind = "space" /\ "DCTRL_DEBCONF_TEMPLATE" \notin flags
CutAt(k) == Separates(lines[k])

LEMMA CutsStay ==
    ASSUME CounterInv, NEW l \in Line, Shift(l), NEW n, n = Len(lines) + 1, NEW i \in 1..Len(lines)
    PROVE  /\ \A j \in 1..Len(lines) : Cut(i, j)' <=> Cut(i, j)
           /\ Cut(i, Len(lines)) => Cut(i, n)'
           /\ Separates(l) => Cut(i, n)'
           /\ ~Separates(l) /\ ~Cut(i, Len(lines)) => ~Cut(i, n)'
  <1>1. \A k \in 1..Len(lines) : CutAt(k)' <=> CutAt(k)
    BY Longer DEF CutAt, Separates
  <1>2. CutAt(n)' <=> Separates(l)
    BY Longer DEF CutAt, Separates
  <1>3. \A j : Cut(i, j) <=> \E k \in i..j : CutAt(k)
    BY DEF Cut, CutAt, Separates
  <1>4. \A j : Cut(i, j)' <=> \E k \in i..j : CutAt(k)'
    BY DEF Cut, CutAt, Separates
  <1>5. Len(lines) \in Nat /\ \A k \in i..n : k \in i..Len(lines) \/ k = n
    BY Longer
  <1>6. \A j \in 1..Len(lines) : i..j \subseteq 1..Len(lines)
    OBVIOUS
  <1>7. \A j \in 1..Len(lines) : Cut(i, j)' <=> Cut(i, j)
    BY <1>1, <1>3, <1>4, <1>6
  <1>8. i..Len(lines) \subseteq i..n /\ n \in i..n /\ Len(lines) \in 1..Len(lines)
    BY <1>5
  <1>9. Cut(i, n)' <=> Cut(i, Len(lines)) \/ Separates(l)
    BY <1>1, <1>2, <1>3, <1>4, <1>5, <1>6, <1>8
  <1>10. QED BY <1>7, <1>9

LEMMA NewLineNotCut ==
    ASSUME CounterInv, NEW l \in Line, Shift(l), NEW n, n = Len(lines) + 1, ~Separates(l)
    PROVE  ~Cut(n, n)'
  <1>1. n \in Nat /\ lines'[n] = l /\ flags' = flags
    BY Longer
  <1>2. ~CutAt(n)'
    BY <1>1 DEF CutAt, Separates
  <1>3. Cut(n, n)' <=> \E k \in n..n : CutAt(k)'
    BY DEF Cut, CutAt, Separates
  <1>4. QED BY <1>1, <1>2, <1>3

\* The values of a paragraph are made of lines that were read.
LEMMA UsedLines ==
    ASSUME IInv
    PROVE  /\ \A s \in Sections : Used(s) \subseteq 1..Len(lines)
           /\ \A k \in DOMAIN visited : Part(k) \subseteq 1..Len(lines) /\ visited[k][1] \in Sections
  <1>1. ASSUME NEW s, NEW starts, Recorded(s, starts) PROVE Used(s) \subseteq 1..Len(lines)
    BY <1>1 DEF Recorded, Used
  <1>2. \A k \in DOMAIN visited : Part(k) \subseteq 1..Len(lines) /\ visited[k][1] \in Sections
    BY <1>1 DEF IInv, VisitedInv, Part, Sections, Paragraphs
  <1>3. Used(section) \subseteq 1..Len(lines)
    <2>1. CASE open_section
      BY <1>1, <2>1 DEF IInv, OpenInv
    <2>2. CASE ~open_section
      BY <2>2 DEF IInv, OpenInv, Used, Nothing
    <2>3. QED BY <2>1, <2>2 DEF IInv, OpenInv
  <1>4. QED BY <1>2, <1>3 DEF Sections, Paragraphs, Part

LEMMA OwnedStays ==
    ASSUME CounterInv, NEW l \in Line, Shift(l), NEW i \in 1..Len(lines), NEW f, Owned(i, f)
    PROVE  Owned(i, f)'
  BY Longer DEF Owned

LEMMA OwnedNew ==
    ASSUME CounterInv, NEW l \in Line, Shift(l), NEW n, n = Len(lines) + 1, NEW f
    PROVE  /\ l.kind \in FieldKinds /\ l.name = f => Owned(n, f)'
           /\ l.kind \notin FieldKinds /\ Owned(Len(lines), f) => Owned(n, f)'
  <1>1. ASSUME l.kind \in FieldKinds, l.name = f PROVE Owned(n, f)'
    <2>1. n \in 1..n /\ lines'[n] = l /\ n + 1..n = {}
      BY Longer
    <2>2. QED BY <1>1, <2>1 DEF Owned
  <1>2. ASSUME l.kind \notin FieldKinds, Owned(Len(lines), f) PROVE Owned(n, f)'
    <2>1. PICK j \in 1..Len(lines) :
             /\ lines[j].kind \in FieldKinds /\ lines[j].name = f
             /\ \A k \in j + 1..Len(lines) : lines[k].kind \notin FieldKinds
      BY <1>2 DEF Owned
    <2>2. j \in 1..n /\ lines'[j] = lines[j]
      BY Longer
    <2>3. ASSUME NEW k \in j + 1..n PROVE lines'[k].kind \notin FieldKinds
      <3>1. k = n \/ (k \in j + 1..Len(lines) /\ k \in 1..Len(lines))
        <4>1. Len(lines) \in Nat
          BY Longer
        <4>2. QED BY <4>1
      <3>2. QED BY <1>2, <2>1, <3>1, Longer
    <2>4. QED BY <2>1, <2>2, <2>3 DEF Owned
  <1>3. QED BY <1>1, <1>2

\* Paragraphs are passed on, not changed.
SameSections ==
    /\ Sections \subseteq Sections'
    /\ \A s \in Sections' : s \in Sections \/ Used(s) = {}

LEMMA Unchanged == ASSUME UNCHANGED <<section, visited>> PROVE SameSections
  BY DEF SameSections, Sections, Paragraphs

LEMMA Passing ==
    ASSUME IInv, visited' = Append(visited, <<section, field_starts>>)
    PROVE  /\ DOMAIN visited = 1..Len(visited) /\ DOMAIN visited' = 1..Len(visited) + 1
           /\ Len(visited) \in Nat /\ Paragraphs' = Sections
           /\ \A k \in 1..Len(visited) : Part(k)' = Part(k)
           /\ \A k : k = Len(visited) + 1 => Part(k)' = Used(section)
  <1>1. visited \in Seq(Table(SUBSET Nat) \X Table(Nat)) /\ Len(visited) \in Nat
    BY LenProperties DEF IInv, VisitedInv
  <1> DEFINE entry == <<section, field_starts>>
  <1>2. /\ DOMAIN visited = 1..Len(visited) /\ DOMAIN visited' = 1..Len(visited) + 1
        /\ \A k \in 1..Len(visited) : visited'[k] = visited[k]
        /\ visited'[Len(visited) + 1] = entry
    BY <1>1
  <1>3. entry[1] = section
    OBVIOUS
  <1> HIDE DEF entry
  <1>4. \A k \in 1..Len(visited) + 1 : k \in 1..Len(visited) \/ k = Len(visited) + 1
    BY <1>1
  <1>5. Paragraphs' = Sections
    BY <1>1, <1>2, <1>3, <1>4 DEF Paragraphs, Sections
  <1>6. QED BY <1>1, <1>2, <1>3, <1>5 DEF Part

LEMMA Closing ==
    ASSUME IInv, visited' = Append(visited, <<section, field_starts>>), section' = Nothing
    PROVE  SameSections
  <1>1. Sections' = Sections \cup {Nothing}
    BY Passing DEF Sections
  <1>2. Used(Nothing) = {}
    BY DEF Used, Nothing
  <1>3. QED BY <1>1, <1>2 DEF SameSections

LEMMA ReplacedStays ==
    ASSUME IInv, NEW l \in Line, Shift(l), NEW i \in 1..Len(lines), NEW f,
           NEW z \in Nat, NEW y \in Nat, z <= y, Replaced(i, f, z)
    PROVE  Replaced(i, f, y)'
  <1>1. PICK j \in DOMAIN lines : /\ i < j /\ j < z /\ lines[j].kind = "empty field"
                                  /\ lines[j].name = f /\ ~Cut(i, j)
    BY DEF Replaced
  <1>2. /\ Len(lines) \in Nat /\ DOMAIN lines = 1..Len(lines) /\ DOMAIN lines' = 1..Len(lines) + 1
        /\ \A k \in 1..Len(lines) : lines'[k] = lines[k]
    BY Longer DEF IInv
  <1>3. j \in 1..Len(lines) /\ j \in DOMAIN lines' /\ lines'[j] = lines[j]
    BY <1>2
  <1>4. j < y
    <2>1. j < z
      BY <1>1
    <2>2. QED BY <1>3, <2>1
  <1>5. ~Cut(i, j)'
    <2>1. PICK n : n = Len(lines) + 1
      OBVIOUS
    <2>2. QED BY <1>1, <1>3, <2>1, CutsStay DEF IInv
  <1>6. QED BY <1>1, <1>3, <1>4, <1>5 DEF Replaced

LEMMA PlacedStays ==
    ASSUME IInv, NEW l \in Line, Shift(l), SameSections, NEW i \in 1..Len(lines),
           NEW z \in Nat, NEW y \in Nat, z <= y, Placed(i, z)
    PROVE  Placed(i, y)'
  <1>1. PICK f \in Field : /\ Owned(i, f)
                           /\ \/ \E s \in Sections : f \in DOMAIN s /\ i \in s[f]
                              \/ Replaced(i, f, z)
    BY DEF Placed
  <1>2. Owned(i, f)'
    BY <1>1, OwnedStays DEF IInv
  <1>3. ASSUME NEW s \in Sections, f \in DOMAIN s, i \in s[f] PROVE s \in Sections'
    BY DEF SameSections
  <1>4. QED BY <1>1, <1>2, <1>3, ReplacedStays DEF Placed

\* The text that is read so far, when no line is added to it.
LEMMA KeptStays ==
    ASSUME IInv, NEW l \in Line, Shift(l), SameSections, NEW a \in Nat, NEW z \in Nat,
           z <= Len(lines) + 1, Kept(a, z)
    PROVE  Kept(a, z)'
  <1>1. \A s \in Sections' : \A i \in Used(s) : a < i /\ i < z
    BY DEF Kept, SameSections
  <1>2. ASSUME NEW i \in DOMAIN lines', a < i, i < z, lines'[i].kind \in ContentKinds
        PROVE  Placed(i, z)'
    <2>1. i \in 1..Len(lines) /\ lines'[i] = lines[i] /\ i \in DOMAIN lines
      BY <1>2, Longer DEF IInv
    <2>2. Placed(i, z)
      BY <1>2, <2>1 DEF Kept
    <2>3. QED BY <2>1, <2>2, PlacedStays
  <1>3. QED BY <1>1, <1>2 DEF Kept

\* A line is added that has no content.
LEMMA KeptGrows ==
    ASSUME IInv, NEW l \in Line, Shift(l), SameSections, NEW a \in Nat,
           Kept(a, Len(lines) + 1), l.kind \notin ContentKinds
    PROVE  Kept(a, Len(lines) + 1)'
  <1>1. PICK z \in Nat : z = Len(lines) + 1
    BY Longer DEF IInv
  <1>2. PICK y \in Nat : y = Len(lines') + 1
    BY Longer DEF IInv
  <1>3. z <= y /\ y = z + 1 /\ Kept(a, z)
    BY <1>1, <1>2, Longer DEF IInv
  <1>4. \A s \in Sections' : \A i \in Used(s) : a < i /\ i < y
    <2>1. \A s \in Sections : \A i \in Used(s) : i \in 1..Len(lines)
      BY UsedLines
    <2>2. QED BY <1>1, <1>3, <2>1 DEF Kept, SameSections
  <1>5. ASSUME NEW i \in DOMAIN lines', a < i, i < y, lines'[i].kind \in ContentKinds
        PROVE  Placed(i, y)'
    <2>1. i \in 1..Len(lines) /\ lines'[i] = lines[i] /\ i \in DOMAIN lines /\ i < z
      BY <1>1, <1>5, Longer DEF IInv
    <2>2. Placed(i, z)
      BY <1>3, <1>5, <2>1 DEF Kept
    <2>3. QED BY <1>1, <1>3, <2>1, <2>2, PlacedStays
  <1>6. Kept(a, y)'
    BY <1>4, <1>5 DEF Kept
  <1>7. QED BY <1>2, <1>6

\* Only an empty field may be one that the paragraph has.
Names(l, f) == /\ l.kind \in FieldKinds /\ l.name = f
               /\ f \in DOMAIN section => l.kind = "empty field"

\* A field is added, which may take the place of an earlier one of its name.
LEMMA KeptField ==
    ASSUME IInv, BlockInv, NEW l \in Line, Shift(l), NEW f \in Field, StartField(f),
           Going, signature = 0, Names(l, f),
           NEW a \in Nat, a <= Len(lines), Kept(a, Len(lines) + 1)
    PROVE  Kept(a, Len(lines) + 1)'
  <1>0. Len(lines) \in Nat
    BY Longer DEF IInv
  <1>1. PICK n \in Nat : n = Len(lines) + 1 /\ Len(lines) = n - 1
    BY <1>0
  <1>2. /\ Len(lines) \in Nat /\ DOMAIN lines = 1..Len(lines) /\ DOMAIN lines' = 1..Len(lines) + 1
        /\ \A k \in 1..Len(lines) : lines'[k] = lines[k]
        /\ lines'[n] = l /\ Len(lines') = n
    BY <1>1, Longer DEF IInv
  <1>3. /\ DOMAIN section' = DOMAIN section \cup {f} /\ section'[f] = {n}
        /\ \A g \in DOMAIN section : g # f => section'[g] = section[g]
    BY <1>1 DEF StartField, Store, Number
  <1>4. Paragraphs' = Paragraphs
    BY DEF StartField, Paragraphs
  <1>5. ASSUME NEW i \in Used(section') PROVE i \in Used(section) \/ i = n
    <2>1. PICK g \in DOMAIN section' : i \in section'[g]
      BY DEF Used
    <2>2. i = n \/ (g \in DOMAIN section /\ i \in section[g])
      BY <1>3, <2>1
    <2>3. QED BY <2>2 DEF Used
  <1>6. \A s \in Sections : Used(s) \subseteq 1..Len(lines)
    BY UsedLines
  <1>7. ASSUME NEW s \in Sections', NEW i \in Used(s) PROVE a < i /\ i < n + 1
    <2>1. i = n \/ \E r \in Sections : i \in Used(r)
      BY <1>4, <1>5, <1>7 DEF Sections
    <2>2. (\E r \in Sections : i \in Used(r)) => i \in 1..Len(lines) /\ a < i
      BY <1>6 DEF Kept
    <2>3. QED BY <1>0, <1>1, <2>1, <2>2
  <1>8. ASSUME NEW i \in DOMAIN lines', a < i, i < n + 1, lines'[i].kind \in ContentKinds
        PROVE  Placed(i, n + 1)'
    <2>1. CASE i = n
      <3>1. Owned(n, f)'
        BY <1>1, OwnedNew DEF IInv, Names
      <3>2. section' \in Sections' /\ f \in DOMAIN section' /\ n \in section'[f]
        BY <1>3 DEF Sections
      <3>3. QED BY <2>1, <3>1, <3>2 DEF Placed
    <2>2. CASE i # n
      <3>0. i \in 1..Len(lines) /\ i < n
        BY <1>0, <1>1, <1>2, <2>2
      <3>1. i \in 1..Len(lines) /\ lines'[i] = lines[i] /\ i < n
        BY <1>2, <3>0
      <3>2. Placed(i, n)
        BY <1>1, <1>2, <1>8, <3>1 DEF Kept
      <3>3. PICK g \in Field : /\ Owned(i, g)
                               /\ \/ \E s \in Sections : g \in DOMAIN s /\ i \in s[g]
                                  \/ Replaced(i, g, n)
        BY <3>2 DEF Placed
      <3>4. Owned(i, g)'
        BY <3>1, <3>3, OwnedStays DEF IInv
      <3>5. CASE Replaced(i, g, n)
        <4>1. Replaced(i, g, n + 1)'
          <5>1. n + 1 \in Nat /\ n <= n + 1
            OBVIOUS
          <5>2. QED BY <3>1, <3>5, <5>1, ReplacedStays
        <4>2. QED BY <3>4, <4>1 DEF Placed
      <3>6. CASE \E s \in Paragraphs : g \in DOMAIN s /\ i \in s[g]
        BY <1>4, <3>4, <3>6 DEF Placed, Sections
      <3>7. CASE g \in DOMAIN section /\ i \in section[g] /\ g # f
        BY <1>3, <3>4, <3>7 DEF Placed, Sections
      <3>8. CASE g \in DOMAIN section /\ i \in section[g] /\ g = f
        <4>1. i \in Used(section)
          BY <3>8 DEF Used
        <4>2. ~Cut(i, Len(lines)) /\ ~Separates(l)
          BY <3>8, <4>1 DEF BlockInv, Separates, FieldKinds, Names
        <4>3. ~Cut(i, n)'
          BY <1>1, <3>1, <4>2, CutsStay DEF IInv
        <4>4. n \in DOMAIN lines' /\ i < n /\ n < n + 1 /\ lines'[n] = l
          BY <1>0, <1>1, <1>2, <3>1
        <4>5. l.kind = "empty field" /\ l.name = g
          BY <3>8 DEF Names
        <4>6. Replaced(i, g, n + 1)'
          BY <4>3, <4>4, <4>5 DEF Replaced
        <4>7. QED BY <3>4, <4>6 DEF Placed
      <3>9. QED BY <3>3, <3>5, <3>6, <3>7, <3>8 DEF Sections
    <2>3. QED BY <2>1, <2>2
  <1>9. Kept(a, n + 1)'
    BY <1>7, <1>8 DEF Kept
  <1>10. QED BY <1>2, <1>9

\* A value is continued: it is that of the last field named.
LEMMA KeptContinues ==
    ASSUME IInv, TagInv, NEW l \in Line, Shift(l), pc = "paragraphs", open_section, signature = 0,
           section' = Store(section, last_tag, section[last_tag] \cup {Number}),
           UNCHANGED visited, l.kind = "indented",
           NEW a \in Nat, a <= Len(lines), Kept(a, Len(lines) + 1)
    PROVE  Kept(a, Len(lines) + 1)'
  <1>0. Len(lines) \in Nat
    BY Longer DEF IInv
  <1>1. PICK n \in Nat : n = Len(lines) + 1 /\ Len(lines) = n - 1
    BY <1>0
  <1>2. /\ Len(lines) \in Nat /\ DOMAIN lines = 1..Len(lines) /\ DOMAIN lines' = 1..Len(lines) + 1
        /\ \A k \in 1..Len(lines) : lines'[k] = lines[k]
        /\ lines'[n] = l /\ Len(lines') = n
    BY <1>1, Longer DEF IInv
  <1>3. last_tag \in DOMAIN section /\ last_tag \in Field
    BY DEF IInv, OpenInv, Recorded, Table
  <1>4. /\ DOMAIN section' = DOMAIN section /\ section'[last_tag] = section[last_tag] \cup {n}
        /\ \A g \in DOMAIN section : g # last_tag => section'[g] = section[g]
    BY <1>1, <1>3 DEF Store, Number
  <1>5. Paragraphs' = Paragraphs
    BY DEF Paragraphs
  <1>6. \A i \in Used(section') : i \in Used(section) \/ i = n
    BY <1>3, <1>4 DEF Used
  <1>7. \A s \in Sections : Used(s) \subseteq 1..Len(lines)
    BY UsedLines
  <1>8. ASSUME NEW s \in Sections', NEW i \in Used(s) PROVE a < i /\ i < n + 1
    <2>1. i = n \/ \E r \in Sections : i \in Used(r)
      BY <1>5, <1>6, <1>8 DEF Sections
    <2>2. (\E r \in Sections : i \in Used(r)) => i \in 1..Len(lines) /\ a < i
      BY <1>7 DEF Kept
    <2>3. QED BY <1>0, <1>1, <2>1, <2>2
  <1>9. ASSUME NEW i \in DOMAIN lines', a < i, i < n + 1, lines'[i].kind \in ContentKinds
        PROVE  Placed(i, n + 1)'
    <2>1. CASE i = n
      <3>1. Owned(Len(lines), last_tag)
        BY DEF TagInv
      <3>2. PICK f \in Field : f = last_tag
        BY <1>3
      <3>3. Owned(n, f)'
        BY <1>1, <3>1, <3>2, OwnedNew DEF IInv, FieldKinds
      <3>4. section' \in Sections' /\ f \in DOMAIN section' /\ n \in section'[f]
        BY <1>3, <1>4, <3>2 DEF Sections
      <3>5. QED BY <2>1, <3>3, <3>4 DEF Placed
    <2>2. CASE i # n
      <3>0. i \in 1..Len(lines) /\ i < n
        BY <1>0, <1>1, <1>2, <2>2
      <3>1. i \in 1..Len(lines) /\ lines'[i] = lines[i] /\ i < n
        BY <1>2, <3>0
      <3>2. Placed(i, n)
        BY <1>1, <1>2, <1>9, <3>1 DEF Kept
      <3>3. PICK g \in Field : /\ Owned(i, g)
                               /\ \/ \E s \in Sections : g \in DOMAIN s /\ i \in s[g]
                                  \/ Replaced(i, g, n)
        BY <3>2 DEF Placed
      <3>4. Owned(i, g)'
        BY <3>1, <3>3, OwnedStays DEF IInv
      <3>5. Replaced(i, g, n) => Replaced(i, g, n + 1)'
        BY <3>1, ReplacedStays
      <3>6. (\E s \in Sections : g \in DOMAIN s /\ i \in s[g])
              => \E s \in Sections' : g \in DOMAIN s /\ i \in s[g]
        BY <1>3, <1>4, <1>5 DEF Sections
      <3>7. QED BY <3>3, <3>4, <3>5, <3>6 DEF Placed
    <2>3. QED BY <2>1, <2>2
  <1>10. Kept(a, n + 1)'
    BY <1>8, <1>9 DEF Kept
  <1>11. QED BY <1>2, <1>10

-----------------------------------------------------------------------------
\* The stages tell themselves apart.
LEMMA Stages ==
    ASSUME StageInv, pc # "died"
    PROVE  /\ signed = 0 => Plain
           /\ pc = "headers" => \E b \in DOMAIN lines : InHeaders(b)
           /\ pc = "paragraphs" /\ signature = 0 => Plain \/ \E b, t \in DOMAIN lines : InMessage(b, t)
           /\ pc = "signature" => \E b, t, e \in DOMAIN lines : InSignature(b, t, e)
           /\ pc \in {"paragraphs", "done"} /\ signature > 0 =>
                 \E b, t, e, x \in DOMAIN lines : After(b, t, e, x)
           /\ pc = "done" => Plain \/ \E b, t, e, x \in DOMAIN lines : After(b, t, e, x)
  <1>1. Plain => signed = 0 /\ signature = 0 /\ pc \in {"paragraphs", "done"}
    BY DEF Plain
  <1>2. \A b : InHeaders(b) => signed > 0 /\ signature = 0 /\ pc = "headers"
    BY DEF InHeaders, Begun
  <1>3. \A b, t : InMessage(b, t) => signed > 0 /\ signature = 0 /\ pc = "paragraphs"
    BY DEF InMessage, Begun
  <1>4. \A b, t, e : InSignature(b, t, e) => signed > 0 /\ signature > 0 /\ pc = "signature"
    BY DEF InSignature, Ended, Begun
  <1>5. \A b, t, e, x : After(b, t, e, x) => signed > 0 /\ signature > 0 /\ pc \in {"paragraphs", "done"}
    BY DEF After, Ended, Begun
  <1>6. QED BY <1>1, <1>2, <1>3, <1>4, <1>5 DEF StageInv

OneOf(l, K) == l.kind \in K

\* The number of the line that is read, beside those of the lines before it.
LEMMA NextNumber ==
    ASSUME IInv, NEW l \in Line, Shift(l)
    PROVE  \E n \in Nat :
              /\ n = Len(lines) + 1 /\ 0 < n /\ n \in DOMAIN lines' /\ Len(lines') = n
              /\ lines'[n] = l
              /\ \A a \in DOMAIN lines : /\ a \in Nat /\ 0 < a /\ a < n /\ a <= n /\ a <= Len(lines)
                                         /\ a \in DOMAIN lines' /\ lines'[a] = lines[a]
              /\ \A i \in DOMAIN lines' : i = n \/ (i < n /\ i \in DOMAIN lines)
  <1>1. /\ Len(lines) \in Nat /\ DOMAIN lines = 1..Len(lines)
        /\ DOMAIN lines' = 1..Len(lines) + 1 /\ Len(lines') = Len(lines) + 1
    BY Longer DEF IInv
  <1>2. /\ \A i \in 1..Len(lines) : lines'[i] = lines[i]
        /\ lines'[Len(lines) + 1] = l
    BY Longer DEF IInv
  <1>3. PICK n \in Nat : n = Len(lines) + 1 /\ Len(lines) = n - 1
    BY <1>1
  <1>4. /\ 0 < n /\ n \in DOMAIN lines' /\ Len(lines') = n
        /\ \A a \in DOMAIN lines : /\ a \in Nat /\ 0 < a /\ a < n /\ a <= n /\ a <= Len(lines)
                                   /\ a \in DOMAIN lines'
        /\ \A i \in DOMAIN lines' : i = n \/ (i < n /\ i \in DOMAIN lines)
    BY <1>1, <1>3
  <1>5. lines'[n] = l /\ \A a \in DOMAIN lines : lines'[a] = lines[a]
    BY <1>1, <1>2, <1>3
  <1>6. QED BY <1>3, <1>4, <1>5

\* What a line more does to the marks that were found.
LEMMA BegunStays ==
    ASSUME IInv, NEW l \in Line, Shift(l), signed' = signed, NEW b \in DOMAIN lines, Begun(b)
    PROVE  b \in DOMAIN lines' /\ Begun(b)'
  <1>1. b \in DOMAIN lines' /\ b \in Nat /\ b > 0
    BY Longer DEF IInv
  <1>2. QED BY <1>1, MarkStays, QuietStays DEF IInv, Begun

LEMMA EndedStays ==
    ASSUME IInv, NEW l \in Line, Shift(l), SameSections, UNCHANGED armour,
           NEW b \in DOMAIN lines, NEW t \in DOMAIN lines, NEW e \in DOMAIN lines, Ended(b, t, e)
    PROVE  /\ b \in DOMAIN lines' /\ t \in DOMAIN lines' /\ e \in DOMAIN lines'
           /\ Ended(b, t, e)'
  <1>1. /\ b \in Nat /\ t \in Nat /\ e \in Nat /\ e <= Len(lines) + 1
        /\ b \in DOMAIN lines' /\ t \in DOMAIN lines' /\ e \in DOMAIN lines'
    <2>1. Len(lines) \in Nat /\ DOMAIN lines = 1..Len(lines) /\ DOMAIN lines' = 1..Len(lines) + 1
      BY Longer DEF IInv
    <2>2. QED BY <2>1
  <1>2. Kept(t, e)'
    BY <1>1, KeptStays DEF Ended
  <1>3. UNCHANGED <<signed, signature>>
    BY DEF armour
  <1>4. Mark(b, HeadersEnd, t)' /\ Mark(t, SignatureBegin, e)'
    BY <1>1, MarkStays DEF IInv, Ended
  <1>5. Begun(b)'
    BY <1>3, BegunStays DEF Ended
  <1>6. QED BY <1>1, <1>2, <1>3, <1>4, <1>5 DEF Ended

\* A line of a paragraph that was read before the signature.
LEMMA TextGoesOn ==
    ASSUME IInv, StageInv, NEW l \in Line, Shift(l), pc = "paragraphs", signature = 0,
           UNCHANGED <<pc, armour>>, ~OneOf(l, Begin),
           last_tag' = NoField => last_tag = NoField /\ OneOf(l, Quiet),
           \A a \in Nat : a <= Len(lines) /\ Kept(a, Len(lines) + 1) => Kept(a, Len(lines) + 1)'
    PROVE  StageInv'
  <1>1. UNCHANGED <<signed, signature>> /\ Len(lines) \in Nat
    BY Longer DEF armour, IInv
  <1>2. CASE Plain
    <2>1. Without(0, MessageBegin)'
      BY <1>2, WithoutStays DEF Plain, IInv, OneOf, Begin
    <2>2. Kept(0, Len(lines) + 1)'
      <3>1. 0 \in Nat /\ 0 <= Len(lines)
        BY <1>1
      <3>2. QED BY <1>2, <3>1 DEF Plain
    <2>3. last_tag' = NoField => QuietAfter(0)'
      BY <1>2, QuietStays DEF Plain, IInv, OneOf, Begin
    <2>4. QED BY <1>1, <1>2, <2>1, <2>2, <2>3 DEF Plain, StageInv
  <1>3. ASSUME NEW b \in DOMAIN lines, NEW t \in DOMAIN lines, InMessage(b, t)
        PROVE  StageInv'
    <2>1. b \in DOMAIN lines' /\ Begun(b)'
      BY <1>1, <1>3, BegunStays DEF InMessage
    <2>2. b \in Nat /\ t \in Nat /\ t \in DOMAIN lines' /\ t <= Len(lines)
      BY NextNumber
    <2>3. Mark(b, HeadersEnd, t)'
      BY <1>3, <2>2, MarkStays DEF InMessage, IInv
    <2>4. Without(t, SignatureBegin)'
      BY <1>3, <2>2, WithoutStays DEF InMessage, IInv, OneOf, Begin
    <2>5. Kept(t, Len(lines) + 1)'
      BY <1>3, <2>2 DEF InMessage
    <2>6. InMessage(b, t)'
      BY <1>1, <1>3, <2>1, <2>3, <2>4, <2>5 DEF InMessage
    <2>7. QED BY <2>1, <2>2, <2>6 DEF StageInv
  <1>4. Plain \/ \E b, t \in DOMAIN lines : InMessage(b, t)
    BY Stages
  <1>5. QED BY <1>2, <1>3, <1>4

\* A line after the signature.
LEMMA RestGoesOn ==
    ASSUME IInv, StageInv, NEW l \in Line, Shift(l), pc = "paragraphs", signature > 0,
           UNCHANGED <<pc, armour>>, SameSections, OneOf(l, Quiet)
    PROVE  StageInv'
  <1>1. ASSUME NEW b \in DOMAIN lines, NEW t \in DOMAIN lines, NEW e \in DOMAIN lines,
               NEW x \in DOMAIN lines, After(b, t, e, x)
        PROVE  StageInv'
    <2>1. /\ b \in DOMAIN lines' /\ t \in DOMAIN lines' /\ e \in DOMAIN lines' /\ Ended(b, t, e)'
      BY <1>1, EndedStays DEF After
    <2>2. e \in Nat /\ x \in Nat /\ x \in DOMAIN lines'
      BY Longer DEF IInv
    <2>3. Mark(e, SignatureClose, x)' /\ QuietAfter(x)'
      BY <1>1, <2>2, MarkStays, QuietStays DEF After, IInv, OneOf
    <2>4. After(b, t, e, x)'
      BY <1>1, <2>1, <2>3 DEF After
    <2>5. QED BY <2>1, <2>2, <2>4 DEF StageInv
  <1>2. \E b, t, e, x \in DOMAIN lines : After(b, t, e, x)
    BY Stages
  <1>3. QED BY <1>1, <1>2

\* A comment or a blank line, wherever paragraphs are read.
LEMMA QuietGoesOn ==
    ASSUME IInv, StageInv, NEW l \in Line, Shift(l), pc = "paragraphs", UNCHANGED <<pc, armour, last_tag>>,
           SameSections, OneOf(l, Quiet)
    PROVE  StageInv'
  <1>1. signature = 0 \/ signature > 0
    BY DEF IInv, CounterInv
  <1>2. CASE signature = 0
    <2>1. l.kind \notin ContentKinds /\ ~OneOf(l, Begin)
      BY DEF Quiet, ContentKinds, OneOf, Begin, MessageBegin, SignatureBegin
    <2>2. \A a \in Nat : a <= Len(lines) /\ Kept(a, Len(lines) + 1) => Kept(a, Len(lines) + 1)'
      BY <2>1, KeptGrows
    <2>3. QED BY <1>2, <2>1, <2>2, TextGoesOn
  <1>3. CASE signature > 0
    BY <1>3, RestGoesOn
  <1>4. QED BY <1>1, <1>2, <1>3

\* The message begins.
LEMMA MessageBegins ==
    ASSUME IInv, TextInv, NEW l \in Line, Shift(l), pc = "paragraphs", OneOf(l, MessageBegin),
           signed = 0, last_tag = NoField, signed' = position, pc' = "headers",
           UNCHANGED <<position, signature, paragraph, visited>>
    PROVE  StageInv'
  <1>1. PICK n \in Nat :
          /\ n = Len(lines) + 1 /\ 0 < n /\ n \in DOMAIN lines' /\ Len(lines') = n
          /\ \A a \in DOMAIN lines : /\ a \in Nat /\ a < n /\ a \in DOMAIN lines' /\ lines'[a] = lines[a]
          /\ \A i \in DOMAIN lines' : i = n \/ (i < n /\ i \in DOMAIN lines)
    BY NextNumber
  <1>2. Plain
    BY Stages DEF TextInv
  <1>3. n \in DOMAIN lines'
    BY <1>1
  <1>4. Mark(0, MessageBegin, n)'
    BY <1>1, <1>2, MarkNew DEF IInv, Plain, OneOf
  <1>5. Without(n, HeadersEnd)'
    BY <1>1, WithoutNew DEF IInv
  <1>6. QuietBefore(n)'
    <2>1. QuietAfter(0)
      BY <1>2 DEF Plain
    <2>2. ASSUME NEW i \in DOMAIN lines', i < n PROVE lines'[i].kind \in Quiet
      <3>1. i \in DOMAIN lines /\ 0 < i /\ lines'[i] = lines[i]
        <4>1. i # n
          BY <1>1, <2>2
        <4>2. i \in DOMAIN lines /\ lines'[i] = lines[i]
          BY <1>1, <4>1
        <4>3. QED BY <4>2, NextNumber
      <3>2. QED BY <2>1, <3>1 DEF QuietAfter
    <2>3. QED BY <2>2 DEF QuietBefore
  <1>7. visited' = <<>> /\ ~open_section' /\ signed' > 0 /\ signature' = 0
    <2>1. signed' > 0 /\ signature' = 0
      BY <1>2 DEF IInv, CounterInv, Plain
    <2>2. visited' = <<>>
      BY DEF TextInv, TagInv
    <2>3. ~open_section
      BY Deb822Assumption DEF IInv, OpenInv, Recorded, Table
    <2>4. QED BY <2>1, <2>2, <2>3 DEF paragraph
  <1>8. InHeaders(n)'
    BY <1>4, <1>5, <1>6, <1>7 DEF InHeaders, Begun
  <1>9. QED BY <1>3, <1>8 DEF StageInv

\* Its headers go on, or end.
LEMMA HeadersGoOn ==
    ASSUME IInv, StageInv, NEW l \in Line, Shift(l), pc = "headers",
           pc' = (IF OneOf(l, HeadersEnd) THEN "paragraphs" ELSE pc),
           UNCHANGED <<armour, paragraph, visited>>
    PROVE  StageInv'
  <1>1. PICK b \in DOMAIN lines : InHeaders(b)
    BY Stages
  <1>2. /\ UNCHANGED <<signed, signature, section, open_section, visited>>
    BY DEF armour, paragraph
  <1>3. b \in DOMAIN lines' /\ Begun(b)'
    BY <1>1, <1>2, BegunStays DEF InHeaders
  <1>4. PICK n \in Nat :
          /\ n = Len(lines) + 1 /\ 0 < n /\ n \in DOMAIN lines' /\ Len(lines') = n
          /\ \A a \in DOMAIN lines : /\ a \in Nat /\ a < n /\ a \in DOMAIN lines' /\ lines'[a] = lines[a]
          /\ \A i \in DOMAIN lines' : i = n \/ (i < n /\ i \in DOMAIN lines)
    BY NextNumber
  <1>5. /\ b \in Nat /\ b < n /\ n \in DOMAIN lines' /\ Len(lines') + 1 = n + 1
        /\ \A i \in DOMAIN lines' : i <= n
    BY <1>4, Longer DEF IInv
  <1>6. CASE OneOf(l, HeadersEnd)
    <2>1. Mark(b, HeadersEnd, n)' /\ Without(n, SignatureBegin)'
      BY <1>1, <1>4, <1>5, <1>6, MarkNew, WithoutNew DEF IInv, InHeaders, OneOf
    <2>2. Used(section') = {} /\ Paragraphs' = {}
      BY <1>1, <1>2 DEF InHeaders, Paragraphs, Used, Nothing, IInv, OpenInv
    <2>3. Kept(n, n + 1)'
      BY <1>5, <2>2 DEF Kept, Sections
    <2>4. InMessage(b, n)'
      BY <1>1, <1>2, <1>3, <1>5, <1>6, <2>1, <2>3 DEF InMessage, InHeaders
    <2>5. QED BY <1>3, <1>5, <2>4 DEF StageInv
  <1>7. CASE ~OneOf(l, HeadersEnd)
    <2>1. Without(b, HeadersEnd)'
      BY <1>1, <1>5, <1>7, WithoutStays DEF IInv, InHeaders, OneOf
    <2>2. InHeaders(b)'
      BY <1>1, <1>2, <1>3, <1>7, <2>1 DEF InHeaders
    <2>3. QED BY <1>3, <2>2 DEF StageInv
  <1>8. QED BY <1>6, <1>7

\* The signature begins.
LEMMA SignatureBegins ==
    ASSUME IInv, StageInv, NEW l \in Line, Shift(l), pc = "paragraphs", OneOf(l, SignatureBegin),
           signed > 0, signature = 0, signature' = position, pc' = "signature",
           UNCHANGED <<position, signed, paragraph, visited>>
    PROVE  StageInv'
  <1>1. PICK n \in Nat :
          /\ n = Len(lines) + 1 /\ 0 < n /\ n \in DOMAIN lines' /\ Len(lines') = n
          /\ \A a \in DOMAIN lines : /\ a \in Nat /\ a < n /\ a \in DOMAIN lines' /\ lines'[a] = lines[a]
          /\ \A i \in DOMAIN lines' : i = n \/ (i < n /\ i \in DOMAIN lines)
    BY NextNumber
  <1>2. PICK b, t \in DOMAIN lines : InMessage(b, t)
    <2>1. ~Plain
      BY DEF Plain
    <2>2. QED BY <2>1, Stages
  <1>3. /\ b \in Nat /\ t \in Nat /\ t < n /\ n \in DOMAIN lines' /\ t \in DOMAIN lines'
        /\ n <= Len(lines) + 1
    <2>1. n <= n
      OBVIOUS
    <2>2. QED BY <1>1, <1>2, <2>1
  <1>4. b \in DOMAIN lines' /\ Begun(b)'
    BY <1>2, BegunStays DEF InMessage
  <1>5. Mark(b, HeadersEnd, t)'
    BY <1>2, <1>3, MarkStays DEF InMessage, IInv
  <1>6. Mark(t, SignatureBegin, n)' /\ Without(n, SignatureClose)'
    BY <1>1, <1>2, <1>3, MarkNew, WithoutNew DEF InMessage, IInv, OneOf
  <1>7. Kept(t, n)'
    <2>1. SameSections
      BY Unchanged DEF paragraph
    <2>2. Kept(t, n)
      BY <1>1, <1>2 DEF InMessage
    <2>3. QED BY <1>3, <2>1, <2>2, KeptStays
  <1>8. signature' > 0
    BY DEF IInv, CounterInv
  <1>9. InSignature(b, t, n)'
    BY <1>4, <1>5, <1>6, <1>7, <1>8 DEF InSignature, Ended
  <1>10. QED BY <1>3, <1>4, <1>9 DEF StageInv

\* It goes on, or ends.
LEMMA SignatureGoesOn ==
    ASSUME IInv, StageInv, NEW l \in Line, Shift(l), pc = "signature",
           pc' = (IF OneOf(l, SignatureClose) THEN "paragraphs" ELSE pc),
           UNCHANGED <<armour, paragraph, visited>>
    PROVE  StageInv'
  <1>1. PICK b, t, e \in DOMAIN lines : InSignature(b, t, e)
    BY Stages
  <1>2. SameSections
    BY Unchanged DEF paragraph
  <1>3. /\ b \in DOMAIN lines' /\ t \in DOMAIN lines' /\ e \in DOMAIN lines' /\ Ended(b, t, e)'
    BY <1>1, <1>2, EndedStays DEF InSignature
  <1>4. PICK n \in Nat :
          /\ n = Len(lines) + 1 /\ 0 < n /\ n \in DOMAIN lines' /\ Len(lines') = n
          /\ \A a \in DOMAIN lines : /\ a \in Nat /\ a < n /\ a \in DOMAIN lines' /\ lines'[a] = lines[a]
          /\ \A i \in DOMAIN lines' : i = n \/ (i < n /\ i \in DOMAIN lines)
    BY NextNumber
  <1>5. e \in Nat /\ e < n /\ n \in DOMAIN lines'
    BY <1>1, <1>4
  <1>6. CASE OneOf(l, SignatureClose)
    <2>1. Mark(e, SignatureClose, n)' /\ QuietAfter(n)'
      BY <1>1, <1>4, <1>5, <1>6, MarkNew, WithoutNew DEF IInv, InSignature, OneOf
    <2>2. After(b, t, e, n)'
      BY <1>3, <1>6, <2>1 DEF After
    <2>3. QED BY <1>3, <1>5, <2>2 DEF StageInv
  <1>7. CASE ~OneOf(l, SignatureClose)
    <2>1. Without(e, SignatureClose)'
      BY <1>1, <1>5, <1>7, WithoutStays DEF IInv, InSignature, OneOf
    <2>2. InSignature(b, t, e)'
      BY <1>1, <1>3, <1>7, <2>1 DEF InSignature
    <2>3. QED BY <1>3, <2>2 DEF StageInv
  <1>8. QED BY <1>6, <1>7

-----------------------------------------------------------------------------
\* Where paragraphs are cut.
LEMMA BlocksStay ==
    ASSUME IInv, BlockInv, NEW l \in Line, Shift(l), UNCHANGED <<section, visited>>,
           Going' => Going,
           Going' /\ signature' = 0 => signature = 0 /\ (~Separates(l) \/ Used(section) = {})
    PROVE  BlockInv'
  <1>1. PICK n \in Nat : n = Len(lines) + 1 /\ Len(lines') = n
    BY NextNumber
  <1>2. /\ Used(section) \subseteq 1..Len(lines)
        /\ \A k \in DOMAIN visited : Part(k) \subseteq 1..Len(lines)
    BY UsedLines DEF Sections
  <1>3. \A k : Part(k)' = Part(k)
    BY DEF Part
  <1>4. \A i, j \in 1..Len(lines) : Cut(i, j)' <=> Cut(i, j)
    BY <1>1, CutsStay DEF IInv
  <1>5. \A i \in 1..Len(lines) : /\ Cut(i, Len(lines)) => Cut(i, n)'
                                 /\ ~Separates(l) /\ ~Cut(i, Len(lines)) => ~Cut(i, n)'
    BY <1>1, CutsStay DEF IInv
  <1>6. /\ \A k \in DOMAIN visited' : Whole(Part(k))'
        /\ \A k, m \in DOMAIN visited' : k < m => Apart(Part(k), Part(m))'
    BY <1>2, <1>3, <1>4 DEF BlockInv, Whole, Apart
  <1>7. Going' => /\ Whole(Used(section))'
                  /\ \A k \in DOMAIN visited' : Apart(Part(k), Used(section))'
    BY <1>2, <1>3, <1>4 DEF BlockInv, Whole, Apart
  <1>8. Going' => \A k \in DOMAIN visited' : \A i \in Part(k) : Cut(i, Len(lines))'
    BY <1>1, <1>2, <1>3, <1>5 DEF BlockInv
  <1>9. ASSUME Going', signature' = 0, NEW i \in Used(section) PROVE ~Cut(i, Len(lines))'
    <2>1. i \in 1..Len(lines) /\ ~Separates(l) /\ Going /\ signature = 0
      BY <1>2, <1>9
    <2>2. ~Cut(i, Len(lines))
      BY <1>9, <2>1 DEF BlockInv
    <2>3. QED BY <1>1, <1>5, <2>1, <2>2
  <1>10. Going' /\ signature' = 0 => \A i \in Used(section)' : ~Cut(i, Len(lines))'
    BY <1>9
  <1>11. (Going => /\ Whole(Used(section))
                   /\ \A k \in DOMAIN visited : Apart(Part(k), Used(section))
                   /\ \A k \in DOMAIN visited : \A i \in Part(k) : Cut(i, Len(lines)))'
    BY <1>3, <1>7, <1>8
  <1>12. (Going /\ signature = 0 => \A i \in Used(section) : ~Cut(i, Len(lines)))'
    BY <1>10
  <1>13. QED BY <1>6, <1>11, <1>12 DEF BlockInv

\* The blank line after a paragraph cuts it off from what follows.
LEMMA BlockCloses ==
    ASSUME IInv, BlockInv, NEW l \in Line, Shift(l), Going, Separates(l),
           visited' = Append(visited, <<section, field_starts>>), section' = Nothing
    PROVE  BlockInv'
  <1>1. PICK n \in Nat : n = Len(lines) + 1 /\ Len(lines') = n
    BY NextNumber
  <1>2. /\ Used(section) \subseteq 1..Len(lines)
        /\ \A k \in DOMAIN visited : Part(k) \subseteq 1..Len(lines)
    BY UsedLines DEF Sections
  <1>3. PICK m \in Nat : /\ m = Len(visited) + 1 /\ Part(m)' = Used(section)
                         /\ \A k \in DOMAIN visited : k \in Nat /\ k < m /\ Part(k)' = Part(k)
                         /\ \A k \in DOMAIN visited' : k = m \/ k \in DOMAIN visited
    <2>1. /\ DOMAIN visited = 1..Len(visited) /\ DOMAIN visited' = 1..Len(visited) + 1
          /\ Len(visited) \in Nat
      BY Passing
    <2>2. /\ \A k \in 1..Len(visited) : Part(k)' = Part(k)
          /\ \A k : k = Len(visited) + 1 => Part(k)' = Used(section)
      BY Passing
    <2>3. PICK m \in Nat : m = Len(visited) + 1 /\ Len(visited) = m - 1
      BY <2>1
    <2>4. /\ \A k \in DOMAIN visited : k \in Nat /\ k < m
          /\ \A k \in DOMAIN visited' : k = m \/ k \in DOMAIN visited
      BY <2>1, <2>3
    <2>5. QED BY <2>1, <2>2, <2>3, <2>4
  <1>4. \A i, j \in 1..Len(lines) : Cut(i, j)' <=> Cut(i, j)
    BY <1>1, CutsStay DEF IInv
  <1>5. \A i \in 1..Len(lines) : Cut(i, n)'
    BY <1>1, CutsStay DEF IInv
  <1>6. \A k \in DOMAIN visited' : Whole(Part(k))'
    BY <1>2, <1>3, <1>4 DEF BlockInv, Whole
  <1>7. \A j, k \in DOMAIN visited' : j < k => Apart(Part(j), Part(k))'
    <2>1. ASSUME NEW j \in DOMAIN visited', NEW k \in DOMAIN visited', j < k
          PROVE  Apart(Part(j), Part(k))'
      <3>1. j \in DOMAIN visited
        BY <1>3, <2>1
      <3>2. CASE k \in DOMAIN visited
        BY <1>2, <1>3, <1>4, <2>1, <3>1, <3>2 DEF BlockInv, Apart
      <3>3. CASE k = m
        BY <1>2, <1>3, <1>4, <3>1, <3>3 DEF BlockInv, Apart
      <3>4. QED BY <1>3, <3>2, <3>3
    <2>2. QED BY <2>1
  <1>8. Used(section') = {}
    BY DEF Used, Nothing
  <1>9. ASSUME NEW k \in DOMAIN visited' PROVE \A i \in Part(k)' : Cut(i, Len(lines))'
    <2>1. Part(k)' \subseteq 1..Len(lines)
      <3>1. CASE k = m
        BY <1>2, <1>3, <3>1
      <3>2. CASE k \in DOMAIN visited
        BY <1>2, <1>3, <3>2
      <3>3. QED BY <1>3, <3>1, <3>2
    <2>2. QED BY <1>1, <1>5, <2>1
  <1>10. QED BY <1>6, <1>7, <1>8, <1>9 DEF BlockInv, Whole, Apart

\* A line that is added to the open paragraph does not cut it.
LEMMA BlockGrows ==
    ASSUME IInv, BlockInv, NEW l \in Line, Shift(l), Going, signature = 0, ~Separates(l),
           UNCHANGED visited, \A i \in Used(section') : i \in Used(section) \/ i = Number
    PROVE  BlockInv'
  <1>1. PICK n \in Nat : /\ n = Len(lines) + 1 /\ Len(lines') = n /\ n = Number
                         /\ \A i \in 1..Len(lines) : i \in Nat /\ i < n
    <2>1. PICK n \in Nat : n = Len(lines) + 1 /\ Len(lines') = n
      BY NextNumber
    <2>2. QED BY <2>1, Longer DEF Number, IInv
  <1>2. /\ Used(section) \subseteq 1..Len(lines)
        /\ \A k \in DOMAIN visited : Part(k) \subseteq 1..Len(lines)
    BY UsedLines DEF Sections
  <1>3. \A k : Part(k)' = Part(k)
    BY DEF Part
  <1>4. \A i, j \in 1..Len(lines) : Cut(i, j)' <=> Cut(i, j)
    BY <1>1, CutsStay DEF IInv
  <1>5. \A i \in 1..Len(lines) : /\ Cut(i, Len(lines)) => Cut(i, n)'
                                 /\ ~Cut(i, Len(lines)) => ~Cut(i, n)'
    BY <1>1, CutsStay DEF IInv
  <1>6. ~Cut(n, n)'
    BY <1>1, NewLineNotCut DEF IInv
  <1>7. /\ \A k \in DOMAIN visited' : Whole(Part(k))'
        /\ \A k, m \in DOMAIN visited' : k < m => Apart(Part(k), Part(m))'
    BY <1>2, <1>3, <1>4 DEF BlockInv, Whole, Apart
  <1>8. Whole(Used(section))'
    <2>1. ASSUME NEW i \in Used(section'), NEW j \in Used(section'), i < j PROVE ~Cut(i, j)'
      <3>1. CASE j = n
        <4>1. i \in Used(section)
          BY <1>1, <2>1, <3>1
        <4>2. ~Cut(i, Len(lines))
          BY <4>1 DEF BlockInv
        <4>3. QED BY <1>2, <1>5, <3>1, <4>1, <4>2
      <3>2. CASE j \in Used(section)
        <4>1. i \in Used(section)
          <5>1. j \in Nat /\ j < n
            BY <1>1, <1>2, <3>2
          <5>2. i # n
            BY <2>1, <5>1
          <5>3. QED BY <1>1, <5>2
        <4>2. QED BY <1>2, <1>4, <2>1, <3>2, <4>1 DEF BlockInv, Whole
      <3>3. QED BY <1>1, <3>1, <3>2
    <2>2. QED BY <2>1 DEF Whole
  <1>9. \A k \in DOMAIN visited' : Apart(Part(k), Used(section))'
    <2>1. ASSUME NEW k \in DOMAIN visited, NEW i \in Part(k), NEW j \in Used(section')
          PROVE  Cut(i, j)'
      <3>1. i \in 1..Len(lines)
        BY <1>2
      <3>2. CASE j = n
        BY <1>5, <3>1, <3>2 DEF BlockInv
      <3>3. CASE j \in Used(section)
        BY <1>2, <1>4, <3>1, <3>3 DEF BlockInv, Apart
      <3>4. QED BY <1>1, <3>2, <3>3
    <2>2. QED BY <1>3, <2>1 DEF Apart
  <1>10. \A k \in DOMAIN visited' : \A i \in Part(k) : Cut(i, Len(lines))'
    BY <1>1, <1>2, <1>3, <1>5 DEF BlockInv
  <1>11. \A i \in Used(section') : ~Cut(i, Len(lines))'
    BY <1>1, <1>2, <1>5, <1>6 DEF BlockInv
  <1>12. QED BY <1>7, <1>8, <1>9, <1>10, <1>11, <1>3 DEF BlockInv

\* At the end of the file the open paragraph is the last.
LEMMA BlocksEnd ==
    ASSUME IInv, BlockInv, UNCHANGED <<flags, lines, paragraph>>, Going, ~Going',
           visited' = IF open_section THEN Append(visited, <<section, field_starts>>) ELSE visited
    PROVE  BlockInv'
  <1>1. \A i, j : Cut(i, j)' <=> Cut(i, j)
    BY DEF Cut
  <1>2. CASE ~open_section
    <2>1. \A k : Part(k)' = Part(k)
      BY <1>2 DEF Part
    <2>2. QED BY <1>1, <1>2, <2>1 DEF BlockInv, Whole, Apart
  <1>3. CASE open_section
    <2>1. PICK m \in Nat : /\ Part(m)' = Used(section)
                           /\ \A k \in DOMAIN visited : k \in Nat /\ k < m /\ Part(k)' = Part(k)
                           /\ \A k \in DOMAIN visited' : k = m \/ k \in DOMAIN visited
      <3>1. /\ DOMAIN visited = 1..Len(visited) /\ DOMAIN visited' = 1..Len(visited) + 1
            /\ Len(visited) \in Nat
        BY <1>3, Passing
      <3>2. /\ \A k \in 1..Len(visited) : Part(k)' = Part(k)
            /\ \A k : k = Len(visited) + 1 => Part(k)' = Used(section)
        BY <1>3, Passing
      <3>3. PICK m \in Nat : m = Len(visited) + 1 /\ Len(visited) = m - 1
        BY <3>1
      <3>4. /\ \A k \in DOMAIN visited : k \in Nat /\ k < m
            /\ \A k \in DOMAIN visited' : k = m \/ k \in DOMAIN visited
        BY <3>1, <3>3
      <3>5. QED BY <3>1, <3>2, <3>3, <3>4
    <2>2. \A k \in DOMAIN visited' : Whole(Part(k))'
      BY <1>1, <2>1 DEF BlockInv, Whole
    <2>3. ASSUME NEW j \in DOMAIN visited', NEW k \in DOMAIN visited', j < k
          PROVE  Apart(Part(j), Part(k))'
      <3>1. j \in DOMAIN visited
        BY <2>1, <2>3
      <3>2. CASE k \in DOMAIN visited
        BY <1>1, <2>1, <2>3, <3>1, <3>2 DEF BlockInv, Apart
      <3>3. CASE k = m
        BY <1>1, <2>1, <3>1, <3>3 DEF BlockInv, Apart
      <3>4. QED BY <2>1, <3>2, <3>3
    <2>4. QED BY <2>2, <2>3 DEF BlockInv
  <1>4. QED BY <1>2, <1>3 DEF IInv, OpenInv

-----------------------------------------------------------------------------
LEMMA TagStays ==
    ASSUME IInv, TagInv, NEW l \in Line, Shift(l), pc' # "done", UNCHANGED last_tag,
           visited' # visited => open_section,
           pc' = "paragraphs" /\ open_section' /\ signature' = 0 =>
              pc = "paragraphs" /\ open_section /\ signature = 0 /\ ~OneOf(l, FieldKinds)
    PROVE  TagInv'
  <1>1. last_tag' = NoField => visited' = <<>>
    BY Deb822Assumption DEF TagInv, IInv, OpenInv, Recorded, Table
  <1>2. ASSUME pc' = "paragraphs", open_section', signature' = 0 PROVE Owned(Len(lines), last_tag)'
    <2>1. PICK n \in Nat : n = Len(lines) + 1 /\ Len(lines') = n
      BY NextNumber
    <2>2. PICK f : f = last_tag
      OBVIOUS
    <2>3. Owned(Len(lines), f) /\ l.kind \notin FieldKinds
      BY <1>2, <2>2 DEF TagInv, OneOf
    <2>4. Owned(n, f)'
      BY <2>1, <2>3, OwnedNew DEF IInv
    <2>5. QED BY <2>1, <2>2, <2>4
  <1>3. QED BY <1>1, <1>2 DEF TagInv

\* While no field was read there is no paragraph.
LEMMA NoTag ==
    ASSUME IInv
    PROVE  /\ open_section => last_tag \in Field /\ last_tag # NoField /\ last_tag \in DOMAIN section
           /\ ~open_section => section = Nothing /\ Used(section) = {} /\ field_starts = Nothing
           /\ open_section \in BOOLEAN
  <1>1. open_section => last_tag \in Field /\ last_tag # NoField /\ last_tag \in DOMAIN section
    BY Deb822Assumption DEF IInv, OpenInv, Recorded, Table
  <1>2. Used(Nothing) = {}
    BY DEF Used, Nothing
  <1>3. QED BY <1>1, <1>2 DEF IInv, OpenInv

LEMMA DieText ==
    ASSUME IInv, TextInv, NEW l \in Line, Shift(l), Die PROVE TextInv'
  <1>1. /\ pc' = "died" /\ UNCHANGED <<last_tag, open_section, section, visited, signature>>
    BY DEF Die, armour, paragraph
  <1>2. StageInv'
    BY <1>1 DEF StageInv
  <1>3. TagInv'
    BY <1>1, TagStays DEF TextInv
  <1>4. BlockInv'
    <2>1. ~Going'
      BY <1>1 DEF Going
    <2>2. QED BY <1>1, <2>1, BlocksStay DEF TextInv
  <1>5. QED BY <1>2, <1>3, <1>4 DEF TextInv

\* A comment or a blank line between or after paragraphs.
LEMMA QuietText ==
    ASSUME IInv, TextInv, NEW l \in Line, Shift(l), pc = "paragraphs", OneOf(l, Quiet),
           UNCHANGED <<pc, armour, paragraph, visited>>,
           signature > 0 \/ ~open_section \/ ~Separates(l)
    PROVE  TextInv'
  <1>1. UNCHANGED <<last_tag, open_section, section, field_starts, signed, signature>>
    BY DEF armour, paragraph
  <1>2. StageInv'
    BY <1>1, Unchanged, QuietGoesOn DEF TextInv
  <1>3. ~OneOf(l, FieldKinds)
    BY DEF OneOf, Quiet, FieldKinds
  <1>4. TagInv'
    BY <1>1, <1>3, TagStays DEF TextInv
  <1>5. Going
    BY DEF Going
  <1>6. signature' = 0 => signature = 0 /\ (~Separates(l) \/ Used(section) = {})
    BY <1>1, NoTag
  <1>7. BlockInv'
    BY <1>1, <1>5, <1>6, BlocksStay DEF TextInv
  <1>8. QED BY <1>2, <1>4, <1>7 DEF TextInv

\* A blank line that ends a paragraph.
LEMMA VisitText ==
    ASSUME IInv, TextInv, NEW l \in Line, Shift(l), pc = "paragraphs", OneOf(l, Quiet), Separates(l),
           open_section, Visit, UNCHANGED <<pc, armour, last_tag>>
    PROVE  TextInv'
  <1>1. /\ visited' = Append(visited, <<section, field_starts>>)
        /\ section' = Nothing /\ open_section' = FALSE /\ UNCHANGED <<pc, signature, last_tag>>
    BY DEF Visit, armour
  <1>2. StageInv'
    BY <1>1, Closing, QuietGoesOn DEF TextInv
  <1>3. TagInv'
    BY <1>1, TagStays DEF TextInv
  <1>4. BlockInv'
    BY <1>1, BlockCloses DEF TextInv, Going
  <1>5. QED BY <1>2, <1>3, <1>4 DEF TextInv

\* A field.
LEMMA FieldText ==
    ASSUME IInv, TextInv, NEW l \in Line, Shift(l), pc = "paragraphs", signature = 0,
           NEW f \in Field, StartField(f), Names(l, f)
    PROVE  TextInv'
  <1>1. /\ section' = Store(section, f, {Number}) /\ last_tag' = f /\ open_section' = TRUE
        /\ UNCHANGED <<pc, armour, visited, signature>>
    BY DEF StartField, armour
  <1>2. Going /\ BlockInv /\ StageInv
    BY DEF Going, TextInv
  <1>3. \A a \in Nat : a <= Len(lines) /\ Kept(a, Len(lines) + 1) => Kept(a, Len(lines) + 1)'
    BY <1>2, KeptField
  <1>4. /\ ~OneOf(l, Begin) /\ ~Separates(l)
    BY DEF OneOf, Begin, MessageBegin, SignatureBegin, Names, FieldKinds, Separates
  <1>5. last_tag' # NoField
    BY <1>1, Deb822Assumption
  <1>6. StageInv'
    BY <1>1, <1>2, <1>3, <1>4, <1>5, TextGoesOn
  <1>7. TagInv'
    <2>1. PICK n \in Nat : n = Len(lines) + 1 /\ Len(lines') = n
      BY NextNumber
    <2>2. Owned(n, f)'
      BY <2>1, OwnedNew DEF IInv, Names
    <2>3. Owned(Len(lines), last_tag)'
      BY <1>1, <2>1, <2>2
    <2>4. QED BY <1>1, <1>5, <2>3 DEF TagInv
  <1>8. \A i \in Used(section') : i \in Used(section) \/ i = Number
    BY <1>1 DEF Used, Store
  <1>9. BlockInv'
    BY <1>1, <1>2, <1>4, <1>8, BlockGrows
  <1>10. QED BY <1>6, <1>7, <1>9 DEF TextInv

\* A line that goes on with the last field.
LEMMA ContinuedText ==
    ASSUME IInv, TextInv, NEW l \in Line, Shift(l), pc = "paragraphs", signature = 0,
           OneOf(l, {"indented"}), open_section,
           section' = Store(section, last_tag, section[last_tag] \cup {Number}),
           UNCHANGED <<pc, armour, last_tag, open_section, visited>>
    PROVE  TextInv'
  <1>1. Going /\ BlockInv /\ StageInv /\ TagInv /\ UNCHANGED signature
    BY DEF Going, TextInv, armour
  <1>2. \A a \in Nat : a <= Len(lines) /\ Kept(a, Len(lines) + 1) => Kept(a, Len(lines) + 1)'
    BY <1>1, KeptContinues DEF OneOf
  <1>3. ~OneOf(l, Begin) /\ ~Separates(l) /\ ~OneOf(l, FieldKinds)
    BY DEF OneOf, Begin, MessageBegin, SignatureBegin, Separates, FieldKinds
  <1>4. last_tag' # NoField /\ last_tag \in DOMAIN section
    BY NoTag
  <1>5. StageInv'
    BY <1>1, <1>2, <1>3, <1>4, TextGoesOn
  <1>6. TagInv'
    BY <1>1, <1>3, TagStays
  <1>7. \A i \in Used(section') : i \in Used(section) \/ i = Number
    BY <1>4 DEF Used, Store
  <1>8. BlockInv'
    BY <1>1, <1>3, <1>7, BlockGrows
  <1>9. QED BY <1>5, <1>6, <1>8 DEF TextInv

\* The armour of a signed message.
LEMMA MessageText ==
    ASSUME IInv, TextInv, NEW l \in Line, Shift(l), pc = "paragraphs", OneOf(l, MessageBegin),
           signed = 0, last_tag = NoField, signed' = position, pc' = "headers",
           UNCHANGED <<position, signature, paragraph, visited>>
    PROVE  TextInv'
  <1>1. StageInv'
    BY MessageBegins
  <1>2. TagInv'
    BY TagStays DEF TextInv, paragraph
  <1>3. Going /\ ~open_section /\ Used(section) = {}
    BY NoTag DEF Going
  <1>4. BlockInv'
    BY <1>3, BlocksStay DEF TextInv, paragraph
  <1>5. QED BY <1>1, <1>2, <1>4 DEF TextInv

LEMMA HeadersText ==
    ASSUME IInv, TextInv, NEW l \in Line, Shift(l), pc = "headers",
           pc' = (IF OneOf(l, HeadersEnd) THEN "paragraphs" ELSE pc),
           UNCHANGED <<armour, paragraph, visited>>
    PROVE  TextInv'
  <1>1. StageInv'
    BY HeadersGoOn DEF TextInv
  <1>2. ~open_section /\ Used(section) = {} /\ Going
    BY Stages, NoTag DEF TextInv, InHeaders, Going
  <1>3. UNCHANGED <<last_tag, open_section, section, signature>> /\ pc' # "done"
    BY DEF armour, paragraph
  <1>4. signature = 0
    BY Stages DEF TextInv, InHeaders
  <1>5. TagInv'
    BY <1>2, <1>3, TagStays DEF TextInv
  <1>6. BlockInv'
    BY <1>2, <1>3, <1>4, BlocksStay DEF TextInv
  <1>7. QED BY <1>1, <1>5, <1>6 DEF TextInv

LEMMA SignatureText ==
    ASSUME IInv, TextInv, NEW l \in Line, Shift(l), pc = "paragraphs", OneOf(l, SignatureBegin),
           signed > 0, signature = 0, signature' = position, pc' = "signature",
           UNCHANGED <<position, signed, paragraph, visited>>
    PROVE  TextInv'
  <1>1. StageInv'
    BY SignatureBegins DEF TextInv
  <1>2. UNCHANGED <<last_tag, open_section, section>> /\ Going /\ signature' > 0
    BY DEF paragraph, Going, IInv, CounterInv
  <1>3. TagInv'
    BY <1>2, TagStays DEF TextInv
  <1>4. BlockInv'
    BY <1>2, BlocksStay DEF TextInv
  <1>5. QED BY <1>1, <1>3, <1>4 DEF TextInv

LEMMA SignatureGoesText ==
    ASSUME IInv, TextInv, NEW l \in Line, Shift(l), pc = "signature",
           pc' = (IF OneOf(l, SignatureClose) THEN "paragraphs" ELSE pc),
           UNCHANGED <<armour, paragraph, visited>>
    PROVE  TextInv'
  <1>1. StageInv'
    BY SignatureGoesOn DEF TextInv
  <1>2. UNCHANGED <<last_tag, open_section, section, signature>> /\ Going /\ pc' # "done"
    BY DEF armour, paragraph, Going
  <1>3. signature > 0
    BY Stages DEF TextInv, InSignature, Ended
  <1>4. TagInv'
    BY <1>2, <1>3, TagStays DEF TextInv
  <1>5. BlockInv'
    BY <1>2, <1>3, BlocksStay DEF TextInv
  <1>6. QED BY <1>1, <1>4, <1>5 DEF TextInv

\* The end of the file.
LEMMA EndText ==
    ASSUME IInv, TextInv, EndOfFile PROVE TextInv'
  <1>1. /\ pc \in {"paragraphs", "headers"}
        /\ pc' = IF signed > 0 /\ signature = 0 THEN "died" ELSE "done"
        /\ visited' = IF open_section THEN Append(visited, <<section, field_starts>>) ELSE visited
        /\ UNCHANGED <<flags, lines, signed, signature, paragraph>>
        /\ UNCHANGED <<last_tag, open_section, section>>
    BY DEF EndOfFile, armour, paragraph
  <1>2. Sections' = Sections
    <2>1. CASE open_section
      BY <1>1, <2>1, Passing DEF Sections
    <2>2. CASE ~open_section
      BY <1>1, <2>2 DEF Sections, Paragraphs
    <2>3. QED BY <2>1, <2>2
  <1>3. \A a, z : Kept(a, z) => Kept(a, z)'
    <2>1. \A i, z : Placed(i, z) => Placed(i, z)'
      BY <1>1, <1>2, ZenonT(40) DEF Placed, Owned, Replaced, Cut
    <2>2. QED BY <1>1, <1>2, <2>1 DEF Kept
  <1>4. StageInv'
    <2>1. CASE signed > 0 /\ signature = 0
      BY <1>1, <2>1 DEF StageInv
    <2>2. CASE ~(signed > 0 /\ signature = 0)
      <3>1. pc = "paragraphs"
        BY <1>1, <2>2, Stages DEF TextInv, InHeaders, Begun
      <3>2. signed = 0 \/ signature > 0
        BY <2>2 DEF IInv, CounterInv
      <3>3. pc' = "done"
        BY <1>1, <2>2
      <3>4. CASE Plain
        <4>1. Plain'
          BY <1>1, <1>3, <3>3, <3>4 DEF Plain, Without, QuietAfter
        <4>2. QED BY <4>1 DEF StageInv
      <3>5. ASSUME NEW b \in DOMAIN lines, NEW t \in DOMAIN lines, NEW e \in DOMAIN lines,
                   NEW x \in DOMAIN lines, After(b, t, e, x)
            PROVE  StageInv'
        <4>1. After(b, t, e, x)'
          BY <1>1, <1>3, <3>3, <3>5 DEF After, Ended, Begun, Mark, QuietBefore, QuietAfter
        <4>2. QED BY <1>1, <4>1 DEF StageInv
      <3>6. QED BY <3>1, <3>2, <3>4, <3>5, Stages DEF TextInv
    <2>3. QED BY <2>1, <2>2
  <1>5. TagInv'
    <2>1. last_tag' = NoField => visited' = <<>>
      BY <1>1, NoTag DEF TextInv, TagInv
    <2>2. open_section' => section' \in Paragraphs'
      BY <1>1, Passing DEF Sections
    <2>3. QED BY <1>1, <2>1, <2>2 DEF TagInv
  <1>6. BlockInv'
    <2>1. Going /\ ~Going'
      BY <1>1 DEF Going
    <2>2. QED BY <1>1, <2>1, BlocksEnd DEF TextInv
  <1>7. QED BY <1>4, <1>5, <1>6 DEF TextInv

\* Nothing but the end.
LEMMA StillText ==
    ASSUME TextInv, UNCHANGED <<flags, lines, position, armour, paragraph, visited>>,
           pc' \in {pc, "died"}
    PROVE  TextInv'
  <1>1. UNCHANGED <<flags, lines, signed, signature, last_tag, open_section, section, visited>>
    BY DEF armour, paragraph
  <1>2. /\ \A a, z : Kept(a, z)' <=> Kept(a, z)
        /\ \A a, K : Without(a, K)' <=> Without(a, K)
        /\ \A a, K, m : Mark(a, K, m)' <=> Mark(a, K, m)
        /\ \A n : QuietBefore(n)' <=> QuietBefore(n)
        /\ \A n : QuietAfter(n)' <=> QuietAfter(n)
    BY <1>1 DEF Kept, Placed, Owned, Replaced, Cut, Sections, Paragraphs, Without, Mark, QuietBefore,
                QuietAfter
  <1>3. StageInv'
    <2>1. CASE pc' = "died"
      BY <2>1 DEF StageInv
    <2>2. CASE pc' = pc
      BY <1>1, <1>2, <2>2
      DEF TextInv, StageInv, Plain, InHeaders, InMessage, InSignature, After, Ended, Begun
    <2>3. QED BY <2>1, <2>2
  <1>4. TagInv'
    BY <1>1 DEF TextInv, TagInv, Owned, Paragraphs
  <1>5. BlockInv'
    <2>1. \A i, j : Cut(i, j)' <=> Cut(i, j)
      BY <1>1 DEF Cut
    <2>2. (Going' => Going) /\ \A k : Part(k)' = Part(k)
      BY <1>1 DEF Going, Part
    <2>3. /\ \A k \in DOMAIN visited' : Whole(Part(k))'
          /\ \A k, m \in DOMAIN visited' : k < m => Apart(Part(k), Part(m))'
      BY <1>1, <2>1, <2>2 DEF TextInv, BlockInv, Whole, Apart
    <2>4. (Going => /\ Whole(Used(section))
                    /\ \A k \in DOMAIN visited : Apart(Part(k), Used(section))
                    /\ \A k \in DOMAIN visited : \A i \in Part(k) : Cut(i, Len(lines)))'
      BY <1>1, <2>1, <2>2 DEF TextInv, BlockInv, Whole, Apart
    <2>5. (Going /\ signature = 0 => \A i \in Used(section) : ~Cut(i, Len(lines)))'
      BY <1>1, <2>1, <2>2 DEF TextInv, BlockInv
    <2>6. QED BY <2>3, <2>4, <2>5 DEF BlockInv
  <1>6. QED BY <1>3, <1>4, <1>5 DEF TextInv

LEMMA PlainIsUnsigned == IInv /\ Plain => ~IsSigned
  <1>1. \A i \in DOMAIN lines : 0 < i
    BY LenProperties DEF IInv, CounterInv
  <1>2. QED BY <1>1 DEF Plain, Without, MessageBegin, IsSigned, Of

-----------------------------------------------------------------------------
(***************************************************************************)
(* The field "0" ahead of the message.  LastInv ties the last tag to the   *)
(* lines while nothing is signed; the one message that may then begin      *)
(* after a field begins after one named "0", and what is ahead of the      *)
(* first message does not change any more.                                 *)
(***************************************************************************)
LastInv == pc = "paragraphs" /\ signed = 0 /\ last_tag # NoField => Owned(Len(lines), last_tag)

\* ZeroAhead, of a message that begins at line b.
Ahead(b) ==
    /\ Mark(0, MessageBegin, b)
    /\ \E i \in DOMAIN lines :
          /\ i < b /\ lines[i].kind \in FieldKinds /\ lines[i].name = Zero
          /\ \A k \in DOMAIN lines : k < b /\ lines[k].kind \in FieldKinds => k <= i

SomeAhead == \E b : Ahead(b)

LEMMA Less == \A i, j \in Nat : i < j <=> ~(j <= i)
  OBVIOUS

LEMMA AheadIs == IInv => (ZeroAhead <=> SomeAhead)
  <1> SUFFICES ASSUME IInv PROVE ZeroAhead <=> \E b : Ahead(b) BY DEF SomeAhead
  <1>1. DOMAIN lines \subseteq Nat /\ \A i \in DOMAIN lines : i \in Nat /\ 0 < i
    BY LenProperties DEF IInv, CounterInv
  <1>2. Of({"BEGIN MESSAGE"}) \in SUBSET Nat
    BY <1>1 DEF Of
  <1>3. ASSUME NEW b, Mark(0, MessageBegin, b)
        PROVE  First(Of({"BEGIN MESSAGE"})) = b /\ b \in Of({"BEGIN MESSAGE"})
    <2>1. b \in Of({"BEGIN MESSAGE"}) /\ b \in Nat
      BY <1>1, <1>3 DEF Mark, Of, MessageBegin
    <2>2. ASSUME NEW i \in Of({"BEGIN MESSAGE"}) PROVE b <= i
      <3>1. i \in DOMAIN lines /\ ~(0 < i /\ i < b)
        BY <1>3, <2>2 DEF Mark, Of, MessageBegin
      <3>2. i \in Nat /\ 0 < i
        BY <1>1, <3>1, Zenon
      <3>3. QED BY <2>1, <3>1, <3>2, Less, Zenon
    <2>3. QED BY <1>2, <2>1, <2>2, FirstIsLeast
  <1>4. ASSUME NEW b, Ahead(b) PROVE ZeroAhead
    <2>1. First(Of({"BEGIN MESSAGE"})) = b /\ IsSigned
      BY <1>3, <1>4 DEF Ahead, IsSigned
    <2>2. QED BY <1>4, <2>1 DEF Ahead, ZeroAhead, Of, FieldKinds
  <1>5. ASSUME ZeroAhead PROVE \E b : Ahead(b)
    <2>1. PICK c \in Of({"BEGIN MESSAGE"}) : \A j \in Of({"BEGIN MESSAGE"}) : c <= j
      BY <1>2, <1>5, FirstExists DEF ZeroAhead, IsSigned
    <2>2. Mark(0, MessageBegin, c)
      <3>1. c \in DOMAIN lines /\ 0 < c /\ lines[c].kind \in MessageBegin
        BY <1>1, <2>1 DEF Of, MessageBegin
      <3>2. ASSUME NEW i \in DOMAIN lines, i < c PROVE lines[i].kind \notin MessageBegin
        <4>0. i \in Nat /\ c \in Nat
          BY <1>1, <3>1, Zenon
        <4>1. ~(c <= i)
          BY <3>2, <4>0, Less, Zenon
        <4>2. QED BY <2>1, <4>1 DEF Of, MessageBegin
      <3>3. QED BY <3>1, <3>2 DEF Mark
    <2>3. First(Of({"BEGIN MESSAGE"})) = c
      BY <1>3, <2>2
    <2>4. Ahead(c)
      BY <1>5, <2>2, <2>3 DEF Ahead, ZeroAhead, Of, FieldKinds
    <2>5. QED BY <2>4
  <1>6. QED BY <1>4, <1>5

LEMMA ZeroStays ==
    ASSUME IInv, IInv', NEW l \in Line, Shift(l), ZeroAhead PROVE ZeroAhead'
  <1>1. PICK b : Ahead(b)
    BY AheadIs DEF SomeAhead
  <1>2. Mark(0, MessageBegin, b)'
    BY <1>1, MarkStays DEF Ahead, IInv
  <1>3. PICK n \in Nat :
           /\ n = Len(lines) + 1 /\ DOMAIN lines' = DOMAIN lines \cup {n} /\ b \in Nat /\ b < n
           /\ \A i \in DOMAIN lines : lines'[i] = lines[i]
    <2>1. b \in DOMAIN lines
      BY <1>1 DEF Ahead, Mark
    <2>2. PICK n \in Nat : n = Len(lines) + 1
      BY Longer DEF IInv
    <2>3. /\ Len(lines) \in Nat /\ DOMAIN lines = 1..Len(lines) /\ DOMAIN lines' = 1..n
          /\ \A i \in 1..Len(lines) : lines'[i] = lines[i]
      BY <2>2, Longer DEF IInv
    <2>4. DOMAIN lines' = DOMAIN lines \cup {n} /\ b \in Nat /\ b < n
      BY <2>1, <2>2, <2>3
    <2>5. QED BY <2>2, <2>3, <2>4
  <1>4. PICK i \in DOMAIN lines :
           /\ i < b /\ lines[i].kind \in FieldKinds /\ lines[i].name = Zero
           /\ \A k \in DOMAIN lines : k < b /\ lines[k].kind \in FieldKinds => k <= i
    BY <1>1 DEF Ahead
  <1>5. \A k \in DOMAIN lines' : k < b => k \in DOMAIN lines
    BY <1>3
  <1>6. Ahead(b)'
    BY <1>2, <1>3, <1>4, <1>5 DEF Ahead
  <1>7. (IInv => (ZeroAhead <=> SomeAhead))'
    BY AheadIs, PTL
  <1>8. QED BY <1>6, <1>7 DEF SomeAhead

\* The message that begins though a field was read.
LEMMA ZeroBegins ==
    ASSUME IInv, IInv', LastInv, Plain, NEW l \in Line, Shift(l), OneOf(l, MessageBegin),
           pc = "paragraphs", signed = 0, last_tag = Zero, last_tag # NoField
    PROVE  ZeroAhead'
  <1>1. Owned(Len(lines), Zero)
    BY DEF LastInv
  <1>2. PICK i \in 1..Len(lines) : /\ lines[i].kind \in FieldKinds /\ lines[i].name = Zero
                                   /\ \A k \in i + 1..Len(lines) : lines[k].kind \notin FieldKinds
    BY <1>1 DEF Owned
  <1>3. PICK n : n = Len(lines) + 1
    OBVIOUS
  <1>4. /\ Len(lines) \in Nat /\ DOMAIN lines' = 1..n /\ lines'[n] = l
        /\ \A j \in 1..Len(lines) : lines'[j] = lines[j]
    BY <1>3, Longer DEF IInv
  <1>5. Mark(0, MessageBegin, n)'
    BY <1>3, <1>4, MarkNew DEF IInv, Plain, OneOf
  <1>6. i \in 1..n /\ i < n
    BY <1>3, <1>4
  <1>7. ASSUME NEW k \in 1..n, k < n, lines'[k].kind \in FieldKinds PROVE k <= i
    <2>1. k \in 1..Len(lines)
      BY <1>3, <1>4, <1>7
    <2>2. k \notin i + 1..Len(lines)
      BY <1>2, <1>4, <1>7, <2>1
    <2>3. QED BY <1>4, <2>1, <2>2
  <1>8. Ahead(n)'
    BY <1>2, <1>4, <1>5, <1>6, <1>7 DEF Ahead
  <1>9. (IInv => (ZeroAhead <=> SomeAhead))'
    BY AheadIs, PTL
  <1>10. QED BY <1>8, <1>9 DEF SomeAhead

LEMMA LastStays ==
    ASSUME IInv, LastInv, NEW l \in Line, Shift(l), UNCHANGED <<signed, last_tag>>,
           pc' # "paragraphs" \/ (pc = "paragraphs" /\ l.kind \notin FieldKinds) \/ signed > 0
    PROVE  LastInv'
  <1> SUFFICES ASSUME pc' = "paragraphs", signed = 0, last_tag # NoField
               PROVE  Owned(Len(lines), last_tag)'
    BY DEF LastInv
  <1>1. pc = "paragraphs" /\ l.kind \notin FieldKinds /\ Owned(Len(lines), last_tag)
    BY DEF LastInv
  <1>2. PICK n \in Nat : n = Len(lines) + 1 /\ Len(lines') = n
    BY NextNumber
  <1>3. PICK f : f = last_tag
    OBVIOUS
  <1>4. Owned(n, f)'
    BY <1>1, <1>2, <1>3, OwnedNew DEF IInv
  <1>5. QED BY <1>2, <1>3, <1>4

\* What a step does to the lines and to the last tag.
LEMMA LastKeeps == IInv /\ LastInv /\ [Next]_vars => LastInv'
  <1> SUFFICES ASSUME IInv, LastInv, [Next]_vars PROVE LastInv' OBVIOUS
  <1>0. ASSUME UNCHANGED <<lines, armour, paragraph>>, pc' = pc \/ pc' # "paragraphs" PROVE LastInv'
    BY <1>0 DEF LastInv, armour, paragraph, Owned
  <1>1. ASSUME NEW l \in Line, Shift(l), Die PROVE LastInv'
    BY <1>1, LastStays DEF Die, armour, paragraph
  <1>2. ASSUME NEW l \in Line, Turn(l), l.kind \notin FieldKinds, UNCHANGED <<armour, last_tag>>
        PROVE  LastInv'
    BY <1>2, LastStays DEF Turn, armour
  <1>3. ASSUME NEW l \in Line, Shift(l), l.kind \in FieldKinds, StartField(l.name) PROVE LastInv'
    <2>1. last_tag' = l.name
      BY <1>3 DEF StartField
    <2>2. PICK n \in Nat : n = Len(lines) + 1 /\ Len(lines') = n
      BY <1>3, NextNumber
    <2>3. Owned(n, l.name)'
      BY <1>3, <2>2, OwnedNew DEF IInv
    <2>4. QED BY <2>1, <2>2, <2>3 DEF LastInv
  <1>4. CASE Comment
    <2>1. PICK l \in Line : /\ Turn(l) /\ l.kind = "comment"
                            /\ \/ Die
                               \/ UNCHANGED <<pc, armour, paragraph, visited>>
      BY <1>4 DEF Comment
    <2>2. QED BY <1>1, <1>2, <2>1 DEF Turn, paragraph, FieldKinds
  <1>5. CASE Blank
    <2>1. PICK l \in Line : Turn(l) /\ IsBlank(l)
      BY <1>5 DEF Blank
    <2>2. l.kind \notin FieldKinds
      BY <2>1 DEF IsBlank, FieldKinds
    <2>3. UNCHANGED <<armour, last_tag>>
      BY <1>5 DEF Blank
    <2>4. QED BY <1>2, <2>1, <2>2, <2>3
  <1>6. CASE BeginSignature
    <2>1. PICK l \in Line : /\ Turn(l)
                            /\ \/ Die
                               \/ pc' = "signature" /\ UNCHANGED <<signed, paragraph>>
      BY <1>6 DEF BeginSignature
    <2>2. QED BY <1>1, <2>1, LastStays DEF Turn, paragraph
  <1>7. CASE SkipSignature
    <2>1. PICK l \in Line : pc = "signature" /\ Shift(l) /\ UNCHANGED <<armour, paragraph>>
      BY <1>7 DEF SkipSignature
    <2>2. signed > 0
      BY <2>1 DEF IInv, CounterInv
    <2>3. QED BY <2>1, <2>2, LastStays DEF armour, paragraph
  <1>8. CASE OtherArmour
    BY <1>1, <1>8 DEF OtherArmour, Turn
  <1>9. CASE BeginMessage
    <2>1. PICK l \in Line : Turn(l) /\ (Die \/ pc' = "headers")
      BY <1>9 DEF BeginMessage
    <2>2. QED BY <2>1 DEF Die, LastInv
  <1>10. CASE SkipHeaders
    <2>1. PICK l \in Line : pc = "headers" /\ Shift(l) /\ UNCHANGED <<armour, paragraph>>
      BY <1>10 DEF SkipHeaders
    <2>2. signed > 0
      BY <2>1 DEF IInv, CounterInv
    <2>3. QED BY <2>1, <2>2, LastStays DEF armour, paragraph
  <1>11. CASE AfterSignature
    <2>1. PICK l \in Line : /\ Text(l)
                            /\ \/ Die
                               \/ l.kind = "space" /\ UNCHANGED <<pc, armour, paragraph, visited>>
      BY <1>11 DEF AfterSignature
    <2>2. QED BY <1>1, <1>2, <2>1 DEF Text, Turn, paragraph, FieldKinds
  <1>12. CASE EmptyField
    BY <1>3, <1>12 DEF EmptyField, Text, Turn, FieldKinds
  <1>13. CASE NewField
    BY <1>1, <1>3, <1>13 DEF NewField, Text, Turn, FieldKinds
  <1>14. CASE Continued
    <2>1. PICK l \in Line : /\ Text(l) /\ l.kind = "indented"
                            /\ Die \/ UNCHANGED <<armour, last_tag>>
      BY <1>14 DEF Continued
    <2>2. QED BY <1>1, <1>2, <2>1 DEF Text, Turn, FieldKinds
  <1>15. CASE SyntaxError
    BY <1>1, <1>15 DEF SyntaxError, Text, Turn
  <1>16. CASE EndOfFile
    BY <1>0, <1>16 DEF EndOfFile
  <1>17. CASE EndInSignature
    BY <1>0, <1>17 DEF EndInSignature, Die
  <1>18. CASE Terminated
    BY <1>0, <1>18 DEF Terminated, vars
  <1>19. CASE UNCHANGED vars
    BY <1>0, <1>19 DEF vars
  <1>20. QED
    BY <1>4, <1>5, <1>6, <1>7, <1>8, <1>9, <1>10, <1>11, <1>12, <1>13, <1>14, <1>15, <1>16, <1>17,
       <1>18, <1>19 DEF Next

LEMMA Reads == [Next]_vars => UNCHANGED lines \/ \E l \in Line : Shift(l)
  <1>1. Comment \/ Blank \/ BeginSignature \/ SkipSignature => \E l \in Line : Shift(l)
    BY DEF Comment, Blank, BeginSignature, SkipSignature, Turn
  <1>2. OtherArmour \/ BeginMessage \/ SkipHeaders \/ AfterSignature => \E l \in Line : Shift(l)
    BY DEF OtherArmour, BeginMessage, SkipHeaders, AfterSignature, Text, Turn
  <1>3. EmptyField \/ NewField \/ Continued \/ SyntaxError => \E l \in Line : Shift(l)
    BY DEF EmptyField, NewField, Continued, SyntaxError, Text, Turn
  <1>4. EndOfFile \/ EndInSignature \/ Terminated \/ UNCHANGED vars => UNCHANGED lines
    BY DEF EndOfFile, EndInSignature, Terminated, vars
  <1>5. QED BY <1>1, <1>2, <1>3, <1>4 DEF Next

LEMMA ZeroKeeps == IInv /\ IInv' /\ ZeroAhead /\ [Next]_vars => ZeroAhead'
  <1> SUFFICES ASSUME IInv, IInv', ZeroAhead, [Next]_vars PROVE ZeroAhead' OBVIOUS
  <1>1. CASE UNCHANGED lines
    BY <1>1 DEF ZeroAhead, IsSigned, Of
  <1>2. CASE \E l \in Line : Shift(l)
    BY <1>2, ZeroStays
  <1>3. QED BY <1>1, <1>2, Reads

-----------------------------------------------------------------------------
LEMMA InitText == Init => TextInv
  <1> SUFFICES ASSUME Init PROVE TextInv OBVIOUS
  <1>1. DOMAIN lines = {} /\ DOMAIN visited = {} /\ Paragraphs = {} /\ Used(section) = {}
    BY DEF Init, Paragraphs, Used, Nothing
  <1>2. Plain
    BY <1>1 DEF Init, Plain, Without, Kept, Sections, QuietAfter
  <1>3. StageInv /\ TagInv
    BY <1>2 DEF StageInv, TagInv, Init
  <1>4. BlockInv
    BY <1>1 DEF BlockInv, Whole, Apart
  <1>5. QED BY <1>3, <1>4 DEF TextInv

LEMMA TextKeeps == IInv /\ IInv' /\ LastInv /\ TextInv /\ [Next]_vars => TextInv' \/ ZeroAhead'
  <1> SUFFICES ASSUME IInv, IInv', LastInv, TextInv, [Next]_vars PROVE TextInv' \/ ZeroAhead' OBVIOUS
  <1>1. CASE Comment
    <2>1. PICK l \in Line : /\ Turn(l) /\ l.kind = "comment"
                            /\ \/ Die
                               \/ Continue /\ UNCHANGED <<pc, armour, paragraph, visited>>
      BY <1>1 DEF Comment
    <2>2. OneOf(l, Quiet) /\ ~Separates(l)
      BY <2>1 DEF OneOf, Quiet, Separates
    <2>3. QED BY <2>1, <2>2, DieText, QuietText DEF Turn
  <1>2. CASE Blank
    <2>1. PICK l \in Line : Turn(l) /\ IsBlank(l)
      BY <1>2 DEF Blank
    <2>2. OneOf(l, Quiet) /\ Separates(l)
      BY <2>1 DEF IsBlank, OneOf, Quiet, Separates
    <2>3. CASE open_section
      BY <1>2, <2>1, <2>2, <2>3, VisitText DEF Blank, Turn
    <2>4. CASE ~open_section
      <3>1. UNCHANGED <<pc, armour, paragraph, visited>>
        BY <1>2, <2>4 DEF Blank, paragraph
      <3>2. QED BY <2>1, <2>2, <2>4, <3>1, QuietText DEF Turn
    <2>5. QED BY <2>3, <2>4, NoTag
  <1>3. CASE BeginSignature
    <2>1. PICK l \in Line : /\ Turn(l) /\ l.kind = "BEGIN SIGNATURE"
                            /\ IF signed = 0 \/ signature > 0 THEN Die
                               ELSE /\ signature' = position /\ pc' = "signature"
                                    /\ UNCHANGED <<position, signed, paragraph, visited>>
      BY <1>3 DEF BeginSignature
    <2>2. OneOf(l, SignatureBegin)
      BY <2>1 DEF OneOf, SignatureBegin
    <2>3. signed = 0 \/ (signed > 0 /\ (signature = 0 \/ signature > 0))
      BY DEF IInv, CounterInv
    <2>4. QED BY <2>1, <2>2, <2>3, DieText, SignatureText DEF Turn
  <1>4. CASE SkipSignature
    <2>1. PICK l \in Line : /\ pc = "signature" /\ Shift(l)
                            /\ pc' = IF l.kind = "END SIGNATURE" THEN "paragraphs" ELSE pc
                            /\ UNCHANGED <<armour, paragraph, visited>>
      BY <1>4 DEF SkipSignature
    <2>2. l.kind = "END SIGNATURE" <=> OneOf(l, SignatureClose)
      BY DEF OneOf, SignatureClose
    <2>3. QED BY <2>1, <2>2, SignatureGoesText
  <1>5. CASE OtherArmour
    BY <1>5, DieText DEF OtherArmour, Turn
  <1>6. CASE BeginMessage
    <2>1. PICK l \in Line : /\ Turn(l) /\ l.kind = "BEGIN MESSAGE"
                            /\ IF signed > 0 \/ IsTrue(last_tag) THEN Die
                               ELSE /\ signed' = position /\ pc' = "headers"
                                    /\ UNCHANGED <<position, signature, paragraph, visited>>
      BY <1>6 DEF BeginMessage
    <2>2. OneOf(l, MessageBegin)
      BY <2>1 DEF OneOf, MessageBegin
    <2>3. signed = 0 \/ signed > 0
      BY DEF IInv, CounterInv
    <2>4. CASE signed = 0 /\ last_tag = Zero /\ last_tag # NoField
      <3>1. Plain
        BY <2>1, <2>4, Stages DEF TextInv, Turn
      <3>2. QED BY <2>1, <2>2, <2>4, <3>1, ZeroBegins DEF Turn
    <2>5. CASE signed > 0 \/ last_tag = NoField \/ last_tag # Zero
      BY <2>1, <2>2, <2>3, <2>5, DieText, MessageText DEF Turn, IsTrue
    <2>6. QED BY <2>3, <2>4, <2>5
  <1>7. CASE SkipHeaders
    <2>1. PICK l \in Line : /\ pc = "headers" /\ Shift(l)
                            /\ pc' = IF l.kind \in {"empty", "space"} THEN "paragraphs" ELSE pc
                            /\ UNCHANGED <<armour, paragraph, visited>>
      BY <1>7 DEF SkipHeaders
    <2>2. l.kind \in {"empty", "space"} <=> OneOf(l, HeadersEnd)
      BY DEF OneOf, HeadersEnd
    <2>3. QED BY <2>1, <2>2, HeadersText
  <1>8. CASE AfterSignature
    <2>1. PICK l \in Line :
             /\ Text(l) /\ signature > 0
             /\ IF l.kind = "space" THEN Continue /\ UNCHANGED <<pc, armour, paragraph, visited>> ELSE Die
      BY <1>8 DEF AfterSignature
    <2>2. Shift(l) /\ pc = "paragraphs"
      BY <2>1 DEF Text, Turn
    <2>3. l.kind = "space" => OneOf(l, Quiet)
      BY DEF OneOf, Quiet
    <2>4. QED BY <2>1, <2>2, <2>3, DieText, QuietText
  <1>9. CASE EmptyField
    <2>1. PICK l \in Line : Text(l) /\ signature = 0 /\ l.kind = "empty field" /\ StartField(l.name)
      BY <1>9 DEF EmptyField
    <2>2. PICK f \in Field : f = l.name
      BY <2>1 DEF Line, Marker
    <2>3. Names(l, f) /\ Shift(l) /\ pc = "paragraphs"
      BY <2>1, <2>2 DEF Names, FieldKinds, Text, Turn
    <2>4. QED BY <2>1, <2>2, <2>3, FieldText
  <1>10. CASE NewField
    <2>1. PICK l \in Line : /\ Text(l) /\ signature = 0 /\ l.kind = "field"
                            /\ IF l.name \in DOMAIN section THEN Die ELSE StartField(l.name)
      BY <1>10 DEF NewField
    <2>2. PICK f \in Field : f = l.name
      BY <2>1 DEF Line, Marker
    <2>3. Shift(l) /\ pc = "paragraphs"
      BY <2>1 DEF Text, Turn
    <2>4. CASE f \in DOMAIN section
      BY <2>1, <2>2, <2>3, <2>4, DieText
    <2>5. CASE f \notin DOMAIN section
      <3>1. Names(l, f)
        BY <2>1, <2>2, <2>5 DEF Names, FieldKinds
      <3>2. QED BY <2>1, <2>2, <2>3, <2>5, <3>1, FieldText
    <2>6. QED BY <2>4, <2>5
  <1>11. CASE Continued
    <2>1. PICK l \in Line :
             /\ Text(l) /\ signature = 0 /\ l.kind = "indented"
             /\ IF ~open_section THEN Die
                ELSE /\ section' = Store(section, last_tag, section[last_tag] \cup {Number})
                     /\ UNCHANGED <<pc, armour, last_tag, open_section, field_starts, visited>>
      BY <1>11 DEF Continued
    <2>2. Shift(l) /\ pc = "paragraphs" /\ OneOf(l, {"indented"})
      BY <2>1 DEF Text, Turn, OneOf
    <2>3. CASE ~open_section
      BY <2>1, <2>2, <2>3, DieText
    <2>4. CASE open_section
      BY <2>1, <2>2, <2>4, ContinuedText
    <2>5. QED BY <2>3, <2>4, NoTag
  <1>12. CASE SyntaxError
    BY <1>12, DieText DEF SyntaxError, Text, Turn
  <1>13. CASE EndOfFile
    BY <1>13, EndText
  <1>14. CASE EndInSignature
    BY <1>14, StillText DEF EndInSignature, Die
  <1>15. CASE Terminated
    BY <1>15, StillText DEF Terminated, vars
  <1>16. CASE UNCHANGED vars
    BY <1>16, StillText DEF vars
  <1>17. QED
    BY <1>1, <1>2, <1>3, <1>4, <1>5, <1>6, <1>7, <1>8, <1>9, <1>10, <1>11, <1>12, <1>13, <1>14,
       <1>15, <1>16 DEF Next

LEMMA TextHolds == Spec => [](IInv /\ LastInv /\ (TextInv \/ ZeroAhead))
  <1>1. Init => IInv /\ LastInv /\ TextInv
    BY InitInv, InitText DEF Init, LastInv
  <1>2. (IInv /\ LastInv /\ (TextInv \/ ZeroAhead)) /\ [Next]_vars
           => (IInv /\ LastInv /\ (TextInv \/ ZeroAhead))'
    BY NextInv, LastKeeps, TextKeeps, ZeroKeeps
  <1>3. QED BY <1>1, <1>2, PTL DEF Spec

-----------------------------------------------------------------------------
LEMMA BlocksFollow == IInv /\ (TextInv \/ ZeroAhead) => ParagraphsAreBlocks
  <1> SUFFICES ASSUME IInv, BlockInv, NEW s \in Paragraphs, NEW t \in Paragraphs,
                      NEW i \in Used(s), NEW j \in Used(t), i < j
               PROVE  s = t <=> ~Cut(i, j)
    BY DEF ParagraphsAreBlocks, TextInv
  <1>1. PICK k \in DOMAIN visited : s = visited[k][1]
    BY DEF Paragraphs
  <1>2. PICK m \in DOMAIN visited : t = visited[m][1]
    BY DEF Paragraphs
  <1>3. i \in Part(k) /\ j \in Part(m) /\ i \in Nat /\ j \in Nat
    BY <1>1, <1>2, UsedLines, LenProperties DEF Part, IInv, CounterInv
  <1>4. s = t => ~Cut(i, j)
    BY <1>1, <1>2, <1>3 DEF BlockInv, Whole, Part
  <1>5. ASSUME s # t PROVE Cut(i, j)
    <2>1. k \in Nat /\ m \in Nat /\ k # m
      BY <1>1, <1>2, <1>5, LenProperties DEF IInv, VisitedInv
    <2>2. ~(m < k)
      <3>1. ASSUME m < k PROVE Cut(j, i)
        BY <1>3, <3>1 DEF BlockInv, Apart
      <3>2. j..i = {}
        BY <1>3
      <3>3. ~Cut(j, i)
        BY <3>2 DEF Cut
      <3>4. QED BY <3>1, <3>3
    <2>3. k < m
      BY <2>1, <2>2
    <2>4. QED BY <1>3, <2>3 DEF BlockInv, Apart
  <1>6. QED BY <1>4, <1>5

LEMMA MarkIsFirst ==
    ASSUME IInv, NEW a \in Nat, NEW K, NEW m, Mark(a, K, m), NEW S, S = {i \in Of(K) : i > a}
    PROVE  First(S) = m /\ m \in S
  <1>1. DOMAIN lines \subseteq Nat
    BY LenProperties DEF IInv, CounterInv
  <1>2. S \in SUBSET Nat /\ m \in S
    BY <1>1 DEF Of, Mark
  <1>3. ASSUME NEW i \in S PROVE m <= i
    BY <1>1, <1>2 DEF Of, Mark
  <1>4. QED BY <1>2, <1>3, FirstIsLeast

\* The text of a signed message is what is between the marks.
LEMMA TheText ==
    ASSUME IInv, NEW b \in DOMAIN lines, NEW t \in DOMAIN lines, NEW e \in DOMAIN lines,
           NEW x \in DOMAIN lines, After(b, t, e, x)
    PROVE  /\ IsSigned /\ First(Of({"BEGIN MESSAGE"})) = b /\ TextStart = t /\ TextEnd = e
           /\ SignatureEnd = x /\ \A i : InText(i) <=> t < i /\ i < e
  <1>1. b \in Nat /\ t \in Nat /\ e \in Nat /\ \A i \in DOMAIN lines : i > 0
    BY LenProperties DEF IInv, CounterInv
  <1>2. /\ Mark(0, MessageBegin, b) /\ Mark(b, HeadersEnd, t) /\ Mark(t, SignatureBegin, e)
        /\ Mark(e, SignatureClose, x)
    BY DEF After, Ended, Begun
  <1>3. Of({"BEGIN MESSAGE"}) = {i \in Of(MessageBegin) : i > 0}
    BY <1>1 DEF Of, MessageBegin
  <1>4. First(Of({"BEGIN MESSAGE"})) = b /\ IsSigned
    BY <1>2, <1>3, MarkIsFirst DEF IsSigned
  <1>5. Headers = {i \in Of(HeadersEnd) : i > b}
    BY <1>4 DEF Headers, Of, HeadersEnd
  <1>6. TextStart = t
    BY <1>1, <1>2, <1>5, MarkIsFirst DEF TextStart
  <1>7. TextEnd = e
    <2>1. TextEnd = First({i \in Of(SignatureBegin) : i > t})
      BY <1>6 DEF TextEnd, SignatureBegin
    <2>2. QED BY <1>1, <1>2, <2>1, MarkIsFirst
  <1>8. SignatureEnd = x
    <2>1. SignatureEnd = First({i \in Of(SignatureClose) : i > e})
      BY <1>7 DEF SignatureEnd, SignatureClose
    <2>2. QED BY <1>1, <1>2, <2>1, MarkIsFirst
  <1>9. QED BY <1>4, <1>6, <1>7, <1>8 DEF InText

LEMMA SignedFollow == IInv /\ (TextInv \/ ZeroAhead) => EntireFileIsSigned
  <1> SUFFICES ASSUME IInv, TextInv, pc = "done", IsSigned
               PROVE  /\ \A i \in AllUsed : InText(i)
                      /\ \A i \in DOMAIN lines :
                            i < First(Of({"BEGIN MESSAGE"})) \/ i > SignatureEnd =>
                               lines[i].kind \in {"empty", "space", "comment"}
    BY DEF EntireFileIsSigned
  <1>1. PICK b, t, e, x \in DOMAIN lines : After(b, t, e, x)
    BY Stages, PlainIsUnsigned DEF TextInv
  <1>2. /\ First(Of({"BEGIN MESSAGE"})) = b /\ SignatureEnd = x
        /\ \A i : InText(i) <=> t < i /\ i < e
    BY <1>1, TheText
  <1>3. \A i \in AllUsed : InText(i)
    BY <1>1, <1>2 DEF After, Ended, Kept, Sections, AllUsed
  <1>4. QuietBefore(b) /\ QuietAfter(x)
    BY <1>1 DEF After, Ended, Begun
  <1>5. QED BY <1>2, <1>3, <1>4 DEF QuietBefore, QuietAfter, Quiet

LEMMA OwnerIs ==
    ASSUME NEW i \in Nat, NEW f, Owned(i, f) PROVE Owner(i) = f
  <1> DEFINE P(j) == /\ lines[j].kind \in FieldKinds
                     /\ \A k \in j + 1..i : lines[k].kind \notin FieldKinds
             c == CHOOSE j \in 1..i : P(j)
  <1>1. PICK j \in 1..i : P(j) /\ lines[j].name = f
    BY DEF Owned
  <1>2. c \in 1..i /\ P(c)
    BY <1>1
  <1>3. Owner(i) = lines[c].name
    BY DEF Owner, FieldKinds
  <1> HIDE DEF c
  <1>4. c = j
    <2>1. c < j \/ j < c \/ c = j
      BY <1>1, <1>2
    <2>2. ~(c < j)
      BY <1>1, <1>2
    <2>3. ~(j < c)
      BY <1>1, <1>2
    <2>4. QED BY <2>1, <2>2, <2>3
  <1>5. QED BY <1>1, <1>3, <1>4

LEMMA FieldsFollow == IInv /\ TextInv => EveryLineInItsField
  <1> DEFINE Goal(i) == \/ \E s \in Paragraphs : Owner(i) \in DOMAIN s /\ i \in s[Owner(i)]
                        \/ \E j \in Content : /\ j > i /\ lines[j].kind = "empty field"
                                              /\ lines[j].name = Owner(i) /\ ~Cut(i, j)
  <1> SUFFICES ASSUME IInv, TextInv, pc = "done", NEW i \in Content PROVE Goal(i)
    BY DEF EveryLineInItsField
  <1>0. DOMAIN lines \subseteq Nat
    BY LenProperties DEF IInv, CounterInv
  <1>1. i \in DOMAIN lines /\ i \in Nat /\ lines[i].kind \in ContentKinds /\ InText(i)
    <2>1. i \in DOMAIN lines /\ lines[i].kind \in ContentKinds /\ InText(i)
      BY DEF Content, ContentKinds, Of
    <2>2. QED BY <1>0, <2>1
  <1>2. ASSUME NEW a, NEW z, Kept(a, z), a < i, i < z, a \in Nat, z \in Nat,
               \A j \in DOMAIN lines : a < j /\ j < z => InText(j)
        PROVE  Goal(i)
    <2>1. PICK f \in Field : /\ Owned(i, f)
                             /\ \/ \E s \in Sections : f \in DOMAIN s /\ i \in s[f]
                                \/ Replaced(i, f, z)
      BY <1>1, <1>2 DEF Kept, Placed
    <2>2. Owner(i) = f
      BY <1>1, <2>1, OwnerIs
    <2>3. CASE \E s \in Sections : f \in DOMAIN s /\ i \in s[f]
      <3>1. PICK s \in Sections : f \in DOMAIN s /\ i \in s[f]
        BY <2>3
      <3>2. s \in Paragraphs
        BY <3>1, NoTag DEF Sections, TextInv, TagInv, Nothing
      <3>3. QED BY <2>2, <3>1, <3>2
    <2>4. CASE Replaced(i, f, z)
      <3>1. PICK j \in DOMAIN lines : /\ i < j /\ j < z /\ lines[j].kind = "empty field"
                                      /\ lines[j].name = f /\ ~Cut(i, j)
        BY <2>4 DEF Replaced
      <3>2. a < j /\ j > i
        <4>1. j \in Nat /\ i < j
          BY <1>0, <3>1
        <4>2. QED BY <1>1, <1>2, <4>1
      <3>3. j \in Content
        BY <1>2, <3>1, <3>2 DEF Content, Of
      <3>4. QED BY <2>2, <3>1, <3>2, <3>3
    <2>5. QED BY <2>1, <2>3, <2>4
  <1>3. CASE Plain
    <2>1. Kept(0, Len(lines) + 1) /\ 0 < i /\ i < Len(lines) + 1 /\ Len(lines) + 1 \in Nat
      BY <1>1, <1>3, LenProperties DEF Plain, IInv, CounterInv
    <2>2. \A j : InText(j)
      BY <1>3, PlainIsUnsigned DEF InText
    <2>3. PICK z \in Nat : z = Len(lines) + 1
      BY <2>1
    <2>4. QED BY <1>2, <2>1, <2>2, <2>3
  <1>4. ASSUME NEW b \in DOMAIN lines, NEW t \in DOMAIN lines, NEW e \in DOMAIN lines,
               NEW x \in DOMAIN lines, After(b, t, e, x)
        PROVE  Goal(i)
    <2>1. Kept(t, e) /\ t \in Nat /\ e \in Nat
      BY <1>4, LenProperties DEF After, Ended, IInv, CounterInv
    <2>2. \A j : InText(j) <=> t < j /\ j < e
      BY <1>4, TheText
    <2>3. QED BY <1>1, <1>2, <2>1, <2>2
  <1>5. QED BY <1>3, <1>4, Stages DEF TextInv

\* In every file, however long and wherever its headers are, but where a field
\* "0" is ahead of the message: two lines are in one paragraph just when no
\* blank line and no PGP header is between them.
THEOREM BlocksHold == Spec => []ParagraphsAreBlocks
  BY TextHolds, BlocksFollow, PTL

\* Of every signed file that is accepted and has no field "0" ahead of the
\* message, the values are made of the lines that the signature covers, and
\* outside of it are only blank lines and comments.
THEOREM EntireFileIsSignedHolds == Spec => []EntireFileIsSigned
  BY TextHolds, SignedFollow, PTL

\* Every line with content of a file that is accepted is in the value of the
\* last field named before it, or an empty field of that name took its place.
\* Files with a field "0" ahead of the message are left to the model checker.
THEOREM EveryLineHolds == Spec => [](~ZeroAhead => EveryLineInItsField)
  BY TextHolds, FieldsFollow, PTL
=============================================================================
