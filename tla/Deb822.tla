-------------------------------- MODULE Deb822 --------------------------------
(***************************************************************************)
(* lib/Lintian/Deb822.pm, visit_dpkg_paragraph_string: a file in the style *)
(* of debian/control, a .dsc or a .changes is read line by line and cut    *)
(* into paragraphs of fields; the file may be signed with PGP.             *)
(*                                                                         *)
(* A line is what the patterns tell apart.  The file is chosen line by     *)
(* line as it is read.  A value is the set of lines it was made from.      *)
(***************************************************************************)
EXTENDS Integers, Sequences

CONSTANTS
    Field,          \* field names
    Zero,           \* the one of them that is false in Perl: "0"
    MaxLines        \* bound: lines in the file

NoField == "undef"
ASSUME Deb822Assumption == MaxLines \in Nat /\ NoField \notin Field

Flag == {"DCTRL_DEBCONF_TEMPLATE", "DCTRL_NO_COMMENTS"}

\* The lines: "space" is white space only, "BEGIN MESSAGE" the header of a
\* signed message, "other PGP" any other line that begins like a PGP header,
\* "indented" text after white space, "junk" what nothing else matches.
Marker == {"empty", "space", "comment", "indented", "junk",
           "BEGIN MESSAGE", "BEGIN SIGNATURE", "END SIGNATURE", "other PGP"}
Line == [kind : Marker, name : {NoField}] \cup [kind : {"field", "empty field"}, name : Field]

VARIABLES
    flags,
    lines,          \* the lines shifted so far
    pc,             \* which loop shifts the next line; "done"; "died"
    position, signed, signature, last_tag, open_section,
    section,        \* the value of each field: the lines it consists of
    field_starts,
    visited         \* what was passed to the handler: <<section, field_starts>>

armour == <<signed, signature>>
paragraph == <<last_tag, open_section, section, field_starts>>
vars == <<flags, lines, pc, position, armour, paragraph, visited>>

\* Hash tables keyed by field name.
Nothing == [f \in {} |-> {}]
Store(table, f, value) == [g \in DOMAIN table \cup {f} |-> IF g = f THEN value ELSE table[g]]

Paragraphs == {visited[k][1] : k \in DOMAIN visited}

TypeOK ==
    /\ flags \subseteq Flag /\ lines \in Seq(Line) /\ position \in 1..MaxLines + 1
    /\ pc \in {"paragraphs", "headers", "signature", "done", "died"}
    /\ signed \in 0..MaxLines /\ signature \in 0..MaxLines /\ (signature > 0 => signed > 0)
    /\ open_section \in BOOLEAN /\ last_tag \in Field \cup {NoField}
    /\ open_section <=> DOMAIN section # {}
    /\ open_section => last_tag \in DOMAIN section
    /\ \A k \in DOMAIN visited :
          LET s == visited[k][1] IN DOMAIN s # {} /\ DOMAIN s \subseteq Field
                                    /\ DOMAIN visited[k][2] = DOMAIN s
    /\ \A s \in Paragraphs \cup {section} : \A f \in DOMAIN s : s[f] \subseteq DOMAIN lines

Init ==
    /\ flags \in SUBSET Flag /\ lines = <<>> /\ pc = "paragraphs" /\ position = 1
    /\ signed = 0 /\ signature = 0
    /\ last_tag = NoField /\ open_section = FALSE /\ section = Nothing /\ field_starts = Nothing
    /\ visited = <<>>

\* shift @lines; an empty line is never the last, see AtEnd.
Shift(l) ==
    /\ Len(lines) + (IF l.kind = "empty" THEN 1 ELSE 0) < MaxLines
    /\ lines' = Append(lines, l) /\ UNCHANGED flags
\* The number of the line, which the code does not keep.
Number == Len(lines) + 1

\* A turn of the loop over the paragraphs; its continue block.
Turn(l) == pc = "paragraphs" /\ Shift(l)
\* Mutant: only the lines of paragraphs are counted.
ContinueUnlessClosed == position' = IF open_section THEN position + 1 ELSE position
Continue == position' = position + 1

Die == pc' = "died" /\ UNCHANGED <<position, armour, paragraph, visited>>

-----------------------------------------------------------------------------
\* The cases, in the order of the code: each excludes those before it.

IsBlank(l) == l.kind = "empty" \/ ("DCTRL_DEBCONF_TEMPLATE" \notin flags /\ l.kind = "space")

Comment ==
    \E l \in Line :
       /\ Turn(l) /\ l.kind = "comment"
       /\ IF "DCTRL_NO_COMMENTS" \in flags THEN Die
          ELSE Continue /\ UNCHANGED <<pc, armour, paragraph, visited>>

\* Mutant: the paragraph stays open.
VisitAgain ==
    /\ visited' = Append(visited, <<section, field_starts>>)
    /\ section' = Nothing /\ field_starts' = Nothing /\ open_section' = TRUE

Visit ==
    /\ visited' = Append(visited, <<section, field_starts>>)
    /\ section' = Nothing /\ field_starts' = Nothing /\ open_section' = FALSE

\* Mutant: in a signed message a blank line ends nothing.
BlankUnlessSigned ==
    /\ \E l \in Line : Turn(l) /\ IsBlank(l)
    /\ IF open_section /\ signed = 0
       THEN Visit ELSE UNCHANGED <<open_section, section, field_starts, visited>>
    /\ Continue /\ UNCHANGED <<pc, armour, last_tag>>

Blank ==
    /\ \E l \in Line : Turn(l) /\ IsBlank(l)
    /\ IF open_section THEN Visit ELSE UNCHANGED <<open_section, section, field_starts, visited>>
    /\ Continue /\ UNCHANGED <<pc, armour, last_tag>>

BeginSignature ==
    \E l \in Line :
       /\ Turn(l) /\ l.kind = "BEGIN SIGNATURE"
       /\ IF signed = 0 \/ signature > 0 THEN Die
          ELSE /\ signature' = position /\ pc' = "signature"
               /\ UNCHANGED <<position, signed, paragraph, visited>>

\* The loop that skips the signature: its continue block is not run for the
\* last line, that of the loop over paragraphs is.
SkipSignature ==
    \E l \in Line :
       /\ pc = "signature" /\ Shift(l) /\ Continue
       /\ pc' = IF l.kind = "END SIGNATURE" THEN "paragraphs" ELSE pc
       /\ UNCHANGED <<armour, paragraph, visited>>

OtherArmour ==
    /\ \E l \in Line : Turn(l) /\ l.kind \in {"END SIGNATURE", "other PGP"}
    /\ Die

\* "if $last_tag": a tag that was seen, and is not "0".
IsTrue(tag) == tag \notin {NoField, Zero}

\* Mutant: the message may begin after fields.
BeginMessageAnywhere ==
    \E l \in Line :
       /\ Turn(l) /\ l.kind = "BEGIN MESSAGE"
       /\ IF signed > 0 THEN Die
          ELSE /\ signed' = position /\ pc' = "headers"
               /\ UNCHANGED <<position, signature, paragraph, visited>>

BeginMessage ==
    \E l \in Line :
       /\ Turn(l) /\ l.kind = "BEGIN MESSAGE"
       /\ IF signed > 0 \/ IsTrue(last_tag) THEN Die
          ELSE /\ signed' = position /\ pc' = "headers"
               /\ UNCHANGED <<position, signature, paragraph, visited>>

\* The headers of the message end at a blank line, whatever the flags.
SkipHeaders ==
    \E l \in Line :
       /\ pc = "headers" /\ Shift(l) /\ Continue
       /\ pc' = IF l.kind \in {"empty", "space"} THEN "paragraphs" ELSE pc
       /\ UNCHANGED <<armour, paragraph, visited>>

\* What is left when the lines above are taken out.
Text(l) == Turn(l) /\ l.kind \in {"space", "field", "empty field", "indented", "junk"} /\ ~IsBlank(l)

AfterSignature ==
    \E l \in Line :
       /\ Text(l) /\ signature > 0
       /\ IF l.kind = "space" THEN Continue /\ UNCHANGED <<pc, armour, paragraph, visited>> ELSE Die

StartField(f) ==
    /\ section' = Store(section, f, {Number}) /\ field_starts' = Store(field_starts, f, position)
    /\ open_section' = TRUE /\ last_tag' = f
    /\ Continue /\ UNCHANGED <<pc, armour, visited>>

\* An empty field is not compared with those seen.
EmptyField == \E l \in Line : Text(l) /\ signature = 0 /\ l.kind = "empty field" /\ StartField(l.name)

\* Mutant: the last of two fields of a name is kept.
NewFieldReplaces ==
    \E l \in Line : Text(l) /\ signature = 0 /\ l.kind = "field" /\ StartField(l.name)

NewField ==
    \E l \in Line :
       /\ Text(l) /\ signature = 0 /\ l.kind = "field"
       /\ IF l.name \in DOMAIN section THEN Die ELSE StartField(l.name)

Continued ==
    \E l \in Line :
       /\ Text(l) /\ signature = 0 /\ l.kind = "indented"
       /\ IF ~open_section THEN Die
          ELSE /\ section' = Store(section, last_tag, section[last_tag] \cup {Number})
               /\ Continue /\ UNCHANGED <<pc, armour, last_tag, open_section, field_starts, visited>>

SyntaxError ==
    /\ \E l \in Line : Text(l) /\ signature = 0 /\ l.kind \in {"space", "junk"}
    /\ Die

\* split drops empty lines at the end of the file.
AtEnd == lines # <<>> => lines[Len(lines)].kind # "empty"

\* The file ends, while headers are skipped too: the last paragraph is passed
\* on before the missing signature is found.
EndOfFile ==
    /\ AtEnd /\ pc \in {"paragraphs", "headers"}
    /\ pc' = IF signed > 0 /\ signature = 0 THEN "died" ELSE "done"
    /\ visited' = IF open_section THEN Append(visited, <<section, field_starts>>) ELSE visited
    /\ UNCHANGED <<flags, lines, position, armour, paragraph>>

EndInSignature == AtEnd /\ pc = "signature" /\ Die /\ UNCHANGED <<flags, lines>>

Terminated == pc \in {"done", "died"} /\ UNCHANGED vars

Next ==
    \/ Comment \/ Blank \/ BeginSignature \/ SkipSignature \/ OtherArmour \/ BeginMessage
    \/ SkipHeaders \/ AfterSignature \/ EmptyField \/ NewField \/ Continued \/ SyntaxError
    \/ EndOfFile \/ EndInSignature \/ Terminated

Spec == Init /\ [][Next]_vars

-----------------------------------------------------------------------------
\* The file as its format describes it: the text of a signed message lies
\* between the blank line that ends the headers and the signature.
First(S) == CHOOSE i \in S : \A j \in S : i <= j
Of(kinds) == {i \in DOMAIN lines : lines[i].kind \in kinds}

IsSigned == Of({"BEGIN MESSAGE"}) # {}
Headers == {i \in DOMAIN lines : i > First(Of({"BEGIN MESSAGE"}))} \cap Of({"empty", "space"})
TextStart == IF Headers = {} THEN Len(lines) ELSE First(Headers)
TextEnd == First({i \in Of({"BEGIN SIGNATURE"}) : i > TextStart})
InText(i) == IsSigned => TextStart < i /\ i < TextEnd

\* The lines some value was made from, and where paragraphs are cut.
Used(s) == UNION {s[f] : f \in DOMAIN s}
AllUsed == UNION {Used(s) : s \in Paragraphs}
Content == {i \in Of({"field", "empty field", "indented"}) : InText(i)}
Cut(i, j) ==
    \E k \in i..j : \/ lines[k].kind \in {"empty", "BEGIN MESSAGE", "BEGIN SIGNATURE"}
                    \/ lines[k].kind = "space" /\ "DCTRL_DEBCONF_TEMPLATE" \notin flags

\* The last field before the message is named "0".  The test that keeps fields
\* from standing before the message (Deb822.pm:535-548) takes it for none, so
\* that such a file is read as its comment says none may be: the field passes
\* for signed and may share a paragraph with the text.
ZeroAhead ==
    /\ IsSigned
    /\ \E i \in Of({"field", "empty field"}) :
          /\ i < First(Of({"BEGIN MESSAGE"})) /\ lines[i].name = Zero
          /\ \A k \in Of({"field", "empty field"}) : k < First(Of({"BEGIN MESSAGE"})) => k <= i

\* Of an accepted file that is signed, everything is covered by the signature:
\* what is not between the headers and the signature is a comment or blank,
\* and the values are made of what is.  Not so with a field "0" ahead.
SignatureEnd == First({i \in Of({"END SIGNATURE"}) : i > TextEnd})
EntireFileIsSigned ==
    pc = "done" /\ IsSigned /\ ~ZeroAhead =>
       /\ \A i \in AllUsed : InText(i)
       /\ \A i \in DOMAIN lines :
             i < First(Of({"BEGIN MESSAGE"})) \/ i > SignatureEnd =>
                lines[i].kind \in {"empty", "space", "comment"}

\* Two lines are in the same paragraph just when neither a blank line nor a
\* PGP header is between them: no header merges two paragraphs, except where
\* a field "0" is ahead of the message.
ParagraphsAreBlocks ==
    ~ZeroAhead =>
       \A s, t \in Paragraphs : \A i \in Used(s), j \in Used(t) :
           i < j => (s = t <=> ~Cut(i, j))

\* Every line of an accepted file is in the value of its own field, that is
\* the last one named before it, unless an empty field of the same name in
\* the same paragraph took its place.
Owner(i) == lines[CHOOSE j \in 1..i : /\ lines[j].kind \in {"field", "empty field"}
                                      /\ \A k \in j + 1..i : lines[k].kind \notin {"field", "empty field"}].name
EveryLineInItsField ==
    pc = "done" => \A i \in Content :
        \/ \E s \in Paragraphs : Owner(i) \in DOMAIN s /\ i \in s[Owner(i)]
        \/ \E j \in Content : /\ j > i /\ lines[j].kind = "empty field"
                              /\ lines[j].name = Owner(i) /\ ~Cut(i, j)

RightPosition(s, starts) == \A f \in DOMAIN s : starts[f] = First(s[f])

\* In a file that is not signed the position recorded for each field is the
\* number of the line where it starts, whatever comments, blank lines and
\* continuation lines there are.
PositionsUnlessSigned ==
    ~IsSigned => \A k \in DOMAIN visited : RightPosition(visited[k][1], visited[k][2])

\* What the documentation says, of every file: LINE_NUMBERS maps the names of
\* the fields to the numbers of the lines where they appeared.
PositionsAreLines == \A k \in DOMAIN visited : RightPosition(visited[k][1], visited[k][2])
=============================================================================
