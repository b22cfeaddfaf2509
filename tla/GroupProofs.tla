----------------------------- MODULE GroupProofs -----------------------------
(***************************************************************************)
(* Proofs about GroupProcess and OverrideFile, for all groups, override    *)
(* files, tables of tags, checks and their outcomes.                       *)
(***************************************************************************)
EXTENDS GroupProcess, TLAPS

-----------------------------------------------------------------------------
\* Which comments belong to an override, from one line to the next.

\* Line n of a file is an override, and m the last one above it, if it is not
\* cut off by an empty line.
IsOverride(f, n) == n \in DOMAIN f /\ f[n].kind = "override"
Precedes(f, m, n) ==
    /\ m \in 1 .. n - 1 /\ IsOverride(f, m)
    /\ \A k \in m + 1 .. n - 1 : f[k].kind \notin {"override", "blank"}
CutOff(f, n) ==
    \A m \in 1 .. n - 1 : f[m].kind = "override" =>
        \E k \in m + 1 .. n - 1 : f[k].kind = "blank"

LEMMA CommentsForIs ==
    ASSUME NEW f, NEW n \in Nat, NEW c
    PROVE  c \in CommentsFor(f, n) <=>
             \E m \in 1 .. n : f[m].kind = "override" /\ HandsDown(f, m, n) /\ c \in CommentsAbove(f, m)
  BY DEF CommentsFor

LEMMA OwnComments ==
    ASSUME NEW f, NEW n \in Nat, IsOverride(f, n), n \in 1 .. Len(f), CommentsAbove(f, n) # {}
    PROVE  CommentsFor(f, n) = CommentsAbove(f, n)
  <1>1. HandsDown(f, n, n)
    BY DEF HandsDown, IsOverride
  <1>2. ASSUME NEW m \in 1 .. n, f[m].kind = "override", HandsDown(f, m, n) PROVE m = n
    BY <1>2 DEF HandsDown, IsOverride
  <1>3. ASSUME NEW c PROVE c \in CommentsFor(f, n) <=> c \in CommentsAbove(f, n)
    BY <1>1, <1>2, CommentsForIs DEF IsOverride
  <1>4. QED BY <1>3

LEMMA CutOffComments ==
    ASSUME NEW f, NEW n \in Nat, IsOverride(f, n), n \in 1 .. Len(f), CommentsAbove(f, n) = {}, CutOff(f, n)
    PROVE  CommentsFor(f, n) = {}
  <1>1. ASSUME NEW m \in 1 .. n, f[m].kind = "override", HandsDown(f, m, n) PROVE m = n
    BY <1>1 DEF HandsDown, CutOff
  <1>2. ASSUME NEW c PROVE c \notin CommentsFor(f, n)
    BY <1>1, CommentsForIs
  <1>3. QED BY <1>2

LEMMA OtherTagComments ==
    ASSUME NEW f, NEW n \in Nat, IsOverride(f, n), n \in 1 .. Len(f), CommentsAbove(f, n) = {},
           NEW m \in Nat, Precedes(f, m, n), f[m].tag_name # f[n].tag_name
    PROVE  CommentsFor(f, n) = {}
  <1>1. ASSUME NEW k \in 1 .. n, f[k].kind = "override", HandsDown(f, k, n) PROVE k = n
    BY <1>1 DEF HandsDown, Precedes, IsOverride
  <1>2. ASSUME NEW c PROVE c \notin CommentsFor(f, n)
    BY <1>1, CommentsForIs
  <1>3. QED BY <1>2

LEMMA InheritedComments ==
    ASSUME NEW f, NEW n \in Nat, IsOverride(f, n), n \in 1 .. Len(f), CommentsAbove(f, n) = {},
           NEW m \in Nat, Precedes(f, m, n), f[m].tag_name = f[n].tag_name
    PROVE  CommentsFor(f, n) = CommentsFor(f, m)
  <1>1. ASSUME NEW k \in 1 .. m, f[k].kind = "override" PROVE HandsDown(f, k, n) <=> HandsDown(f, k, m)
    <2>1. ASSUME HandsDown(f, k, m), NEW j \in k .. n
          PROVE  /\ f[j].kind # "blank" /\ (f[j].kind = "override" => f[j].tag_name = f[n].tag_name)
                 /\ (f[j].kind = "override" /\ j > k => CommentsAbove(f, j) = {})
      <3>1. CASE j \in k .. m
        BY <2>1, <3>1 DEF HandsDown
      <3>2. CASE j \in m + 1 .. n - 1
        BY <3>2 DEF Precedes
      <3>3. CASE j = n
        BY <3>3 DEF IsOverride
      <3>4. QED BY <3>1, <3>2, <3>3 DEF Precedes
    <2>2. ASSUME HandsDown(f, k, n) PROVE HandsDown(f, k, m)
      BY <2>2 DEF HandsDown, Precedes
    <2>3. QED BY <2>1, <2>2 DEF HandsDown
  <1>2. ASSUME NEW k \in 1 .. n, f[k].kind = "override" PROVE k \in 1 .. m \/ k = n
    BY <1>2 DEF Precedes
  <1>3. m \in 1 .. n
    BY DEF Precedes
  <1>4. ASSUME NEW c PROVE c \in CommentsFor(f, n) <=> c \in CommentsFor(f, m)
    <2>1. c \in CommentsFor(f, n) <=>
             \E k \in 1 .. n : f[k].kind = "override" /\ HandsDown(f, k, n) /\ c \in CommentsAbove(f, k)
      BY CommentsForIs
    <2>2. c \in CommentsFor(f, m) <=>
             \E k \in 1 .. m : f[k].kind = "override" /\ HandsDown(f, k, m) /\ c \in CommentsAbove(f, k)
      BY CommentsForIs
    <2>3. 1 .. m \subseteq 1 .. n
      BY <1>3
    <2>4. QED BY <1>1, <1>2, <2>1, <2>2, <2>3
  <1>5. QED BY <1>4

LEMMA CommentsStep ==
    ASSUME NEW f, NEW n \in Nat \ {0}
    PROVE  /\ f[n].kind \in {"override", "blank"} => CommentsAbove(f, n + 1) = {}
           /\ f[n].kind = "comment" => CommentsAbove(f, n + 1) = CommentsAbove(f, n) \cup {n}
           /\ f[n].kind \in {"mark", "error"} => CommentsAbove(f, n + 1) = CommentsAbove(f, n)
  <1>1. ASSUME NEW c \in 1 .. n PROVE n \in c .. (n + 1) - 1
    OBVIOUS
  <1>2. ASSUME NEW c \in 1 .. n - 1
        PROVE  c \in 1 .. (n + 1) - 1 /\ c .. (n + 1) - 1 = (c .. n - 1) \cup {n}
    OBVIOUS
  <1>3. 1 .. (n + 1) - 1 = (1 .. n - 1) \cup {n} /\ n .. (n + 1) - 1 = {n}
    OBVIOUS
  <1>4. ASSUME f[n].kind \in {"override", "blank"} PROVE CommentsAbove(f, n + 1) = {}
    BY <1>1, <1>3, <1>4 DEF CommentsAbove
  <1>5. ASSUME f[n].kind \notin {"override", "blank"}, NEW c \in 1 .. n - 1
        PROVE  c \in CommentsAbove(f, n + 1) <=> c \in CommentsAbove(f, n)
    BY <1>2, <1>5 DEF CommentsAbove
  <1>6. ASSUME f[n].kind = "comment" PROVE n \in CommentsAbove(f, n + 1)
    BY <1>3, <1>6 DEF CommentsAbove
  <1>7. ASSUME f[n].kind # "comment" PROVE n \notin CommentsAbove(f, n + 1)
    BY <1>7 DEF CommentsAbove
  <1>8. CommentsAbove(f, n + 1) \subseteq (1 .. n - 1) \cup {n} /\ CommentsAbove(f, n) \subseteq 1 .. n - 1
    BY <1>3 DEF CommentsAbove
  <1>9. QED BY <1>4, <1>5, <1>6, <1>7, <1>8

LEMMA PrecedesStep ==
    ASSUME NEW f, NEW n \in Nat \ {0}, n \in DOMAIN f
    PROVE  /\ f[n].kind = "blank" => CutOff(f, n + 1)
           /\ f[n].kind \notin {"override", "blank"} /\ CutOff(f, n) => CutOff(f, n + 1)
           /\ f[n].kind \notin {"override", "blank"} =>
                 \A m \in Nat : Precedes(f, m, n) => Precedes(f, m, n + 1)
           /\ f[n].kind = "override" => Precedes(f, n, n + 1)
  <1>1. ASSUME f[n].kind = "blank" PROVE CutOff(f, n + 1)
    BY <1>1 DEF CutOff
  <1>2. ASSUME f[n].kind \notin {"override", "blank"}, CutOff(f, n) PROVE CutOff(f, n + 1)
    <2>1. ASSUME NEW m \in 1 .. (n + 1) - 1, f[m].kind = "override"
          PROVE  \E k \in m + 1 .. (n + 1) - 1 : f[k].kind = "blank"
      <3>1. m \in 1 .. n - 1
        BY <1>2, <2>1
      <3>2. PICK k \in m + 1 .. n - 1 : f[k].kind = "blank"
        BY <1>2, <2>1, <3>1 DEF CutOff
      <3>3. QED BY <3>2
    <2>2. QED BY <2>1 DEF CutOff
  <1>3. ASSUME f[n].kind \notin {"override", "blank"}, NEW m \in Nat, Precedes(f, m, n)
        PROVE  Precedes(f, m, n + 1)
    BY <1>3 DEF Precedes
  <1>4. ASSUME f[n].kind = "override" PROVE Precedes(f, n, n + 1)
    BY <1>4 DEF Precedes, IsOverride
  <1>5. QED BY <1>1, <1>2, <1>3, <1>4

-----------------------------------------------------------------------------
\* The parser: what it has collected is what is written above the next line.

CommentInv(p) == justification[p] = CommentsAbove(lines[p], position[p])
PreviousInv(p) ==
    \/ previous[p] = Fresh /\ CutOff(lines[p], position[p])
    \/ \E m \in Nat :
          /\ Precedes(lines[p], m, position[p])
          /\ previous[p] = [tag_name |-> lines[p][m].tag_name,
                            justification |-> CommentsFor(lines[p], m)]
DeclaredInv(p) ==
    /\ \A i \in DOMAIN overrides[p] :
          LET n == overrides[p][i].position
          IN  /\ n \in 1 .. position[p] - 1 /\ IsOverride(lines[p], n)
              /\ overrides[p][i].justification = CommentsFor(lines[p], n)
    /\ \A n \in 1 .. position[p] - 1 : IsOverride(lines[p], n) =>
          \E i \in DOMAIN overrides[p] : overrides[p][i].position = n
ParserInv == \A p \in Processable : CommentInv(p) /\ PreviousInv(p) /\ DeclaredInv(p)

LEMMA ParserStart == ASSUME ParserInit PROVE ParserInv
  <1> SUFFICES ASSUME NEW p \in Processable PROVE CommentInv(p) /\ PreviousInv(p) /\ DeclaredInv(p)
    BY DEF ParserInv
  <1>1. position[p] = 1 /\ justification[p] = {} /\ previous[p] = Fresh /\ overrides[p] = <<>>
    BY DEF ParserInit, Each
  <1>2. QED BY <1>1 DEF CommentInv, PreviousInv, DeclaredInv, CommentsAbove, CutOff

\* The comments that DeclareOverride gives to the override are its own.
LEMMA CarriedIsFor ==
    ASSUME ParserTypeOK, NoTag \notin Name, current \in Processable, ParserInv, At("override")
    PROVE  Carried = CommentsFor(lines[current], position[current])
  <1> DEFINE f == lines[current]
             n == position[current]
  <1>1. n \in Nat \ {0} /\ n \in 1 .. Len(f) /\ f \in Seq(Line) /\ n \in DOMAIN f
    BY DEF ParserTypeOK, At, Parsed
  <1>2. f[n] \in Written /\ IsOverride(f, n) /\ f[n].tag_name \in Name
    BY <1>1 DEF At, Next_line, Line, Written, IsOverride
  <1>3. justification[current] = CommentsAbove(f, n) /\ PreviousInv(current)
    BY DEF ParserInv, CommentInv
  <1>4. CASE CommentsAbove(f, n) # {}
    BY <1>1, <1>2, <1>3, <1>4, OwnComments DEF Carried
  <1>5. CASE CommentsAbove(f, n) = {} /\ previous[current] = Fresh /\ CutOff(f, n)
    <2>1. Carried = {}
      BY <1>2, <1>3, <1>5 DEF Carried, Fresh, Next_line
    <2>2. QED BY <1>1, <1>2, <1>5, <2>1, CutOffComments
  <1>6. ASSUME CommentsAbove(f, n) = {}, NEW m \in Nat, Precedes(f, m, n),
               previous[current] = [tag_name |-> f[m].tag_name, justification |-> CommentsFor(f, m)]
        PROVE  Carried = CommentsFor(f, n)
    <2>1. CASE f[m].tag_name = f[n].tag_name
      <3>1. Carried = CommentsFor(f, m)
        BY <1>3, <1>6, <2>1 DEF Carried, Next_line
      <3>2. QED BY <1>1, <1>2, <1>6, <2>1, <3>1, InheritedComments
    <2>2. CASE f[m].tag_name # f[n].tag_name
      <3>1. Carried = {}
        BY <1>3, <1>6, <2>2 DEF Carried, Next_line
      <3>2. QED BY <1>1, <1>2, <1>6, <2>2, <3>1, OtherTagComments
    <2>3. QED BY <2>1, <2>2
  <1>7. QED BY <1>3, <1>4, <1>5, <1>6 DEF PreviousInv

LEMMA ParserTypesKept ==
    ASSUME ParserTypeOK, ParserInv, current \in Processable, NoTag \notin Name, ParseLine, UNCHANGED lines
    PROVE  ParserTypeOK'
  <1> DEFINE n == position[current]
  <1>1. n \in Nat \ {0} /\ n \in 1 .. Len(lines[current]) /\ lines[current] \in Seq(Line)
        /\ n \in DOMAIN lines[current]
    BY DEF ParserTypeOK, ParseLine, SkipBlank, TakeComment, SkipMark, RecordError, DeclareOverride, At, Parsed
  <1>2. position' = [position EXCEPT ![current] = n + 1]
    BY DEF ParseLine, SkipBlank, TakeComment, SkipMark, RecordError, DeclareOverride, NextPosition
  <1>3. /\ position' \in [Processable -> Nat]
        /\ \A p \in Processable : position'[p] \in 1 .. Len(lines[p]) + 1
    BY <1>1, <1>2 DEF ParserTypeOK
  <1>4. CASE SkipBlank \/ TakeComment \/ SkipMark
    <2>1. justification' \in [Processable -> SUBSET Nat]
      BY <1>1, <1>4 DEF ParserTypeOK, SkipBlank, TakeComment, SkipMark
    <2>2. previous' \in [Processable -> [tag_name : Name \cup {NoTag}, justification : SUBSET Nat]]
      <3>1. Fresh \in [tag_name : Name \cup {NoTag}, justification : SUBSET Nat]
        BY DEF Fresh
      <3>2. QED BY <1>4, <3>1 DEF ParserTypeOK, SkipBlank, TakeComment, SkipMark
    <2>3. UNCHANGED <<overrides, override_errors>>
      BY <1>4 DEF SkipBlank, TakeComment, SkipMark
    <2>4. QED BY <1>3, <2>1, <2>2, <2>3 DEF ParserTypeOK
  <1>5. CASE RecordError
    <2>1. override_errors' = [override_errors EXCEPT ![current] = Append(override_errors[current], n)]
          /\ UNCHANGED <<justification, previous, overrides>>
      BY <1>5 DEF RecordError
    <2>2. override_errors' \in [Processable -> Seq(Nat)]
      BY <1>1, <2>1 DEF ParserTypeOK
    <2>3. ASSUME NEW p \in Processable, NEW i \in DOMAIN override_errors'[p]
          PROVE  override_errors'[p][i] \in DOMAIN lines[p]
      <3>1. CASE p = current
        <4>1. override_errors'[p] = Append(override_errors[p], n) /\ override_errors[p] \in Seq(Nat)
          BY <2>1, <3>1 DEF ParserTypeOK
        <4>2. \A j \in DOMAIN override_errors[p] : override_errors[p][j] \in DOMAIN lines[p]
          BY DEF ParserTypeOK
        <4>3. QED BY <1>1, <2>3, <3>1, <4>1, <4>2
      <3>2. CASE p # current
        BY <2>1, <2>3, <3>2 DEF ParserTypeOK
      <3>3. QED BY <3>1, <3>2
    <2>4. QED BY <1>3, <2>1, <2>2, <2>3 DEF ParserTypeOK
  <1>6. CASE DeclareOverride
    <2>1. lines[current][n] \in Written
      <3>1. lines[current][n] \in Line
        BY <1>1
      <3>2. lines[current][n].kind = "override"
        BY <1>6 DEF DeclareOverride, At, Next_line
      <3>3. \A x \in Line : x.kind = "override" => x \in Written
        BY DEF Line, Written
      <3>4. QED BY <3>1, <3>2, <3>3
    <2>2. Carried \in SUBSET Nat
      BY DEF Carried, ParserTypeOK
    <2>3. overrides' \in [Processable -> Seq(Override)]
      <3>1. [tag_name |-> Next_line.tag_name, pattern |-> Next_line.pattern,
             architectures |-> Next_line.architectures, negated |-> Next_line.negated,
             position |-> position[current], justification |-> Carried] \in Override
        BY <1>1, <2>1, <2>2 DEF Override, Written, Next_line
      <3>2. QED BY <1>6, <3>1 DEF DeclareOverride, ParserTypeOK
    <2>4. justification' \in [Processable -> SUBSET Nat] /\ UNCHANGED override_errors
      BY <1>6 DEF DeclareOverride, ParserTypeOK
    <2>5. previous' \in [Processable -> [tag_name : Name \cup {NoTag}, justification : SUBSET Nat]]
      BY <1>6, <2>1, <2>2 DEF DeclareOverride, ParserTypeOK, Written, Next_line
    <2>6. QED BY <1>3, <2>3, <2>4, <2>5 DEF ParserTypeOK
  <1>7. QED BY <1>4, <1>5, <1>6 DEF ParseLine

LEMMA ParserInvKept ==
    ASSUME ParserTypeOK, ParserInv, current \in Processable, NoTag \notin Name, ParseLine, UNCHANGED <<lines, current>>
    PROVE  ParserInv'
  <1> DEFINE f == lines[current]
             n == position[current]
  <1>1. n \in Nat \ {0} /\ n \in 1 .. Len(f) /\ f \in Seq(Line) /\ n \in DOMAIN f
    BY DEF ParserTypeOK, ParseLine, SkipBlank, TakeComment, SkipMark, RecordError, DeclareOverride, At, Parsed
  <1>2. current' = current /\ position'[current] = n + 1 /\ lines'[current] = f
    BY DEF ParserTypeOK, ParseLine, SkipBlank, TakeComment, SkipMark, RecordError, DeclareOverride, NextPosition
  <1>3. CommentInv(current) /\ PreviousInv(current) /\ DeclaredInv(current)
    BY DEF ParserInv
  <1>4. ASSUME NEW p \in Processable, p # current
        PROVE  (CommentInv(p) /\ PreviousInv(p) /\ DeclaredInv(p))'
    <2>1. /\ lines'[p] = lines[p] /\ position'[p] = position[p] /\ justification'[p] = justification[p]
          /\ previous'[p] = previous[p] /\ overrides'[p] = overrides[p]
      BY <1>4 DEF ParserTypeOK, ParseLine, SkipBlank, TakeComment, SkipMark, RecordError, DeclareOverride, NextPosition
    <2>2. CommentInv(p) /\ PreviousInv(p) /\ DeclaredInv(p)
      BY DEF ParserInv
    <2>3. QED BY <2>1, <2>2 DEF CommentInv, PreviousInv, DeclaredInv
  <1>5. CASE SkipBlank \/ TakeComment \/ SkipMark \/ RecordError
    <2>1. f[n].kind # "override" /\ overrides'[current] = overrides[current]
      BY <1>5 DEF SkipBlank, TakeComment, SkipMark, RecordError, At, Next_line
    <2>2. DeclaredInv(current)'
      <3>1. \A k \in 1 .. (n + 1) - 1 : IsOverride(f, k) => k \in 1 .. n - 1
        BY <1>1, <2>1 DEF IsOverride
      <3>2. 1 .. n - 1 \subseteq 1 .. (n + 1) - 1
        BY <1>1
      <3>3. QED BY <1>1, <1>2, <1>3, <2>1, <3>1, <3>2 DEF DeclaredInv
    <2>3. CommentInv(current)'
      <3>1. justification'[current] = CommentsAbove(f, n + 1)
        <4>1. justification[current] = CommentsAbove(f, n)
          BY <1>3 DEF CommentInv
        <4>2. CASE SkipBlank
          BY <1>1, <4>2, CommentsStep DEF SkipBlank, At, Next_line, ParserTypeOK
        <4>3. CASE TakeComment
          BY <1>1, <4>1, <4>3, CommentsStep DEF TakeComment, At, Next_line, ParserTypeOK
        <4>4. CASE SkipMark \/ RecordError
          BY <1>1, <4>1, <4>4, CommentsStep DEF SkipMark, RecordError, At, Next_line
        <4>5. QED BY <1>5, <4>2, <4>3, <4>4
      <3>2. QED BY <1>2, <3>1 DEF CommentInv
    <2>4. PreviousInv(current)'
      <3>1. CASE SkipBlank
        BY <1>1, <1>2, <3>1, PrecedesStep DEF SkipBlank, At, Next_line, PreviousInv, ParserTypeOK
      <3>2. CASE TakeComment \/ SkipMark \/ RecordError
        <4>1. f[n].kind \notin {"override", "blank"} /\ previous'[current] = previous[current]
          BY <3>2 DEF TakeComment, SkipMark, RecordError, At, Next_line
        <4>2. QED BY <1>1, <1>2, <1>3, <4>1, PrecedesStep DEF PreviousInv
      <3>3. QED BY <1>5, <3>1, <3>2
    <2>5. QED BY <1>4, <2>2, <2>3, <2>4 DEF ParserInv
  <1>6. CASE DeclareOverride
    <2>1. f[n].kind = "override" /\ IsOverride(f, n) /\ At("override")
      BY <1>1, <1>6 DEF DeclareOverride, At, Next_line, IsOverride
    <2>2. Carried = CommentsFor(f, n)
      BY <2>1, CarriedIsFor
    <2>3. CommentInv(current)'
      BY <1>1, <1>2, <1>6, <2>1, CommentsStep DEF DeclareOverride, CommentInv, ParserTypeOK
    <2>4. PreviousInv(current)'
      <3>1. previous'[current] = [tag_name |-> f[n].tag_name, justification |-> CommentsFor(f, n)]
        BY <1>6, <2>2 DEF DeclareOverride, ParserTypeOK, Next_line
      <3>2. Precedes(f, n, n + 1) /\ n \in Nat
        BY <1>1, <2>1, PrecedesStep
      <3>3. \E m \in Nat : Precedes(f, m, n + 1) /\
               previous'[current] = [tag_name |-> f[m].tag_name, justification |-> CommentsFor(f, m)]
        BY <3>1, <3>2
      <3>4. QED BY <1>2, <3>3 DEF PreviousInv
    <2>5. DeclaredInv(current)'
      <3> DEFINE o == [tag_name |-> f[n].tag_name, pattern |-> f[n].pattern,
                       architectures |-> f[n].architectures, negated |-> f[n].negated,
                       position |-> n, justification |-> Carried]
      <3>1. overrides'[current] = Append(overrides[current], o) /\ o.position = n
            /\ o.justification = CommentsFor(f, n)
        BY <1>6, <2>2 DEF DeclareOverride, ParserTypeOK, Next_line
      <3> HIDE DEF o
      <3>2. overrides[current] \in Seq(Override)
        BY DEF ParserTypeOK
      <3> DEFINE w == overrides'[current]
                 l == Len(overrides[current]) + 1
      <3>3. /\ DOMAIN w = (DOMAIN overrides[current]) \cup {l} /\ w[l] = o
            /\ \A i \in DOMAIN overrides[current] : w[i] = overrides[current][i]
        BY <3>1, <3>2
      <3>4. 1 .. (n + 1) - 1 = (1 .. n - 1) \cup {n}
        BY <1>1
      <3> HIDE DEF w, l
      <3>5. ASSUME NEW i \in DOMAIN w
            PROVE  LET k == w[i].position
                   IN  /\ k \in 1 .. (n + 1) - 1 /\ IsOverride(f, k)
                       /\ w[i].justification = CommentsFor(f, k)
        BY <1>3, <2>1, <3>1, <3>3, <3>4 DEF DeclaredInv
      <3>6. ASSUME NEW k \in 1 .. (n + 1) - 1, IsOverride(f, k)
            PROVE  \E i \in DOMAIN w : w[i].position = k
        BY <1>3, <3>1, <3>3, <3>4, <3>6 DEF DeclaredInv
      <3>7. QED BY <1>2, <3>5, <3>6 DEF DeclaredInv, w
    <2>6. QED BY <1>4, <2>3, <2>4, <2>5 DEF ParserInv
  <1>7. QED BY <1>5, <1>6 DEF ParseLine

-----------------------------------------------------------------------------
\* Types.

SetupInv == \A p \in Processable : DOMAIN lines[p] \subseteq DOMAIN PointerTo
TypeInv == TypeOK /\ SetupInv /\ ParserInv

LEMMA NamesAreTags ==
    /\ \A n : CurrentName(n) \in Tag \cup {NoTag}
    /\ \A h : GetTag(h) \in Tag \cup {NoTag}
  <1>1. ASSUME NEW n PROVE CurrentName(n) \in Tag \cup {NoTag}
    BY GroupAssumption DEF CurrentName
  <1>2. ASSUME NEW h PROVE GetTag(h) \in Tag \cup {NoTag}
    BY <1>1 DEF GetTag
  <1>3. QED BY <1>1, <1>2

LEMMA ProperHasTag == ASSUME NEW h, Proper(h) PROVE GetTag(h) \in Tag
  BY NamesAreTags DEF Proper

LEMMA EnabledAreTags == ASSUME NEW o, InForce(o)
                        PROVE  CurrentName(o.tag_name) \in Tag \ DurableTags
  BY GroupAssumption DEF InForce, Relevant

\* What KeepHint may choose.
LEMMA AppliedFits ==
    ASSUME NEW h, NEW q \in Applied(h), q # NoOverride
    PROVE  /\ <<GetTag(h), q>> \in DOMAIN enabled_overrides[current]
           /\ Fits(q, h.context)
  BY DEF Applied, Matching, Declared, Fits
LEMMA NothingFits ==
    ASSUME NEW h, NoOverride \in Applied(h), NEW q \in Pattern,
           <<GetTag(h), q>> \in DOMAIN enabled_overrides[current]
    PROVE  ~Fits(q, h.context)
  <1>1. q \in Declared(GetTag(h)) /\ NoOverride \notin Pattern /\ Bare \in Pattern
    BY GroupAssumption DEF Declared
  <1>2. Bare \notin Declared(GetTag(h)) /\ NoOverride \notin Matching(h)
    BY <1>1 DEF Applied, Matching, Declared
  <1>3. Matching(h) = {}
    BY <1>2 DEF Applied
  <1>4. QED BY <1>1, <1>2, <1>3 DEF Matching, Fits

LEMMA TypeInit == Init => TypeInv
  <1> SUFFICES ASSUME Init PROVE TypeInv
    OBVIOUS
  <1>1. PICK s \in Inputs : members = s[1] /\ lines = s[2]
    BY DEF Init
  <1>2. members \subseteq Processable /\ lines \in [Processable -> Seq(Line)]
        /\ \A p \in Processable : DOMAIN lines[p] \subseteq DOMAIN PointerTo
    BY <1>1, GroupAssumption
  <1>3. ParserTypeOK
    <2>1. Fresh \in [tag_name : Name \cup {NoTag}, justification : SUBSET Nat]
      BY DEF Fresh
    <2>2. QED BY <1>2, <2>1 DEF Init, ParserInit, Each, ParserTypeOK
  <1>4. TypeOK
    BY <1>2, <1>3 DEF Init, Each, TypeOK
  <1>5. QED BY <1>2, <1>4, ParserStart DEF TypeInv, SetupInv, Init

LEMMA FoundAreIssued ==
    ASSUME TypeInv, current \in Processable, next \in DOMAIN CheckOrder,
           NEW found \in Findable(CheckOrder[next])
    PROVE  found \in Seq(Issued) /\ \A i \in DOMAIN found : found[i].issued_by = CheckOrder[next]
  <1>1. CASE CheckOrder[next] = MalformedCheck
    <2>1. found = Malformed
      BY <1>1 DEF Findable
    <2>2. override_errors[current] \in Seq(Nat)
          /\ \A i \in DOMAIN override_errors[current] : override_errors[current][i] \in DOMAIN PointerTo
      BY DEF TypeInv, TypeOK, ParserTypeOK, SetupInv
    <2>3. MalformedCheck \in Check /\ MalformedTag \in Name
      BY <1>1, GroupAssumption DEF Check
    <2>4. ASSUME NEW i \in DOMAIN override_errors[current]
          PROVE  [issued_by |-> MalformedCheck, tag_name |-> MalformedTag,
                  context |-> PointerTo[override_errors[current][i]]] \in Issued
      BY <2>2, <2>3, GroupAssumption DEF Issued
    <2>5. Malformed \in Seq(Issued)
      <3> DEFINE n == Len(override_errors[current])
                 e(i) == [issued_by |-> MalformedCheck, tag_name |-> MalformedTag,
                          context |-> PointerTo[override_errors[current][i]]]
      <3>1. n \in Nat /\ DOMAIN override_errors[current] = 1 .. n
        BY <2>2
      <3>2. \A i \in 1 .. n : e(i) \in Issued
        BY <2>4, <3>1
      <3>3. Malformed = [i \in 1 .. n |-> e(i)]
        BY <3>1 DEF Malformed
      <3> HIDE DEF n, e
      <3>4. [i \in 1 .. n |-> e(i)] \in Seq(Issued)
        BY <3>1, <3>2
      <3>5. QED BY <3>3, <3>4
    <2>6. QED BY <1>1, <2>1, <2>5 DEF Malformed
  <1>2. CASE CheckOrder[next] # MalformedCheck
    BY <1>2, GroupAssumption DEF Findable
  <1>3. QED BY <1>1, <1>2

LEMMA ParserStays ==
    ASSUME TypeInv, UNCHANGED <<inputs, parser>>
    PROVE  (ParserTypeOK /\ SetupInv /\ ParserInv)'
  BY DEF TypeInv, TypeOK, inputs, parser, ParserTypeOK, SetupInv, ParserInv,
         CommentInv, PreviousInv, DeclaredInv

LEMMA TypeNext == ASSUME TypeInv, [Next]_vars PROVE TypeInv'
  <1> USE DEF TypeInv, TypeOK
  <1>1. CASE NextProcessable \/ EndOverrides \/ EndChecks \/ EndHints \/ EndProcessable
    BY <1>1, ParserStays
    DEF NextProcessable, EndOverrides, EndChecks, EndHints, EndProcessable, Goto, inputs, lexicals
  <1>2. CASE ReadLine
    <2>1. UNCHANGED <<inputs, waiting, current, phase, next, lexicals, ignored_overrides, success, attempts>>
          /\ ParseLine /\ UNCHANGED <<lines, current>>
      BY <1>2 DEF ReadLine, inputs
    <2>2. NoTag \notin Name
      BY GroupAssumption
    <2>3. ParserTypeOK' /\ ParserInv'
      BY <2>1, <2>2, ParserTypesKept, ParserInvKept
    <2>4. QED BY <2>1, <2>3 DEF inputs, lexicals, SetupInv
  <1>3. CASE ReadOverride
    <2> DEFINE o == overrides[current][next]
               t == CurrentName(o.tag_name)
               e == enabled_overrides[current]
    <2>1. o \in Override
      BY <1>3 DEF ReadOverride, ParserTypeOK
    <2>2. t \in Tag \cup {NoTag} /\ (InForce(o) => t \in Tag \ DurableTags)
      BY NamesAreTags, EnabledAreTags
    <2>3. ASSUME InForce(o)
          PROVE  /\ DOMAIN enabled_overrides' = Processable
                 /\ \A p \in Processable : LET f == enabled_overrides'[p] IN
                       DOMAIN f \subseteq Tag \X Pattern /\ f \in [DOMAIN f -> Override]
      <3> DEFINE new == [k \in DOMAIN e \cup {<<t, o.pattern>>} |->
                           IF k = <<t, o.pattern>> THEN o ELSE e[k]]
      <3>1. enabled_overrides' = [enabled_overrides EXCEPT ![current] = new]
        BY <1>3, <2>3 DEF ReadOverride
      <3>2. <<t, o.pattern>> \in Tag \X Pattern
        BY <2>1, <2>2, <2>3 DEF Override
      <3>3. DOMAIN new \subseteq Tag \X Pattern /\ new \in [DOMAIN new -> Override]
        BY <2>1, <3>2
      <3> HIDE DEF new
      <3>4. QED BY <3>1, <3>3
    <2>4. ASSUME ~InForce(o) PROVE UNCHANGED enabled_overrides
      BY <1>3, <2>4 DEF ReadOverride
    <2>5. ignored_overrides' \subseteq DurableTags
      BY <1>3, GroupAssumption DEF ReadOverride, Ignored, InForce
    <2>6. UNCHANGED <<inputs, parser, waiting, current, phase, from_checks, context_tracker,
                      used_overrides, hints, success, attempts>> /\ next' = next + 1
      BY <1>3 DEF ReadOverride
    <2>7. (ParserTypeOK /\ SetupInv /\ ParserInv)'
      BY <2>6, ParserStays
    <2>8. QED BY <2>3, <2>4, <2>5, <2>6, <2>7 DEF inputs
  <1>4. CASE RunCheck
    <2>1. PICK found \in Findable(CheckOrder[next]) :
              from_checks' = [from_checks EXCEPT ![current] = @ \o found]
      BY <1>4 DEF RunCheck
    <2>2. next \in DOMAIN CheckOrder
      BY <1>4, GroupAssumption DEF RunCheck
    <2>3. found \in Seq(Issued)
      BY <2>1, <2>2, FoundAreIssued
    <2>4. from_checks' \in [Processable -> Seq(Issued)]
      BY <2>1, <2>3
    <2>5. UNCHANGED <<inputs, parser, waiting, current, phase, enabled_overrides, context_tracker,
                      used_overrides, hints, ignored_overrides, success>> /\ next' = next + 1
      BY <1>4 DEF RunCheck
    <2>6. QED BY <2>4, <2>5, ParserStays DEF inputs
  <1>5. CASE CheckDies
    <2>1. UNCHANGED <<inputs, parser, waiting, current, phase, lexicals, ignored_overrides>>
          /\ success' \in BOOLEAN /\ next' = next + 1
      <3>1. CheckDies => success' \in BOOLEAN
        BY Zenon DEF CheckDies
      <3>2. QED BY <1>5, <3>1 DEF CheckDies
    <2>2. UNCHANGED <<enabled_overrides, from_checks, context_tracker, used_overrides, hints,
                      members, no_override>>
      BY <2>1 DEF lexicals, inputs
    <2>3. (ParserTypeOK /\ SetupInv /\ ParserInv)'
      BY <2>1, ParserStays
    <2>4. QED BY <2>1, <2>2, <2>3
  <1>6. CASE HandleHint
    <2> DEFINE h == from_checks[current][next]
    <2>1. h \in Issued
      BY <1>6 DEF HandleHint
    <2>2. UNCHANGED <<inputs, parser, waiting, current, phase, enabled_overrides, from_checks,
                      ignored_overrides, success, attempts>> /\ next' = next + 1
      BY <1>6 DEF HandleHint
    <2>3. CASE DropHint(h)
      BY <2>2, <2>3, ParserStays DEF DropHint, inputs
    <2>4. CASE KeepHint(h)
      <3>1. Tracked(h) \in Tag \X Context /\ GetTag(h) \in Tag
        BY <2>1, <2>4, ProperHasTag DEF KeepHint, Tracked, Issued
      <3>2. context_tracker' \in [Processable -> SUBSET (Tag \X Context)]
        BY <2>4, <3>1 DEF KeepHint
      <3>3. PICK q \in Applied(h) :
              /\ hints' = [hints EXCEPT ![current] =
                    Append(@, [kind |-> "hint", tag |-> GetTag(h), context |-> h.context,
                               masked |-> Masked(h), override |->
                               IF q = NoOverride THEN NoOverride
                               ELSE enabled_overrides[current][<<GetTag(h), q>>]])]
              /\ used_overrides' = IF q = NoOverride THEN used_overrides
                    ELSE [used_overrides EXCEPT ![current] = @ \cup {<<GetTag(h), q>>}]
        BY <2>4 DEF KeepHint
      <3>4. q # NoOverride => /\ <<GetTag(h), q>> \in Tag \X Pattern
                              /\ enabled_overrides[current][<<GetTag(h), q>>] \in Override
        BY AppliedFits
      <3>5. used_overrides' \in [Processable -> SUBSET (Tag \X Pattern)]
        BY <3>3, <3>4
      <3>6. Masked(h) \in BOOLEAN
        BY DEF Masked
      <3> DEFINE g == [kind |-> "hint", tag |-> GetTag(h), context |-> h.context,
                       masked |-> Masked(h), override |->
                               IF q = NoOverride THEN NoOverride
                               ELSE enabled_overrides[current][<<GetTag(h), q>>]]
      <3>7. g \in Kept
        BY <2>1, <3>1, <3>4, <3>6 DEF Kept, Issued
      <3>8. hints' = [hints EXCEPT ![current] = Append(hints[current], g)]
        BY <3>3
      <3> HIDE DEF g
      <3>9. hints' \in [Processable -> Seq(Kept)]
        BY <3>7, <3>8
      <3>10. QED BY <2>2, <3>2, <3>5, <3>9, ParserStays DEF inputs
    <2>5. QED BY <1>6, <2>3, <2>4 DEF HandleHint
  <1>7. CASE ReportUnused
    <2>1. PICK k \in Unused :
            hints' = [hints EXCEPT ![current] =
              Append(@, [kind |-> UnusedKind(k[1]), tag |-> k[1], context |-> k[2],
                         masked |-> FALSE, override |-> NoOverride])]
      BY <1>7 DEF ReportUnused
    <2>2. k \in Tag \X Pattern
      BY DEF Unused
    <2>3. [kind |-> UnusedKind(k[1]), tag |-> k[1], context |-> k[2],
           masked |-> FALSE, override |-> NoOverride] \in Kept
      BY <2>2 DEF Kept, UnusedKind
    <2>4. hints' \in [Processable -> Seq(Kept)]
      BY <2>1, <2>3
    <2>5. UNCHANGED <<inputs, parser, waiting, current, phase, next, enabled_overrides, from_checks,
                      context_tracker, used_overrides, ignored_overrides, success, attempts>>
      BY <1>7 DEF ReportUnused
    <2>6. QED BY <2>4, <2>5, ParserStays DEF inputs
  <1>8. CASE Terminated \/ UNCHANGED vars
    BY <1>8, ParserStays DEF Terminated, vars, inputs, lexicals
  <1>9. QED BY <1>1, <1>2, <1>3, <1>4, <1>5, <1>6, <1>7, <1>8 DEF Next

\* TypeOK, for all groups, files, tags and checks.
THEOREM TypesHold == Spec => []TypeOK
  <1>1. TypeInv => TypeOK
    BY DEF TypeInv
  <1>2. QED BY <1>1, TypeInit, TypeNext, PTL DEF Spec

-----------------------------------------------------------------------------
\* Where overrides come from, and where they go.

FromFile(o, p) == \E i \in DOMAIN overrides[p] : o = overrides[p][i]

EnabledInv ==
    \A p \in Processable : \A k \in DOMAIN enabled_overrides[p] :
        LET o == enabled_overrides[p][k]
        IN  k = <<CurrentName(o.tag_name), o.pattern>> /\ k[1] \notin DurableTags /\ FromFile(o, p)
NoOverrideInv ==
    no_override => phase # "overrides" /\ \A p \in Processable : DOMAIN enabled_overrides[p] = {}
CarryInv ==
    \A p \in Processable : \A g \in Elements(hints[p]) : g.override # NoOverride =>
        /\ g.kind = "hint" /\ ~no_override /\ g.tag \notin DurableTags /\ FromFile(g.override, p)
        /\ CurrentName(g.override.tag_name) = g.tag
        /\ Fits(g.override.pattern, g.context)
OverrideInv == TypeInv /\ EnabledInv /\ NoOverrideInv /\ CarryInv

LEMMA ElementsAppend ==
    ASSUME NEW S, NEW s \in Seq(S), NEW g
    PROVE  Elements(Append(s, g)) = Elements(s) \cup {g}
  <1>1. DOMAIN Append(s, g) = (DOMAIN s) \cup {Len(s) + 1} /\ Append(s, g)[Len(s) + 1] = g
        /\ \A i \in DOMAIN s : Append(s, g)[i] = s[i]
    OBVIOUS
  <1>2. ASSUME NEW x PROVE x \in Elements(Append(s, g)) <=> x \in Elements(s) \cup {g}
    BY <1>1 DEF Elements
  <1>3. QED BY <1>2

LEMMA FilesStay ==
    ASSUME TypeInv, [Next]_vars, NEW p \in Processable, NEW o, FromFile(o, p)
    PROVE  FromFile(o, p)'
  <1>1. CASE UNCHANGED overrides
    BY <1>1 DEF FromFile
  <1>2. CASE ReadLine
    <2>1. overrides[p] \in Seq(Override)
      BY DEF TypeInv, TypeOK, ParserTypeOK
    <2>2. overrides'[p] = overrides[p] \/ \E x : overrides'[p] = Append(overrides[p], x)
      <3>1. CASE DeclareOverride
        <4> DEFINE x == [tag_name |-> Next_line.tag_name, pattern |-> Next_line.pattern,
                         architectures |-> Next_line.architectures, negated |-> Next_line.negated,
                         position |-> position[current], justification |-> Carried]
        <4>1. overrides' = [overrides EXCEPT ![current] = Append(overrides[current], x)]
          BY <3>1 DEF DeclareOverride
        <4> HIDE DEF x
        <4>2. overrides \in [Processable -> Seq(Override)]
          BY DEF TypeInv, TypeOK, ParserTypeOK
        <4>3. QED BY <4>1, <4>2
      <3>2. CASE UNCHANGED overrides
        BY <3>2
      <3>3. QED BY <1>2, <3>1, <3>2 DEF ReadLine, ParseLine, SkipBlank, TakeComment, SkipMark, RecordError
    <2>3. PICK i \in DOMAIN overrides[p] : o = overrides[p][i]
      BY DEF FromFile
    <2>4. i \in DOMAIN overrides'[p] /\ overrides'[p][i] = overrides[p][i]
      BY SMTT(30), <2>1, <2>2, <2>3
    <2>5. QED BY <2>3, <2>4 DEF FromFile
  <1>3. ~ReadLine => UNCHANGED overrides
    BY DEF Next, NextProcessable, ReadOverride, EndOverrides, RunCheck, CheckDies, EndChecks, HandleHint,
           EndHints, ReportUnused, EndProcessable, Terminated, vars, parser
  <1>4. QED BY <1>1, <1>2, <1>3

\* What the steps leave alone.
LEMMA EnabledChange ==
    ASSUME [Next]_vars, ~ReadOverride PROVE UNCHANGED enabled_overrides
  BY DEF Next, NextProcessable, ReadLine, EndOverrides, RunCheck, CheckDies, EndChecks, HandleHint,
         EndHints, ReportUnused, EndProcessable, Terminated, vars, lexicals
LEMMA HintsChange ==
    ASSUME [Next]_vars, ~HandleHint, ~ReportUnused PROVE UNCHANGED <<hints, used_overrides, context_tracker>>
  BY DEF Next, NextProcessable, ReadLine, ReadOverride, EndOverrides, RunCheck, CheckDies, EndChecks,
         EndHints, EndProcessable, Terminated, vars, lexicals
LEMMA InputsStay == ASSUME [Next]_vars PROVE UNCHANGED inputs
  BY DEF Next, NextProcessable, ReadLine, ReadOverride, EndOverrides, RunCheck, CheckDies, EndChecks,
         HandleHint, EndHints, ReportUnused, EndProcessable, Terminated, vars

\* The effect of a hint that is kept.
Hinted(h, q) == [kind |-> "hint", tag |-> GetTag(h), context |-> h.context, masked |-> Masked(h),
                 override |-> IF q = NoOverride THEN NoOverride
                              ELSE enabled_overrides[current][<<GetTag(h), q>>]]
Notice(k) == [kind |-> UnusedKind(k[1]), tag |-> k[1], context |-> k[2],
              masked |-> FALSE, override |-> NoOverride]

LEMMA Keeping ==
    ASSUME TypeInv, NEW h, KeepHint(h)
    PROVE  \E q \in Applied(h) :
             /\ hints'[current] = Append(hints[current], Hinted(h, q))
             /\ Elements(hints'[current]) = Elements(hints[current]) \cup {Hinted(h, q)}
             /\ \A p \in Processable : p # current => hints'[p] = hints[p]
             /\ used_overrides'[current] = used_overrides[current] \cup
                    (IF q = NoOverride THEN {} ELSE {<<GetTag(h), q>>})
             /\ \A p \in Processable : p # current => used_overrides'[p] = used_overrides[p]
  <1>1. PICK q \in Applied(h) :
          /\ hints' = [hints EXCEPT ![current] = Append(hints[current], Hinted(h, q))]
          /\ used_overrides' = IF q = NoOverride THEN used_overrides
                ELSE [used_overrides EXCEPT ![current] = @ \cup {<<GetTag(h), q>>}]
    BY DEF KeepHint, Hinted
  <1>2. hints[current] \in Seq(Kept) /\ hints'[current] = Append(hints[current], Hinted(h, q))
        /\ \A p \in Processable : p # current => hints'[p] = hints[p]
    BY <1>1 DEF TypeInv, TypeOK
  <1>3. Elements(hints'[current]) = Elements(hints[current]) \cup {Hinted(h, q)}
    BY <1>2, ElementsAppend
  <1>4. /\ used_overrides'[current] = used_overrides[current] \cup
               (IF q = NoOverride THEN {} ELSE {<<GetTag(h), q>>})
        /\ \A p \in Processable : p # current => used_overrides'[p] = used_overrides[p]
    BY <1>1 DEF TypeInv, TypeOK
  <1>5. QED BY <1>2, <1>3, <1>4

LEMMA Reporting ==
    ASSUME TypeInv, ReportUnused
    PROVE  \E k \in Unused :
             /\ hints'[current] = Append(hints[current], Notice(k))
             /\ Elements(hints'[current]) = Elements(hints[current]) \cup {Notice(k)}
             /\ \A p \in Processable : p # current => hints'[p] = hints[p]
  <1>1. PICK k \in Unused : hints' = [hints EXCEPT ![current] = Append(hints[current], Notice(k))]
    BY DEF ReportUnused, Notice
  <1>2. hints[current] \in Seq(Kept) /\ hints'[current] = Append(hints[current], Notice(k))
        /\ \A p \in Processable : p # current => hints'[p] = hints[p]
    BY <1>1 DEF TypeInv, TypeOK
  <1>3. QED BY <1>2, ElementsAppend

LEMMA OverrideInit == Init => OverrideInv
  BY TypeInit DEF Init, OverrideInv, EnabledInv, NoOverrideInv, CarryInv, Each, Elements

LEMMA OverrideNext == ASSUME OverrideInv, [Next]_vars PROVE OverrideInv'
  <1>1. TypeInv /\ TypeInv'
    BY TypeNext DEF OverrideInv
  <1>2. UNCHANGED <<members, lines, no_override>>
    BY InputsStay DEF inputs
  <1>3. EnabledInv'
    <2>1. CASE ReadOverride
      <3> DEFINE o == overrides[current][next]
                 t == CurrentName(o.tag_name)
                 e == enabled_overrides[current]
      <3>1. ~InForce(o) => UNCHANGED enabled_overrides
        BY <2>1 DEF ReadOverride
      <3>2. InForce(o) => enabled_overrides' = [enabled_overrides EXCEPT ![current] =
                             [k \in DOMAIN e \cup {<<t, o.pattern>>} |->
                                IF k = <<t, o.pattern>> THEN o ELSE e[k]]]
        BY <2>1 DEF ReadOverride
      <3>3. FromFile(o, current) /\ (InForce(o) => t \notin DurableTags)
        BY SMTT(30), <1>1, <2>1, EnabledAreTags DEF ReadOverride, FromFile, TypeInv, TypeOK, ParserTypeOK
      <3>4. UNCHANGED overrides
        BY <2>1 DEF ReadOverride, parser
      <3>5. ASSUME NEW p \in Processable, NEW k \in DOMAIN enabled_overrides'[p]
            PROVE  LET x == enabled_overrides'[p][k]
                   IN  k = <<CurrentName(x.tag_name), x.pattern>> /\ k[1] \notin DurableTags /\ FromFile(x, p)
        <4>1. CASE k \in DOMAIN enabled_overrides[p] /\ enabled_overrides'[p][k] = enabled_overrides[p][k]
          BY <4>1 DEF OverrideInv, EnabledInv
        <4>2. CASE p = current /\ InForce(o) /\ k = <<t, o.pattern>> /\ enabled_overrides'[p][k] = o
          BY <3>3, <4>2
        <4>3. QED BY SMTT(30), <1>1, <3>1, <3>2, <3>5, <4>1, <4>2 DEF TypeInv, TypeOK
      <3>6. QED BY <3>4, <3>5 DEF EnabledInv, FromFile
    <2>2. CASE ~ReadOverride
      <3>1. UNCHANGED enabled_overrides
        BY <2>2, EnabledChange
      <3>2. QED BY <1>1, <3>1, FilesStay DEF OverrideInv, EnabledInv
    <2>3. QED BY <2>1, <2>2
  <1>4. NoOverrideInv'
    <2>1. no_override => phase' # "overrides" /\ UNCHANGED enabled_overrides
      BY EnabledChange
      DEF OverrideInv, NoOverrideInv, Next, NextProcessable, ReadLine, ReadOverride, EndOverrides, RunCheck,
          CheckDies, EndChecks, HandleHint, EndHints, ReportUnused, EndProcessable, Terminated, vars, Goto
    <2>2. QED BY <1>2, <2>1 DEF OverrideInv, NoOverrideInv
  <1>5. CarryInv'
    <2> SUFFICES ASSUME NEW p \in Processable, NEW g \in Elements(hints'[p]), g.override # NoOverride
                 PROVE  /\ g.kind = "hint" /\ ~no_override /\ g.tag \notin DurableTags /\ FromFile(g.override, p)'
                        /\ CurrentName(g.override.tag_name) = g.tag
                        /\ Fits(g.override.pattern, g.context)
      BY <1>2 DEF CarryInv, Elements
    <2>1. CASE g \in Elements(hints[p])
      BY <1>1, <2>1, FilesStay DEF OverrideInv, CarryInv
    <2>2. CASE HandleHint /\ g \notin Elements(hints[p])
      <3> DEFINE h == from_checks[current][next]
      <3>1. KeepHint(h) /\ UNCHANGED overrides
        BY <2>2 DEF HandleHint, DropHint, parser
      <3>2. PICK q \in Applied(h) : p = current /\ g = Hinted(h, q)
        BY <1>1, <2>2, <3>1, Keeping
      <3>3. q # NoOverride /\ g.kind = "hint" /\ g.tag = GetTag(h) /\ g.context = h.context
            /\ g.override = enabled_overrides[current][<<GetTag(h), q>>]
        BY <3>2 DEF Hinted
      <3>4. <<GetTag(h), q>> \in DOMAIN enabled_overrides[current] /\ Fits(q, h.context)
        BY <3>3, AppliedFits
      <3>5. /\ ~no_override /\ GetTag(h) \notin DurableTags /\ FromFile(g.override, current)
            /\ CurrentName(g.override.tag_name) = GetTag(h) /\ g.override.pattern = q
        BY <3>2, <3>3, <3>4 DEF OverrideInv, NoOverrideInv, EnabledInv
      <3>6. QED BY <3>1, <3>2, <3>3, <3>4, <3>5 DEF FromFile
    <2>3. CASE ReportUnused /\ g \notin Elements(hints[p])
      <3>1. PICK k \in Unused : /\ Elements(hints'[current]) = Elements(hints[current]) \cup {Notice(k)}
                                /\ \A x \in Processable : x # current => hints'[x] = hints[x]
        BY <1>1, <2>3, Reporting
      <3>2. g = Notice(k)
        BY <2>3, <3>1
      <3>3. QED BY <3>2 DEF Notice
    <2>4. QED BY <2>1, <2>2, <2>3, HintsChange
  <1>6. QED BY <1>1, <1>3, <1>4, <1>5 DEF OverrideInv

\* OverridesMatch: an override is carried only by what it was written for.
THEOREM OverridesMatchHolds == Spec => []OverridesMatch
  <1>1. OverrideInv => OverridesMatch
    BY DEF OverrideInv, CarryInv, OverridesMatch, TypeInv, TypeOK
  <1>2. QED BY <1>1, OverrideInit, OverrideNext, PTL DEF Spec

\* JustificationsAsWritten: comments stay with the overrides they are for,
\* from the file to the hints.
THEOREM JustificationsHold == Spec => []JustificationsAsWritten
  <1>1. OverrideInv => JustificationsAsWritten
    <2> SUFFICES ASSUME OverrideInv, NEW p \in members
                 PROVE  /\ \A i \in DOMAIN overrides[p] : overrides[p][i].justification
                               = CommentsFor(lines[p], overrides[p][i].position)
                        /\ Parsed(p) => {o.position : o \in Elements(overrides[p])}
                               = {n \in DOMAIN lines[p] : lines[p][n].kind = "override"}
                        /\ \A g \in KeptHints(p) : g.override # NoOverride =>
                               \E i \in DOMAIN overrides[p] : g.override = overrides[p][i]
      BY DEF JustificationsAsWritten
    <2>1. p \in Processable
      BY DEF OverrideInv, TypeInv, TypeOK
    <2>2. DeclaredInv(p)
      BY <2>1 DEF OverrideInv, TypeInv, ParserInv
    <2>3. ASSUME Parsed(p)
          PROVE  {o.position : o \in Elements(overrides[p])}
                 = {n \in DOMAIN lines[p] : lines[p][n].kind = "override"}
      <3>1. 1 .. position[p] - 1 = DOMAIN lines[p]
        BY SMTT(30), <2>1, <2>3 DEF Parsed, OverrideInv, TypeInv, TypeOK, ParserTypeOK
      <3>2. ASSUME NEW i \in DOMAIN overrides[p]
            PROVE  overrides[p][i].position \in DOMAIN lines[p]
                   /\ lines[p][overrides[p][i].position].kind = "override"
        BY <2>2 DEF DeclaredInv, IsOverride
      <3>3. ASSUME NEW n \in DOMAIN lines[p], lines[p][n].kind = "override"
            PROVE  \E i \in DOMAIN overrides[p] : overrides[p][i].position = n
        BY <2>2, <3>1, <3>3 DEF DeclaredInv, IsOverride
      <3> DEFINE Places == {o.position : o \in Elements(overrides[p])}
                 Wanted == {n \in DOMAIN lines[p] : lines[p][n].kind = "override"}
      <3>4. ASSUME NEW n \in Places PROVE n \in Wanted
        <4>1. PICK i \in DOMAIN overrides[p] : n = overrides[p][i].position
          BY DEF Elements
        <4>2. QED BY <3>2, <4>1
      <3>5. ASSUME NEW n \in Wanted PROVE n \in Places
        <4>1. PICK i \in DOMAIN overrides[p] : overrides[p][i].position = n
          BY <3>3
        <4>2. QED BY <4>1 DEF Elements
      <3> HIDE DEF Places, Wanted
      <3>6. Places = Wanted
        BY <3>4, <3>5
      <3>7. QED BY <3>6 DEF Places, Wanted
    <2>4. \A g \in KeptHints(p) : g.override # NoOverride => FromFile(g.override, p)
      BY <2>1 DEF OverrideInv, CarryInv, KeptHints
    <2>5. QED BY <2>2, <2>3, <2>4 DEF DeclaredInv, FromFile
  <1>2. QED BY <1>1, OverrideInit, OverrideNext, PTL DEF Spec

-----------------------------------------------------------------------------
\* What becomes of the hints, of the overrides in force and of checks that die.

\* A processable is started when its hints are looked at.
Started(p) == p \notin waiting /\ (p = current => phase \notin {"overrides", "checks"})
Reportable(p) == Started(p) /\ (p = current => phase # "hints")
Seen(p) == {i \in DOMAIN from_checks[p] : p = current /\ phase = "hints" => i < next}
Wanted(h) == Proper(h) /\ GetTag(h) \in EnabledTags

OrderInv ==
    /\ current \in members
    /\ phase # "next" => current \notin waiting
    /\ phase = "done" => waiting = {}

\* Nothing is kept before a processable is started; afterwards the tracker has
\* the wanted ones among the hints seen, and every entry its only hint.
FreshInv(p) == ~Started(p) => context_tracker[p] = {} /\ used_overrides[p] = {} /\ hints[p] = <<>>
TrackInv(p) ==
    Started(p) => \A x : x \in context_tracker[p] <=>
        \E i \in Seen(p) : Wanted(from_checks[p][i]) /\ x = Tracked(from_checks[p][i])
PairInv(p) ==
    /\ \A g \in KeptHints(p) : <<g.tag, g.context>> \in context_tracker[p]
    /\ \A x \in context_tracker[p] : \E g \in KeptHints(p) : <<g.tag, g.context>> = x

\* Each hint stands in the list once.
Repeats(s, i, j) ==
    s[i].kind = "hint" /\ s[j].kind = "hint" /\ s[i].tag = s[j].tag /\ s[i].context = s[j].context
OnceInv(p) == \A i, j \in DOMAIN hints[p] : Repeats(hints[p], i, j) => i = j

\* A hint without an override is matched by none that is in force.
BareInv(p) ==
    \A g \in KeptHints(p) : g.override = NoOverride =>
        \A q \in Pattern : <<g.tag, q>> \in DOMAIN enabled_overrides[p] => ~Fits(q, g.context)

\* The overrides that are used are those that kept hints carry; the others
\* have their notice in the end.
UsedInv(p) ==
    \A k : k \in used_overrides[p] <=>
        \E g \in KeptHints(p) : g.override # NoOverride /\ <<g.tag, g.override.pattern>> = k
NoticeInv(p) ==
    \A g \in Notices(p) :
        /\ Reportable(p) /\ <<g.tag, g.context>> \in DOMAIN enabled_overrides[p]
        /\ <<g.tag, g.context>> \notin used_overrides[p]
        /\ g.kind = "mismatched-override" <=> \E x \in context_tracker[p] : x[1] = g.tag
EndInv(p) ==
    Finished(p) => \A k \in DOMAIN enabled_overrides[p] :
        k \in used_overrides[p] \/ \E g \in Notices(p) : <<g.tag, g.context>> = k

HintInv(p) ==
    /\ FreshInv(p) /\ TrackInv(p) /\ PairInv(p) /\ OnceInv(p) /\ BareInv(p)
    /\ UsedInv(p) /\ NoticeInv(p) /\ EndInv(p)
AllInv == OverrideInv /\ OrderInv /\ \A p \in members : HintInv(p)

LEMMA OrderNext == ASSUME TypeInv, OrderInv, [Next]_vars PROVE OrderInv'
  <1> USE DEF OrderInv, TypeInv, TypeOK
  <1>1. CASE NextProcessable
    BY <1>1 DEF NextProcessable, Goto, inputs
  <1>2. CASE EndOverrides \/ EndChecks \/ EndHints \/ EndProcessable
    BY <1>2 DEF EndOverrides, EndChecks, EndHints, EndProcessable, Goto, inputs
  <1>3. CASE ReadLine \/ ReadOverride \/ RunCheck \/ CheckDies \/ HandleHint \/ ReportUnused
    BY <1>3 DEF ReadLine, ReadOverride, RunCheck, CheckDies, HandleHint, ReportUnused, inputs
  <1>4. CASE Terminated \/ UNCHANGED vars
    BY <1>4 DEF Terminated, vars, inputs
  <1>5. QED BY <1>1, <1>2, <1>3, <1>4 DEF Next

LEMMA AppendOnce ==
    ASSUME NEW S, NEW s \in Seq(S), NEW n, \A i, j \in DOMAIN s : Repeats(s, i, j) => i = j,
           n.kind = "hint" =>
               \A g \in Elements(s) : g.kind = "hint" => ~(g.tag = n.tag /\ g.context = n.context)
    PROVE  \A i, j \in DOMAIN Append(s, n) : Repeats(Append(s, n), i, j) => i = j
  <1> DEFINE l == Len(s) + 1
             t == Append(s, n)
  <1>1. DOMAIN t = (DOMAIN s) \cup {l} /\ t[l] = n /\ \A i \in DOMAIN s : t[i] = s[i] /\ i # l
    OBVIOUS
  <1> HIDE DEF t, l
  <1>2. ASSUME NEW i \in DOMAIN s, n.kind = "hint", s[i].kind = "hint"
        PROVE  ~(s[i].tag = n.tag /\ s[i].context = n.context)
    BY <1>2 DEF Elements
  <1>3. ASSUME NEW i \in DOMAIN t, NEW j \in DOMAIN t, Repeats(t, i, j) PROVE i = j
    <2>1. CASE i \in DOMAIN s /\ j \in DOMAIN s
      BY <1>1, <1>3, <2>1 DEF Repeats
    <2>2. CASE i \in DOMAIN s /\ j = l
      BY <1>1, <1>2, <1>3, <2>2 DEF Repeats
    <2>3. CASE i = l /\ j \in DOMAIN s
      BY <1>1, <1>2, <1>3, <2>3 DEF Repeats
    <2>4. QED BY <1>1, <1>3, <2>1, <2>2, <2>3
  <1>4. QED BY <1>3 DEF t

\* What HintInv(p) depends on.
LEMMA Undisturbed ==
    ASSUME NEW p, HintInv(p),
           enabled_overrides'[p] = enabled_overrides[p], context_tracker'[p] = context_tracker[p],
           used_overrides'[p] = used_overrides[p], hints'[p] = hints[p],
           Started(p)' <=> Started(p),
           Started(p) => from_checks'[p] = from_checks[p] /\ Seen(p)' = Seen(p),
           Reportable(p) => Reportable(p)', Finished(p)' => Finished(p)
    PROVE  HintInv(p)'
  <1>1. KeptHints(p)' = KeptHints(p) /\ Notices(p)' = Notices(p)
    BY DEF KeptHints, Notices, Elements
  <1>2. FreshInv(p)'
    BY DEF HintInv, FreshInv
  <1>3. TrackInv(p)'
    BY DEF HintInv, TrackInv
  <1>4. PairInv(p)' /\ UsedInv(p)' /\ OnceInv(p)' /\ BareInv(p)'
    BY <1>1 DEF HintInv, PairInv, UsedInv, OnceInv, BareInv
  <1>5. NoticeInv(p)' /\ EndInv(p)'
    BY <1>1 DEF HintInv, NoticeInv, EndInv
  <1>6. QED BY <1>2, <1>3, <1>4, <1>5 DEF HintInv

\* Steps about another processable.
LEMMA OthersStay ==
    ASSUME TypeInv, OrderInv, [Next]_vars, NEW p \in members, p # current, HintInv(p)
    PROVE  HintInv(p)'
  <1>1. p \in Processable
    BY DEF TypeInv, TypeOK
  <1>2. /\ enabled_overrides'[p] = enabled_overrides[p] /\ from_checks'[p] = from_checks[p]
    BY <1>1 DEF TypeInv, TypeOK, Next, NextProcessable, ReadLine, ReadOverride, EndOverrides, RunCheck, CheckDies,
         EndChecks, HandleHint, EndHints, ReportUnused, EndProcessable, Terminated, vars, lexicals
  <1>3. /\ context_tracker'[p] = context_tracker[p] /\ used_overrides'[p] = used_overrides[p]
        /\ hints'[p] = hints[p]
    <2>1. CASE HandleHint
      BY <1>1, <2>1, Keeping DEF TypeInv, TypeOK, HandleHint, KeepHint, DropHint
    <2>2. CASE ReportUnused
      BY <1>1, <2>2, Reporting DEF TypeInv, TypeOK, ReportUnused
    <2>3. QED BY <2>1, <2>2, HintsChange
  <1>4. CASE NextProcessable
    <2>1. /\ phase = "next" /\ phase' \in {"checks", "overrides"}
          /\ \E q \in waiting : current' = q /\ waiting' = waiting \ {q}
      BY <1>4 DEF NextProcessable, Goto
    <2>2. Started(p)' <=> Started(p)
      BY <2>1 DEF Started
    <2>3. Started(p) => Seen(p)' = Seen(p)
      BY <1>2, <2>1 DEF Started, Seen
    <2>4. (Reportable(p) => Reportable(p)') /\ (Finished(p)' => Finished(p))
      BY <2>1, <2>2 DEF Started, Reportable, Finished
    <2>5. QED BY <1>2, <1>3, <2>2, <2>3, <2>4, Undisturbed
  <1>5. CASE ~NextProcessable
    <2>1. UNCHANGED <<waiting, current>>
      BY <1>5 DEF Next, ReadLine, ReadOverride, EndOverrides, RunCheck, CheckDies,
         EndChecks, HandleHint, EndHints, ReportUnused, EndProcessable, Terminated, vars
    <2>2. /\ Started(p)' <=> Started(p)
          /\ Reportable(p)' <=> Reportable(p)
          /\ Finished(p)' <=> Finished(p)
      BY <2>1 DEF Started, Reportable, Finished
    <2>3. Seen(p)' = Seen(p)
      BY <1>2, <2>1 DEF Seen
    <2>4. QED BY <1>2, <1>3, <2>2, <2>3, Undisturbed
  <1>6. QED BY <1>4, <1>5

\* Steps that leave the hints of the current processable alone.
LEMMA LoopStays ==
    ASSUME TypeInv, OrderInv, HintInv(current), ~HandleHint, ~ReportUnused, [Next]_vars
    PROVE  \A p : p = current => HintInv(p)'
  <1> SUFFICES ASSUME NEW p, p = current PROVE HintInv(p)'
    OBVIOUS
  <1>1. /\ context_tracker' = context_tracker /\ used_overrides' = used_overrides /\ hints' = hints
    BY HintsChange
  <1>2. HintInv(p) /\ p \in Processable
    BY DEF TypeInv, TypeOK
  <1>3. CASE NextProcessable
    <2>1. /\ phase = "next" /\ phase' \in {"checks", "overrides"}
          /\ \E q \in waiting : current' = q /\ waiting' = waiting \ {q}
      BY <1>3 DEF NextProcessable, Goto
    <2>2. Started(p)' <=> Started(p)
      BY <2>1 DEF Started
    <2>3. UNCHANGED <<enabled_overrides, from_checks>>
      BY <1>3 DEF NextProcessable, lexicals
    <2>4. Started(p) => Seen(p)' = Seen(p)
      BY <2>1, <2>3 DEF Started, Seen
    <2>5. (Reportable(p) => Reportable(p)') /\ (Finished(p)' => Finished(p))
      BY <2>1, <2>2 DEF Started, Reportable, Finished
    <2>6. QED BY <1>1, <1>2, <2>2, <2>3, <2>4, <2>5, Undisturbed
  <1>4. CASE ReadLine \/ EndOverrides \/ RunCheck \/ CheckDies
    <2>1. UNCHANGED <<waiting, current, enabled_overrides>> /\ phase' \in {phase, "checks"}
          /\ phase \in {"overrides", "checks"}
      BY <1>4 DEF ReadLine, EndOverrides, RunCheck, CheckDies, lexicals, Goto
    <2>2. ~Started(p) /\ ~Started(p)' /\ ~Reportable(p) /\ ~Finished(p)'
      BY <2>1 DEF Started, Reportable, Finished
    <2>3. QED BY <1>1, <1>2, <2>1, <2>2, Undisturbed
  <1>5. CASE EndHints
    <2>1. /\ UNCHANGED <<waiting, current, enabled_overrides, from_checks>> /\ phase = "hints" /\ phase' = "unused"
          /\ next > Len(from_checks[p])
      BY <1>5 DEF EndHints, lexicals, Goto
    <2>2. (Started(p)' <=> Started(p)) /\ ~Reportable(p) /\ ~Finished(p)'
      BY <2>1 DEF Started, Reportable, Finished
    <2>3. from_checks[p] \in Seq(Issued) /\ next \in Nat
      BY <1>2 DEF TypeInv, TypeOK
    <2>4. Seen(p)' = DOMAIN from_checks[p] /\ Seen(p) = DOMAIN from_checks[p]
      BY <2>1, <2>3 DEF Seen
    <2>5. QED BY <1>1, <1>2, <2>1, <2>2, <2>4, Undisturbed
  <1>6. CASE ReadOverride \/ EndChecks
    <2>1. /\ UNCHANGED <<waiting, current>> /\ phase \in {"overrides", "checks"}
          /\ phase' \in {"overrides", "hints"} /\ (phase' = "hints" => next' = 1)
      BY <1>6 DEF ReadOverride, EndChecks, Goto
    <2>2. ~Started(p) /\ ~Finished(p)'
      BY <2>1 DEF Started, Finished
    <2>3. context_tracker[p] = {} /\ used_overrides[p] = {} /\ hints[p] = <<>>
      BY <1>2, <2>2 DEF HintInv, FreshInv
    <2>4. KeptHints(p)' = {} /\ Notices(p)' = {}
      BY <1>1, <2>3 DEF KeptHints, Notices, Elements
    <2>5. Started(p)' => Seen(p)' = {}
      <3>1. DOMAIN from_checks'[p] \subseteq Nat \ {0}
        BY <1>2, TypeNext DEF TypeInv, TypeOK
      <3>2. Started(p)' => phase' = "hints"
        BY <2>1 DEF Started
      <3>3. QED BY <2>1, <3>1, <3>2 DEF Seen
    <2>6. FreshInv(p)' /\ EndInv(p)'
      BY <1>1, <2>2, <2>3 DEF FreshInv, EndInv
    <2>7. TrackInv(p)'
      BY <1>1, <2>3, <2>5 DEF TrackInv
    <2>8. PairInv(p)' /\ UsedInv(p)' /\ NoticeInv(p)' /\ OnceInv(p)' /\ BareInv(p)'
      BY <1>1, <2>3, <2>4 DEF PairInv, UsedInv, NoticeInv, OnceInv, BareInv
    <2>9. QED BY <2>6, <2>7, <2>8 DEF HintInv
  <1>7. CASE EndProcessable
    <2>1. /\ UNCHANGED <<waiting, current, enabled_overrides, from_checks>> /\ phase = "unused"
          /\ phase' \in {"done", "next"} /\ Unused = {}
      BY <1>7 DEF EndProcessable, lexicals, Goto
    <2>2. (Started(p)' <=> Started(p)) /\ (Reportable(p)' <=> Reportable(p)) /\ Seen(p)' = Seen(p)
      BY <2>1 DEF Started, Reportable, Seen
    <2>3. FreshInv(p)' /\ TrackInv(p)'
      BY <1>1, <1>2, <2>1, <2>2 DEF HintInv, FreshInv, TrackInv
    <2>4. KeptHints(p)' = KeptHints(p) /\ Notices(p)' = Notices(p)
      BY <1>1 DEF KeptHints, Notices, Elements
    <2>5. PairInv(p)' /\ UsedInv(p)' /\ NoticeInv(p)' /\ OnceInv(p)' /\ BareInv(p)'
      BY <1>1, <1>2, <2>1, <2>2, <2>4 DEF HintInv, PairInv, UsedInv, NoticeInv, OnceInv, BareInv
    <2>6. ASSUME NEW k \in DOMAIN enabled_overrides[p], k \notin used_overrides[p]
          PROVE  \E g \in Notices(p) : <<g.tag, g.context>> = k
      <3>1. PICK i \in DOMAIN hints[p] : hints[p][i].kind # "hint" /\ <<hints[p][i].tag, hints[p][i].context>> = k
        BY <2>1, <2>6 DEF Unused
      <3>2. QED BY <3>1 DEF Notices, Elements
    <2>7. EndInv(p)'
      BY <1>1, <2>1, <2>4, <2>6 DEF EndInv
    <2>8. QED BY <2>3, <2>5, <2>7 DEF HintInv
  <1>8. CASE Terminated \/ UNCHANGED vars
    <2>1. UNCHANGED <<waiting, current, phase, next, enabled_overrides, from_checks>>
      BY <1>8 DEF Terminated, vars, lexicals
    <2>2. /\ (Started(p)' <=> Started(p)) /\ (Reportable(p)' <=> Reportable(p))
          /\ (Finished(p)' <=> Finished(p)) /\ Seen(p)' = Seen(p)
      BY <2>1 DEF Started, Reportable, Finished, Seen
    <2>3. QED BY <1>1, <1>2, <2>1, <2>2, Undisturbed
  <1>9. QED BY <1>3, <1>4, <1>5, <1>6, <1>7, <1>8 DEF Next

LEMMA HintHandled ==
    ASSUME OverrideInv, OrderInv, HintInv(current), HandleHint
    PROVE  \A p : p = current => HintInv(p)'
  <1> SUFFICES ASSUME NEW p, p = current PROVE HintInv(p)'
    OBVIOUS
  <1> DEFINE h == from_checks[p][next]
  <1>1. TypeInv /\ HintInv(p) /\ p \in Processable
    BY DEF OverrideInv, TypeInv, TypeOK
  <1>2. /\ phase = "hints" /\ next \in DOMAIN from_checks[p] /\ next' = next + 1
        /\ UNCHANGED <<waiting, current, phase, enabled_overrides, from_checks>>
        /\ KeepHint(h) \/ DropHint(h)
    BY <1>1 DEF HandleHint, TypeInv, TypeOK
  <1>3. Started(p) /\ Started(p)' /\ ~Reportable(p) /\ ~Finished(p)'
    BY <1>2 DEF OrderInv, Started, Reportable, Finished
  <1>4. Seen(p)' = Seen(p) \cup {next}
    <2>1. next \in Nat /\ DOMAIN from_checks[p] \subseteq Nat
      BY <1>1 DEF TypeInv, TypeOK
    <2>2. QED BY <1>2, <2>1 DEF Seen
  <1>5. FreshInv(p)' /\ EndInv(p)' /\ Notices(p) = {}
    BY <1>1, <1>3 DEF HintInv, FreshInv, EndInv, NoticeInv
  <1>6. CASE DropHint(h)
    <2>1. UNCHANGED <<context_tracker, hints, used_overrides>>
          /\ (Wanted(h) => Tracked(h) \in context_tracker[p])
      BY <1>6 DEF DropHint, Wanted
    <2>2. TrackInv(p)'
      BY <1>1, <1>2, <1>3, <1>4, <2>1 DEF HintInv, TrackInv
    <2>3. KeptHints(p)' = KeptHints(p) /\ Notices(p)' = Notices(p)
      BY <2>1 DEF KeptHints, Notices, Elements
    <2>4. PairInv(p)' /\ UsedInv(p)' /\ NoticeInv(p)' /\ OnceInv(p)' /\ BareInv(p)'
      BY <1>1, <1>2, <1>5, <2>1, <2>3 DEF HintInv, PairInv, UsedInv, NoticeInv, OnceInv, BareInv
    <2>5. QED BY <1>5, <2>2, <2>4 DEF HintInv
  <1>7. CASE KeepHint(h)
    <2>1. /\ Wanted(h) /\ Tracked(h) \notin context_tracker[p]
          /\ context_tracker'[p] = context_tracker[p] \cup {Tracked(h)}
      BY <1>1, <1>7 DEF KeepHint, Wanted, TypeInv, TypeOK
    <2>2. PICK q \in Applied(h) :
            /\ hints'[p] = Append(hints[p], Hinted(h, q))
            /\ Elements(hints'[p]) = Elements(hints[p]) \cup {Hinted(h, q)}
            /\ used_overrides'[p] = used_overrides[p] \cup (IF q = NoOverride THEN {} ELSE {<<GetTag(h), q>>})
      BY <1>1, <1>7, Keeping
    <2> DEFINE n == Hinted(h, q)
    <2>3. n.kind = "hint" /\ <<n.tag, n.context>> = Tracked(h) /\ n.tag = GetTag(h)
      BY DEF Hinted, Tracked
    <2>4. q # NoOverride => n.override # NoOverride /\ n.override.pattern = q
      <3>1. ASSUME q # NoOverride
            PROVE  <<GetTag(h), q>> \in DOMAIN enabled_overrides[p]
                   /\ n.override = enabled_overrides[p][<<GetTag(h), q>>]
        BY <3>1, AppliedFits DEF Hinted
      <3>2. ASSUME q # NoOverride PROVE n.override \in Override
        BY <1>1, <3>1, <3>2 DEF TypeInv, TypeOK
      <3>3. q # NoOverride => n.override.pattern = q
        BY <1>1, <3>1 DEF OverrideInv, EnabledInv
      <3>4. QED BY <3>2, <3>3, GroupAssumption
    <2>5. q = NoOverride => n.override = NoOverride
      BY DEF Hinted
    <2>12. OnceInv(p)'
      <3>1. ASSUME NEW g \in Elements(hints[p]), g.kind = "hint"
            PROVE  ~(g.tag = n.tag /\ g.context = n.context)
        BY <1>1, <2>1, <2>3, <3>1 DEF HintInv, PairInv, KeptHints
      <3>2. hints[p] \in Seq(Kept) /\ OnceInv(p)
        BY <1>1 DEF TypeInv, TypeOK, HintInv
      <3> HIDE DEF n
      <3>3. hints'[p] = Append(hints[p], n)
        BY <2>2 DEF n
      <3>4. \A i, j \in DOMAIN Append(hints[p], n) : Repeats(Append(hints[p], n), i, j) => i = j
        BY <3>1, <3>2, AppendOnce DEF OnceInv
      <3>5. QED BY <3>3, <3>4 DEF OnceInv
    <2>13. ASSUME n.override = NoOverride, NEW r \in Pattern, <<n.tag, r>> \in DOMAIN enabled_overrides[p]
           PROVE  ~Fits(r, n.context)
      BY <2>2, <2>3, <2>4, <2>13, NothingFits DEF Hinted
    <2> HIDE DEF n
    <2>6. KeptHints(p)' = KeptHints(p) \cup {n} /\ Notices(p)' = {}
      BY <1>5, <2>2, <2>3 DEF KeptHints, Notices, n
    <2>7. TrackInv(p)'
      BY <1>1, <1>2, <1>3, <1>4, <2>1 DEF HintInv, TrackInv
    <2>8. PairInv(p)'
      BY <1>1, <2>1, <2>3, <2>6 DEF HintInv, PairInv
    <2>9. UsedInv(p)'
      BY <1>1, <2>2, <2>3, <2>4, <2>5, <2>6 DEF HintInv, UsedInv
    <2>10. NoticeInv(p)'
      BY <2>6 DEF NoticeInv
    <2>14. BareInv(p)'
      BY <1>1, <1>2, <2>6, <2>13 DEF HintInv, BareInv
    <2>11. QED BY <1>5, <2>7, <2>8, <2>9, <2>10, <2>12, <2>14 DEF HintInv
  <1>8. QED BY <1>2, <1>6, <1>7

LEMMA NoticeGiven ==
    ASSUME OverrideInv, OrderInv, HintInv(current), ReportUnused
    PROVE  \A p : p = current => HintInv(p)'
  <1> SUFFICES ASSUME NEW p, p = current PROVE HintInv(p)'
    OBVIOUS
  <1>1. TypeInv /\ HintInv(p) /\ p \in Processable
    BY DEF OverrideInv, TypeInv, TypeOK
  <1>2. /\ phase = "unused"
        /\ UNCHANGED <<waiting, current, phase, next, enabled_overrides, from_checks, context_tracker,
                       used_overrides>>
    BY DEF ReportUnused
  <1>3. /\ Started(p) /\ Started(p)' /\ Reportable(p)' /\ Seen(p)' = Seen(p) /\ ~Finished(p)'
    BY <1>2 DEF OrderInv, Started, Reportable, Finished, Seen
  <1>4. PICK k \in Unused : /\ hints'[p] = Append(hints[p], Notice(k))
                            /\ Elements(hints'[p]) = Elements(hints[p]) \cup {Notice(k)}
    BY <1>1, Reporting
  <1>5. k \in Tag \X Pattern /\ k \in DOMAIN enabled_overrides[p] /\ k \notin used_overrides[p]
    BY <1>1 DEF Unused, TypeInv, TypeOK
  <1> DEFINE n == Notice(k)
  <1>6. /\ n.kind # "hint" /\ <<n.tag, n.context>> = k
        /\ n.kind = "mismatched-override" <=> \E x \in context_tracker[p] : x[1] = n.tag
    BY <1>5 DEF Notice, UnusedKind
  <1> HIDE DEF n
  <1>7. KeptHints(p)' = KeptHints(p) /\ Notices(p)' = Notices(p) \cup {n}
    BY <1>4, <1>6 DEF KeptHints, Notices, n
  <1>8. FreshInv(p)' /\ TrackInv(p)' /\ EndInv(p)'
    BY <1>1, <1>2, <1>3 DEF HintInv, FreshInv, TrackInv, EndInv
  <1>9. PairInv(p)' /\ UsedInv(p)' /\ BareInv(p)'
    BY <1>1, <1>2, <1>7 DEF HintInv, PairInv, UsedInv, BareInv
  <1>12. OnceInv(p)'
    <2>1. hints[p] \in Seq(Kept) /\ OnceInv(p) /\ hints'[p] = Append(hints[p], n)
      BY <1>1, <1>4 DEF TypeInv, TypeOK, HintInv, n
    <2>2. \A i, j \in DOMAIN Append(hints[p], n) : Repeats(Append(hints[p], n), i, j) => i = j
      BY <1>6, <2>1, AppendOnce DEF OnceInv
    <2>3. QED BY <2>1, <2>2 DEF OnceInv
  <1>10. NoticeInv(p)'
    BY <1>1, <1>2, <1>3, <1>5, <1>6, <1>7 DEF HintInv, NoticeInv
  <1>11. QED BY <1>8, <1>9, <1>10, <1>12 DEF HintInv

LEMMA AllInit == Init => AllInv
  <1> SUFFICES ASSUME Init PROVE AllInv
    OBVIOUS
  <1>1. OverrideInv /\ OrderInv
    BY OverrideInit DEF Init, OrderInv
  <1>2. ASSUME NEW p \in members PROVE HintInv(p)
    <2>1. /\ p \in Processable /\ context_tracker[p] = {} /\ used_overrides[p] = {} /\ hints[p] = <<>>
          /\ ~Started(p) /\ ~Finished(p)
      BY <1>1 DEF Init, Each, OverrideInv, TypeInv, TypeOK, Started, Finished
    <2>2. KeptHints(p) = {} /\ Notices(p) = {}
      BY <2>1 DEF KeptHints, Notices, Elements
    <2>3. QED BY <2>1, <2>2 DEF HintInv, FreshInv, TrackInv, PairInv, OnceInv, BareInv, UsedInv,
         NoticeInv, EndInv
  <1>3. QED BY <1>1, <1>2 DEF AllInv

LEMMA AllNext == ASSUME AllInv, [Next]_vars PROVE AllInv'
  <1>1. OverrideInv' /\ OrderInv' /\ members' = members
    BY OverrideNext, OrderNext, InputsStay DEF AllInv, OverrideInv, inputs
  <1>2. ASSUME NEW p \in members PROVE HintInv(p)'
    <2>1. TypeInv /\ OverrideInv /\ OrderInv /\ HintInv(p) /\ HintInv(current)
      BY DEF AllInv, OverrideInv, OrderInv
    <2>2. QED BY <2>1, OthersStay, LoopStays, HintHandled, NoticeGiven
  <1>3. QED BY <1>1, <1>2 DEF AllInv

LEMMA AllHolds == Spec => []AllInv
  BY AllInit, AllNext, PTL DEF Spec

\* EveryHintKeptOnce: what the checks issue is kept, and each pair of tag and
\* context stands in the list once, whatever the checks, the tags and the
\* screens.
THEOREM HintsKeptOnce == Spec => []EveryHintKeptOnce
  <1>1. AllInv => EveryHintKeptOnce
    <2> SUFFICES ASSUME AllInv, NEW p \in members, Finished(p)
                 PROVE  /\ {<<g.tag, g.context>> : g \in KeptHints(p)}
                           = {Tracked(h) : h \in {h \in Elements(from_checks[p]) :
                                                    Proper(h) /\ GetTag(h) \in EnabledTags}}
                        /\ \A i, j \in DOMAIN hints[p] : Repeats(hints[p], i, j) => i = j
      BY DEF EveryHintKeptOnce, Repeats
    <2>1. HintInv(p)
      BY DEF AllInv
    <2>2. Started(p) /\ Seen(p) = DOMAIN from_checks[p]
      BY DEF Finished, Started, Seen
    <2> DEFINE Pairs == {<<g.tag, g.context>> : g \in KeptHints(p)}
               Issues == {Tracked(h) : h \in {h \in Elements(from_checks[p]) :
                                                Proper(h) /\ GetTag(h) \in EnabledTags}}
    <2>3. ASSUME NEW x PROVE x \in Pairs <=> x \in context_tracker[p]
      BY <2>1 DEF HintInv, PairInv
    <2>4. ASSUME NEW x PROVE x \in Issues <=> x \in context_tracker[p]
      BY <2>1, <2>2 DEF HintInv, TrackInv, Wanted, Elements
    <2> HIDE DEF Pairs, Issues
    <2>5. Pairs = Issues
      BY <2>3, <2>4
    <2>6. QED BY <2>1, <2>5 DEF Pairs, Issues, HintInv, OnceInv
  <1>2. QED BY <1>1, AllHolds, PTL

\* OverridesUsedOrReported: an override in force is carried by a hint, or it
\* has its notice, of the right kind.
THEOREM OverridesAccountedFor == Spec => []OverridesUsedOrReported
  <1>1. AllInv => OverridesUsedOrReported
    <2> SUFFICES ASSUME AllInv, NEW p \in members, Finished(p)
                 PROVE  /\ \A k \in DOMAIN enabled_overrides[p] :
                             (\E g \in KeptHints(p) : g.override # NoOverride /\ <<g.tag, g.override.pattern>> = k)
                             <=> ~\E g \in Notices(p) : g.tag = k[1] /\ g.context = k[2]
                        /\ \A g \in Notices(p) :
                             /\ g.kind = "mismatched-override" <=> \E h \in KeptHints(p) : h.tag = g.tag
                             /\ g.kind \in {"mismatched-override", "unused-override"}
                             /\ \A h \in KeptHints(p) :
                                  h.tag = g.tag /\ Fits(g.context, h.context) => h.override # NoOverride
      BY DEF OverridesUsedOrReported
    <2>1. PairInv(p) /\ UsedInv(p) /\ NoticeInv(p) /\ EndInv(p) /\ BareInv(p) /\ p \in Processable
      BY DEF AllInv, HintInv, OverrideInv, TypeInv, TypeOK
    <2>2. ASSUME NEW k \in DOMAIN enabled_overrides[p]
          PROVE  k = <<k[1], k[2]>> /\ k[2] \in Pattern
      BY <2>1 DEF AllInv, OverrideInv, TypeInv, TypeOK
    <2>3. ASSUME NEW k \in DOMAIN enabled_overrides[p]
          PROVE  k \in used_overrides[p] <=> ~\E g \in Notices(p) : g.tag = k[1] /\ g.context = k[2]
      BY <2>1, <2>2 DEF NoticeInv, EndInv
    <2>4. ASSUME NEW g \in Notices(p)
          PROVE  /\ g.kind = "mismatched-override" <=> \E h \in KeptHints(p) : h.tag = g.tag
                 /\ g.kind \in {"mismatched-override", "unused-override"}
      <3>1. g.kind = "mismatched-override" <=> \E x \in context_tracker[p] : x[1] = g.tag
        BY <2>1 DEF NoticeInv
      <3>2. ASSUME NEW x \in context_tracker[p], x[1] = g.tag PROVE \E h \in KeptHints(p) : h.tag = g.tag
        <4>1. PICK h \in KeptHints(p) : <<h.tag, h.context>> = x
          BY <2>1 DEF PairInv
        <4>2. QED BY <3>2, <4>1
      <3>3. ASSUME NEW h \in KeptHints(p), h.tag = g.tag PROVE \E x \in context_tracker[p] : x[1] = g.tag
        <4>1. <<h.tag, h.context>> \in context_tracker[p] /\ <<h.tag, h.context>>[1] = g.tag
          BY <2>1, <3>3 DEF PairInv
        <4>2. QED BY <4>1
      <3>4. g \in Kept /\ g.kind # "hint"
        <4>1. hints[p] \in Seq(Kept)
          BY <2>1 DEF AllInv, OverrideInv, TypeInv, TypeOK
        <4>2. QED BY <4>1 DEF Notices, Elements
      <3>5. QED BY <3>1, <3>2, <3>3, <3>4 DEF Kept
    <2>5. ASSUME NEW k \in DOMAIN enabled_overrides[p]
          PROVE  (\E g \in KeptHints(p) : g.override # NoOverride /\ <<g.tag, g.override.pattern>> = k)
                 <=> k \in used_overrides[p]
      BY <2>1 DEF UsedInv
    <2>6. ASSUME NEW g \in Notices(p), NEW h \in KeptHints(p), h.tag = g.tag, Fits(g.context, h.context)
          PROVE  h.override # NoOverride
      <3>1. <<g.tag, g.context>> \in DOMAIN enabled_overrides[p]
        BY <2>1 DEF NoticeInv
      <3>2. g.context \in Pattern
        BY <2>2, <3>1
      <3>3. QED BY <2>1, <2>6, <3>1, <3>2 DEF BareInv
    <2>7. QED BY <2>3, <2>4, <2>5, <2>6
  <1>2. QED BY <1>1, AllHolds, PTL

-----------------------------------------------------------------------------
\* The attempts at checks.

Attempted(p, c) == <<p, c, "ran">> \in attempts \/ <<p, c, "died">> \in attempts
Turn(p, i) == p \notin waiting /\ (p = current => phase # "overrides" /\ (phase = "checks" => i < next))

AttemptInv ==
    /\ success <=> \A a \in attempts : a[3] = "ran"
    /\ \A p \in members, i \in DOMAIN CheckOrder : Turn(p, i) <=> Attempted(p, CheckOrder[i])

LEMMA Trying ==
    ASSUME TypeInv, OrderInv, AttemptInv, RunCheck \/ CheckDies
    PROVE  AttemptInv'
  <1>1. PICK r \in {"ran", "died"} :
          /\ attempts' = attempts \cup {<<current, CheckOrder[next], r>>}
          /\ success' <=> (success /\ r = "ran")
    <2>1. CASE RunCheck
      BY <2>1, Zenon DEF RunCheck
    <2>2. CASE CheckDies
      BY <2>2, Zenon DEF CheckDies
    <2>3. QED BY <2>1, <2>2
  <1>2. /\ phase = "checks" /\ next <= Len(CheckOrder) /\ next' = next + 1
        /\ UNCHANGED <<members, waiting, current, phase>> /\ current \notin waiting
    BY DEF RunCheck, CheckDies, inputs, OrderInv
  <1>3. next \in DOMAIN CheckOrder /\ DOMAIN CheckOrder \subseteq Nat
    BY <1>2, GroupAssumption DEF TypeInv, TypeOK
  <1>4. success' <=> \A a \in attempts' : a[3] = "ran"
    <2>1. <<current, CheckOrder[next], r>>[3] = r
      OBVIOUS
    <2>2. (\A a \in attempts' : a[3] = "ran") <=> (\A a \in attempts : a[3] = "ran") /\ r = "ran"
      BY <1>1, <2>1
    <2>3. QED BY <1>1, <2>2, Zenon DEF AttemptInv
  <1>5. ASSUME NEW p \in members, NEW i \in DOMAIN CheckOrder
        PROVE  Turn(p, i)' <=> Attempted(p, CheckOrder[i])'
    <2>1. Turn(p, i) <=> Attempted(p, CheckOrder[i])
      BY DEF AttemptInv
    <2>2. Turn(p, i)' <=> Turn(p, i) \/ (p = current /\ i = next)
      BY <1>2, <1>3 DEF Turn, TypeInv, TypeOK
    <2>3. Attempted(p, CheckOrder[i])' <=> Attempted(p, CheckOrder[i]) \/ (p = current /\ i = next)
      <3>1. CheckOrder[i] = CheckOrder[next] <=> i = next
        BY <1>3, GroupAssumption
      <3>2. QED BY <1>1, <3>1 DEF Attempted
    <2>4. QED BY <2>1, <2>2, <2>3
  <1>6. QED BY <1>2, <1>4, <1>5 DEF AttemptInv

LEMMA AttemptNext == ASSUME TypeInv, OrderInv, AttemptInv, [Next]_vars PROVE AttemptInv'
  <1>1. CASE RunCheck \/ CheckDies
    BY <1>1, Trying
  <1>2. CASE ~RunCheck /\ ~CheckDies
    <2>1. UNCHANGED <<members, success, attempts>>
      BY <1>2 DEF Next, NextProcessable, ReadLine, ReadOverride, EndOverrides, EndChecks, HandleHint,
           EndHints, ReportUnused, EndProcessable, Terminated, vars, inputs
    <2>2. ASSUME NEW p \in members, NEW i \in DOMAIN CheckOrder PROVE Turn(p, i)' <=> Turn(p, i)
      <3> i \in Nat \ {0} /\ i <= Len(CheckOrder)
        BY GroupAssumption
      <3>1. CASE NextProcessable
        BY <3>1 DEF NextProcessable, Goto, Turn, TypeInv, TypeOK, OrderInv
      <3>2. CASE ReadLine \/ ReadOverride
        BY <3>2 DEF ReadLine, ReadOverride, Turn
      <3>3. CASE EndOverrides \/ EndHints \/ EndProcessable
        BY <3>3 DEF EndOverrides, EndHints, EndProcessable, Goto, Turn
      <3>4. CASE EndChecks
        BY <3>4, GroupAssumption DEF EndChecks, Goto, Turn, TypeInv, TypeOK
      <3>5. CASE HandleHint \/ ReportUnused
        BY <3>5 DEF HandleHint, ReportUnused, Turn
      <3>6. CASE Terminated \/ UNCHANGED vars
        BY <3>6 DEF Terminated, vars, Turn
      <3>7. QED BY <1>2, <3>1, <3>2, <3>3, <3>4, <3>5, <3>6 DEF Next
    <2>3. QED BY <2>1, <2>2 DEF AttemptInv, Attempted
  <1>3. QED BY <1>1, <1>2

LEMMA AttemptInit == Init => AttemptInv
  BY DEF Init, AttemptInv, Turn, Attempted

\* FailuresAreIsolated: every check has its turn for every processable, and
\* the group succeeds exactly if none has died.
THEOREM FailuresStayIsolated == Spec => []FailuresAreIsolated
  <1>1. AllInv /\ AttemptInv => FailuresAreIsolated
    <2> SUFFICES ASSUME AllInv, AttemptInv, phase = "done" PROVE FailuresAreIsolated
      BY DEF FailuresAreIsolated
    <2>1. ASSUME NEW p \in members, NEW c \in Check PROVE Attempted(p, c)
      <3>1. PICK i \in DOMAIN CheckOrder : c = CheckOrder[i]
        BY DEF Check
      <3>2. Turn(p, i)
        BY DEF AllInv, OrderInv, Turn
      <3>3. QED BY <3>1, <3>2 DEF AttemptInv
    <2>2. QED BY <2>1 DEF FailuresAreIsolated, AttemptInv, Attempted
  <1>2. AllInv /\ AttemptInv /\ [Next]_vars => AttemptInv'
    BY AttemptNext DEF AllInv, OverrideInv
  <1>3. QED BY <1>1, <1>2, AttemptInit, AllHolds, PTL DEF Spec

-----------------------------------------------------------------------------
\* The lines in error.

Whole(p) == position[p] = 1 \/ Parsed(p)
Recorded(p) == {override_errors[p][i] : i \in DOMAIN override_errors[p]}
ErrorsUpTo(p, n) == {k \in 1 .. n : lines[p][k].kind = "error"}
AllErrors(p) == {k \in DOMAIN lines[p] : lines[p][k].kind = "error"}

\* A file is read in one go, before the checks if overrides are allowed, else
\* when a check asks; the errors recorded are those above the next line.
ParseInv(p) ==
    /\ Recorded(p) = ErrorsUpTo(p, position[p] - 1)
    /\ Whole(p) \/ (p = current /\ \/ phase = "overrides"
                                   \/ phase = "checks" /\ next <= Len(CheckOrder)
                                      /\ CheckOrder[next] \in AskOverrides)
    /\ ~no_override /\ p \notin waiting /\ (p = current => phase # "overrides") => Parsed(p)
    /\ \A c \in AskOverrides : <<p, c, "ran">> \in attempts => Parsed(p)

\* What the check of malformed lines has found for p.
Pointers(p) == {h.context : h \in {h \in Elements(from_checks[p]) : h.issued_by = MalformedCheck}}
FoundInv(p) ==
    /\ \A h \in Elements(from_checks[p]) : h.issued_by = MalformedCheck => h.tag_name = MalformedTag
    /\ <<p, MalformedCheck, "ran">> \notin attempts => Pointers(p) = {}
    /\ <<p, MalformedCheck, "ran">> \in attempts =>
          \/ Pointers(p) = {PointerTo[n] : n \in AllErrors(p)}
          \/ Pointers(p) = {} /\ ~Asked(p)

LEMMA LineRecorded ==
    ASSUME TypeInv, NEW p \in Processable, ParseLine, UNCHANGED lines,
           Recorded(p) = ErrorsUpTo(p, position[p] - 1)
    PROVE  Recorded(p)' = ErrorsUpTo(p, position[p] - 1)'
  <1>1. CASE p # current
    <2>1. override_errors'[p] = override_errors[p] /\ position'[p] = position[p]
      BY <1>1 DEF TypeInv, TypeOK, ParserTypeOK, ParseLine, SkipBlank, TakeComment, SkipMark, RecordError,
                  DeclareOverride, NextPosition
    <2>2. QED BY <2>1 DEF Recorded, ErrorsUpTo
  <1>2. CASE p = current
    <2> DEFINE n == position[p]
    <2>1. position'[p] = n + 1 /\ n \in Nat \ {0} /\ (1 .. (n + 1) - 1) = (1 .. n - 1) \cup {n}
      BY <1>2 DEF TypeInv, TypeOK, ParserTypeOK, ParseLine, SkipBlank, TakeComment, SkipMark, RecordError,
                  DeclareOverride, NextPosition
    <2>2. CASE RecordError
      <3>1. lines[p][n].kind = "error" /\ override_errors'[p] = Append(override_errors[p], n)
            /\ override_errors[p] \in Seq(Nat)
        BY <1>2, <2>2 DEF RecordError, At, Next_line, TypeInv, TypeOK, ParserTypeOK
      <3>2. Recorded(p)' = Recorded(p) \cup {n}
        <4>1. Elements(Append(override_errors[p], n)) = Elements(override_errors[p]) \cup {n}
          BY <3>1, ElementsAppend
        <4>2. QED BY <3>1, <4>1 DEF Recorded, Elements
      <3>3. ErrorsUpTo(p, position[p] - 1)' = ErrorsUpTo(p, n - 1) \cup {n}
        BY <2>1, <3>1 DEF ErrorsUpTo
      <3>4. QED BY <3>2, <3>3
    <2>3. CASE ~RecordError
      <3>1. lines[p][n].kind # "error" /\ UNCHANGED override_errors
        BY <1>2, <2>3 DEF ParseLine, SkipBlank, TakeComment, SkipMark, DeclareOverride, At, Next_line
      <3>2. ErrorsUpTo(p, position[p] - 1)' = ErrorsUpTo(p, n - 1)
        BY <2>1, <3>1 DEF ErrorsUpTo
      <3>3. QED BY <3>1, <3>2 DEF Recorded
    <2>4. QED BY <2>2, <2>3
  <1>3. QED BY <1>1, <1>2

LEMMA ParseNext ==
    ASSUME TypeInv, OrderInv, [Next]_vars, NEW p \in members, ParseInv(p)
    PROVE  ParseInv(p)'
  <1>1. p \in Processable /\ UNCHANGED <<lines, no_override>>
    BY InputsStay DEF TypeInv, TypeOK, inputs
  <1>2. CASE ReadLine
    <2>1. /\ UNCHANGED <<waiting, current, phase, next, attempts>> /\ ParseLine
          /\ \/ phase = "overrides"
             \/ phase = "checks" /\ next <= Len(CheckOrder) /\ CheckOrder[next] \in AskOverrides
      BY <1>2 DEF ReadLine
    <2>2. Recorded(p)' = ErrorsUpTo(p, position[p] - 1)'
      BY <1>1, <2>1, LineRecorded DEF ParseInv
    <2>3. ~Parsed(current)
      BY <2>1 DEF ParseLine, SkipBlank, TakeComment, SkipMark, RecordError, DeclareOverride, At
    <2>4. p # current => position'[p] = position[p]
      BY <1>1, <2>1 DEF TypeInv, TypeOK, ParserTypeOK, ParseLine, SkipBlank, TakeComment, SkipMark, RecordError,
                        DeclareOverride, NextPosition
    <2>5. CASE p = current
      BY <1>1, <2>1, <2>2, <2>3, <2>5 DEF ParseInv, OrderInv
    <2>6. CASE p # current
      BY <1>1, <2>1, <2>2, <2>4, <2>6 DEF ParseInv, Whole, Parsed
    <2>7. QED BY <2>5, <2>6
  <1>3. CASE ~ReadLine
    <2>1. UNCHANGED parser
      BY <1>3 DEF Next, NextProcessable, ReadOverride, EndOverrides, RunCheck, CheckDies, EndChecks, HandleHint,
           EndHints, ReportUnused, EndProcessable, Terminated, vars
    <2>2. /\ Recorded(p)' = Recorded(p) /\ ErrorsUpTo(p, position[p] - 1)' = ErrorsUpTo(p, position[p] - 1)
          /\ (Whole(p)' <=> Whole(p)) /\ (Parsed(p)' <=> Parsed(p))
      BY <1>1, <2>1 DEF parser, Recorded, ErrorsUpTo, Whole, Parsed
    <2>3. CASE NextProcessable \/ EndOverrides \/ EndChecks \/ EndHints \/ EndProcessable
      <3>1. UNCHANGED attempts
        BY <2>3 DEF NextProcessable, EndOverrides, EndChecks, EndHints, EndProcessable
      <3>2. CASE NextProcessable
        BY <1>1, <2>2, <3>1, <3>2 DEF NextProcessable, Goto, ParseInv, OrderInv
      <3>3. CASE EndOverrides
        BY <1>1, <2>2, <3>1, <3>3 DEF EndOverrides, Goto, ParseInv, Whole
      <3>4. CASE EndChecks
        BY <1>1, <2>2, <3>1, <3>4 DEF EndChecks, Goto, ParseInv, TypeInv, TypeOK
      <3>5. CASE EndHints \/ EndProcessable
        BY <1>1, <2>2, <3>1, <3>5 DEF EndHints, EndProcessable, Goto, ParseInv
      <3>6. QED BY <2>3, <3>2, <3>3, <3>4, <3>5
    <2>4. CASE RunCheck \/ CheckDies
      <3>1. /\ UNCHANGED <<waiting, current, phase>> /\ phase = "checks" /\ next <= Len(CheckOrder)
        BY <2>4 DEF RunCheck, CheckDies
      <3>2. p = current => Whole(p) /\ (RunCheck /\ CheckOrder[next] \in AskOverrides => Parsed(p))
        BY <2>4, <3>1 DEF RunCheck, CheckDies, Whole, ParseInv
      <3>3. p # current => Whole(p)
        BY DEF ParseInv
      <3>4. ASSUME NEW c \in AskOverrides, <<p, c, "ran">> \in attempts' PROVE Parsed(p)
        <4>1. CASE <<p, c, "ran">> \in attempts
          BY <4>1 DEF ParseInv
        <4>2. CASE RunCheck /\ <<p, c, "ran">> = <<current, CheckOrder[next], "ran">>
          BY <3>2, <4>2
        <4>3. QED BY <2>4, <3>4, <4>1, <4>2 DEF RunCheck, CheckDies
      <3>5. QED BY <1>1, <2>2, <3>1, <3>2, <3>3, <3>4 DEF ParseInv
    <2>5. CASE ReadOverride \/ HandleHint \/ ReportUnused
      <3>1. UNCHANGED <<waiting, current, phase, attempts>> /\ phase # "checks" /\ (p = current => Whole(p) \/ phase = "overrides")
        BY <2>5 DEF ReadOverride, HandleHint, ReportUnused, ParseInv
      <3>2. QED BY <1>1, <2>2, <3>1 DEF ParseInv
    <2>6. CASE Terminated \/ UNCHANGED vars
      BY <1>1, <2>2, <2>6 DEF Terminated, vars, ParseInv
    <2>7. QED BY <1>3, <2>3, <2>4, <2>5, <2>6 DEF Next
  <1>4. QED BY <1>2, <1>3

\* Steps that are not a check's, or not p's.
LEMMA FoundStays ==
    ASSUME NEW p, FoundInv(p), UNCHANGED <<lines, no_override>>, from_checks'[p] = from_checks[p],
           \A c : <<p, c, "ran">> \in attempts' <=> <<p, c, "ran">> \in attempts
    PROVE  FoundInv(p)'
  <1>1. Pointers(p)' = Pointers(p) /\ AllErrors(p)' = AllErrors(p) /\ (Asked(p)' <=> Asked(p))
    BY DEF Pointers, AllErrors, Asked, Elements
  <1>2. Elements(from_checks[p])' = Elements(from_checks[p])
    BY DEF Elements
  <1>3. QED BY <1>1, <1>2 DEF FoundInv

LEMMA CheckRuns ==
    ASSUME TypeInv, OrderInv, AttemptInv, RunCheck, NEW p, p = current, p \in members, ParseInv(p), FoundInv(p)
    PROVE  FoundInv(p)'
  <1> DEFINE c == CheckOrder[next]
  <1>1. /\ phase = "checks" /\ next \in DOMAIN CheckOrder /\ DOMAIN CheckOrder \subseteq Nat
        /\ UNCHANGED <<lines, no_override>> /\ p \in Processable
        /\ (c \in AskOverrides => Parsed(p)) /\ attempts' = attempts \cup {<<p, c, "ran">>}
    BY GroupAssumption DEF RunCheck, inputs, TypeInv, TypeOK
  <1>2. PICK found \in Findable(c) : from_checks' = [from_checks EXCEPT ![current] = @ \o found]
    BY DEF RunCheck
  <1>3. found \in Seq(Issued) /\ \A i \in DOMAIN found : found[i].issued_by = c
    BY <1>1, <1>2, FoundAreIssued
  <1>4. Elements(from_checks'[p]) = Elements(from_checks[p]) \cup Elements(found)
    <2>1. from_checks[p] \in Seq(Issued) /\ from_checks'[p] = from_checks[p] \o found
      BY <1>1, <1>2 DEF TypeInv, TypeOK
    <2> DEFINE s == from_checks[p]
               l == Len(s)
               w == s \o found
    <2>2. /\ \A i \in DOMAIN s : i \in DOMAIN w /\ w[i] = s[i]
          /\ \A i \in DOMAIN found : l + i \in DOMAIN w /\ w[l + i] = found[i]
          /\ \A k \in DOMAIN w : k \in DOMAIN s \/ (k - l \in DOMAIN found /\ w[k] = found[k - l])
      BY <1>3, <2>1
    <2>3. from_checks'[p] = w
      BY <2>1
    <2> HIDE DEF s, l, w
    <2>4. ASSUME NEW x PROVE x \in Elements(w) <=> x \in Elements(s) \cup Elements(found)
      <3>1. ASSUME x \in Elements(w) PROVE x \in Elements(s) \cup Elements(found)
        BY <2>2, <3>1 DEF Elements
      <3>2. ASSUME x \in Elements(s) PROVE x \in Elements(w)
        BY <2>2, <3>2 DEF Elements
      <3>3. ASSUME x \in Elements(found) PROVE x \in Elements(w)
        BY <2>2, <3>3 DEF Elements
      <3>4. QED BY <3>1, <3>2, <3>3
    <2>5. Elements(w) = Elements(s) \cup Elements(found)
      BY <2>4
    <2>6. QED BY <2>3, <2>5 DEF s
  <1>5. CASE c # MalformedCheck
    <2>1. \A h \in Elements(found) : h.issued_by # MalformedCheck
      BY <1>3, <1>5 DEF Elements
    <2>2. Pointers(p)' = Pointers(p)
      BY <1>4, <2>1 DEF Pointers, Elements
    <2>3. <<p, MalformedCheck, "ran">> \in attempts' <=> <<p, MalformedCheck, "ran">> \in attempts
      BY <1>1, <1>5
    <2>4. ASSUME <<p, MalformedCheck, "ran">> \in attempts, Asked(p)' PROVE Asked(p)
      <3>1. CASE ~no_override
        BY <3>1 DEF Asked
      <3>2. CASE no_override
        <4>1. PICK i, j \in DOMAIN CheckOrder :
                /\ i < j /\ CheckOrder[j] = MalformedCheck
                /\ CheckOrder[i] \in AskOverrides /\ <<p, CheckOrder[i], "ran">> \in attempts'
          BY <1>1, <2>4, <3>2 DEF Asked
        <4>2. j < next
          BY <1>1, <2>4, <4>1 DEF AttemptInv, Attempted, Turn
        <4>3. CheckOrder[i] # c
          BY <1>1, <4>1, <4>2, GroupAssumption
        <4>4. QED BY <1>1, <4>1, <4>3 DEF Asked
      <3>3. QED BY <3>1, <3>2
    <2>5. \A h \in Elements(from_checks'[p]) : h.issued_by = MalformedCheck => h.tag_name = MalformedTag
      BY <1>4, <2>1 DEF FoundInv
    <2>6. AllErrors(p)' = AllErrors(p)
      BY <1>1 DEF AllErrors
    <2>7. Elements(from_checks[p])' = Elements(from_checks'[p])
      BY DEF Elements
    <2>8. QED BY <2>2, <2>3, <2>4, <2>5, <2>6, <2>7 DEF FoundInv
  <1>6. CASE c = MalformedCheck
    <2>1. <<p, MalformedCheck, "ran">> \notin attempts
      <3>1. ~Turn(p, next)
        BY <1>1 DEF Turn, TypeInv, TypeOK
      <3>2. QED BY <1>1, <1>6, <3>1 DEF AttemptInv, Attempted
    <2>2. Pointers(p) = {} /\ <<p, MalformedCheck, "ran">> \in attempts'
      BY <1>1, <1>6, <2>1 DEF FoundInv
    <2>3. found = Malformed
      BY <1>6 DEF Findable
    <2>4. ASSUME NEW h
          PROVE  h \in Elements(found) <=> \E i \in DOMAIN override_errors[p] :
                    h = [issued_by |-> MalformedCheck, tag_name |-> MalformedTag,
                         context |-> PointerTo[override_errors[p][i]]]
      BY <2>3 DEF Malformed, Elements
    <2>5. \A h \in Elements(from_checks'[p]) : h.issued_by = MalformedCheck => h.tag_name = MalformedTag
      BY <1>4, <2>4 DEF FoundInv
    <2>6. ASSUME NEW x PROVE x \in Pointers(p)' <=> \E n \in Recorded(p) : x = PointerTo[n]
      <3>1. x \in Pointers(p)' <=> \E h \in Elements(from_checks'[p]) : h.issued_by = MalformedCheck /\ x = h.context
        BY DEF Pointers, Elements
      <3>2. ~\E h \in Elements(from_checks[p]) : h.issued_by = MalformedCheck /\ x = h.context
        BY <2>2 DEF Pointers
      <3>3. (\E h \in Elements(found) : h.issued_by = MalformedCheck /\ x = h.context)
            <=> \E n \in Recorded(p) : x = PointerTo[n]
        <4> DEFINE e(i) == [issued_by |-> MalformedCheck, tag_name |-> MalformedTag,
                            context |-> PointerTo[override_errors[p][i]]]
        <4>1. \A i : e(i).issued_by = MalformedCheck /\ e(i).context = PointerTo[override_errors[p][i]]
          OBVIOUS
        <4>2. \A h : h \in Elements(found) <=> \E i \in DOMAIN override_errors[p] : h = e(i)
          BY <2>4
        <4> HIDE DEF e
        <4>3. (\E h \in Elements(found) : h.issued_by = MalformedCheck /\ x = h.context)
              <=> \E i \in DOMAIN override_errors[p] : x = PointerTo[override_errors[p][i]]
          BY <4>1, <4>2
        <4>4. QED BY <4>3 DEF Recorded
      <3>4. QED BY <1>4, <3>1, <3>2, <3>3
    <2>7. AllErrors(p)' = AllErrors(p) /\ Elements(from_checks[p])' = Elements(from_checks'[p])
      BY <1>1 DEF AllErrors, Elements
    <2>8. CASE Parsed(p)
      <3>1. Recorded(p) = AllErrors(p)
        <4>1. 1 .. position[p] - 1 = DOMAIN lines[p]
          BY <1>1, <2>8 DEF Parsed, TypeInv, TypeOK, ParserTypeOK
        <4>2. QED BY <4>1 DEF ParseInv, ErrorsUpTo, AllErrors
      <3>2. Pointers(p)' = {PointerTo[n] : n \in AllErrors(p)}
        BY <2>6, <3>1
      <3>3. QED BY <2>2, <2>5, <2>7, <3>2 DEF FoundInv
    <2>9. CASE ~Parsed(p)
      <3>1. position[p] = 1 /\ no_override
        BY <1>1, <2>9 DEF ParseInv, Whole, OrderInv
      <3>2. Recorded(p) = {}
        BY <3>1 DEF ParseInv, ErrorsUpTo
      <3>3. Pointers(p)' = {}
        BY <2>6, <3>2
      <3>4. ~Asked(p)'
        <4>1. ASSUME NEW i \in DOMAIN CheckOrder, CheckOrder[i] \in AskOverrides,
                     <<p, CheckOrder[i], "ran">> \in attempts'
              PROVE  CheckOrder[i] = c
          BY <1>1, <2>9, <4>1 DEF ParseInv
        <4>2. \A j \in DOMAIN CheckOrder : CheckOrder[j] = MalformedCheck => j = next
          BY <1>1, <1>6, GroupAssumption
        <4>3. \A i \in DOMAIN CheckOrder : CheckOrder[i] = c => i = next
          BY <1>1, GroupAssumption
        <4>4. no_override' /\ \A i \in DOMAIN CheckOrder : i \in Nat
          BY <1>1, <3>1
        <4>5. ASSUME NEW i \in DOMAIN CheckOrder, NEW j \in DOMAIN CheckOrder, i < j,
                     CheckOrder[j] = MalformedCheck, CheckOrder[i] \in AskOverrides
              PROVE  <<p, CheckOrder[i], "ran">> \notin attempts'
          BY <4>1, <4>2, <4>3, <4>4, <4>5
        <4>6. QED BY <4>4, <4>5 DEF Asked
      <3>5. QED BY <2>2, <2>5, <2>7, <3>3, <3>4 DEF FoundInv
    <2>10. QED BY <2>8, <2>9
  <1>7. QED BY <1>5, <1>6

LEMMA FoundNext ==
    ASSUME TypeInv, OrderInv, AttemptInv, [Next]_vars, NEW p \in members, ParseInv(p), FoundInv(p)
    PROVE  FoundInv(p)'
  <1>1. UNCHANGED <<lines, no_override>> /\ p \in Processable
    BY InputsStay DEF inputs, TypeInv, TypeOK
  <1>2. CASE RunCheck /\ p = current
    BY <1>2, CheckRuns
  <1>3. CASE RunCheck /\ p # current
    <2>1. from_checks'[p] = from_checks[p] /\ attempts' = attempts \cup {<<current, CheckOrder[next], "ran">>}
      BY <1>1, <1>3 DEF RunCheck, TypeInv, TypeOK
    <2>2. QED BY <1>1, <1>3, <2>1, FoundStays
  <1>4. CASE CheckDies
    <2>1. from_checks'[p] = from_checks[p] /\ attempts' = attempts \cup {<<current, CheckOrder[next], "died">>}
      BY <1>4 DEF CheckDies, lexicals
    <2>2. QED BY <1>1, <2>1, FoundStays
  <1>5. CASE ~RunCheck /\ ~CheckDies
    <2>1. UNCHANGED <<from_checks, attempts>>
      BY <1>5 DEF Next, NextProcessable, ReadLine, ReadOverride, EndOverrides, EndChecks, HandleHint, EndHints,
           ReportUnused, EndProcessable, Terminated, vars, lexicals
    <2>2. QED BY <1>1, <2>1, FoundStays
  <1>6. QED BY <1>2, <1>3, <1>4, <1>5

ErrorInv == AttemptInv /\ \A p \in members : ParseInv(p) /\ FoundInv(p)

LEMMA ErrorHolds == Spec => []ErrorInv
  <1>1. Init => ErrorInv
    <2> SUFFICES ASSUME Init PROVE ErrorInv
      OBVIOUS
    <2>1. AttemptInv /\ members \subseteq Processable
      BY AttemptInit, TypeInit DEF TypeInv, TypeOK
    <2>2. ASSUME NEW p \in members PROVE ParseInv(p) /\ FoundInv(p)
      <3>1. /\ position[p] = 1 /\ override_errors[p] = <<>> /\ from_checks[p] = <<>> /\ attempts = {}
            /\ phase = "next" /\ p \in waiting
        BY <2>1 DEF Init, ParserInit, Each
      <3>2. ParseInv(p)
        BY <3>1 DEF ParseInv, Recorded, ErrorsUpTo, Whole
      <3>3. FoundInv(p)
        BY <3>1 DEF FoundInv, Pointers, Elements
      <3>4. QED BY <3>2, <3>3
    <2>3. QED BY <2>1, <2>2 DEF ErrorInv
  <1>2. AllInv /\ ErrorInv /\ [Next]_vars => ErrorInv'
    <2> SUFFICES ASSUME AllInv, ErrorInv, [Next]_vars PROVE ErrorInv'
      OBVIOUS
    <2>1. TypeInv /\ OrderInv /\ AttemptInv /\ members' = members
      BY InputsStay DEF AllInv, OverrideInv, ErrorInv, inputs
    <2>2. QED BY <2>1, AttemptNext, ParseNext, FoundNext DEF ErrorInv
  <1>3. QED BY <1>1, <1>2, AllHolds, PTL DEF Spec

\* ErrorsAreReported: of the lines in error all are told or, if nobody had
\* asked for the overrides before the check ran, possibly none.
THEOREM ErrorsAreTold == Spec => []ErrorsAreReported
  <1>1. AllInv /\ ErrorInv => ErrorsAreReported
    <2> SUFFICES ASSUME AllInv, ErrorInv, NEW p \in members, Finished(p),
                        <<p, MalformedCheck, "ran">> \in attempts, MalformedTag \in EnabledTags
                 PROVE  {g.context : g \in {g \in KeptHints(p) : g.tag = MalformedTag}}
                        \in {{PointerTo[n] : n \in {n \in DOMAIN lines[p] : lines[p][n].kind = "error"}}}
                            \cup IF Asked(p) THEN {} ELSE {{}}
      BY DEF ErrorsAreReported
    <2> DEFINE Told == {g.context : g \in {g \in KeptHints(p) : g.tag = MalformedTag}}
               Errors == {PointerTo[n] : n \in AllErrors(p)}
    <2>1. FoundInv(p) /\ TrackInv(p) /\ PairInv(p) /\ Started(p) /\ Seen(p) = DOMAIN from_checks[p]
      BY DEF AllInv, ErrorInv, HintInv, Finished, Started, Seen
    <2>2. ASSUME NEW x PROVE x \in Told <=> <<MalformedTag, x>> \in context_tracker[p]
      BY <2>1 DEF PairInv
    <2>3. ASSUME NEW x
          PROVE  <<MalformedTag, x>> \in context_tracker[p] <=>
                 \E h \in Elements(from_checks[p]) : Wanted(h) /\ GetTag(h) = MalformedTag /\ h.context = x
      BY <2>1 DEF TrackInv, Tracked, Elements
    <2>4. ASSUME NEW h \in Elements(from_checks[p])
          PROVE  Wanted(h) /\ GetTag(h) = MalformedTag <=> h.issued_by = MalformedCheck
      <3>1. ASSUME h.issued_by = MalformedCheck PROVE Wanted(h) /\ GetTag(h) = MalformedTag
        <4>1. h.tag_name = MalformedTag /\ <<h.issued_by, h.tag_name>> \notin DOMAIN Qualified
          BY <2>1, <3>1, GroupAssumption DEF FoundInv
        <4>2. CurrentName(MalformedTag) = MalformedTag /\ MalformedTag # NoTag
          BY GroupAssumption DEF CurrentName
        <4>3. GetTag(h) = MalformedTag
          BY <4>1, <4>2 DEF GetTag
        <4>4. QED BY <3>1, <4>1, <4>2, <4>3, GroupAssumption DEF Wanted, Proper
      <3>2. ASSUME Wanted(h), GetTag(h) = MalformedTag PROVE h.issued_by = MalformedCheck
        BY <3>2, GroupAssumption DEF Wanted, Proper
      <3>3. QED BY <3>1, <3>2
    <2>5. ASSUME NEW x PROVE x \in Told <=> x \in Pointers(p)
      BY <2>2, <2>3, <2>4 DEF Pointers
    <2> HIDE DEF Told
    <2>6. Told = Pointers(p)
      BY <2>5
    <2>7. Told = Errors \/ (Told = {} /\ ~Asked(p))
      BY <2>1, <2>6 DEF FoundInv
    <2>8. QED BY <2>7 DEF Told, AllErrors
  <1>2. QED BY <1>1, AllHolds, ErrorHolds, PTL
=============================================================================
