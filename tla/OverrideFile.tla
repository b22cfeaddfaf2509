----------------------------- MODULE OverrideFile -----------------------------
(***************************************************************************)
(* lib/Lintian/Processable/Overrides.pm, parse_overrides(): the overrides  *)
(* file of a processable is read line by line.  Comments are collected     *)
(* for the next override; an override without any takes over those of the  *)
(* override before it, when that is for the same tag.                      *)
(*                                                                         *)
(* A justification is the set of the lines its comments come from; names   *)
(* of packages, types and white space are left out.  The variables are     *)
(* functions of the processable, as each has a file of its own.            *)
(***************************************************************************)
EXTENDS Integers, Sequences

CONSTANTS
    Processable,
    Name,       \* names of tags, as written
    Pattern,
    Arch,
    NoTag       \* tag_name of an override that is not filled in

VARIABLES
    current,            \* the processable being done
    lines,              \* what its file says (input)
    position,           \* $position
    justification,      \* $justification
    previous,           \* $previous
    overrides,          \* the attribute: @declared_overrides
    override_errors     \* the attribute: lines in error

parser == <<position, justification, previous, overrides, override_errors>>

\* A "mark" is a comment without text.  An "error" lacks a colon, or a tag.
Written == [kind : {"override"}, tag_name : Name, pattern : Pattern,
            architectures : SUBSET Arch, negated : BOOLEAN]
Line == Written \cup [kind : {"blank", "comment", "mark", "error"}]

Override == [tag_name : Name, pattern : Pattern, architectures : SUBSET Arch,
             negated : BOOLEAN, position : Nat, justification : SUBSET Nat]

Fresh == [tag_name |-> NoTag, justification |-> {}]

ParserTypeOK ==
    /\ lines \in [Processable -> Seq(Line)] /\ position \in [Processable -> Nat]
    /\ justification \in [Processable -> SUBSET Nat]
    /\ previous \in [Processable -> [tag_name : Name \cup {NoTag}, justification : SUBSET Nat]]
    /\ overrides \in [Processable -> Seq(Override)]
    /\ override_errors \in [Processable -> Seq(Nat)]
    /\ \A p \in Processable :
          /\ position[p] \in 1 .. Len(lines[p]) + 1
          /\ \A i \in DOMAIN override_errors[p] : override_errors[p][i] \in DOMAIN lines[p]

Each(x) == [p \in Processable |-> x]
ParserInit ==
    /\ position = Each(1) /\ justification = Each({}) /\ previous = Each(Fresh)
    /\ overrides = Each(<<>>) /\ override_errors = Each(<<>>)

Parsed(p) == position[p] > Len(lines[p])
Next_line == lines[current][position[current]]
At(kind) == ~Parsed(current) /\ Next_line.kind = kind
NextPosition == position' = [position EXCEPT ![current] = @ + 1]

\* Mutant: a blank line leaves the override before it to be continued.
SkipBlankOnly ==
    /\ At("blank") /\ NextPosition
    /\ justification' = [justification EXCEPT ![current] = {}]
    /\ UNCHANGED <<previous, overrides, override_errors>>

\* An empty line separates: nothing above it belongs to anything below.
SkipBlank ==
    /\ At("blank") /\ NextPosition
    /\ justification' = [justification EXCEPT ![current] = {}]
    /\ previous' = [previous EXCEPT ![current] = Fresh]
    /\ UNCHANGED <<overrides, override_errors>>

TakeComment ==
    /\ At("comment") /\ NextPosition
    /\ justification' = [justification EXCEPT ![current] = @ \cup {position[current]}]
    /\ UNCHANGED <<previous, overrides, override_errors>>

SkipMark ==
    /\ At("mark") /\ NextPosition
    /\ UNCHANGED <<justification, previous, overrides, override_errors>>

\* Mutant: the last of the errors is kept.
RecordErrorOver ==
    /\ At("error") /\ NextPosition
    /\ override_errors' = [override_errors EXCEPT ![current] = <<position[current]>>]
    /\ UNCHANGED <<justification, previous, overrides>>

\* "next": what has been collected stays for the next override.
RecordError ==
    /\ At("error") /\ NextPosition
    /\ override_errors' = [override_errors EXCEPT ![current] = Append(@, position[current])]
    /\ UNCHANGED <<justification, previous, overrides>>

\* The comments of the next override.
Carried ==
    IF justification[current] = {} /\ Next_line.tag_name = previous[current].tag_name
    THEN previous[current].justification ELSE justification[current]

DeclareOverride ==
    /\ At("override") /\ NextPosition
    /\ overrides' = [overrides EXCEPT ![current] = Append(@,
          [tag_name |-> Next_line.tag_name, pattern |-> Next_line.pattern,
           architectures |-> Next_line.architectures, negated |-> Next_line.negated,
           position |-> position[current], justification |-> Carried])]
    /\ previous' = [previous EXCEPT ![current] =
          [tag_name |-> Next_line.tag_name, justification |-> Carried]]
    /\ justification' = [justification EXCEPT ![current] = {}]
    /\ UNCHANGED override_errors

ParseLine == SkipBlank \/ TakeComment \/ SkipMark \/ RecordError \/ DeclareOverride

-----------------------------------------------------------------------------
\* The comments right above line n of a file: no override and no empty line
\* comes between.
CommentsAbove(file, n) ==
    {c \in 1 .. n - 1 :
        /\ file[c].kind = "comment"
        /\ \A m \in c .. n - 1 : file[m].kind \notin {"override", "blank"}}

\* The override in line m hands its comments down to the one in line n: from
\* there on nothing is empty, no override has another tag or its own comments.
HandsDown(file, m, n) ==
    \A k \in m .. n :
        /\ file[k].kind # "blank"
        /\ file[k].kind = "override" => file[k].tag_name = file[n].tag_name
        /\ file[k].kind = "override" /\ k > m => CommentsAbove(file, k) = {}

\* "Comments directly above an override will be shown next to all tags it
\* overrides.  If an override for the same tags appears on the very next line,
\* it will inherit the comment from the override above it."
CommentsFor(file, n) ==
    UNION {CommentsAbove(file, m) : m \in
              {m \in 1 .. n : file[m].kind = "override" /\ HandsDown(file, m, n)}}
=============================================================================
