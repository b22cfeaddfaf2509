# Formal models of Lintian

Lintian (Perl, `lib/Lintian`, `bin/lintian`) unpacks Debian packages, runs some 350 checks over them and
prints the hints they issue, except those that are masked, overridden or not wanted. This directory models
its core in TLA+: modules that TLC checks on small instances, and theorems that TLAPS proves for every
instance.

## 1. Inventory

| component | state | operations | hard behaviour | what makes it correct |
|---|---|---|---|---|
| Profile (`Profile.pm`, options of `bin/lintian`) | enabled tags, counter per check, durable tags, chain of profiles | `read_profile`, `enable_tag`, `disable_tag`, `set_durable`; `-F -T -C -X --suppress-tags` | order of merged lists and hash keys; tags disabled twice; circular `Extends` | the tags promised are enabled, the checks of enabled tags run, loading ends |
| Group (`Group.pm`) | processables of one source, hints, overrides in use | `add_processable`, `process` | a check or an index that dies; overrides that are renamed, unknown, for another architecture, never used | every hint is dropped, masked, overridden or shown for the reason given; every override is used or reported |
| Pool (`Pool.pm`) | groups, counts, exit code | `add_group`, `process` | groups come in hash order; groups merge | the exit code and the counts do not depend on the order |
| Piped tar (`IO/Select.pm`, `IPC/Run3.pm`) | four child processes, eight pipes | `unpack_and_index_piped_tar` | full pipes, early end of a child, blocked writes | every byte reaches every consumer, nobody waits forever |
| Index (`Index.pm`, `Index/Item.pm`) | tree of installed files | `load`, hard and soft links, `resolve_path`, `follow` | link cycles, missing parents, implicit root | every item is reachable from the root, links resolve inside the tree |
| Upstream sources (`Processable/Source/Orig.pm`, `Index.pm`) | one index of several tarballs, and the disk | `orig`, `drop_common_prefix`, `capture_common_prefix`, `merge_in` | tarballs that come one over the other, names changed three times | the catalog tells what is on disk |
| Deb822 (`Deb822.pm`) | state of the line parser | `visit_dpkg_paragraph_string` | PGP blocks, comments, continuation lines, duplicates | no unsigned text accepted as signed, paragraphs never merge, positions are lines |
| Package relations (`Relation.pm`, `Relation/Predicate.pm`, `Relation/Version.pm`) | CNF of predicates | `satisfies`, `satisfies_inverse`, `redundancies` | versions x architectures x profiles | an answer is sound: whatever satisfies one satisfies (or contradicts) the other |
| Override file (`Processable/Overrides.pm`) | justification being collected, lines in error | `parse_overrides`, called by whoever asks first | comments, blank lines and errors in between | a justification belongs to the overrides that follow it, every error is told |
| Circular dependencies (`Check/GroupChecks.pm`) | graph, stack and numbers of the search | `source`, Tarjan's search | every order of nodes and neighbours, two packages of one name | each circle is reported whole, and nothing else |
| Sliding window (`SlidingWindow.pm`) | two blocks | `readwindow` | block boundaries, end of file | no match of up to a block is missed |
| Reporting (`Reporting/Util.pm`, `commands/reporting-*`) | state cache | `find_backlog`, `save_state_cache` | crash between save and rename, starvation | dead code at this commit except for two helper modules |
| Changelog, Data, Output, Spelling, Conffiles, Archive, Debian/Control | parsed data | readers, printers | none concurrent | data bound |
| Checks (`Check/*`) | none between hints | visitors | none concurrent | each its own rules |

How they interact, for one run: `bin/lintian` loads a **Profile** and applies the options to it; it makes a
**Group** of each subject and the files that it lists and adds it to the **Pool**, which merges groups of one
name. The pool processes each group: every processable's files are unpacked (**Piped tar**) into an **Index**,
its control data are read (**Deb822**, **Relation**), the **Checks** enabled by the profile issue hints, the
group matches them with the **Override file**, and the pool counts what is shown and sets the exit status. All
of it runs in one process, one processable after the other; the only concurrency is between that process and
the children that unpack. What is nondeterministic in the rest is the order of hash keys, which Perl changes
from run to run, and what the user and the packages bring.

PROJECT.json lists the components again, with the source files of each, and the hazards, each at its line with
the properties that would catch it going wrong.

## 2. Plan

The modules, in the order in which they are written; what a run of Lintian promises its user comes first.

1. `Profile`, `TagSelection`, `ProfileImplementsSelection`: done, and everything but liveness proved, the
   refinement included.
2. `OverrideFile` and `GroupProcess`, which reads it line by line: done, and all seven properties proved.
3. `Pool`: done, and all four properties proved. It takes what a group yields from a set of outcomes; to compose:
   that `GroupProcess` yields no others.
4. `PipedTar`: done, and everything but liveness proved.
5. `Deb822`: done, and all five properties proved; one of them but for files with a field "0" ahead of the message.
6. `PackageRelation`: done, and all four properties proved.
7. `Index`: done; types, places, hard links and the meaning of answers proved. `OrigIndex`, which loads one index
   after the other and merges them: done, and both properties proved.
8. `CircularDependencies`: done, and all three properties proved.
9. `SlidingWindow`: done against the reference "every text of up to a block is in some window", and proved.
10. Left: `Changelog`; the visits of `Check.pm` to the files of an index.

## 3. The modules and the code

**Profile** (`Profile.pm`, and the part of `bin/lintian` that applies options, 513-683). `enabled_tags`,
`enabled_checks` (the counters of `enabled_checks_by_name`), `durable_tags`, `profile_list`, `parent_map` and
`name` are the attributes of the code. `loading` is the stack of `read_profile`'s recursion; `loop` holds the
tags still to do in the loop that is running. `LoopStep` is one `enable_tag` or `disable_tag`; `ReadFile`,
`ReadHeader`, `DisableAfterEnabling`, `ReadSection` and `EndProfile` are the parts of `read_profile` between
loops; `FtpEnable`, `FtpDurable`, `Select`, `SelectEnable` and `SuppressTags` are those of `bin/lintian`. Each
`croak` is an action. `stray` is history: a tag was disabled that was not enabled.

**TagSelection** says what profile and options promise, one set per step and no counters. Where
`doc/lintian.rst:594-603` decides otherwise than the code, of tags that one profile both enables and disables, it
leaves open which of them are enabled (`Contested`). **ProfileImplementsSelection** holds the refinement mapping,
where a loop in progress counts as finished.

**GroupProcess** (`Group.pm`, `process`, 187-500). One step is one override read, one check run or dead, one
hint handled, one unused override reported. The `my` variables of a turn of the outer loop
(`enabled_overrides`, `used_overrides`, `context_tracker`) are functions of the processable, so that the results
of earlier turns stay visible. `hints` is a sequence, as the array of the code: what is appended twice stands in it
twice. `Applied` tries the patterns in the order of their lengths as strings of digits (`SortsBefore`), since
`sort_by` compares strings (`Group.pm:34`, `399`). What a check finds and what a screen masks are constants and inputs.

**OverrideFile** (`Processable/Overrides.pm`, `parse_overrides`), which `GroupProcess` extends: one step is one
line. `justification`, `previous` and `position` are the variables of the loop, `overrides` and
`override_errors` the attributes it fills. A justification is the set of the lines its comments stand in. The
attribute is lazy: the file is read when the group wants the overrides in force, or earlier or only then when a
check asks (`AskOverrides`), and `ReadLine` is the step of it that the group waits for. `Malformed` is the check
that tells of the lines in error; it looks at `override_errors` and asks for nothing, as the code does. `CommentsFor`
says which comments belong to a line in terms of the file alone.

**Pool** (`bin/lintian` 704-766, `Group.pm` `add_processable`, `Pool.pm`). `subjects` are what is on the
command line; `Listed` what a file lists. `PullFile`, `AddGroup`, `MergeInstallable` follow the loops;
`ProcessGroup` takes any unprocessed group (hash order) and any outcome for it, and `exit_code` is the code's.

**PipedTar** (`IO/Select.pm`). The parent is one process that selects, reads, prints or waits; `pc` says which.
Children read their standard input and write to two pipes of `PipeSize` chunks each. What is read from the standard
output of the extracting tar and from the standard error of the numeric listing goes nowhere, for the loop has no
branch for these handles (`Dropped`; `Select.pm:199-221`). `Select` returns every handle that is ready, `Turn` handles
them in the order of file numbers, as `IO::Select` returns them. A write to a reader that died fails at once: the code
ignores SIGPIPE.

**Deb822** (`Deb822.pm`, `visit_dpkg_paragraph_string`). `lines` grows as the file is read, each line of a kind
that the patterns tell apart; `pc` says which of the three nested loops runs. `position`, `signed`, `signature`,
`open_section`, `last_tag` and `section` are the lexical variables. A value is the set of the lines it was made
from, so that "nothing lost, nothing unsigned, nothing merged" can be said about lines. One of the field names is
"0" (`Zero`), which `if $last_tag` takes for no field (`Deb822.pm:548`); `ZeroAhead` is a file that makes use of it.

**PackageRelation** (`Relation.pm`, `Relation/Predicate.pm`). A relation is a sequence of clauses of
alternatives. `Satisfies` and `Falsifies` are the results 1 and 0 of `satisfies`; `Ask` is one call of
`satisfies` and `satisfies_inverse`; `Redundancies`, `ComparePair`, `AddPair` and `NextPair` are the search for
redundancies. `World` and `Met` say what relations mean, in terms that no code has: a machine, the packages
that are installed, and whether tests are run.

**Index** (`Index.pm`, `load`; `Index/Item.pm`, `follow`, `resolve_path`). `catalog` maps names to items, `child`
is `childnames` of all directories together, `masters` the keys of `%backlinks` still to do. A call of
`resolve_path` is `self`, `request` and `maxlinks`; `frames` are the calls of `follow` that wait for it, and
`dereferenced` what they stored, which stays for the requests that follow. `Entry` is what tar tells of an entry
(`init_from_tar_output`); a hard link always has a target. `Rank` is the place of each name in the order of whole
names as strings (`Before`; `cmp` in `Index.pm:539`). `Step` says what a path means: the symbolic links in it are
replaced by what they say, one at a time, with no recursion, no budget and nothing stored, and everything else, a hard
link too, is itself (`Item.pm:1028-1030`); `Meaning` is what comes of so many steps.

**OrigIndex** (`Processable/Source/Orig.pm` 68-182; `Index.pm` 632-913) extends `Index`: the steps of `load` are
those of that module, taken for each tarball in turn, and `step` says what the loop over the tarballs does next.
`catalog` and `child` are the index of the tarball, `merged` and `named` that of the whole. `TreatHardLink` is a turn
of the loop that makes files of hard links (`Orig.pm:120-144`). `DropPrefix` is `drop_common_prefix` with
`drop_basedir_segment`, `CapturePrefix` and `MergeIn` are the methods of their names.

`Extracted` and `MovedUp` follow what tar, `mv` and `rm -rf` leave in `disk`; tar is external. It makes the
directories that a tarball lists, in place of whatever is there; those that it takes to be there (`Implied`: the
component's own, `Index.pm:151`, and those above what is listed) it makes only where nothing is. A file or a link in
place of one of these is in the way (`InTheWay`): tar cannot make what lies below a file (`Cut`), and follows a link
elsewhere. What it makes there is not followed; from then on (`Astray`) every step that depends on the disk may succeed
or fail. A hard link to what was not made is `Broken`. The program ends where it cannot make the directory
(`UnpackDies`), cannot enter it to compute checksums, or finds no master of a hard link (`LoadDies`), where the target
of a hard link is a symbolic link that does not resolve (`LinksDie`: `Orig.pm:131`, `Item.pm:921-941`), and where the
files cannot be moved up (`DropDies`). A tarball lists a tree, each directory before what is in it: nothing is in what
is not a directory, and no name is listed as a directory and as something else.

**CircularDependencies** (`Check/GroupChecks.pm` 37-82 and 190-275; `Group.pm` 620-660). `dependencies` is the
table of `direct_dependencies`, with whichever of two packages of one name comes last; `calls` holds the calls of
`_tarjans_sc` that wait for each other, `todo` the neighbours each has left. `Closed` defines what it is to need
one another without any search: by the sets that dependencies do not lead out of.

**SlidingWindow** (`SlidingWindow.pm`). Text is positions: a block is a pair, and what `blocksub` does to its length
is a choice within `change`. Its `WindowInit`, `WindowNext` and so on are named so that one module of proofs can extend
it together with `PipedTar`.

Modules `MC*` give the constants their values. They define nothing else; **NameOrder** computes `Rank` for two of
them from the characters of the names.

## 4. Runs

| run | question | bounds, and why they are enough |
|---|---|---|
| `profile_setups` | Do profiles and options deliver the tags promised, do the checks of these run, do the counters stay below the enabled tags, does loading end? | Two checks, three tags, a renamed and an unknown one. Two files that extend each other in every way; and every mixture of five options with up to three names each over 48 pairs of profiles, so that each option meets tags the profile enabled, disabled, or did not know. (Which tags are enabled that one profile enables and disables is left open.) A counter goes wrong with two tags of one check and one of another. |
| `group_process` | Is every hint and every override accounted for? | Eight override files by 27 outcomes of two checks; a pair of different architectures; and every file of up to four lines of seven kinds, which a comment, an override, another line and an override again take. Interference between overrides takes at most three of one tag; one has a pattern of ten characters, which sorts before one of two. |
| `pool_merge` | Are groups single uploads, is nothing lost in merging, is the exit status true? | All command lines of three out of nine subjects. Two groups of one name merge, and a third subject shows that the merged one still works. |
| `piped_tar` | Does every byte arrive that is collected, does it end? | Six chunks through pipes of two: every pipe fills with more to come. Two readers: the extracting tar, silent, and the numeric listing, which may die, may print more than it reads, and whose errors are dropped. |
| `deb822_lines` | Is nothing unsigned taken, nothing merged, nothing lost? | All files of up to six lines of eleven kinds with two field names, one of them "0", under both flags. A signed message with its signature takes five, and a field ahead of it six. |
| `relation_answers` | Are the answers of `satisfies` and `satisfies_inverse` true in every world? | Bounds 1 and 3 and versions up to 4: a version below, at, between and above the bounds. All pairs of 80 predicates; all orders of four clauses. |
| `index_resolve` | Does a path resolve as the links say, is every item found, do hard links stay one file? | A link at the top and one in a directory with six targets each, circles among them; archives with hard links, in every order of their groups; in one the first name of a group is in `a-`, which sorts before what is in `a`. `Limit` is 3 (18 in the code), so that circles and chains meet it. Two requests, five paths, from every item: what the first stores, the second uses. |
| `orig_merge` | Does the merged catalog tell what is on disk, are items found by their directories? | 3868 packages: a main tarball with every part of six entries or of four, a component with every part of six, a second component. The entries share a directory around them, the name of that directory again inside it, the name of the component, a file and a directory of one name; each pair of tarballs can collide in any of these. In place of the component's directory, or of one in it, the main tarball may have a file, a link to a file, or one to nothing. Hard links lead to files, to links that resolve or do not, and to hard links. |
| `circular_graphs` | Is each circle reported, whole, and nothing else? | Every graph over four packages with an edge, in every order of the search: two circles, nested and joined, take four nodes. Two packages of one name, a third and a udeb with every choice of five sets of dependencies. |
| `sliding_window` | Is every text of up to a block in some window? | Blocks of one to three bytes and files of up to nine: less than a block, a multiple of one, one more and one less. |

All but `orig_merge` and `sliding_window` also check a type invariant; that of `Index` says that the calls of `follow`
that wait for each other never exceed the budget of links. Two more runs show that what a document of the repository
says is not what the code does:

| run | what the document says | what TLC finds |
|---|---|---|
| `profile_suppress` | `--suppress-tags` suppresses the listed tags (`man/lintian.pod:363`) | suppressing a tag that is not enabled stops the check of other tags (`Profile.pm:556`) |
| `deb822_positions` | fields are recorded at the line where they appear (`Deb822.pm:345`) | one line too early in signed messages (`Deb822.pm:555`) |

Divergences seen while modelling that have no run of their own:

- A mismatched override is one "whose context did not match" (`tags/m/mismatched-override.tag:5`); it may have
  matched, when another override that was tried first took its place (`Group.pm:390-440`).
  `OverridesUsedOrReported` promises of a mismatched override only that it matches no hint that no other took.
- "try short ones first" (`Group.pm:398`) is not so: lengths are sorted as strings, and ten characters come before
  two (`Group.pm:34`, `399`).
- What the extracting tar prints on standard output, and the numeric listing on standard error, is read and dropped
  (`Select.pm:199-221`), where the same of the others is kept and told. `EverythingArrives` is about those that are
  kept.
- A field must not stand before a PGP header, "or it could allow us to 'accept' unsigned data" (comment at
  `Deb822.pm:535-545`); one named "0" may, because `if $last_tag` is false of it (`Deb822.pm:548`). It then passes for
  signed, and may share a paragraph with the text. `EntireFileIsSigned` and `ParagraphsAreBlocks` name the case
  (`ZeroAhead`) and leave out just this.
- All packages that a `.changes` file lists are processed (`man/lintian.pod:41`); those of another source or
  version are dropped in silence (`Group.pm:529`).
- A run-time error ends with status 1 (`man/lintian.pod:661`); a later group sets 2 (`Pool.pm:216`).
  `ExitStatusIsTrue` promises only that it is not 0.
- A line in error leaves the loop of `parse_overrides` with the comments collected so far, which go to the next
  override (`Overrides.pm:150`); `CommentsFor` has it so.
- `Malformed.pm:35` finds nothing under `--no-override`, unless a check that comes before it asked for the
  overrides; `ErrorsAreReported` names the case (`Asked`).
- The table of direct dependencies is keyed by name (`Group.pm:656`): of two packages of one name the last in
  hash order decides, and circles through the other are missed. `CirclesAreReported` is about unique names.
- `merge_in` stores items where `childnames` holds names, and nothing for directories (`Index.pm:667`): at the top
  of the upstream sources `Item::child` croaks or finds nothing ("Returns the child named BASENAME if it is a
  child of this directory", `Item.pm:636`), and `children` finds the root itself. `ItemsAreFoundBelow` is about the
  rest.
- `drop_basedir_segment` removes what is in the way, and says that "catalog items were dropped when index was
  merged" (`Index.pm:882`), which `merge_in` does for a file of the same name only; so items stay in the catalog
  that are no longer on disk, when the main tarball has a directory named like a component. And what the main
  tarball had in the directory around the component's files goes up with them (`Index.pm:852`), unknown to the
  catalog. `CatalogIsTheDisk` names both cases (`shared`).
- Where the main tarball has a file or a symbolic link in place of the directory of a component, or of one in it,
  that stays where it is (`-e` in `Index.pm:151`) and tar fails or goes through it (`tar -C`, `Select.pm:113`), while
  `merge_in` puts a directory in its place (`Index.pm:658-660`): the catalog lists what is not there.
  `CatalogIsTheDisk` names these cases, too (`astray`, `blocked`).
- "treat hard links like regular files" (`Orig.pm:118-144`) stops the program when a hard link leads to a symbolic
  link that does not resolve (`Orig.pm:131`; `confess` in `Item.pm:921-941`).
- Targets of symbolic links get the prefix of their component (`Index.pm:726`), though they are resolved from
  their own directory and `Item.pm:1168` has `link` return "the target of the link".

- A tag in a profile's `Enable-Tags` is lost to `Disable-Tags-From-Check` (`Profile.pm:695`; `doc/lintian.rst:601`
  has the tags win), and a tag in both `Enable-Tags` and `Disable-Tags` is accepted (`doc/lintian.rst:594`).
  `TagSelection` leaves such tags open, so that what the code does and what the manual says both satisfy it.
- `-X` for a check whose tags were disabled before leaves its counter at -1, and the check runs
  (`Profile.pm:558`; `man/lintian.pod:99`).
- `Predicate.pm:432` compares a version with itself, so "foo (>> 1)" is said to exclude "foo (<< 5)";
  `Predicate.pm:332` looks for architecture wildcards by name. The properties of `relation_answers` name both
  cases and leave out just these (`SomeBySelf`, `SomeByWildcard`).
- `Relation.pm:260` does not merge two sets of redundant clauses that turn out to be one, against the comment
  above it.
- An empty field silently replaces an earlier one of its name, where any other duplicate is an error
  (`Deb822.pm:583` against `608`); `EveryLineInItsField` names the case.
- `Item.pm:1104` resolves a path that goes on from a file in the directory of the file, where the comment has it
  always fail" (`Item.pm:1032`), "/" alone yields the item itself instead of the root (`Item.pm:1141`), and hard
  links do not "resolve as themselves" (`Item.pm:1028-1030`): `follow` goes on to the target (`Item.pm:1104`).
  `ResolvesAsMeant` leaves out an index in which one of these happened (`beyond`), since what was stored then stays.
  A slash at the end does not ask for a directory (`Item.pm:1045`).
- A hard link to a symbolic link may lose its target: the two become a file and a link to it (`Index.pm:553`);
  and chains of hard links end up differently in each order of the groups (`Index.pm:534`). `HardLinksKept`
  leaves both out.
- `Index.pm:404` never resets a size, since "!" binds before "&"; `Item.pm:659` never finds a child named "0".
- `Deb822.pm:132` ignores errors that contain "syntax error", which no message of the parser does.
- The parent of the piped tar and a reader wait for each other when a listing is longer than the chunk that it
  lists; `verbose` records that it was, and the properties of `piped_tar` say that nothing else blocks.

Deadlock is checked in every run but `piped_tar`, where the one deadlock is the one just described, and
`StuckOnlyOnLongListings` is checked instead. Every other module has an action `Terminated` for the states in
which the code is through, so that a deadlock would be a state in which it is not.

**Fairness.** Two runs check liveness (`profile_setups` and `piped_tar`). `LoadingEnds` assumes weak fairness of
the next step of a sequential program: it goes on when it can. `UnpackingEnds` assumes that the operating
system runs each process that can go on, the parent and every child (`WF_vars(Parent)`,
`WF_vars(Child(p))`); that a child dies is never assumed.

## 5. Proofs

`ProfileProofs`, for all tags, checks, profiles, options and orders of the loops:

- `TypesHold`. The inductive invariant `TypeInv` adds to `TypeOK` that the recursion of `read_profile` has its
  caller below it on the stack, and that what is left of a loop are names that the loop may have.
- `CountersHold`: counters never exceed the enabled tags, and are exact while nothing was disabled that was not
  enabled. `CountInv` says it of each check's counter with the cardinality of its enabled tags; the lemmas
  `CountEnable*` and `CountDisable*` show how one call changes both.
- `SelectionHolds`: with `-T`, `-C` or `-F` and nothing suppressed, the check of each enabled tag runs. `SelectInv`
  covers the loops that disable and enable in between.
- `OverridesDecided`: after `--ftp-master-rejects`, its lists and `Show-Always` alone decide what may be overridden.
- `SelectionImplemented`: every behaviour is one of `TagSelection` under the refinement mapping. A step of a loop is
  a stutter, since a loop in progress counts as finished; the step that begins a loop is the step of `TagSelection`,
  which keeps none of the contested tags.
  `ChainInv` says that the call stack and `profile_list` together are the chain of profiles that `Extends` gives,
  so that the order in which the recursion returns is the order that `TagSelection` asks for.

They assume that the set of tags is finite, that a tag is its own current name and that aliases lead to tags.

`Deb822Proofs`, for files of any length:

- `TypesHold` and `PositionsHold`, from `IInv`: the line counter is one more than the lines taken while nothing is
  signed; a paragraph's fields are recorded at the least line of their value; an open paragraph has the last tag in
  it, so that a continuation line finds its field.
- `BlocksHold`, `EntireFileIsSignedHolds` and `EveryLineHolds`, from `TextInv \/ ZeroAhead`: what follows holds but of
  files with a field "0" ahead of the message. `LastInv` ties `last_tag` to the lines while nothing is signed, so that a
  message that begins after a field begins after one named "0" (`ZeroBegins`); what is ahead of the first message then
  stays so (`AheadIs`, `ZeroStays`). `EveryLineHolds` leaves these files out, which says less than
  `EveryLineInItsField`: that, of all files, is only model-checked. `TextInv` has three parts. `StageInv` says where
  in the file the parser is by the lines at which the message, its text, the signature and the rest begin: such lines
  exist, and everything between two of them is of a kind that may stand there. `BlockInv` says that each paragraph
  visited, and the open one, is a stretch of lines that no boundary cuts, and that there is a boundary between any two.
  `TagInv` says that `last_tag` is the last field named in the file, so that the lines after it go into its value.

`PackageRelationProofs`, for all packages, versions, architectures and relations of any length: `SatisfiesHolds`
and `InverseHolds` (the answers), `TypesHold` and `RedundanciesHold` (the search for redundant clauses). The argument
for the answers goes up the tree: `CoveredApplies` (where the restrictions of one predicate
apply, so do those of the other), `WithinAllows` and `OutsideForbids` (ranges of versions), then predicates,
clauses, and whole relations. For the search, `SearchInv` says that of any two clauses that were compared and are
redundant some set has both, through all the merging of sets, and that no clause is in a set without another there
that it is redundant with.

`GroupProofs`, for all packages, override files, checks, tags and patterns, cover every
property of `group_process`:

- `TypesHold` needs that `position` is a line of the file or the one after it, and that a declared override
  has the line it came from.
- `JustificationsHold`. What is inductive is said of the parser between two lines: `CommentInv` (what is collected
  are the comments since the last override or empty line), `PreviousInv` (what an override may take over) and
  `DeclaredInv` (what was declared so far). `CommentsFor` speaks of the file alone, so that each step has to show that
  the three together come to it.
- `OverridesMatchHolds`, from `OverrideInv`: what is in force comes from a declared line of a tag that may be
  overridden.
- `HintsKeptOnce` and `OverridesAccountedFor`. `HintInv` says of each package that the hints kept, the pairs in
  `context_tracker`, the overrides used and the notices written fit together at every point of the four loops:
  `PairInv`, that the pairs of the hints are those of the tracker; `OnceInv`, that no two places of the list have the
  same pair; `BareInv`, that a hint without an override is matched by none in force, which is what a mismatched
  override comes down to.
- `FailuresStayIsolated`, from `AttemptInv`: what is attempted is what comes before the check at hand.
- `ErrorsAreTold`, from `ParseInv` and `FoundInv`: an overrides file is either read to its end or not begun when the
  check runs, and what the check issued is what `override_errors` held then.

`PoolProofs`, for all files, packages, command lines, selections of options and orders:

- `TypesHold` and `UploadsHold`. `Upload` is what makes a group that of one upload, also while it is assembled and
  its name may still change; the lemmas `NamedIsUpload`, `StoredIsUpload` and `AddKeepsUpload` show that
  `add_processable` keeps it so, and `FiledInv` says it of every group, together with the name it is filed under.
- `MergingHolds`, from `DeliveredInv`: what was given to `add_group` is in the group of its name, or still to be merged
  into it. `Grown` says what a merge leaves of the older group; `AddKeepsName` is why the merge cannot turn a file
  away: two groups of one name have the same source and version, or neither has a version.
- `ExitStatusHolds`, from `ExitInv`: the counters tell exactly what is kept, and the exit status tells the counters.

`CircularProofs`, for every group, all dependencies and every order of the search: Tarjan's search is correct.
Three facts carry the proof. `low` of a node on the stack leads to a node on the stack that is not above it, by
dependencies; every node on the stack leads to the nodes of running calls; and what was taken off the stack is
closed under dependencies but for what was taken off before. So what is taken off as one is both mutually
dependent and as large as can be. `HintsHold` is the first half and needs no names to be unique, `CirclesHold` both.

`StreamProofs`, about the two parts that take a stream piece by piece.

- Of `PipedTar`, for archives and pipes of every size, any number of readers, whatever they print and whichever of
  them die: `TypesHold`, `EverythingArrivesHolds` (of the handles that are collected) and
  `StuckOnlyOnLongListingsHolds`. `ControlInv` and `HandleInv` say where the parent is and which handles it still
  selects; `CountInv` counts each chunk once (what was printed is collected or in the pipe, unless its handle is
  `Dropped`; what a reader was given is what was collected of the archive, but for the chunk in hand). `LagInv` is the
  argument against deadlock: while no reader prints more than a chunk for a chunk, what is on the way through it
  exceeds the size of a pipe by no more than one or two, since in each round the parent takes a chunk from whatever is
  readable and gives the reader at most one; so the pipes on both sides of a reader are never full together with more
  to print. It takes pipes of at least two chunks (Linux: 64 KiB, read in chunks of 4 KiB).
- Of `SlidingWindow`, for every size of block and file: `QueueInv` says that the queue is two blocks in a row of which
  the newer is at least a block long while there is more to read; a text then ends in the window in which it is first
  complete, and that window begins early enough (`NothingEscapesHolds`). `WindowsHold` bounds the windows,
  `WindowTypesHold` the rest.

`IndexProofs`, for all archives, paths, budgets and requests, from `IInv`:

- `PlacesHold`, from `CatalogInv` and `ChildInv`: the names are closed under taking the directory (`AboveClosed`), and
  what is above an item is a directory.
- `HardLinksHold`, from `MastersInv`: a group that was not handled yet is as tar told, one that was is as
  `HardLinksKept` says. Ranks are numbers, of which every set has a least, so that each group has one first name
  (`Ranks`, `FirstOfGroup`); and no entry is in two groups while hard links lead to files only (`GroupsApart`), so
  that the order of the hash makes no difference.
- `TypesHold`. With `n` calls waiting the budget is `Limit` less `n` (`CallInv`), which bounds the calls, whatever
  circles the links make. That no call waits for a link that another one has resolved in the meantime is the hard
  part: `FrameInv` says that each call that waits has led to where the next has come to. A path is walked in one way
  only (`OneEnd`), and two calls that wait for one link would walk the same: but where the one has ended the other
  still waits at a link (`NotAgain`).
- `AnswersHold`: unless a hard link was followed, or one of the other cases of `beyond` happened, the answer is what the
  path means, and the only thing it means (`OneMeaning`); and when there is none, the path means nothing or the budget
  was spent. `Meant(c, d)` says that steps lead from c to d, with no bound on their number: d is in every set that has
  c and is closed under `Step`. `MeaningInv` says, for every path `t` that may
  still come after, that a stored link means the item that is stored for it, that a link whose call waits means where
  that call has come to, and that all the calls together have come to what was asked for.
- `ResolvesHold`: `ResolvesAsMeant`, which TLC checks, says the same of `Enough` steps, as it has to compute them. It
  follows wherever the steps come to an end (`EnoughSteps`), and wherever nothing was answered. That so many are
  enough for every index is not true of any number, and not claimed.

And about `OrigIndex`, for any number of tarballs, all that they list, and all components, from `OrigInv`. It is
`SourceInv` (what the loop over the tarballs has come to) together with `KnownInv`, what is known of catalog and disk,
or `Lost`: once a file or a link stood in tar's way, the invariant claims nothing of catalog and disk, and both
properties leave such packages out. `KnownInv` is the conjunction of the parts named below.

- `ItemsFoundHold` and `CatalogHolds`. Neither says anything before the last tarball is merged, so that all of what
  makes them true is in the invariant (`OrigInvariance`). `Standing`: what is on disk is in directories that are on
  disk. `MergedInv`, between two tarballs: what the merged catalog tells is on disk and is found by its directory, and
  every path on disk is told. `LoadInv`, while a tarball is loaded: that `Index` is in order (its `TreeInv`, whose
  proof is used again here), that its names are those listed and those of the directories above them (`WholeOf`), and
  where tar has put them (`Loading`, `Laid`); and that of the names treated one by one as files, each is as tar left
  it or still leads to such a file (`Treating`). `RenameInv`, while names are changed: each item is found under the
  name of the moment (`FoundInv`) and is on disk below the directory that the names do not have yet (`PlacedInv`;
  `Place`); whatever is on disk is told by the one catalog or the other (`Accounted`); and below the directory around
  all the files there is nothing but them (`Alone`), which is why `MovedUp` may move everything.
- What carries the steps: `ExtractedIs` (what tar leaves of what was there, and where it puts the rest, if nothing is
  in its way), `LoadedIs`, `TreatingBegins` and `TreatingGoesOn` (a hard link that was pointed elsewhere and is then
  treated as a file tells the size of the file it was a link to; this takes `HardLinksKept`), `WholeTree` and
  `NoTwins` (no file and directory of one name), `MovedUpIs`, `RaisedIs`, `DroppedIs`, `BelowIs` and `CapturedIs` (the
  renamings lose no item and bring no two together, and go along with what happens on disk), `MergedIs`. Under them
  lie lemmas on paths that begin with others (`WithinIs`, `ParentsAre`, `TwoBeginnings`, `ParentsBelow`).

Two things came out of it. The first half of `CatalogIsTheDisk` holds for tarballs whose hard links lead to files
only: what becomes of a link to a link depends on the order of the groups (`Index.pm:534`), so its type and size may
be told wrongly. And a hard link without a target, which `Entry` had let in, is nothing that tar lists.

What the proofs assume of the constants is in the `ASSUME` of each module, which TLC evaluates in its run. `Index`
assumes that no two names have the same rank, and of an archive that names end with a slash just when they are those
of directories, and that an entry is one that `init_from_tar_output` can make. `OrigIndex` assumes that a tarball
lists a tree, that the main tarball comes first (its component has the empty name, and `Orig.pm:89` sorts them), and
that components have names of one segment.

Only model-checked: liveness (`LoadingEnds`, `UnpackingEnds`; out of the prover's reach), `EveryLineInItsField` of files
with a field "0" ahead of the message, and `ResolvesAsMeant` where `Enough` steps are not enough to end (see above).

## 6. Not modelled

The components that PROJECT.json marks `not_modelled` carry their reasons there. In short: the checks, screens,
data tables and output formats are data to the machinery modelled here (what they find is an input, chosen
freely); parsers of single lines and file names are abstracted to what they tell apart; the reporting harness
cannot run at this commit. Within modelled components, each entry's note lists what is left out.

The program is written in Perl: all of `lib/Lintian`, `bin/lintian` and the check modules. The JavaScript files of the
repository are test data of the cruft and source-missing checks under `t/recipes` (jquery, underscore, Sphinx pages
that stand for files of other packages). They are not part of Lintian and are not modelled.
