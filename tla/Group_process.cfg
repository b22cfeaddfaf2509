CONSTANTS
  CheckOrder <- MCCheckOrder
  Tag <- MCTag
  CheckOf <- MCCheckOf
  NameSpaced = {"c2/z"}
  Name = {"bad", "x", "c2/z", "d", "off", "x_old", "z", "bogus"}
  KnownAlias <- MCKnownAlias
  Qualified <- MCQualified
  EnabledTags = {"bad", "x", "c2/z", "d"}
  DurableTags = {"d"}
  ShowAlways = {"d"}
  Pattern = {"", "k*", "k1*", "*1", "k2"}
  Bare = ""
  Size <- MCSize
  Context = {"k1", "k2", "1", "2", "3", "4"}
  AskOverrides = {"c1"}
  MalformedCheck = "malformed"
  MalformedTag = "bad"
  PointerTo <- MCPointerTo
  Glob <- MCGlob
  Screened <- MCScreened
  Arch = {"amd64", "i386", "any"}
  ArchMatch <- MCArchMatch
  NoTag = "no tag"
  NoOverride = NoOverride
  Processable = {"p1", "p2", "p3", "p4"}
  Inputs <- MCInputs
  ArchOf <- MCArchOf
  Finds <- MCFinds
SPECIFICATION Spec
INVARIANTS
  TypeOK
  EveryHintKeptOnce
  OverridesUsedOrReported
  OverridesMatch
  JustificationsAsWritten
  ErrorsAreReported
  FailuresAreIsolated
