CONSTANTS
  File <- MCFile
  Kind <- MCKind
  SourceName <- MCSourceName
  SourceVersion <- MCSourceVersion
  Identifier <- MCIdentifier
  Listed <- AllListed
  Missing = {"missing.deb"}
  Broken = {"broken.deb"}
  Tainted = {"tainted.changes"}
  CommandLines <- MCCommandLines
  Hinted = {"hinted.deb", "hinted.udeb"}
  Outcomes <- ManyOutcomes
  NoFile = "no file"
  Empty = ""
SPECIFICATION Spec
INVARIANTS
  TypeOK
  GroupsAreUploads
  MergingLosesNothing
  ExitStatusIsTrue
