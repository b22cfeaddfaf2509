CONSTANTS
  Segment = {"a", "a-", "b", "d", "f"}
  Rank <- MCRank
  Archives <- MCArchives
  Requests <- MCRequests
  Limit = 3
  MaxAsks = 2
SPECIFICATION Spec
INVARIANTS
  TypeOK
  ResolvesAsMeant
  EveryItemHasItsPlace
  HardLinksKept
