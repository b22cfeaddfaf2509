CONSTANTS
  Segment = {"a", "b", "c", "d", "m"}
  Rank <- MCRank
  Archives <- MCArchives
  Requests = {}
  Limit = 0
  MaxAsks = 0
  None = None
  Main <- None
  Sources <- MCSources
SPECIFICATION OrigSpec
INVARIANTS
  CatalogIsTheDisk
  ItemsAreFoundBelow
