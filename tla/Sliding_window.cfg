CONSTANTS
  BlockSize = {1, 2, 3}
  Size = {0, 1, 2, 3, 4, 5, 6, 7, 8, 9}
  Change = {0, 1}
SPECIFICATION WindowSpec
INVARIANTS
  NothingEscapes
