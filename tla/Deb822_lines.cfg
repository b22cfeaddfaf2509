CONSTANTS
  Field = {source, zero}
  Zero = zero
  MaxLines = 6
SPECIFICATION Spec
INVARIANTS
  TypeOK
  EntireFileIsSigned
  ParagraphsAreBlocks
  EveryLineInItsField
  PositionsUnlessSigned
