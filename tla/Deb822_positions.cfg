CONSTANTS
  Field = {source, zero}
  Zero = zero
  MaxLines = 5
SPECIFICATION Spec
INVARIANTS
  PositionsAreLines
