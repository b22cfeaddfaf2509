CONSTANTS
  Installable = {"a", "a386", "b", "c", "d", "u"}
  Udeb = {"u"}
  Name = {"a", "b", "c", "d", "u"}
  NameOf <- MCNameOf
  Setups <- MCSetups
SPECIFICATION Spec
INVARIANTS
  TypeOK
  HintsAreCircles
  CirclesAreReported
