CONSTANTS
  Package = {"foo", "bar"}
  Architecture = {"i386", "amd64"}
  Token = {"i386", "amd64", "linux-any"}
  Matches <- MCMatches
  Version = {0, 1, 2, 3, 4}
  Conditions <- MCConditions
SPECIFICATION Spec
INVARIANTS
  TypeOK
  SatisfiesIsSound
  InverseIsSound
  RedundanciesReported
