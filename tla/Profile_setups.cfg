CONSTANTS
  a1 = a1
  a2 = a2
  b1 = b1
  a1_old = a1_old
  bogus = bogus
  ca = ca
  cb = cb
  bogus_check = bogus_check
  Tag <- MCTag
  Check = {ca, cb}
  CheckOf <- MCCheckOf
  KnownAlias <- MCKnownAlias
  Name <- MCName
  ShowAlways = {b1}
  Certain = {a1_old, a2}
  Preventable = {a2, b1}
  File = {"debian", "vendor", "missing"}
  ProfileName = {"debian/main", "vendor/main"}
  NoFile = NoFile
  NoName = NoName
  CheckName = {ca, cb, "all", bogus_check}
  All = "all"
  Setups <- MCSetups
SPECIFICATION FairSpec
INVARIANTS
  TypeOK
  CountersTellTheTags
  SelectionRunsItsChecks
  AutoRejectDecidesOverrides
PROPERTIES
  ImplementsTagSelection
  LoadingEnds
