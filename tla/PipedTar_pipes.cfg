CONSTANTS
  Archive = 6
  PipeSize = 2
  ReaderOrder <- MCReaderOrder
  FileNo <- MCFileNo
  Yields <- MCYields
  Mortal = {"numeric"}
SPECIFICATION Spec
INVARIANTS
  TypeOK
  EverythingArrives
  StuckOnlyOnLongListings
PROPERTIES
  UnpackingEnds
CHECK_DEADLOCK FALSE
