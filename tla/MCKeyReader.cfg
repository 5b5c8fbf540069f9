CONSTANTS
  Runs = {g1, g2}
  Old = Old
  Concurrent = FALSE
  MaxIgnored = 1
SYMMETRY Symmetry
CONSTRAINT FewIgnored
SPECIFICATION ReaderSpec
INVARIANTS
  ReaderTypeOK
  FailureLeavesNothing
  SecKeyIsWhole
  EncKeyHasSecKey
  OneGeneration
  StreamsWhatItDecrypts
  NothingLeftBehind
  FoundKeysAreWhole
PROPERTIES
  TouchesOwnFilesOnly
  SuccessIsComplete
CHECK_DEADLOCK FALSE
