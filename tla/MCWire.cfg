SPECIFICATION FairSpec
CONSTANTS
  Base = 8
  Width = 2
  HashSize = 2
  NonceSize = 1
  KeySize = 2
  Scripts <- MCScripts
INVARIANTS
  ReadAsWritten
  FailsOnlyWhenCut
PROPERTIES
  ReaderLearns
