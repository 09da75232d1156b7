SPECIFICATION Spec
CONSTANTS
  Byte <- MCBytes
  Files <- MCFiles
  ChunkSize = 2
  SizeWrap = 4
  FileIDs = {f1}
  Keys = {k1, k2}
  Nil = Nil
SYMMETRY KeySymmetry
INVARIANTS
  TypeOK
  LeavesAgree
  FinishedCopyIsExact
  OutputIsPrefix
  AckedMeansFinished
  ErrorOnlyAfterFault
  KeyHiddenUntilTicket
  InFlightBounded
  InLockstep
  HandleLeftOpenOnlyOnError
PROPERTIES
  ImplementsCopy
