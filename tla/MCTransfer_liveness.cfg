SPECIFICATION FairSpec
CONSTANTS
  Byte <- MCBytes
  Files <- MCFewFiles
  ChunkSize = 2
  SizeWrap = 4
  FileIDs = {f1}
  Keys = {k1}
  Nil = Nil
PROPERTIES
  SessionsEnd
  CompletesWithoutFault
