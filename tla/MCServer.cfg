SPECIFICATION FairSpec
CONSTANTS
  Clients = {c1, c2}
  Names = {n1, n2}
  MaxChunks <- TwoChunks
  Nil = Nil
INVARIANTS
  TypeOK
  StoredIntact
  ChunksKeepTheirPlace
PROPERTIES
  ClientsEnd
