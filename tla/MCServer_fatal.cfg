SPECIFICATION Spec
CONSTANTS
  Clients = {c1, c2}
  Names = {n1}
  MaxChunks = 1
  Nil = Nil
INVARIANTS
  ServesUntilInterrupted
