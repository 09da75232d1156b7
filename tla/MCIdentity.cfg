SPECIFICATION Spec
CONSTANTS
  Procs = {p1, p2}
  Keys = {k1, k2, k3, k4}
  None = None
SYMMETRY Symmetric
INVARIANTS
  TypeOK
  HandedOutIsStored
  TornOnlyWhenCut
PROPERTIES
  IdentityKept
