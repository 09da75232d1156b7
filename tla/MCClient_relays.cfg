SPECIFICATION Spec
CONSTANTS
  NRelays = 2
  Budget <- ContextTimeout
  Window <- HolePunchWindow
  DialLimit = 15
  ReserveLimit = 60
  Answer = 2
INVARIANTS
  DeadRelaysHarmless
