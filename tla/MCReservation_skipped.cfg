SPECIFICATION Spec
CONSTANTS
  StaticRelays <- TwoRelays
  TTL = 9
  FirstTimeout = 4
INVARIANTS
  AnnouncedIsKeptAlive
