SPECIFICATION FairSpec
CONSTANTS
  StaticRelays <- SameRelayTwice
  TTL = 8
  FirstTimeout = 3
INVARIANTS
  TypeOK
  NeverLapsesWhileServed
  StaleIsBounded
PROPERTIES
  RecoversAfterOutage
