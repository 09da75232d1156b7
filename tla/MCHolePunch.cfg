SPECIFICATION FairSpec
CONSTANTS
  Watchers = {w1, w2}
  Period <- Ticker
  ClientTimeout <- TenSeconds
  ServerTimeout <- ShortTimeout
INVARIANTS
  TypeOK
  UpgradeSeenInTime
PROPERTIES
  WatchersReturn
  SilentOnlyWhenRaced
