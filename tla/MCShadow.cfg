SPECIFICATION FairSpec
CONSTANTS
  Device = {d1}
  cend = cend
  iot = iot
  Manager = {cend, iot}
  Caller = caller
  PreoccupyTimeout = 1
  OfflineTTL = 1
  HashTTL = 2
  RedisFaults = TRUE
  Horizon = 2
  MaxVersion = 2
INVARIANTS
  TypeOK
  HitsAreOverdue
  
  VersionNamesState
PROPERTIES
  PreoccupyReleased
  KeepsPromise
CHECK_DEADLOCK FALSE
