SPECIFICATION Spec
CONSTANTS
  Device = {d1}
  cend = cend
  iot = iot
  Manager = {cend, iot}
  Caller = caller
  PreoccupyTimeout = 1
  OfflineTTL = 1
  HashTTL = 9
  RedisFaults = FALSE
  Horizon = 3
  MaxVersion = 3
PROPERTY RollbackOnlyOverdue
CHECK_DEADLOCK FALSE
