SPECIFICATION MCSpec
CONSTANTS
  s1 = s1
  t1 = t1
  Request = {s1, t1}
  Start = {s1}
  MaxBatch = 1
  RedisFaults = FALSE
  LongAbsence = FALSE
  MaxReports = 1
  None = None
  Charger = {d1}
  PoolWorker = {w1}
INVARIANTS
  LifeTypeOK
  
  
PROPERTIES
  AcceptedIsHandled
  SignalEnds
CHECK_DEADLOCK FALSE
