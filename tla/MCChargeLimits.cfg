SPECIFICATION MCSpec
CONSTANTS
  s1 = s1
  s2 = s2
  Request = {s1, s2}
  Start = {s1, s2}
  MaxBatch = 1
  RedisFaults = TRUE
  LongAbsence = TRUE
  MaxReports = 1
  None = None
  Worker = {w1, w2}
  IP = {a}
  ConnectRate = 1
  ConnectBurst = 4
  UDPPerIPRate = 4
  UDPPerIPBurst = 2
  CleanupInterval = 1
  MaxTime = 4
SYMMETRY StartSymmetry
INVARIANTS
  TypeOK
  NoCommandLost
  
  LimTypeOK
  ConnectBound
  PerIPBound
