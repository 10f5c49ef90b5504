SPECIFICATION ReportSpec
CONSTANTS
  s1 = s1
  Request = {s1}
  Start = {s1}
  MaxBatch = 10
  RedisFaults = FALSE
  LongAbsence = FALSE
  MaxReports = 1
  None = None
PROPERTY ShadowFollowsPile
