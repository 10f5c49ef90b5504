SPECIFICATION Spec
CONSTANTS
  s1 = s1
  s2 = s2
  Request = {s1, s2}
  Start = {s1, s2}
  MaxBatch = 10
  RedisFaults = FALSE
  LongAbsence = FALSE
  MaxReports = 1
  None = None
PROPERTY NoStartAgainstHolder
