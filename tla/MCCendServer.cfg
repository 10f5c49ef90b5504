SPECIFICATION FairSpec
CONSTANTS
  c1 = c1
  c2 = c2
  alice = alice
  Conn = {c1, c2}
  User = {alice}
  Owner <- OneGuest
  MaxConnections = 1
  Modes = {FALSE}
  None = None
INVARIANTS TypeOK CountAccounts
PROPERTIES
  ClosedIsForgotten
  StopGetsThrough
CHECK_DEADLOCK FALSE
