SPECIFICATION Spec
CONSTANTS
  c1 = c1
  c2 = c2
  alice = alice
  Conn = {c1, c2}
  User = {alice}
  Owner <- OneUser
  MaxConnections = 2
  Modes = {FALSE}
  None = None
INVARIANT OnlineWhileConnected
CHECK_DEADLOCK FALSE
