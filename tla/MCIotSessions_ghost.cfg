SPECIFICATION Spec
CONSTANTS
  d1 = d1
  quic1 = quic1
  dtls1 = dtls1
  Device = {d1}
  Conn = {quic1, dtls1}
  Stream = {quic1, dtls1}
  Quic = {quic1}
  Owner <- OnePileOwner
  Worker = {w1, w2}
  None = None
  QueueCap = 2
  AsyncCap = 1
  MaxPackets = 2
INVARIANT NoGhost
CHECK_DEADLOCK FALSE
