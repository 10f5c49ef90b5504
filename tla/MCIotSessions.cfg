SPECIFICATION FairSpec
CONSTANTS
  d1 = d1
  quic1 = quic1
  dtls1 = dtls1
  Device = {d1}
  Conn = {quic1, dtls1}
  Stream = {quic1, dtls1}
  Quic = {quic1}
  Owner <- OnePileOwner
  Worker = {w1, w2}
  None = None
  QueueCap = 1
  AsyncCap = 1
  MaxPackets = 2
INVARIANTS
  TypeOK
  SessionIndex
 
CHECK_DEADLOCK FALSE
