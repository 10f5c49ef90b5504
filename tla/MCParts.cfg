SPECIFICATION MCSpec
CONSTANTS
  Device = {d1, d2}
  PreoccupyTimeout = 1
  Horizon = 1
  MaxVersion = 3
  SeqSize = 2
  NodeSize = 2
  NodeID = 3
  Epoch = 1
  MaxMillis = 3
  MaxSetBacks = 1
  MaxRestarts = 1
  Task = {1, 2}
  Report = {1}
  ConnCases = 1
  NoReport = 0
  u1 = u1
  u2 = u2
  c2 = c2
  c1 = c1
  User = {u1, u2}
  Conn = {c1, c2}
  OwnerOf <- Owner
  Elsewhere = elsewhere
  Pile = {d1}
  ChanSize = 1
  PoolSize = 1
  MaxEvents = 2
  Nobody = nobody
  Radix = 16
  FrameMsg <- Messages
  MaxFrames = 2
INVARIANTS
  TypeOK
  IdsIncrease
  AdminTypeOK
  
  ReportCoversAll
  PushTypeOK
  OnlyToSubscribers
  InPublishedOrder
  
PROPERTIES
  KeepsPromise
  
  PreoccupyReleased
  WaitEnds
  VerifyEnds
  NobodyHoldsUp
  
CHECK_DEADLOCK FALSE
