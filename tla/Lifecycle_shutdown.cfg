SPECIFICATION LifeSpec
CONSTANTS
  Charger = {d1}
  PoolWorker = {w1}
INVARIANT DownMeansOffline
CHECK_DEADLOCK FALSE
