SPECIFICATION FairSpec
CONSTANTS
  k1 = k1
  k2 = k2
  w1 = w1
  w2 = w2
  Main = Main
  Heartbeat = Heartbeat
  Chunks <- TwoChunks
  Workers <- TwoWorkers
  MaxListed = 2
  MaxFaults = 2
INVARIANTS
  NeverOverAdvertised
  NothingOutlivesRun
PROPERTIES
  EventuallyListed
  StopReturns
CHECK_DEADLOCK FALSE
