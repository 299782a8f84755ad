SPECIFICATION FairSpec
CONSTANTS
  w1 = w1
  w2 = w2
  Main = Main
  NoWorker = NoWorker
  Workers <- TwoWorkers
  Threads <- AllThreads
  N = 2
  Shared = TRUE
  MaxListed = 2
  MaxFaults = 2
PROPERTIES
  RunEnds
  Recovers
