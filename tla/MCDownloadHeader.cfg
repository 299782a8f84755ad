SPECIFICATION Spec
CONSTANTS
  w1 = w1
  w2 = w2
  Main = Main
  NoWorker = NoWorker
  Workers <- OneWorker
  Threads <- AllThreads
  N = 3
  Shared = FALSE
  MaxListed = 1
  MaxFaults = 1
INVARIANT RerunIsAccepted
