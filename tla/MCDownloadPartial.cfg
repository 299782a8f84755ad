SPECIFICATION Spec
CONSTANTS
  w1 = w1
  w2 = w2
  Main = Main
  NoWorker = NoWorker
  Workers <- OneWorker
  Threads <- AllThreads
  N = 2
  Shared = FALSE
  MaxListed = 2
  MaxFaults = 1
INVARIANT PartialMismatchIsExternal
