SPECIFICATION Spec
CONSTANTS
  w1 = w1
  w2 = w2
  Main = Main
  NoWorker = NoWorker
  Workers <- TwoWorkers
  Threads <- AllThreads
  N = 3
  Shared = TRUE
  MaxListed = 1
  MaxFaults = 3
SYMMETRY Symmetry
INVARIANTS
  Inv
  RefinementInv
  ResumeOnlyDurable
  CleanIsPersisted
  JoinMeansComplete
  OneWorkerPerChunk
  FinalIsVerified
PROPERTIES
  NeverOrphaned
  Implements
