SPECIFICATION FairSpec
CONSTANTS
  t1 = t1
  t2 = t2
  c1 = c1
  c2 = c2
  c3 = c3
  Acceptor = Acceptor
  Nobody = Nobody
  Workers <- TwoWorkers
  Clients <- ThreeClients
  MaxConnections = 2
INVARIANTS
  TypeOK
  Accounting
  Bounded
  Quiescent
  NoLostWakeup
PROPERTIES
  StopReturns
  QueuedIsServed
