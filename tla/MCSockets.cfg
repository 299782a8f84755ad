SPECIFICATION Spec
CONSTANTS
  t1 = t1
  t2 = t2
  t3 = t3
  Nobody = Nobody
  Threads <- ThreeThreads
  Descriptors <- ThreeDescriptors
  Addresses = 2
SYMMETRY Symmetry
INVARIANTS TypeOK NoLeak OwnConnections
