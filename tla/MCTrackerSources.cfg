SPECIFICATION Spec
CONSTANTS
  s1 = s1
  s2 = s2
  p1 = p1
  p2 = p2
  p3 = p3
  h1 = h1
  h2 = h2
  Swarms <- TwoSwarms
  Peers <- TwoPeers
  Handlers <- TwoHandlers
  TTL = 2
  MaxSwarms = 1
  MaxPeers = 2
  MaxResponse = 1
  MaxTime = 3
PROPERTY NoSourceMeansNoneActive
