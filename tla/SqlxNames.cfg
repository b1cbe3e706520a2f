SPECIFICATION FairSpec
CONSTANTS
  c1 = c1
  c2 = c2
  g1 = g1
  g2 = g2
  Conns = {g1, g2}
  Clients = {c1, c2}
  OpenerOf <- MCOpenerOf
  NoConn = NoConn
  MaxWork = 1
INVARIANTS
  LatestIsFound
  OneGeneration
PROPERTY UnfoundEnds
CHECK_DEADLOCK FALSE
