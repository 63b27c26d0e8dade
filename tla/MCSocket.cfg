SPECIFICATION MCSpec
CONSTANTS
  c1 = c1
  c2 = c2
  d1 = d1
  d2 = d2
  d3 = d3
  Conns <- TwoConns
  QueueSize = 2
  Plans <- MCPlans
  Daemons <- ThreeDaemons
  MaxDials = 2
INVARIANTS ServerInv InstanceInv
PROPERTIES ImplementsFeed ConnectionsProgress StartDecides
CHECK_DEADLOCK FALSE
