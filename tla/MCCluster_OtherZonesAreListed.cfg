SPECIFICATION Spec
CONSTANTS
  a1 = a1  a2 = a2  b1 = b1  b2 = b2  s = s
  Nodes <- ThreeNodes
  Services <- Service
  ZoneOf <- ZoneOfItem
  EnableProtect = TRUE
  Settled <- ThreeNodes
  MaxRequests = 0
  MaxStarts = 1
  MaxLost = 0
  MaxSets = 0
INVARIANT OtherZonesAreListed
CHECK_DEADLOCK FALSE
