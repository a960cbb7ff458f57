SPECIFICATION Spec
CONSTANTS
  a1 = a1  a2 = a2  b1 = b1  b2 = b2  s = s
  Nodes <- ThreeNodes
  Services <- Service
  ZoneOf <- ZoneOfItem
  EnableProtect = TRUE
  Settled <- ThreeNodes
  MaxRequests = 2
  MaxStarts = 1
  MaxLost = 1
  MaxSets = 2
SYMMETRY Alike
INVARIANTS TypeOK NoEcho CancelSpreads CopiedIsListed
CHECK_DEADLOCK FALSE
