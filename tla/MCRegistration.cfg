SPECIFICATION FairSpec
CONSTANTS
  Callers = {c1, c2}
  Nodes <- TwoNodes
  MaxForgets = 2
  MaxFaults = 2
INVARIANTS
  TypeOK
  TakenByOne
  ReturnedIsOver
PROPERTIES
  KeptRegistered
  CancelReturns
  CloseEndsKeepers
CHECK_DEADLOCK FALSE
