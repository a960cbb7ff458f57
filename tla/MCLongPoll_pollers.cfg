SPECIFICATION Spec
CONSTANTS
  w1 = w1
  w2 = w2
  h1 = h1
  p1 = p1
  p2 = p2
  Pollers = {w1}
  NodesProcs = {}
  MultiPollers = {w2}
  HostOf <- SharedHost
  Publishers = {p1}
  Changes = {"Cancel"}
  Initially = 2
  MaxChanges = 3
  ChanCap = 1
  MaxLeft = 2
INVARIANT CountIsRequests
PROPERTIES
  EveryPollReturns
  EventuallyCurrent
CHECK_DEADLOCK FALSE
