SPECIFICATION Spec
CONSTANTS
  w1 = w1
  w2 = w2
  h1 = h1
  p1 = p1
  p2 = p2
  Pollers = {w1}
  MultiPollers = {}
  NodesProcs = {}
  HostOf <- OneWatcher
  Publishers = {p1, p2}
  Changes = {"Register", "Cancel", "Set"}
  Initially = 1
  MaxChanges = 4
  ChanCap = 1
  MaxLeft = 1
SYMMETRY PublisherSymmetry
INVARIANTS
  TypeOK
  NotModifiedIsCurrent
PROPERTY PollMonotone
CHECK_DEADLOCK FALSE
