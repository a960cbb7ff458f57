SPECIFICATION Spec
CONSTANTS
  Zones = {"z1", "z2"}
  Weight0 = {0, 16}
  MaxInstances = 3
  Shares = {0, 1, 2}
  DefaultWeight = 1
  Half = 24
  MaxCalls = 3
INVARIANTS
  TypeOK
  SharesFollowSchedule
  ProportionsKept
  PanicsOnlyOnGaps
  AveragesAreWithin
CHECK_DEADLOCK FALSE
