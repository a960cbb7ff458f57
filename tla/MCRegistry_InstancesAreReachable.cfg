SPECIFICATION Spec
CONSTANTS
  Handlers = {r1, r2}
  Zones = {z1, z2}
  Hosts = {h1, h2}
  MaxArrivals = 4
SYMMETRY Symmetry
CHECK_DEADLOCK FALSE
INVARIANT InstancesAreReachable
