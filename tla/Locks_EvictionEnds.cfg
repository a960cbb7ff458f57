SPECIFICATION Spec
CONSTANTS
  Clients = {c1}
  ProcOps = {"evict"}
CHECK_DEADLOCK FALSE
PROPERTY EvictionEnds
