SPECIFICATION Spec
CONSTANTS
  Clients = {c1}
  ProcOps = {"resetExp"}
INVARIANTS
  TypeOK
  NoCircularWait
PROPERTY EveryOperationReturns
