SPECIFICATION FairSpec
CONSTANTS
  n1 = n1
  n2 = n2
  elsewhere = elsewhere
  Hosts = {n1, n2}
  Seeds = {n1}
  Mortal = {n2}
  Self = "self"
  Apps = {"self", "a"}
  Resolvers = {"r0", "r1"}
  SelfResolver = "r0"
  Bodies <- Answers
  InitLatest <- Clocks
  Elsewhere = elsewhere
  Cycle = 2
  MaxEvents = 2
INVARIANTS
  TypeOK
  PollsWhatItHolds
  PollCoversApps
  NoMissedEvent
PROPERTIES
  EventuallyAnswered
  EventuallyCurrent
CHECK_DEADLOCK FALSE
