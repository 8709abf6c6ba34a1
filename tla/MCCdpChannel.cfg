SPECIFICATION FairSpec
CHECK_DEADLOCK FALSE
CONSTANTS
  c1 = c1
  c2 = c2
  s1 = s1
  Root = Root
  Commands = {c1, c2}
  Sessions = {s1}
  SessionOf <- OnePerSession
  Limited = {c1}
  QueueCap = 1
INVARIANTS
  PendingIsAwaited
  FailuresHaveACause
PROPERTIES
  CallsAreReleased
  CloseEnds
