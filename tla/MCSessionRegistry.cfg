SPECIFICATION FairSpec
CHECK_DEADLOCK FALSE
CONSTANTS
  s1 = s1
  s2 = s2
  s3 = s3
  p1 = p1
  p2 = p2
  Servers = {s1, s2, s3}
  i1 = i1
  i2 = i2
  Ids = {i1, i2}
  Processes = {p1, p2}
  Closers = {c1}
  None = None
  Browsers = {s1, s2}
  Asked <- SameOrOther
  ProcessOf <- Where
  Global = {s1, s2}
  EndpointOf <- Port
INVARIANTS
  OwnersKeepTheirDescriptor
  ClosedMeansReleased
PROPERTIES
  OnlyItsOwnUnbinding
  CloseHitsItsTarget
  StoppedIsForgotten
