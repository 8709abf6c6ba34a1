SPECIFICATION FairSpec
CHECK_DEADLOCK FALSE
CONSTANTS
  p1 = p1
  p2 = p2
  Projects = {p1, p2}
  Tests <- TwoAndOne
  MaxCalls = 3
  MaxKind <- TwoRuns
INVARIANTS
  StopsOnlyItsRun
  OneLoopHears
  NothingOutlivesItsRun
PROPERTIES
  EveryCallAnswered
