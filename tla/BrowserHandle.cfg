SPECIFICATION FairSpec
CONSTANTS
  Callers = {c1, c2, c3, c4}
  MaxLaunches = 3
INVARIANTS
  OneBrowser
  NoBrowserSurvivesClose
  LaunchFailureReported
CHECK_DEADLOCK FALSE
