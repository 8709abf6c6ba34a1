SPECIFICATION FairSpec
CHECK_DEADLOCK FALSE
CONSTANTS
  c1 = c1
  c2 = c2
  Clients = {c1, c2}
  MaxSent <- TwoAndOne
  MaySend <- OnlyCommands
INVARIANTS
  CloseRunsAlone
  BegunIsAnswered
PROPERTIES
  CleanedStops
  CloseIsNotBlocked
  HangUpEnds
