SPECIFICATION FairSpec
CONSTANTS
  t1 = t1
  t2 = t2
  t3 = t3
  s1 = s1
  s2 = s2
  lock = lock
  Workers = {w1, w2}
  Tests = {t1, t2, t3}
  Plan <- SinglesPlan
  Repetition <- TwoRepetitions
  LockNames = {lock}
  Locks <- NoLocks
  Expected <- ExpectPass
  Suites = {s1}
  Suite <- OneSuite
  BeforeAll = {}
  MayBreak = {}
  MaxAttempts <- NoRetry
  MaxFailures = 0
  Isolated = FALSE
  FailOnFlaky = FALSE
  ResultCap = 2
  Ends = {"Passed", "Failed"}
  StopAllowed = FALSE
  MaxFaults = 1
PROPERTIES
  RunEnds
CHECK_DEADLOCK FALSE
