SPECIFICATION FairSpec
CONSTANTS
  t1 = t1
  t2 = t2
  t3 = t3
  s1 = s1
  s2 = s2
  lock = lock
  Workers = {w1, w2}
  Tests = {t1, t2, t3}
  Plan <- AllGroupsPlan
  Repetition <- TwoRepetitions
  LockNames = {lock}
  Locks <- LockT1T3
  Expected <- ExpectPass
  Suites = {s1}
  Suite <- OneSuite
  BeforeAll = {}
  MayBreak = {}
  MaxAttempts <- OneRetry
  MaxFailures = 2
  Isolated = TRUE
  FailOnFlaky = FALSE
  ResultCap = 2
  Ends = {"Passed", "Failed", "Skipped"}
  StopAllowed = TRUE
  MaxFaults = 1
INVARIANTS
  RetriesRunAlone
  PassedMeansJudged
PROPERTIES
  EndsUnlessCrashed
