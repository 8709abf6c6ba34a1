SPECIFICATION FairSpec
CONSTANTS
  t1 = t1
  t2 = t2
  t3 = t3
  s1 = s1
  s2 = s2
  lock = lock
  Workers = {w1, w2}
  Tests = {t1, t2, t3}
  Plan <- MixedPlan
  Repetition <- OneRepetition
  LockNames = {lock}
  Locks <- LockT1T3
  Expected <- T1ExpectsFail
  Suites = {s1, s2}
  Suite <- TwoSuites
  BeforeAll = {s2}
  MayBreak = {s2}
  MaxAttempts <- OneRetry
  MaxFailures = 0
  Isolated = FALSE
  FailOnFlaky = TRUE
  ResultCap = 1
  Ends = {"Passed", "Failed", "Fatal", "NoPage"}
  StopAllowed = TRUE
  MaxFaults = 0
INVARIANTS
  EachTestOnce
  GroupsInOrder
  LockedTestsApart
PROPERTIES
  ImplementsPromise
