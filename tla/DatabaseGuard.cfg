SPECIFICATION FairSpec
CONSTANTS
  t1 = t1
  t2 = t2
  Tasks <- MCTasks
  MaxRetries = 2
  FailureThreshold = 2
  ResetTimeout = 1
  HalfOpenMaxAttempts = 2
  MaxFailures = 3
INVARIANTS AckedMeansStored KeyedAtMostOnce TrippedIffThreshold
PROPERTIES Settles ImplementsContract
