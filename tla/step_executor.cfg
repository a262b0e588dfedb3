SPECIFICATION FairSpec
CONSTANTS
  c1 = c1
  c2 = c2
  r1 = r1
  r2 = r2
  None = None
  Call = {c1, c2}
  RunId = {r1, r2}
  runOf <- MCRunOf
  MaxRetries = 2
  LoopMax = 3
INVARIANT RunningTasksExact
INVARIANT AttemptsExact
PROPERTY ImplementsTask
PROPERTY Termination
