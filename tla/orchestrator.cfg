SPECIFICATION FairSpec
CONSTANTS
  a = a
  b = b
  c = c
  Step = {a, b, c}
  FirstPlan = {a, b, c}
  MaxParallel = 2
  MaxAgents = 2
  MaxRuns = 2
INVARIANT PlanValidated
INVARIANT RunSafe
INVARIANT SkipsExact
PROPERTY ImplementsRun
PROPERTY Termination
