SPECIFICATION FairSpec
CONSTANTS
  a = a
  b = b
  c = c
  Step = {a, b, c}
  MaxConcurrency = 2
  HasTimeout = TRUE
  ObserverSwallows = TRUE
INVARIANT StartSafe
INVARIANT OutcomeSafe
INVARIANT EveryStartEnds
PROPERTY ImplementsRun
PROPERTY RunEnds
