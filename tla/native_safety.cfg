SPECIFICATION FairSpec
CONSTANTS
  t1 = t1
  t2 = t2
  a = a
  b = b
  Thread = {t1, t2}
  Step = {a}
  MaxResumes = 2
  MaxCrashes = 1
INVARIANT RestoreTruthful
INVARIANT WritesExact
PROPERTY DrainEnds
