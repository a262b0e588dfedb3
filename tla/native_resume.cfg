SPECIFICATION Spec
CONSTANTS
  t1 = t1
  t2 = t2
  a = a
  b = b
  Thread = {t1}
  Step = {a, b}
  MaxResumes = 1
  MaxCrashes = 1
INVARIANT ResumeSkips
