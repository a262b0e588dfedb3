--------------------------- MODULE MCStepExecutor ----------------------------
EXTENDS StepExecutorTask

CONSTANTS r1, r2, c1, c2

MCRunOf == [c \in {c1, c2} |-> IF c = c1 THEN r1 ELSE r2]
=============================================================================
