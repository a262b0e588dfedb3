---------------------------- MODULE MCDagExecutor ----------------------------
EXTENDS DagExecutorRun, DagExecutorInv

CONSTANTS a, b, c
=============================================================================
