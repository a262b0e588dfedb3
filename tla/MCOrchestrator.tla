--------------------------- MODULE MCOrchestrator ----------------------------
EXTENDS OrchestratorRun

CONSTANTS a, b, c
=============================================================================
