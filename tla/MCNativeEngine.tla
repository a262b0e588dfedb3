--------------------------- MODULE MCNativeEngine ----------------------------
EXTENDS NativeEngine

CONSTANTS t1, t2, a, b
=============================================================================
