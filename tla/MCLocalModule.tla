--------------------------- MODULE MCLocalModule ---------------------------
EXTENDS LocalModule

CONSTANTS t1, t2
=============================================================================
