----------------------------- MODULE MCMarshal -----------------------------
EXTENDS Marshal, TLC

CONSTANTS t1, t2, t3, s1, s2, s3, p1, p2, p3, p4

Symmetric == Permutations(Thread) \cup Permutations(Stub) \cup Permutations(Proxy)
=============================================================================
