---------------------------- MODULE MCRpcObjects ----------------------------
EXTENDS RpcObjects, TLC

CONSTANTS t1, t2, t3, t4, p1, p2, p3

Symmetric == Permutations(Thread) \cup Permutations(Proxy)
=============================================================================
