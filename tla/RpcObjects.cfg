SPECIFICATION Spec
CONSTANTS
  t1 = t1
  t2 = t2
  t3 = t3
  p1 = p1
  p2 = p2
  p3 = p3
  t4 = t4
  Thread = {t1, t2, t3, t4}
  Proxy = {p1, p2, p3}
  NoThread = NoThread
  NoProxy = NoProxy
  MaxMarshals = 6
SYMMETRY Symmetric
INVARIANTS HeldNotDeleted OneLiveEntry UnheldIsDestroyed StubOutlivesProxies
CHECK_DEADLOCK FALSE
