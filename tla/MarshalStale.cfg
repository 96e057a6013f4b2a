SPECIFICATION Spec
CONSTANTS
  t1 = t1
  t2 = t2
  t3 = t3
  s1 = s1
  s2 = s2
  s3 = s3
  p1 = p1
  p2 = p2
  p3 = p3
  p4 = p4
  Thread = {t1, t2}
  Stub = {s1}
  Proxy = {p1, p2}
  NoThread = NoThread
  NoStub = NoStub
  NoProxy = NoProxy
SYMMETRY Symmetric
INVARIANTS ImportEntriesLive
CHECK_DEADLOCK FALSE
