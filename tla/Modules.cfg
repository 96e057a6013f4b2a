SPECIFICATION FairSpec
CONSTANTS
  t1 = t1
  t2 = t2
  Thread = {t1, t2}
  NoThread = NoThread
  Module = {"a", "b", "runtime"}
  NoModule = NoModule
  Runtime = {"runtime"}
  Unasked = {"b"}
  MaxObjects = 1
INVARIANTS UsedIsMapped CountsExact
PROPERTIES RecentlyUsedStays WalksEnd
CHECK_DEADLOCK FALSE
