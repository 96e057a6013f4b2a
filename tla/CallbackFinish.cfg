SPECIFICATION FairSpec
CONSTANTS
  e1 = e1
  e2 = e2
  e3 = e3
  Event = {e1, e2}
  NoEvent = NoEvent
  Sync = {e1}
  Timed = {}
  Delayed = {e2}
  Duplicated = {e2}
  Coalescing = {}
  Dying = {}
  Priority <- MCPriority
  Sender <- MCSender
  Id <- MCId
  Handler <- MCHandler
  CancelOps = {}
  Finish = {"Nice", "ASAP"}
  MaxTime = 1
INVARIANTS NiceDrains RefsExact ReportsTruth
PROPERTIES QueueServed SendReturns FinishTakesEffect
CHECK_DEADLOCK FALSE
