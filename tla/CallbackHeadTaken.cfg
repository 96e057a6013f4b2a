SPECIFICATION Spec
CONSTANTS
  e1 = e1
  e2 = e2
  e3 = e3
  Event = {e1, e2}
  NoEvent = NoEvent
  Sync = {e1}
  Timed = {}
  Delayed = {}
  Duplicated = {}
  Coalescing = {}
  Dying = {}
  Priority <- MCPriority
  Sender <- MCSender
  Id <- MCId
  Handler <- MCHandler
  CancelOps = {"CancelPendingCallback"}
  Finish = {}
  MaxTime = 1
INVARIANTS GetEventReturnsEvent
CHECK_DEADLOCK FALSE
