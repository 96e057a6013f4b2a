SPECIFICATION Spec
CONSTANTS
  e1 = e1
  e2 = e2
  e3 = e3
  Event = {e1, e2, e3}
  NoEvent = NoEvent
  Sync = {e1}
  Timed = {e1}
  Delayed = {e2}
  Duplicated = {e2, e3}
  Coalescing = {e3}
  Dying = {e2}
  Priority <- MCPriority
  Sender <- MCSender
  Id <- MCId
  Handler <- MCHandler
  CancelOps = {"CancelAllPendingCallbacks", "CancelPendingCallback", "CancelCallbackEvents", "CancelAllCallbackEvents"}
  Finish = {}
  MaxTime = 1
INVARIANTS RefsExact CountMatchesQueue QueueOrdered ReportsTruth GivenUpNeverRuns CancelledIsOver
CHECK_DEADLOCK FALSE
