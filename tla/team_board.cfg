SPECIFICATION Spec
CONSTANTS
  t1 = t1
  t2 = t2
  t3 = t3
  a1 = a1
  a2 = a2
  NoAgent = NoAgent
  NoJob = NoJob
  Agents = {a1, a2}
  Tasks = {t1, t2}
  Slots = {j1, j2}
  Turn = Turn
  RetryCall = RetryCall
  j1 = j1
  j2 = j2
  j3 = j3
  Assignee <- OtherAssignee
  MayBlock <- AnyBlocks
  MaxDispatches = 3
  Approvals = TRUE
  Board = FALSE
  Tools = FALSE
  BusMayFill = FALSE
  HeartbeatMayFail = FALSE
  MaxUpdates = 1
  MaxRetries = 1
  MaxCancels = 1
  MaxProgress = 0
  MaxRestarts = 0
CHECK_DEADLOCK FALSE
INVARIANT OneRunPerTask
 
PROPERTY FinishReleases
