SPECIFICATION FairSpec
CONSTANTS
  t1 = t1
  t2 = t2
  t3 = t3
  a1 = a1
  a2 = a2
  NoAgent = NoAgent
  NoJob = NoJob
  Agents = {a1, a2}
  Tasks = {t1}
  Slots = {j1, j2}
  Turn = Turn
  RetryCall = RetryCall
  j1 = j1
  j2 = j2
  j3 = j3
  Assignee <- SameAssignee
  MayBlock <- FirstBlocks
  MaxDispatches = 3
  Approvals = FALSE
  Board = TRUE
  Tools = TRUE
  BusMayFill = TRUE
  HeartbeatMayFail = TRUE
  MaxUpdates = 1
  MaxRetries = 0
  MaxCancels = 1
  MaxProgress = 1
  MaxRestarts = 1
CHECK_DEADLOCK FALSE
PROPERTY FinishedForGood
PROPERTY ProgressEnds
