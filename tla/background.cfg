SPECIFICATION BackgroundSpec
CONSTANTS
  j1 = j1
  j2 = j2
  m1 = m1
  m2 = m2
  r1 = r1
  r2 = r2
  o1 = o1
  o2 = o2
  bin1 = bin1
  Jobs = {j1, j2}
  Manuals = {m1, m2}
  LaneSize = 2
  NoRow = NoRow
  Never = Never
  NoJob = NoJob
  Schedules <- TwoSchedules
  InitialRows <- FirstRows
  MaxTime = 3
  MaxEvents = 2
  Requests = {r1, r2}
  Operators = {o1, o2}
  NoOperator = NoOperator
  Undecided = Undecided
  Binary <- OneBinary
  Asking = {r2}
CHECK_DEADLOCK FALSE
 
INVARIANT CacheIsCurrent
PROPERTY FiresOnce
PROPERTY DueIsTaken
PROPERTY ApprovalEnds
