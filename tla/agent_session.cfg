SPECIFICATION Spec
CONSTANTS
  r1 = r1
  r2 = r2
  l1 = l1
  l2 = l2
  i1 = i1
  NoRun = NoRun
  NoLoop = NoLoop
  Runs = {r1, r2}
  Loops = {l1, l2}
  Injections = {}
  InboxSize = 1
  RunPrefix <- RunPrefixes
  Savers <- TwoSavers
  Stored <- Sessions
  KeepLast = 2
  MinMessages = 2
  MaxIter <- OneEach
  MaxToolCalls = 2
  HistoryLimit = 0
  CallSizes = {2, 3}
  Compacting = {}
  MaxAborts = 0
  MaxEvents = 1
SYMMETRY Symmetry
CHECK_DEADLOCK FALSE
PROPERTY ReadIsWhole
PROPERTY NothingForgotten
PROPERTY AnsweredSurvives
