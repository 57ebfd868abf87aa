SPECIFICATION Spec
CONSTANTS
  a = a
  b = b
  MaxLen = 6
  r1 = r1
  r2 = r2
  l1 = l1
  l2 = l2
  i1 = i1
  NoRun = NoRun
  NoLoop = NoLoop
  Runs = {r1, r2}
  Loops = {l1}
  Injections = {i1}
  InboxSize = 1
  RunPrefix <- RunPrefixes
  Savers <- TwoSavers
  Stored <- CalledSession
  KeepLast = 2
  MinMessages = 20
  MaxIter <- Iterations
  MaxToolCalls = 2
  HistoryLimit = 0
  CallSizes = {2, 3}
  Compacting = {r1}
  MaxAborts = 1
  MaxEvents = 0
CHECK_DEADLOCK FALSE
INVARIANT RequestPaired
 
 
 
INVARIANT TranscriptsSound
