SPECIFICATION Spec
CONSTANTS
    r1 = r1  r2 = r2  r3 = r3  r4 = r4
    sA = sA  sB = sB  main = main  cron = cron
    i1 = i1  i2 = i2  i3 = i3  i4 = i4
    NoReq = NoReq  NoLane = NoLane  Free = Free
    Requests = {r1, r2, r3}
    Sessions = {sA}
    Lanes = {main}
    RunIds = {i1, i2, i3}
    SessionOf <- AllInA
    LaneOf <- AllMain
    RunIdOf <- DistinctIds
    OptMax <- PairOpts
    Concurrency <- TwoTokens
    DefaultMax = 1
    Cap = 1
    Interrupt = TRUE
    DropNew = FALSE
    Debounce = FALSE
    Adaptive = FALSE
    MaxStops = 1
    MaxStopAlls = 0
    MaxResets = 1
    MayShutdown = FALSE
    Background = {}
CHECK_DEADLOCK FALSE
INVARIANTS
    InterruptKeepsOne
    NoLeakedEntry
