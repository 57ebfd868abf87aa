SPECIFICATION FairSpec
CONSTANTS
    r1 = r1  r2 = r2  r3 = r3  r4 = r4
    sA = sA  sB = sB  main = main  cron = cron
    i1 = i1  i2 = i2  i3 = i3  i4 = i4
    NoReq = NoReq  NoLane = NoLane  Free = Free
    Requests = {r1, r2, r3}
    Sessions = {sA}
    Lanes = {main}
    RunIds = {i1, i2, i3}
    SessionOf <- AllInA
    LaneOf <- AllMain
    RunIdOf <- DistinctIds
    OptMax <- GroupOpts
    Concurrency <- TwoTokens
    DefaultMax = 1
    Cap = 10
    Interrupt = FALSE
    DropNew = FALSE
    Debounce = TRUE
    Adaptive = FALSE
    MaxStops = 0
    MaxStopAlls = 0
    MaxResets = 0
    MayShutdown = FALSE
    Background = {}
CHECK_DEADLOCK FALSE
PROPERTIES
    EventuallyAnswered
