SPECIFICATION FairSpec
CONSTANTS
    r1 = r1  r2 = r2  r3 = r3  r4 = r4
    sA = sA  sB = sB  main = main  cron = cron
    i1 = i1  i2 = i2  i3 = i3  i4 = i4
    NoReq = NoReq  NoLane = NoLane  Free = Free
    Requests = {r1, r2, r3}
    Sessions = {sA, sB}
    Lanes = {main, cron}
    RunIds = {i1, i2, i3}
    SessionOf <- SplitAB
    LaneOf <- CronForA
    RunIdOf <- DistinctIds
    OptMax <- NoOpts
    Concurrency <- OneToken
    DefaultMax = 1
    Cap = 1
    Interrupt = FALSE
    DropNew = TRUE
    Debounce = TRUE
    Adaptive = FALSE
    MaxStops = 1
    MaxStopAlls = 0
    MaxResets = 0
    MayShutdown = TRUE
    Background = {r1, r2}
CHECK_DEADLOCK FALSE
PROPERTIES
    AnsweredUnlessBlocked
    ShutdownCompletes
