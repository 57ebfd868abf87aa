SPECIFICATION FairSpec
CONSTANTS
    text = text  more = more  photo = photo  stop = stop
    kA = kA  kB = kB
    Messages = {text, more, photo, stop}
    Keys = {kA, kB}
    KeyOf <- Chats
    MediaMsgs = {photo}
    Commands = {stop}
    NoId = {more}
    BusCap = 2
    CacheMax = 2
    Debounce = TRUE
    MaxCopies <- OneRetry
CHECK_DEADLOCK FALSE
INVARIANTS
    DeliveredOnce
    NoOvertaking

    
