SPECIFICATION Spec
CONSTANTS
    s1 = s1  s2 = s2  s3 = s3  s4 = s4  p = p  g = g  h = h  o1 = o1  o2 = o2
    m1 = m1  m2 = m2  m3 = m3
    Subs = {s1, s2, s3, s4}
    SyncSubs = {s3}
    Parents = {p}
    Groups = {g, h}
    ParentOf <- OneParent
    GroupOf <- Chats
    Origins = {o1, o2}
    OriginOf <- Topics
    MaxConcurrent = 1
    MaxChildren = 3
    QueueCap = 2
    MaxCommands = 1
    Results = {m1, m2, m3}
    NoQueue = NoQueue
SYMMETRY Alike
CHECK_DEADLOCK FALSE
INVARIANTS
    LeadHearsOnce
    PlacesMatchRuns
    
