CONSTANTS
    NoConn = NoConn
    Conns = {c1, c2}
    Workers = {w1, w2}
    MaxWorkers = 2
    Base = 1
    InflightLimit = 2
    UseHttp2 = FALSE
    Timeouts = TRUE
    MaxFaults = 0
    MaxInits = 1
SPECIFICATION FairSpec
CHECK_DEADLOCK FALSE
PROPERTY DestroyReturns
PROPERTY QueuedTaken
