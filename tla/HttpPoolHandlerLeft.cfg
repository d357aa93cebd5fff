CONSTANTS
    NoConn = NoConn
    Conns = {c1, c2}
    Workers = {w1, w2}
    MaxWorkers = 2
    Base = 1
    InflightLimit = 2
    UseHttp2 = TRUE
    Timeouts = FALSE
    MaxFaults = 0
    MaxInits = 1
SYMMETRY PoolSymmetry
SPECIFICATION Spec
CHECK_DEADLOCK FALSE
INVARIANT NoHandlerAfterDestroy
