CONSTANTS
    NoConn = NoConn
    Conns = {c1, c2}
    Workers = {w1, w2}
    MaxWorkers = 2
    Base = 1
    InflightLimit = 2
    UseHttp2 = TRUE
    Timeouts = TRUE
    MaxFaults = 1
    MaxInits = 2
SYMMETRY PoolSymmetry
SPECIFICATION Spec
CHECK_DEADLOCK FALSE
INVARIANTS PrimitivesOutliveWorkers NotStranded NoIdleReaderMissed LiveCountExact DrainerWoken
