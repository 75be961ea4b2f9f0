CHECK_DEADLOCK FALSE
CONSTANTS
    Conns = {c1}
    Workers = {w1, w2}
    PoolSizes <- McPools
    MaxSent = 2
    NoConn = NoConn
SPECIFICATION McSpec
PROPERTY DisconnectCloses
