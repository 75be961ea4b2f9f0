\* Each part stops: when its bound on calls, messages or operations is reached,
\* after an assertion, or once the manager is destroyed.
CHECK_DEADLOCK FALSE
CONSTANTS
    MaxCalls = 4
    Settings <- McSafe
    Error = Error
    None = None
    c1 = c1
    c2 = c2
    Conns = {c1, c2}
    Workers = {w1, w2}
    PoolSizes <- McPools
    MaxSent = 2
    NoConn = NoConn
    MaxOps = 3
SPECIFICATION McSpec
INVARIANTS
    NothingDangles
    ResponseIsAsked
    SocketsHeldOnce
    MessagesInOrder
    OneReceive
    LinkedAreHandedOver
    
PROPERTIES
    LinkSpec
    AbortEnds
    FixedPoolSends
    ShutdownEnds
    ErrorsClose
    ExecuteEnds
