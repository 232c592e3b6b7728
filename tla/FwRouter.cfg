SPECIFICATION SpecAll
CONSTANTS
    Hops = {h1, h2}
    Packets = {p1, p2, p3}
    Capacity = 2
    None = None
    Other = h3
    PoolCapacity = 3
    Width = 2
    OwnIp <- OwnIps
    NextHops = {0, 1, 3}
    RoutesCapacity = 3
    MaxRecursion = 3
    CacheCapacity = 2
    QueueCapacity = 2
    MaxRetries = 1
    FlushTicks = 2
    MaxExtra = 1
SYMMETRY Symmetry
INVARIANTS
    RouterConsistent
    WaitingHasRequest
    NoLostWakeup
    RouteExact
PROPERTIES
    PoolImplementsQueue
    OtherRoutesStay
