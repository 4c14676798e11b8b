CONSTANTS
    Task = {t1, t2}
    Addr <- OneAddr
    RRL_ON = TRUE
    BURST = 1
    SLIP = 2
    COUNTER = 2
    V4_BITS = 2
    V6_BITS = 3
    V6_LOW = 1
    IPV4_PREFIX = 1
    IPV6_PREFIX = 1
    MAX_INFLIGHT = 1
    Settings <- Files
    Requests <- SomeRequests
    MaxReloads = 1
    MaxElapsed = 1
SPECIFICATION FairHSpec
INVARIANTS
    TypeOK
    OnePacket
    WireRateBounded
PROPERTY RequestEnds
