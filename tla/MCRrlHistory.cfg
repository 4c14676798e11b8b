CONSTANTS
    Task = {t1, t2}
    Addr <- SomeAddr
    RRL_ON = TRUE
    BURST = 2
    SLIP = 3
    V4_BITS = 2
    V6_BITS = 3
    V6_LOW = 1
    IPV4_PREFIX = 1
    IPV6_PREFIX = 1
    COUNTER = 5
    MaxElapsed = 3
SPECIFICATION HSpec
SYMMETRY TaskSymmetry
INVARIANTS
    TypeOK
    RateBounded
    SlipKept
PROPERTY ImplementsBudget
