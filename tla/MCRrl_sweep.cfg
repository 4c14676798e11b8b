CONSTANTS
    Task = {t1}
    Addr <- EveryAddr
    RRL_ON = TRUE
    BURST = 1
    SLIP = 2
    V4_BITS = 2
    V6_BITS = 3
    V6_LOW = 1
    IPV4_PREFIX = 0
    IPV6_PREFIX = 1
    COUNTER = 2
SPECIFICATION FairSpec
PROPERTIES
    ChargesPrefix
    QuietForgotten
