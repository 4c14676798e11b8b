CONSTANTS
    Task = {t1, t2, t3}
    MAX_INFLIGHT = 2
    BREAKER_THRESHOLD = 2
    BREAKER_COOLDOWN = 2
    TIMEOUT = 1
    MaxReloads = 1
SPECIFICATION FairHSpec
INVARIANTS
    TypeOK
    PermitsConserved
    BreakerCoherent
    FailuresBounded
    TripJustified
PROPERTIES
    CooldownNeverExtended
    OpenDrains
    UpstreamRetried
    ImplementsContract
