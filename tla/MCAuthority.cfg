CONSTANTS
    ADDR_NIBBLES = 5
    HEX_LOWER <- TwoDigits
    GROUP = 2
    MAX_LABEL = 8
    MAX_NAME = 18
    MAX_RELAYED_RECORDS = 2
    MIN_RELAY_TTL = 1
    MAX_RELAY_TTL = 3
    RawConfigs <- Files
    DigitLabels <- Labels
    OtherNames <- Names
    Foreign <- ForeignAnswers
SPECIFICATION Spec
INVARIANTS
    TypeOK
    ReverseFaithful
    AddressNamed
    ForwardExact
    LongestPrefix
    PtrThenAaaa
    AuthoritativeInside
    NegativeCacheable
    UpstreamConfined
    RelayedVouched
