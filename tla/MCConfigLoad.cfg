CONSTANTS
    ADDR_NIBBLES = 3
    HEX_LOWER <- TwoDigits
    GROUP = 2
    MAX_LABEL = 5
    MAX_NAME = 16
    LineSet <- AllLines
    Comment <- CommentWords
    MayFollow <- Bounded
    AsNetwork <- NetworkOf
    AsPattern <- PatternOf
    AsNumber <- NumberOf
    IsName <- NameText
    IsIpAddr <- IpText
    IsSocketAddr <- SocketText
    Allowed <- Ranges
    Default <- Defaults
SPECIFICATION Spec
CHECK_DEADLOCK FALSE
INVARIANTS
    TypeOK
    LoadAgrees
    NoLineIgnored
    FaultsStayLocal
