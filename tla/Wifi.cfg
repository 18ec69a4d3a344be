SPECIFICATION FairSpec
CONSTANTS
    WIFI_MAX_RETRY = 5
    EventQueue = 3
    MaxRestarts = 2
INVARIANTS
    TypeOK
    ReadyIsRevoked
    BitsTellMode
    FallbackAfterRetries
PROPERTIES
    ImplementsLink
    ComesUp
CHECK_DEADLOCK FALSE
