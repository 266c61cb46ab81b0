SPECIFICATION LiveSpec
CONSTANTS
    Hosts <- TwoHosts
    FirstHosts <- OneHost
    Keys <- TwoKeys
    HostKey <- OwnName
    Secrets <- TwoKeys
    HostSecret <- OwnName
    NoKey = "none"
    NoSecret = "none"
    MaxAttempts = 4
INVARIANTS
    PaneIsBacked
    LoadingIsOpen
    OrphanTransportCloses
PROPERTIES
    SecretsAreSafe
    ImplementsSessionView
    AttemptEnds
CHECK_DEADLOCK FALSE
