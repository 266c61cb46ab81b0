SPECIFICATION LiveSpec
CONSTANTS
    Windows <- AllWindows
    Ops <- AllOps
    MaxRequests = 4
    MaxConnections = 3
INVARIANTS
    SlotIsBacked
PROPERTIES
    AnsweredOnce
    RequestsEnd
CHECK_DEADLOCK FALSE
