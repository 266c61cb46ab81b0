SPECIFICATION LiveSpec
CONSTANTS
    Capacity = 1
    Blocks = 2
    MaxTasks = 2
    MaxTimers = 2
    MaxConnections = 4
INVARIANTS
    ActiveIsRunning
    RunsOnce
PROPERTIES
    RunsAreApart
    TransferEnds
CHECK_DEADLOCK FALSE
