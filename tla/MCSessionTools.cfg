SPECIFICATION Spec
CONSTANTS
    Hosts = {h1, h2}
    h1 = h1
    h2 = h2
    NoHost = NoHost
    MaxSockets = 2
    MaxLaunches = 2
    MaxJobs = 2
    MaxActs = 4
SYMMETRY Symmetry
INVARIANTS ToolsAreBacked InstallsOneAtATime SignalsReachTheirProcess
PROPERTY AgentStaysInBounds
CHECK_DEADLOCK FALSE
