SPECIFICATION Spec
CONSTANTS
    Procs = {p1, p2}
    Refs = {"west", "east"}
    Payloads = {"new"}
    Legacy <- OldSecrets
    Missing = "missing"
    Removed = "removed"
    NoFile = none
    NoProc = nobody
    NoResult = noresult
    Keys = {1, 2}
    MaxJobs = 4
    MaxFaults = 2
SYMMETRY ProcsAlike
PROPERTIES
    ImplementsSecretStore
    LoadsCurrent
CHECK_DEADLOCK FALSE
