SPECIFICATION Spec
CONSTANTS
    Procs = {p1, p2}
    Servers = {s1, s2}
    Accounts = {a1}
    Users = {u1, u2}
    NoRow = none
    MaxRefs = 3
    MaxActs = 4
    MaxFaults = 1
SYMMETRY Alike
PROPERTIES
    ReferencesAreRight
CHECK_DEADLOCK FALSE
