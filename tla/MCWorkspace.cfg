\* Two hosts, three panes, up to two of them restored; each host is edited once at most; three acts of the user.
SPECIFICATION Spec
CONSTANTS
    Servers = {s1, s2}
    s1 = s1
    s2 = s2
    NoServer = NoServer
    Rdp = Rdp
    MaxPanes = 3
    MaxVersion = 2
    MaxActs = 3
    MaxRestored = 2
    PaneLimit = 3
SYMMETRY Symmetry
INVARIANTS
    MonitorIsLive
    RailIsTrue
PROPERTIES
    ClosesWhatWasAsked
CHECK_DEADLOCK FALSE
