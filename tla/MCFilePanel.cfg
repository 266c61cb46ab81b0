SPECIFICATION PanelSpec
CONSTANTS
    Hosts = {h1}
    NoLink = noLink
    MaxGen = 1
    Dirs = {root, home}
    Root = root
    Home = home
    NoDir = noDir
    Names = {n1, n2}
    MaxClicks = 2
    MaxFaults = 2
INVARIANTS
    ShownIsFresh
PROPERTIES
    ChangesEnd
CHECK_DEADLOCK FALSE
