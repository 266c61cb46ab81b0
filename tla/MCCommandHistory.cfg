SPECIFICATION HistorySpec
CONSTANTS
    p1 = p1
    p2 = p2
    a = a
    b = b
    c = c
    n = n
    m = m
    Panes = {p1, p2}
    Program <- MCProgram
    Commands = {a, b, c}
    Notes = {n, m, NoNote}
    NoNote = NoNote
    Anything = Anything
    Searches = {b}
    OldTables <- MCOldTables
    Limit = 1
    Shown = 2
    MaxGiven = 3
SYMMETRY Symmetry
PROPERTIES FavoritesAreKept ActsHitTheirRow
CHECK_DEADLOCK FALSE
