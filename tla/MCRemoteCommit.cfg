SPECIFICATION CommitSpec
CONSTANTS
    Versions = {0, 1, 2}
    Size <- ThreeSizes
    MaxSize = 2
    None = None
    MaxFaults = 2
INVARIANTS
    NeverLost
    SavedMeansSaved
    PermissionsKept
PROPERTIES
    NeverTorn
    KeepsExisting
