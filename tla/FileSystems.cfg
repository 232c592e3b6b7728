SPECIFICATION SpecAll
CONSTANTS
    Conts = {c1, c2, c3}
    Slots = {s1, s2}
    Handles = {h1, h2, h3}
    NoHandle = NoHandle
    MaxGen = 2
    Short = {"b1"}
    Long = {"l1", "l2"}
    Alias <- AliasOf
    Parts = 1
    Clusters = {2, 3}
    PerCluster = 3
    FileIds = {1}
    MaxLocks = 2
    MaxFiles = 2
    MaxDirs = 1
    MaxStubs = 1
    SS = 2
    CSize = 2
    Byte = {1}
    Offsets = {0, 3}
    Lengths = {1, 5}
    MaxAccess = 9
    MaxFaults = 1
    NIds = 2
    Capacity = 2
    Types = {"initialise", "deinitialise", "async", "rmdir"}
    Statuses = {"ok", "error"}
INVARIANTS
    DirectoriesExact
    OpenEntriesLocked
    ContentExact
    OthersIntact
    HandlesAccounted
    ContinuationsExclusive
CHECK_DEADLOCK FALSE
