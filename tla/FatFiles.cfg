SPECIFICATION SpecAll
CONSTANTS
    Workers = {w1, w2, w3}
    Slots = {s1, s2}
    Files = {f1, f2}
    Dirs = {d1, d2}
    NoObj = NoObj
    MaxGen = 2
    MaxFsid = 2
    AnyFd = TRUE
    Threads = {t1, t2}
    Fat = {0}
    FatSize = 1
    Tables = {2}
    FsInfo = 3
    FileData = {4}
    PerBlock = 2
    Outcomes = {"ok", "error"}
SYMMETRY Symmetry
INVARIANTS
    TypeOK
    BusyCountExact
    NoUseAfterClose
    OneOwner
    FilesNotLeaked
    StaleFdRefused
    DiskExact
PROPERTIES
    OpenReturnsFreshFd
CHECK_DEADLOCK FALSE
