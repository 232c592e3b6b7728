SPECIFICATION Spec
CONSTANTS
    Workers = {w1}
    Slots = {s1}
    Files = {f1}
    Dirs = {d1}
    NoObj = NoObj
    MaxGen = 1
    MaxFsid = 1
    AnyFd = FALSE
INVARIANTS
    OpenFindsSlot
CHECK_DEADLOCK FALSE
