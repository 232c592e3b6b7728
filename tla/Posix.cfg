SPECIFICATION SpecAll
CONSTANTS
    MaxSockets = 2
    Backlog = 2
    BufSize = 2
    MaxBytes = 3
    Pcbs = {p1, p2, p3}
    NoPcb = NoPcb
    Fds = {3, 4}
    ServerFds = {s1, s2}
    NoServerFd = NoServerFd
    Paths <- DirAndFile
    Chunk = 1
    Buffers = 3
    MaxSize = 2
    Lengths = {2}
    Offsets = {0}
    WordSize = 64
    Page = 4
    Area = 8
    Size = 16
    MaxLength = 20
SYMMETRY Symmetry
INVARIANTS
    SlotsAccounted
    CallbacksReachSocket
    StreamExact
    CallersWake
    FdsNameFiles
    TransferExact
    MemoryHandedOutOnce
PROPERTIES
    ServerFdLostByFailure
CHECK_DEADLOCK FALSE
