SPECIFICATION PartsSpec
CONSTANTS
    a = a
    b = b
    n1 = n1
    n2 = n2
    n3 = n3
    none = none
    sem = sem
    thread = thread
    suspender = suspender
    Callers = {a, b}
    Commands = {k1, k2}
    NoCommand = none
    MaxRetry = 1
    MtBackends = {"sem"}
    MtSem = sem
    NoCaller = none
    MaxReplies = 2
    Nodes = {n1, n2}
    NumSlots = 2
    Readers = {a, b}
    NoNode = noNode
    NoSlot = noSlot
    TxNodes = {n1, n2, n3}
    Mailboxes = {m1, m2}
    Writers = {a, b}
    NoTxNode = noNode
    NoBox = none
    Users = {thread}
    Suspender = suspender
    Nobody = none
    FifoBackends = {"sem"}
    FifoSem = sem
    MaxWakes = 2
    RxSize = 2
    Requests = {1, 3}
    SizeWidth = 8
    MaxExcess = 1
    TxSize = 2
    Lengths = {3}
    MaxFrames = 5
    Loggers = {a, b}
    Thread = thread
    RingLen = 2
    DropWidth = 3
    MaxLogs = 4
    MaxDrops = 4
    Timers = {a, b}
    NoTimer = none
    Periods = {1, 2}
    ClockWidth = 7
    MaxLag = 1
SYMMETRY Symmetry
CONSTRAINT BeforeDisorder
CHECK_DEADLOCK FALSE
INVARIANT RefreshFiresDue
