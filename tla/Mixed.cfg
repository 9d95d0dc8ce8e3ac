SPECIFICATION Spec
CONSTANTS
    c1 = c1
    c2 = c2
    w1 = w1
    w2 = w2
    a = a
    b = b
    e = e
    NoClient = NoClient
    SignalThread = SignalThread
    NoThread = NoThread
    NoRequest = NoRequest
    NoFile = NoFile
    Absent = Absent
    Closed = Closed
    Files = {a, b, e}
    Clients = {c1, c2}
    Workers = {w1, w2}
    Mortal = {}
    Signals = {}
    max_file = 2
    max_mem_size = 2
    Requests <- MixedRequests
SYMMETRY TwoByTwo
CHECK_DEADLOCK FALSE
INVARIANTS
    TypeOK
    UniquePathnames
    FileLockExclusion
    NoLostWakeup
PROPERTIES
    ImplementsLockTable
    GrantIsTrue
