\* Two workers, two clients, two files, room for two bytes.
SPECIFICATION MSpec
CONSTANTS
    c1 = c1
    c2 = c2
    w1 = w1
    w2 = w2
    a = a
    b = b
    e = e
    NoClient = NoClient
    SignalThread = SignalThread
    NoThread = NoThread
    NoRequest = NoRequest
    NoFile = NoFile
    Absent = Absent
    Closed = Closed
    Files = {a, b}
    Clients = {c1, c2}
    Workers = {w1, w2}
    Mortal = {c1, c2}
    Signals = {"SIGINT"}
    max_file = 2
    max_mem_size = 2
    Requests <- WriterRequests
SYMMETRY TwoByTwo
INVARIANTS
    QueueExclusion
    WriterKeepsFile
    MemoryBound
    MTypeOK
    ListHoldsFiles
    NothingLeaks
    StatisticsTrue
PROPERTIES
    UnlockedByOwner
