SPECIFICATION Spec
CONSTANTS
    c1 = c1
    c2 = c2
    w1 = w1
    w2 = w2
    a = a
    b = b
    e = e
    NoClient = NoClient
    SignalThread = SignalThread
    NoThread = NoThread
    NoRequest = NoRequest
    NoFile = NoFile
    Absent = Absent
    Closed = Closed
    Files = {a}
    Clients = {c1, c2}
    Workers = {w1, w2}
    Mortal = {}
    Signals = {}
    max_file = 1
    max_mem_size = 1
    Requests <- TurnRequests
INVARIANT
    CallerHoldsMutex
