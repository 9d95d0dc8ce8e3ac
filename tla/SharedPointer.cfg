SPECIFICATION Spec
CONSTANTS
    k1 = k1
    k2 = k2
    k3 = k3
    w1 = w1
    w2 = w2
    w3 = w3
    NoConn = NoConn
    Workers = {w1, w2}
    Conns = {k1, k2, k3}
    Descriptors = {3, 4}
    Signals = {}
CHECK_DEADLOCK FALSE
SYMMETRY Alike
INVARIANT
    QueueHoldsDescriptors
