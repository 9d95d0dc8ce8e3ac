\* Files of no and of two units over a socket that holds two.
SPECIFICATION FairSpec
CONSTANTS
    Options <- Library
    Sizes = {0, 2}
    MaxList = 2
    Buffer = 2
    Data = Data
    Crashes = TRUE
    Pause = 1
    abstime = 3
    Slack = 1
CHECK_DEADLOCK FALSE
INVARIANTS
    TypeOK
    InStep
    AttemptsBounded
PROPERTIES
    ImplementsRemoteCall
    EveryCallReturns
