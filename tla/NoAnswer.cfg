\* Files of up to two units over a socket that holds two.
SPECIFICATION FairSpec
CONSTANTS
    Options <- CommandLine
    Sizes = {0, 1, 2}
    MaxList = 2
    Buffer = 2
    Data = Data
    Crashes = FALSE
    Pause = 1
    abstime = 3
    Slack = 1
CHECK_DEADLOCK FALSE
PROPERTY
    EveryRequestAnswered
