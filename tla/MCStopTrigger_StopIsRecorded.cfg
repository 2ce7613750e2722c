CONSTANTS
    p1 = p1
    w1 = w1
    Positions = {p1}
    Evaluators = {w1}
    AutoSell = TRUE
    Shares = 1
    MaxVersion = 2
    MaxTriggers = 2
SPECIFICATION FairSpec
PROPERTY StopIsRecorded
CHECK_DEADLOCK FALSE
