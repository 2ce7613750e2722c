CONSTANTS
    p1 = p1
    w1 = w1
    Positions = {p1}
    Evaluators = {w1}
    AutoSell = TRUE
    Shares = 1
    MaxVersion = 3
    MaxTriggers = 3
SPECIFICATION FairSpec
INVARIANT TypeOK
PROPERTY SignalIsKept ApartTicksSellOnce PendingExitIsSold
CHECK_DEADLOCK FALSE
