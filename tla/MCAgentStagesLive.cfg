SPECIFICATION FairSpec
CONSTANTS
    Workers = {w1, w2}
    NoWorker = NoWorker
    Runs = {r1}
    Scouts = {"TECHNICAL_SCOUT"}
    Failover = {"CORE"}
CHECK_DEADLOCK FALSE
CONSTRAINT BeforeLate
PROPERTIES
    RunEnds
