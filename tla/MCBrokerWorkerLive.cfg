SPECIFICATION FairSpec
CONSTANTS
    NoWorker = NoWorker
    Workers = {w1, w2}
    Clis = {}
    BackoffSteps = 1
CHECK_DEADLOCK FALSE
PROPERTIES
    SupersededWorkerEnds
    StandbyTakesOver
