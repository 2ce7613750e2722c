SPECIFICATION Spec
CONSTANTS
    Workers = {w1, w2}
    NoWorker = NoWorker
    Runs = {r1}
    Scouts = {"TECHNICAL_SCOUT", "POSITION_RISK_SCOUT"}
    Failover = {}
CHECK_DEADLOCK FALSE
SYMMETRY Symmetry
CONSTRAINT BeforeLate
INVARIANTS
    NoResend
    RunAgreesWithStages
PROPERTIES
    FusedFromComplete
