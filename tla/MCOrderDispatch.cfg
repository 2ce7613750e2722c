SPECIFICATION Spec
CONSTANTS
    NoWorker = NoWorker
    Workers = {w1, w2}
    Clis = {c1}
    MaxOrders = 1
    Quantity = 2
    Expiring = {1}
CHECK_DEADLOCK FALSE
SYMMETRY WorkerSymmetry
INVARIANTS
    TypeOK
    SentAtMostOnce
    CancelledAtMostOnce
    RejectedStaysOut
    RowsAreConsistent
    ClosedRowsMatchBroker
    CertainWhenReady
