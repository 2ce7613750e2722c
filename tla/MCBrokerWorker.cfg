SPECIFICATION Spec
CONSTANTS
    NoWorker = NoWorker
    Workers = {w1, w2}
    Clis = {c1}
    BackoffSteps = 2
SYMMETRY WorkerSymmetry
INVARIANTS
    TypeOK
    TokensFence
    ReadyIsEarned
PROPERTIES
    FencedWrites
    LeaseSpec
