SPECIFICATION FairSpec
CONSTANTS
    Schedulers = {s1, s2}
    NoScheduler = NoScheduler
    Targets = {t1, t2}
    Held = {t1}
    MaxSlot = 2
    MaxToken = 2
CHECK_DEADLOCK FALSE
PROPERTIES
    KeepsLedger
    LastSlotCloses
