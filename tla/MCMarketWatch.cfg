SPECIFICATION WatchSpec
CONSTANTS
    Market = "NXT"
    MaxTime = 10
    PerMinute = 2
    PerDay = 4
    MaxTrades = 3
    MaxBooks = 2
    Skew = 2
    Leeway = 1
CHECK_DEADLOCK FALSE
INVARIANTS
    VolumeIsNotCountedTwice
PROPERTIES
    SnapshotNeverGoesBack
