SPECIFICATION Spec
CONSTANTS
    Routers = {r1}
    Clients = {c1, c2}
    Decisions = {d1, d2}
    Symbols = {s1}
    ClientKeys = {k1, k2}
    MaxVersion = 2
    MaxPosition = 2
    Shares = 1
    MaxEntries = 1
SYMMETRY Symmetry
CHECK_DEADLOCK FALSE
INVARIANT OneOrderPerApproval SettledTogether OneActiveSell EntriesAreBounded PauseStopsEntries
PROPERTY ApprovedSellIsCovered
