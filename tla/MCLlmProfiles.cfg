SPECIFICATION Spec
CONSTANTS
    p1 = p1
    p2 = p2
    m1 = m1
    m2 = m2
    a1 = a1
    a2 = a2
    b1 = b1
    b2 = b2
    Providers = {p1, p2}
    Models = {m1, m2}
    Routes = {a1, a2, b1, b2}
    Requests = {q1, q2}
    Roles = {"SCOUT", "CORE"}
    Mock = {p2}
    Name <- MCName
    ProviderOf <- MCProviderOf
    Role <- MCRole
    Primary <- MCPrimary
    Fallback <- MCFallback
    MaxRequests = 3
SYMMETRY Symmetry
CHECK_DEADLOCK FALSE
INVARIANTS
    OneAssignment
    CallsWhatWasFrozen
PROPERTIES
    RetiredStaysRetired
