CONSTANTS
    k1 = k1
    k2 = k2
    k3 = k3
    f1 = f1
    f2 = f2
    f3 = f3
    f4 = f4
    s1 = s1
    NoKey = NoKey
    Keys = {k1, k2, k3}
    FillKeys = {f1, f2, f3, f4}
    Symbols = {s1}
    Shares = 3
SPECIFICATION Spec
SYMMETRY Symmetry
INVARIANT TypeOK OneReplacement QuantitiesFit FillsAreCounted ReservedIsCovered
CHECK_DEADLOCK FALSE
