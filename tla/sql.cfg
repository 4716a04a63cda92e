SPECIFICATION SqlSpec
SYMMETRY SqlSymmetry
CONSTANTS
    h1 = h1
    h2 = h2
    k1 = k1
    w1 = w1
    v1 = v1
    v2 = v2
    None = None
    Handle = {h1, h2}
    Dialects = {"sqlite", "mysql"}
    Value = {v1, v2}
    Key = {k1}
    Witness = {w1}
    Time = {0}
    MaxSeq = 2
    MaxAttempts = 1
    MaxFaults = 1
INVARIANTS
    LoadedTogether
    AppendsOnce
PROPERTIES
    CommitsAsEngine
