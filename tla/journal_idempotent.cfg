SPECIFICATION JournalSpec
SYMMETRY ValueSymmetry
CONSTANTS
    k1 = k1
    w1 = w1
    v1 = v1
    v2 = v2
    None = None
    Value = {v1, v2}
    Key = {k1}
    Witness = {w1}
    Time = {0, 1}
    MaxSeq = 2
    MaxAttempts = 1
    MaxLines = 6
    MaxFaults = 3
INVARIANTS
    ReturnedIsDurable
