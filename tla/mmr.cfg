SPECIFICATION MmrSpec
SYMMETRY DigestSymmetry
CONSTANTS
    x1 = x1
    x2 = x2
    Digest = {x1, x2}
    MaxRecords = 8
INVARIANTS
    NodesAreForest
    SizesExact
    InclusionExact
    ConsistencyExact
    RangeExact
