SPECIFICATION Spec
SYMMETRY ValueAndRunnerSymmetry
CONSTANTS
    r1 = r1
    r2 = r2
    k1 = k1
    k2 = k2
    w1 = w1
    v1 = v1
    v2 = v2
    v3 = v3
    None = None
    Runner = {r1, r2}
    Value = {v1, v2, v3}
    Key = {k1, k2}
    Witness = {w1}
    KeyOf <- SameKey
    WitnessIds <- OneWitness
    Once = {}
    Notified = {}
    CadenceEntries = 3
    CadenceAge = 1
    ScanLimit = 2
    MaxTime = 2
    MaxCrashes = 1
    MaxSeq = 3
    MaxAttempts = 1
INVARIANTS
    TypeOK
    ChainSound
    IndexFollowsLog
    FirstPendingExact
    BacklogBounded
    RowsMatchChain
PROPERTIES
    AppendOnly
    ImplementsChain
