SPECIFICATION DeliverySpec
SYMMETRY ValueAndCourierSymmetry
CONSTANTS
    d1 = d1
    d2 = d2
    w1 = w1
    w2 = w2
    v1 = v1
    v2 = v2
    v3 = v3
    k1 = k1
    None = None
    Courier = {d1, d2}
    Witness = {w1}
    Value = {v1, v2, v3}
    Key = {k1}
    Clients <- AllClients
    Limit = 2
    BaseBackoff = 1
    MaxBackoff = 1
    Jitter = TRUE
    Corrupted = {3}
    Idempotent = FALSE
    MaxFaults = 1
    MaxRefusals = 1
    MaxClears = 1
    MaxTime = 1
    MaxSeq = 3
    MaxAttempts = 2
INVARIANTS
    ReceiptSound
    ReceiptsGapless
PROPERTIES
    ReceiptsKept
    PermanentUntilCleared
