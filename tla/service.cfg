SPECIFICATION FairServiceSpec
CONSTANTS
    r1 = r1
    r2 = r2
    d1 = d1
    w1 = w1
    v1 = v1
    v2 = v2
    k1 = k1
    None = None
    Runner = {r1}
    Courier = {d1}
    Witness = {w1}
    Value = {v1, v2}
    Key = {k1}
    KeyOf <- SameKey
    WitnessIds <- AllWitnesses
    Clients <- AllClients
    Once = {}
    Notified = {}
    CadenceEntries = 2
    CadenceAge = 1
    ScanLimit = 2
    MaxCrashes = 2
    MaxTime = 1
    Limit = 2
    BaseBackoff = 1
    MaxBackoff = 1
    Jitter = FALSE
    Corrupted = {}
    Idempotent = TRUE
    MaxFaults = 2
    MaxRefusals = 1
    MaxClears = 1
    MaxSeq = 2
    MaxAttempts = 9
INVARIANTS
    WitnessFollowsChain
PROPERTIES
    EveryEntryWitnessed
    ReceiptsKept
