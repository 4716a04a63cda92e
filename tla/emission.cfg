SPECIFICATION EmissionSpec
SYMMETRY EmissionSymmetry
CHECK_DEADLOCK FALSE
CONSTANTS
    p1 = p1
    p2 = p2
    r1 = r1
    r2 = r2
    t1 = t1
    LogId = "log"
    Signer = "key"
    Producer = {p1, p2}
    RecordId = {r1, r2}
    Service = {t1}
    Stores = {"stamps", "directory"}
    CadenceEntries = 2
    MaxLog = 3
    MaxEmits = 3
    MaxFaults <- Faults
    FaultCost <- Cost
INVARIANTS
    OneHistory
    BundlesHold
    BundlesSound
PROPERTIES
    StatementsExact
