SPECIFICATION LedgerSpec
CHECK_DEADLOCK FALSE
SYMMETRY CapsuleSymmetry
CONSTANTS
    c1 = c1
    c2 = c2
    c3 = c3
    c4 = c4
    None = None
    Capsule = {c1, c2, c3, c4}
    Threshold = 2
    Scenarios <- EnvelopeIgnored
INVARIANTS
    AuthenticityKept
