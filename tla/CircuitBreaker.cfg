SPECIFICATION BreakerSpec
CONSTANTS
    Calls = {c1, c2, c3}
    Threshold = 2
    Timeout = 2
    HalfOpenMax = 1
    MaxDrift = 3
INVARIANTS
    BreakerTypeOK
    ClosedBelowThreshold
    ProbeAccounting
