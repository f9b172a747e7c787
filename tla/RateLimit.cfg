SPECIFICATION LimitSpec
CONSTANTS
    Namespace <- MCNamespace
    Limit = 2
    Windows = {1, 2}
    Costs = {1, 2}
    MS = 2
    MAX_RATE_LIMIT_ENTRIES = 2
    EVICTION_TARGET = 1
    EVICT_STALE_THRESHOLD_MS = 2
    U32_MAX = 100
    MaxMs = 8
CHECK_DEADLOCK FALSE
INVARIANTS
    WindowsSound
    RetryAfterSuffices
