SPECIFICATION FairSpec
CONSTANTS
    Requests = {1, 2}
    RESPONSE_POOL_MAX = 1
    MaxAwaits = 1
    LateUse = FALSE
CHECK_DEADLOCK FALSE
INVARIANTS
    PoolsExclusive
    OwnResponse

    
