SPECIFICATION Spec
CONSTANTS
    N = 4
    REQUEST_POOL_MAX = 1
    ROUTE_CACHE_PROMOTE_HITS = 2
    HOT_HIT_THRESHOLD = 1
    STABLE_RESPONSE_THRESHOLD = 2
    MaxGen = 2
    Routes <- MCRoutes
    Chains <- MCChains
    Sample <- MCSample
    Byte = 4
    METHOD_CODES = {1, 2}
    Sentinel <- MCSentinel
    Magic <- MCMagic
    Messages <- MCMessages
    Keys = {"a", "b", "__proto__"}
CHECK_DEADLOCK FALSE
INVARIANTS
    
    PlanCovers
    
    ReadsOwn
    PoolExclusive
    PromotionSound
