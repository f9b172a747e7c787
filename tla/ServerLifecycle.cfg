SPECIFICATION FairSpec
CONSTANTS
    Workers = {w1, w2}
    Conns = {c1, c2}
    MAX_CONNECTIONS_PER_WORKER = 1
    Expires = TRUE
CHECK_DEADLOCK FALSE
INVARIANTS
    LifecycleSafe

    
