SPECIFICATION FairSpec
CONSTANTS
    Conns = {c1, c2}
    Topics = {t1}
    Capacity = 2
    MaxSends = 3
INVARIANTS
    TypeOK
    GoneIsForgotten
    EndIsLast
 
CHECK_DEADLOCK FALSE
