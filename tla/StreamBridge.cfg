SPECIFICATION StreamFairSpec
CONSTANTS
    Streams = {s1, s2}
    Payloads = {x, y}
    Empty = empty
    Capacity = 1
    MaxWrites = 3
    ShardOf <- OneShard
CHECK_DEADLOCK FALSE
INVARIANTS
    BodyKept

    
