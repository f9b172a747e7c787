SPECIFICATION FairSpec
CONSTANTS
    Conns = {c1, c2}
    Shapes <- AllShapes
    MaxRequests = 2
    BUFFER_INITIAL_CAPACITY = 3
    BUFFER_POOL_MAX_SIZE = 1
    max_header_bytes = 2
    MAX_BODY_BYTES = 2
CHECK_DEADLOCK FALSE

    
    
PROPERTIES
    BodySettles
