SPECIFICATION Spec
CONSTANTS
    Clients = {c1, c2}
    Requests = {r1, r2}
    Fields = {f1, f2}
    max_per_shard = 2
    max_age = 1
    max_data_size = 1
    MaxIds = 4
    MaxNow = 2
SYMMETRY Symmetry
CHECK_DEADLOCK FALSE
INVARIANTS
    SessionsIsolated
