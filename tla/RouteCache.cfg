SPECIFICATION CacheSpec
CONSTANTS
    Keys = {k1, k2, k3}
    Tags = {t1, t2}
    MaxOptions = {2, 3}
INVARIANTS
    SoundUntilReuse
