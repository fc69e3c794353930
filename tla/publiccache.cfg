CONSTANTS
    Nothing = Nothing
    Name = {n}
    Mood = {m1, m2}
    Key = {k1, k2}
    MaxChanges = 4
SPECIFICATION CacheFairSpec
CHECK_DEADLOCK FALSE
INVARIANTS CacheSound
PROPERTIES NotModifiedHonest CardCatchesUp
