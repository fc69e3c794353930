CONSTANTS
    None = None
    Worker = {w1, w2}
    Key = {c1, c2, c3}
    Burst = 2
    Refill = 2
    IdleTTL = 6
    MaxBuckets = 2
    ReapSample = 1
    MaxDelay = 1
    MaxClock = 9
SPECIFICATION Spec
CHECK_DEADLOCK FALSE
SYMMETRY Sym
INVARIANTS MapBounded
PROPERTIES Indistinguishable
