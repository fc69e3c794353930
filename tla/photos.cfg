CONSTANTS
    None = None
    Worker = {w1, w2}
    User = {u1}
    Key = {k1, k2, k3}
    DayLength = 2
    Faults = {"io", "crash", "powercut", "lostreply"}
    MaxClock = 3
SPECIFICATION Spec
SYMMETRY Sym
CHECK_DEADLOCK FALSE
INVARIANTS RowsAndFiles OneUploadPerDay SlotHeldWhileProcessing
