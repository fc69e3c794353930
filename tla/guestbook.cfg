CONSTANTS
    None = None
    Account = {a, b}
    Handle = {ha, hb}
    Visitor = {v1, v2}
    MaxEntries = 3
    PageLimit = 1
    OwnerLimit = 2
SPECIFICATION MCFairSpec
CHECK_DEADLOCK FALSE
INVARIANTS BookIntact
PROPERTIES EntriesGuarded DeletionEnds
