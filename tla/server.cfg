CONSTANTS
    None = None
    Listener = {public, admin}
    Request = {r1}
SPECIFICATION FairSpec
CHECK_DEADLOCK FALSE
INVARIANTS DrainHonest
PROPERTIES Stops EventuallyPurged
