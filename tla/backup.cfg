CONSTANTS
    Nil = Nil
    Proc = {p, q}
    DayLength = 3
    KeepDays = 3
    Slack = 2
    RunTicks = 1
    MaxClock = 11
    MaxRuns = 3
SYMMETRY ProcSymmetry
SPECIFICATION BackupSpec
CHECK_DEADLOCK FALSE
INVARIANTS BackupsKept
PROPERTIES PingHonest
