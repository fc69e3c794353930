CONSTANTS
    NoValue = NoValue
    Req = {r, s}
    LoginBudget = 2
    Window = 4
    SendTimeout = 2
    DialLimit = 3
    MaxTime = 7
    LastRequest = 4
    MaxLinks = 4
SPECIFICATION MailFairSpec
CHECK_DEADLOCK FALSE
INVARIANTS MailHonest SendTimed
PROPERTIES RequestEnds
