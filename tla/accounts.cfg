CONSTANTS
    None = None
    Worker = {w1, w2, w3}
    Addr = {a, s, c1, c2}
    Claiming = {c1, c2}
    Closing = {s}
    Token = {t1, t2, t3}
    Handle = {h}
    Ops = {"request", "complete", "delete", "claim", "purgeTokens", "purgeHandles"}
    SignedUp = {s, c1, c2}
    LoginBudget = 2
    LoginBudgetWindow = 2
    TokenTTL = 2
    PurgeRetention = 1
    Reservation = 3
    MaxSkew = 1
    MaxTxTime = 1
    MaxClock = 5
SPECIFICATION MCSpec
SYMMETRY Sym
CHECK_DEADLOCK FALSE
INVARIANTS LinkRules InboxBudget WayIn HandleRules NobodyStuck
PROPERTIES NoResurrection Serializable
