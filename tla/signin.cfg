CONSTANTS
    None = None
    Tab = {t1, t2}
    Email = {e1}
    Link = {l1, l2}
    Session = {s1, s2}
    Nonce = {n1}
    Budget = 2
    TTL = 1
    Retention = 0
    MaxClock = 1
    MaxId = 2
    Ops = {"request", "open", "complete", "logout", "delete"}
    Faults = {"db", "mail", "lostreply"}
SPECIFICATION Spec
SYMMETRY Sym
CHECK_DEADLOCK FALSE
INVARIANTS NeverStranded SessionsOwned
