SPECIFICATION MCSpec
CONSTANTS
    s1 = s1
    s2 = s2
    s3 = s3
    Servers = {s1, s2, s3}
    RF = 2
    k1 = k1
    k2 = k2
    Keys = {k1, k2}
    MailLen = 2
    MailBoxCap = 9
    MaxVaultKeys = 3
    EventCap = 1
    Faults = {"overlap", "unreachable", "timeout", "restart", "crash", "defer", "edit", "login", "other", "unsubscribe", "self"}
    MaxFaults = 1
    MaxCalls = 3
    MaxSessions = 2
    MaxEdits = 2
    MaxLeaves = 9
INVARIANTS
    MailNotLost
    MailOnce
    VaultIsWhole
    VaultSaved
    TreeOfLeaves
SYMMETRY Symmetry
CHECK_DEADLOCK FALSE
