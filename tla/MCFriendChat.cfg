SPECIFICATION MCSpec
CONSTANTS
    MaxKept = 1
    KyberPeriod = 3
    Faults = {"reorder", "duplicate", "replay", "lose", "unacked", "overlap", "parallel"}
    MaxFaults = 2
    MaxSends = 3
    Chats = {c1, c2}
    QueueCap = 1
    ChannelCap = 1
    MaxReceivers = 2
    MaxAsks = 1
    MaxEvents = 3
SYMMETRY Symmetry
INVARIANTS
    RatchetsAgree
    ReadKeysAreGone
    KeysAreFresh
    MajorsAlternate
    MatchWhenQuiet
    AnswersArrive
    NoGaps
    CallsAgree
CHECK_DEADLOCK FALSE
