SPECIFICATION Spec
CONSTANTS
    n1 = n1
    n2 = n2
    n3 = n3
    Nodes = {n1, n2, n3}
    RF = 2
    s1 = s1
    s2 = s2
    Sender = {s1, s2}
    Msg <- OneSender
    MsgLen = 4
    BlockSize = 7
    MaxUnfinalizedBlocks = 5
    BlockHistory = 8
    XorOrder <- MCXorOrder
    MaxRestarts = 0
    Slack = 8
    Up = {n2, n3}
    Faults = {"overlap", "lag"}
INVARIANT QuorumBacked
CHECK_DEADLOCK FALSE
