SPECIFICATION Spec
CONSTANTS
    MaxKept = 1
    KyberPeriod = 3
    Faults = {}
    MaxFaults = 0
    MaxSends = 2
INVARIANT AllDelivered
CHECK_DEADLOCK FALSE
