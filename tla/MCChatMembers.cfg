SPECIFICATION MCSpec
CONSTANTS
    Identity = {a, b, c}
    MaxNonce = 2
    MaxTime = 3
    Rank = {0, 1}
    Cooldown = {1}
    Others = {o1, o2, o3, o4}
    MaxRecoveries = 2
    Grants <- MCGrants
    MaxAction = 1
    MaxSteps = 3
SYMMETRY Symmetry
INVARIANT RecoversAgreed
PROPERTY NoAuthorityMinted
PROPERTY ActionSpacing
CHECK_DEADLOCK FALSE
