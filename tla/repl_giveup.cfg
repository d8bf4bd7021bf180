CONSTANTS
    Nodes = {m, n}
    Slots = {s1,s2,s3}
    MaxSessions = 2
    MaxInc = 0
    MaxTroubles = 0
    Issuers = {m,n}
    Seekers = {m, n}
    Laggards = {m, n}
    Cleaners = {}
    None = none
SPECIFICATION Spec
SYMMETRY SlotSymmetry
INVARIANT GivesUpOnlyDisconnected
CHECK_DEADLOCK FALSE
