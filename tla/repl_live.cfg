CONSTANTS
    Nodes = {m, n}
    Slots = {s1, s2, s3}
    MaxSessions = 2
    MaxInc = 0
    MaxTroubles = 0
    Issuers = {m}
    Seekers = {m, n}
    Laggards = {n}
    Cleaners = {}
    None = none
SPECIFICATION FairSpec
PROPERTIES NewestArrives HeldUpForever
CHECK_DEADLOCK FALSE
