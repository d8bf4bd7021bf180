CONSTANTS
    Nodes = {m, n}
    Slots = {s1,s2,s3}
    MaxSessions = 2
    MaxInc = 1
    MaxTroubles = 1
    Issuers = {m}
    Seekers = {n}
    Laggards = {}
    Cleaners = {n}
    None = none
SPECIFICATION Spec
SYMMETRY SlotSymmetry
INVARIANTS TypeOK OnlyIssued ReportHeld JoinGapFree OneReestablisher
CHECK_DEADLOCK FALSE
