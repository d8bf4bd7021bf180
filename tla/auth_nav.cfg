CONSTANTS
    a = a  k1 = k1  k2 = k2  p = p
    Nodes = {m}
    Requests = {r1, r2}
    Mortal = {m}
    Policies <- BothPolicies
    Changes <- AnyChange
    Roles = {a}
    Strays <- OldLinks
    AccessTTL = 0
    Unlimited = FALSE
    RefreshTTL = 1
    Grace = 0
    MaxNow = 1
    MaxSessions = 16
    None = none
SPECIFICATION FairSpec
PROPERTY NavigationEnds
