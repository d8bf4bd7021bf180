CONSTANTS
    a = a  k1 = k1  k2 = k2  p = p
    Nodes = {m, n}
    Requests = {r1}
    Mortal = {m}
    Policies <- OnePolicy
    Changes <- OnePolicy
    Roles = {a}
    Strays <- NoStrays
    AccessTTL = 0
    Unlimited = TRUE
    RefreshTTL = 1
    Grace = 0
    MaxNow = 2
    MaxSessions = 2
    None = none
SPECIFICATION Spec
INVARIANTS TypeOK TokensGranted CookieBacked
PROPERTY RevokedInTime
