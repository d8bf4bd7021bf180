CONSTANTS
    a = a  b = b  x = x  y = y
    Self = a
    Remotes = {b}
    MaxSerial = 2
    Ids = {x, y}
    Content <- SharedContent
    MaxNow = 2
    Grace = 0
    Requests <- NoRequests
    Setters = {s1,s2}
    Getters = {g1}
    Streamers = {}
    Quitters = {}
    Cleaner = c
    None = none
SPECIFICATION Spec
INVARIANTS TypeOK StoreOrdered LookupBacked
PROPERTIES LocalSetAccepted OnlyExpiredRemoved ReachableUntilExpiry ImplementsLog
