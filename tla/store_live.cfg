CONSTANTS
    a = a  b = b  x = x  y = y
    Self = a
    Remotes = {}
    MaxSerial = 2
    Ids = {x}
    Content <- ShortContent
    MaxNow = 1
    Grace = 0
    Requests <- AllRequests
    Setters = {s1}
    Getters = {g1}
    Streamers = {t1}
    Quitters = {}
    Cleaner = c
    None = none
SPECIFICATION FairSpec
PROPERTIES OperationsReturn ExpiredCleaned

