CONSTANTS
    a = a  b = b  x = x  y = y
    Self = a
    Remotes = {b}
    MaxSerial = 2
    Ids = {x, y}
    Content <- SharedContent
    MaxNow = 2
    Grace = 0
    Requests <- AllOrNewer
    Setters = {s1}
    Getters = {}
    Streamers = {t1}
    Quitters = {t1}
    Cleaner = c
    None = none
SPECIFICATION Spec
INVARIANTS StreamUndisturbed StreamComplete
PROPERTIES StreamAscending WedgedForever
CHECK_DEADLOCK FALSE
