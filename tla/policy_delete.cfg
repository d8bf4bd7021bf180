CONSTANTS
    Nodes = {n, m}
    Policies = {p}
    selA = selA  selB = selB
    Selectors = {selA, selB}
    None = None
    Prepared <- Clusters
    Qualified = FALSE
    Orders = {1, 2}
    MaxFilters = 3
    MaxCopies = 2
    MaxEdits = 1
SPECIFICATION Spec
PROPERTY DeleteAuthDeletes
CHECK_DEADLOCK FALSE
