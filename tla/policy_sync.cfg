CONSTANTS
    Nodes = {n}
    Policies = {p}
    selA = selA  selB = selB
    Selectors = {selA, selB}
    None = None
    Prepared <- Clusters
    Qualified = FALSE
    Orders = {1, 2}
    MaxFilters = 3
    MaxCopies = 2
    MaxEdits = 1
SPECIFICATION FairSpec
INVARIANT TypeOK
PROPERTIES KeyStable StoreFollows FiltersMatch ComesToRest
CHECK_DEADLOCK FALSE
