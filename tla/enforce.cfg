CONSTANTS
    p = p  q = q  own = own  shared = shared
    adm = adm  plain = plain  odd = odd
    IdStart <- Letters
    IdContinue <- LettersAndDigits
    Dashboards = {d}
    Quitters = {d}
    None = none
    Policies = {p, q}
    Hosts <- GatewayHosts
    Tokens <- UserTokens
    Requests <- Asked
    Worlds <- AllWorlds
    Edits <- AllEdits
SPECIFICATION FairSpec
INVARIANTS TypeOK EnforcedAsDeclared NoTornDecision
PROPERTIES ParseExact PolicyWedge RequestsAnswered
