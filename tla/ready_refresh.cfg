CONSTANTS
    e = e  f = f
    Endpoints = {e, f}
    Self = self
    Modes = {"static", "dns", "none"}
    StaticPeers = {e, f, self}
    Zones <- Churn
    MaxConns = 2
    MaxRuns = 2
    Inbound = {f}
    Laggards = {f}
SPECIFICATION FairSpec
INVARIANTS TypeOK NoOrphan WaitsForCurrent
PROPERTY ReadyUnlessMissed
CHECK_DEADLOCK FALSE
