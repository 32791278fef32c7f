SPECIFICATION Spec
CONSTANTS
    Addr = {c1, c2}
    Event <- MCEvent
    Chains = {"bill"}
    ChainRateLimit = 2
    ChainRateWindow = 3
    MaxIdle = 1
    PruneInterval = 2
    MaxTime = 5
INVARIANTS
    TypeOK
    GrantsBounded
    RefusesOnlySpent
    MapHoldsRecent
