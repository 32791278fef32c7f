SPECIFICATION Spec
CONSTANTS
    s1 = s1
    s2 = s2
    n1 = n1
    n2 = n2
    NoSeed = NoSeed
    NoNetwork = NoNetwork
    Seed = {s1, s2}
    Network = {n1, n2}
    Config <- MCConfig
    Handler = {h1, h2}
    Event = {e1}
    MaxFaults = 2
INVARIANTS
    ServesOwnSeed
    CreatedOnlyByOverlap
PROPERTIES
    EventsHandled
