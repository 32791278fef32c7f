SPECIFICATION Spec
CONSTANTS
    Email = {e1}
    Node = {n1}
    EmailLimit = 2
    EmailWindow = 2
    NodeLimit = 1
    NodeWindow = 1
    MaxIdle = 2
    PruneInterval = 2
    MaxTime = 5
INVARIANTS
    OnlyExpiredForgotten
    WindowBound
PROPERTY
    DecidesLikeFullHistory
