SPECIFICATION MigrationSpec
CONSTANTS
    e1 = e1
    e2 = e2
    Node = {n1}
    Company = {co}
    Personal = Personal
    Email = {e1, e2}
    NoEmail = NoEmail
    Code = {c1}
    NoCode = NoCode
    Req = {r1}
    ChallengeTtl = 0
    ConfirmationExpiry = 0
    MaxWrongTries = 1
    MaxChallenges = 1
    MaxIssues = 2
    MaxTime = 0
SYMMETRY Symmetry
CHECK_DEADLOCK FALSE
INVARIANTS
    OnlyLateRegistrationsMissing
PROPERTIES
    FrozenOnceDrained
    ImportAllOrNothing
