SPECIFICATION Spec
CONSTANTS
    r1 = r1
    r2 = r2
    c1 = c1
    c2 = c2
    e1 = e1
    e2 = e2
    Node = {n1}
    Company = {}
    Personal = Personal
    Email = {e1, e2}
    NoEmail = NoEmail
    Code = {c1, c2}
    NoCode = NoCode
    Req = {r1, r2}
    ChallengeTtl = 0
    ConfirmationExpiry = 0
    MaxWrongTries = 2
    MaxChallenges = 2
    MaxIssues = 2
    MaxTime = 1
SYMMETRY Symmetry
INVARIANTS
    TypeOK
    WrongEntriesBounded
    OnlyProvedAddresses
    NoLostConfirmation
    EnsAgreesWithRegistration
    ChallengeReplayBounded
PROPERTIES
    ImplementsAddressBook
CHECK_DEADLOCK FALSE
