SPECIFICATION Spec
CONSTANTS
    n1 = n1
    n2 = n2
    r1 = r1
    r2 = r2
    Key = {n1, n2}
    Email = {e1}
    Kind = {signed}
    Default = {signed}
    Req = {r1, r2}
    None = None
    MaxTokens = 2
SYMMETRY Symmetry
INVARIANTS
    TypeOK
    SettingsAsChosen
    LinksStayValid
    UnsubscribeStopsMail
CHECK_DEADLOCK FALSE
