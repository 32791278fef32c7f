SPECIFICATION Spec
CONSTANTS
    Word = 16777216
    Sum = {0, 1, 2, 100, 361, 5000}
    Percent = {0, 4, 150}
    Due <- MCDue
    holder = holder
    q1 = q1
    q2 = q2
    q3 = q3
    None = None
    Quote = {q1, q2, q3}
    Holder = {holder}
    HolderOf <- MCHolderOf
    Small = {q1, q2, q3}
    MaxRequests = 2
    Retention = 1
    MaxTime = 2
    MaxFailures = 1
INVARIANT
    DeniesOnlySpam
