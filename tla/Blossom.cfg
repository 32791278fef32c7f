SPECIFICATION Spec
CONSTANTS
    good = good
    large = large
    plain = plain
    NoBlob = NoBlob
    Handler = {h1, h2}
    Blob = {good, large, plain}
    Size <- MCSize
    Encrypted = {good, large}
    PubKeyLen = 1
    MaxFileSize = 3
    MaxFaults = 1
INVARIANTS
    RowsAreWhole
    DescriptorsHold
    BufferBounded
PROPERTIES
    ErrorsOnlyFromDatabase
    ImplementsContentStore
    RequestsEnd
