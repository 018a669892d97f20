CONSTANTS
    Clients = {c1, c2}
    Requests = {r1, r2}
    Max = 2
    Period = 2
    MaxKeys = 1
    MaxLag = 2
    MaxClock = 5
    None = None
SYMMETRY Symmetric
SPECIFICATION Spec
INVARIANTS
    TypeOK
    TableBounded
    BurstBound
PROPERTIES
    WindowsApart
    RefusedOnlyIfSpent
