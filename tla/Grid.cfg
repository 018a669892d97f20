CONSTANTS
    Keys = {1, 2}
    Queries <- Filtered
    PageSize = 1
    MaxPage = 0
    MaxIns = 1
    None = None
SPECIFICATION Spec
INVARIANTS
    TypeOK
    InsertedOnce
    AutoMeansEmpty
    NeverUpdatedAndDeleted
PROPERTY
    DeletesHitConfirmed
VIEW NoTrace
