CONSTANTS
    Keys = {1, 2}
    Queries <- AllRows
    PageSize = 1
    MaxPage = 1
    MaxIns = 0
    None = None
SPECIFICATION Spec
INVARIANT QueuedIndicesValid
