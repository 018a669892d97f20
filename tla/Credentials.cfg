CONSTANTS
    r1 = r1
    r2 = r2
    a = a
    Replicas = {a}
    Requests = {r1, r2}
    Home <- OneReplica
    Ids = {1, 2}
    Secrets = {"s", "t"}
    MaxStage = 3
    Empty = Empty
    None = None
SPECIFICATION Spec
INVARIANTS
    TypeOK
    LostOnlyIfRaced
    RewrittenUnlessCopied
    DecryptableUnlessCopied
