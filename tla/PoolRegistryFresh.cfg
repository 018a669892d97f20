CONSTANTS
    a = a
    Replicas = {a}
    Requests = {r1, r2}
    Home <- OneReplica
    Families = {"pg", "redis"}
    Ids = {1}
    Pools = {p1, p2, p3}
    MaxVer = 2
    AnswersLost = FALSE
    Janitor = Janitor
    None = None
SYMMETRY Symmetric
SPECIFICATION Spec
INVARIANT FreshOnceForgotten
