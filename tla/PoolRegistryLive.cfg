CONSTANTS
    a = a
    Replicas = {a}
    Requests = {r1, r2}
    Home <- OneReplica
    Families = {"pg"}
    Ids = {1}
    Pools = {p1, p2}
    MaxVer = 1
    AnswersLost = TRUE
    Janitor = Janitor
    None = None
SPECIFICATION FairSpec
PROPERTIES
    RequestsEnd
    IdleEntriesGo
