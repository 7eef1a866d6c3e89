SPECIFICATION Spec
CONSTANTS
    User = {u1}
    Cluster = cluster
    None = none
    Limiters <- Both
    Request = {r1, r2}
    Replica = {p1,p2}
    MaxTokens = 1
    MaxUsage = 2
    MaxTime = 2
INVARIANTS
    DebitsLand
    OverdraftBounded
    HistoryCoversDebits
    OncePerPeriod
SYMMETRY Symmetry
