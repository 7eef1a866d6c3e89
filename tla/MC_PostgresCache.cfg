SPECIFICATION Spec
CONSTANTS
    Replica = {p1, p2}
    Key = {k1, k2}
    capacity = 2
    Clean = clean
    MaxOps = 5
INVARIANTS
    AppendsSurvive
    OvershootBounded
    
    WaitsEnd
SYMMETRY ReplicaSymmetry
CHECK_DEADLOCK FALSE
