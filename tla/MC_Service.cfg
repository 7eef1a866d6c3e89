SPECIFICATION Spec
CONSTANTS
    Document <- Documents
    Probe = {p1, p2}
    Index = {i1, i2}
CHECK_DEADLOCK FALSE
INVARIANTS
    OneTLSFloor
    OldSuccessForgotten
PROPERTY
    EventuallyReady
