SPECIFICATION Spec
CONSTANTS
    Thread = {t1, t2}
    NoThread = none
    MaxConnections = 2
INVARIANTS
    AcknowledgedIsStored
CHECK_DEADLOCK FALSE
