SPECIFICATION Spec
CONSTANTS
    Call = {a, b}
    MAX_TOOL_CALL_RETRIES = 2
INVARIANTS
    NeverRunsUnapproved
    OneResultPerCall
    ResultsMatchExecution
    StoreIsCleanedUp
PROPERTIES
    RoundEnds
CHECK_DEADLOCK FALSE
