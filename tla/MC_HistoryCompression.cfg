SPECIFICATION HistorySpec
CONSTANTS
    Request = {r1}
    entries_to_keep = 2
    max_attempts = 3
    MaxTokens = 2
    MaxBudget = 4
    MaxTurns = 5
INVARIANTS
    CompressionFaithful
    NothingLost
    InOrder
PROPERTIES
    RequestEnds
