SPECIFICATION HistorySpec
CONSTANTS
    Request = {r1, r2}
    entries_to_keep = 1
    max_attempts = 1
    MaxTokens = 2
    MaxBudget = 4
    MaxTurns = 4
INVARIANT NothingLost
