SPECIFICATION Spec
CONSTANTS
    context_window_size = 30
    max_response_tokens = 4
    max_tool_tokens = 12
    round_cap_percent = 60
    MINIMUM_CONTEXT_TOKEN_LIMIT = 3
    WarningTokens = 1
    ToolName = {"get"}
    RetrievalTool = {"search"}
    max_iterations = 2
    mode_default = 3
    MIN_TOOL_EXECUTION_TOKENS = 3
    NoticeTokens = 1
    Lengths = {1, 9, 13}
    OutputLengths = {1, 9}
    MaxItems = 2
INVARIANTS
    CallsAnswered
    LoopIsBounded
    TooLongIsExplained
    OffloadedIsReachable
    NoFileLeftBehind
