SPECIFICATION ThreadSpec
CONSTANTS
    User = {u1}
    Conversation = {c1, c2}
    Entry = {e1}
    Topic <- MCTopic
    NoConversation = NoConversation
    None = None
    Thread = {t1, t2}
    capacity = 2
    MaxMessages = 3
INVARIANTS
    TotalSurvivesRaces
    ReadableIsListed
PROPERTIES
    EveryOperationEnds
