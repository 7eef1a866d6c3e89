SPECIFICATION Spec
CONSTANTS
    User = {u1}
    Conversation = {c1, c2, c3}
    Entry = {e1, e2}
    Topic <- MCTopic
    NoConversation = NoConversation
    capacity = 3
    MaxMessages = 4
INVARIANTS
    DequeMatchesCache
    TotalIsExact
    WithinCapacity
    MetadataMatchesHistory
PROPERTIES
    ImplementsStore
