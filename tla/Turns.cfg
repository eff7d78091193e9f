SPECIFICATION AllSpec
CONSTANTS
    Sessions = {"s1", "s2", "s3"}
    Kinds = {"edit", "submit", "send", "complete", "review", "triage", "run"}
    Unset = None
    Edits <- PriceEdits
    Documents = {"d1"}
    Slots = {"t1", "t2"}
    Chats = {"s1", "s2"}
    Messages = {"make", "calc", "all", "cand"}
    Ask <- EveryAsk
    Model = FALSE
    MaxSent = 3
    MaxRounds = 1
    MaxCalls = 1
CHECK_DEADLOCK FALSE
INVARIANTS
    AllTyped
    OnlyRunsDeadlock
    TellsWhatHappened
PROPERTIES
    EveryRequestEnds
    MessagesEnd
