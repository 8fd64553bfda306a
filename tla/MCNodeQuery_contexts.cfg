SPECIFICATION FairSpec
CONSTANTS
    Requests <- OneRequest
    NodeChatter <- ContextNews
    Contexts = {1}
    RequestTimeout = 1
    MaxCalls = 2
    MaxContexts = 2
    MaxStream = 3
CHECK_DEADLOCK FALSE
INVARIANTS
    AnswerUnderContext
    ContextsConsistent
PROPERTIES
    CallsEnd
