SPECIFICATION Spec
CONSTANTS
    Requests <- OneRequest
    NodeChatter <- OnlyPings
    Contexts = {1}
    RequestTimeout = 1
    MaxCalls = 2
    MaxContexts = 0
    MaxStream = 2
CHECK_DEADLOCK FALSE
INVARIANTS
    OwnAnswer
