SPECIFICATION Spec
CONSTANTS
    Requests <- TwoRequests
    NodeChatter <- KeepAliveAndTip
    Contexts = {1}
    RequestTimeout = 0
    MaxCalls = 3
    MaxContexts = 0
    MaxStream = 3
CHECK_DEADLOCK FALSE
INVARIANTS
    StaleOnlyAfterGivingUp
    AnswersInOrder
    KeepAliveAnswered
    NextTip
