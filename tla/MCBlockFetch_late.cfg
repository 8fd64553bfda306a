SPECIFICATION Spec
CONSTANTS
    Forks <- OneFork
    MaxHeight = 2
    MaxMoves = 1
    MaxCalls = 3
    MaxStream = 3
CHECK_DEADLOCK FALSE
INVARIANTS
    OneBlockPerHeader
