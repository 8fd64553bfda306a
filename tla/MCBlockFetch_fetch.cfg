SPECIFICATION Spec
CONSTANTS
    Forks <- TwoForks
    MaxHeight = 2
    MaxMoves = 1
    MaxCalls = 2
    MaxStream = 4
CHECK_DEADLOCK FALSE
INVARIANTS
    FromActiveChain
    TreasuryIsTreasury
    BodiesBelong
