SPECIFICATION CirculationSpec
CONSTANTS
    Huge = 4194304
    FirstDrop = 3
    DropCycle = 2
    Subsidies = {0, 1, 2, 3, 4, 7, 16, 31, 50}
    Starts = {0, 1, 2, 3, 4, 5, 6, 7, 9}
    Stops = {0, 1, 3, 4, 5, 6, 8, 9, 14, 20}
    Schedules <- SmallSchedules
    Treasuries <- SmallTreasuries
    Cuts <- FewCuts
CHECK_DEADLOCK FALSE
INVARIANTS
    EmissionIsSum
    TreasuryByPeriods
    KernelReadersAgree
    TreasuryOfBlob
PROPERTIES
    Returns
