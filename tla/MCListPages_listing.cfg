SPECIFICATION Spec
CONSTANTS
    MaxId = 3
    PageSize = 2
    MaxLimit = 2
    MaxChanges = 1
    MaxCalls = 2
CHECK_DEADLOCK FALSE
INVARIANTS
    ListingComplete
    MoreIsHonest
    PagesAdvance
