SPECIFICATION FairSpec
CONSTANTS
    PeerIds = {"p1", "p2"}
    Crawlable = {"a1"}
    Unusable = {}
    OtherTypes <- OnlyPings
    Timeout = 1
    MaxClock = 2
    MaxStream = 1
CHECK_DEADLOCK FALSE
PROPERTIES
    EndsAtTimeout
