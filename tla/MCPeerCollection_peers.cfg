SPECIFICATION Spec
CONSTANTS
    PeerIds = {"p1", "p2"}
    Crawlable = {"a1"}
    Unusable = {"u"}
    OtherTypes <- ControlTypes
    Timeout = 1
    MaxClock = 2
    MaxStream = 3
CHECK_DEADLOCK FALSE
INVARIANTS
    FirstAdvertisementKept
    AtMostOneLate
    KeepAliveAnswered
