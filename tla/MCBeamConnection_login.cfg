SPECIFICATION Spec
CONSTANTS
    HeaderSize = 2
    MacSize = 1
    MaxFrameSize = 2
    PayloadSizes = {0, 2}
    MaxFrames = 4
    MaxSends = 6
    NodeTypes <- LoginTraffic
CHECK_DEADLOCK FALSE
INVARIANTS
    TypeOK
    SwitchAtReady
    AnsweredInLogin
    NoSilentLoss
PROPERTIES
    ErrorsExplained
