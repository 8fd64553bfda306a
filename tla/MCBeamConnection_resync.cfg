SPECIFICATION FairSpec
CONSTANTS
    HeaderSize = 2
    MacSize = 1
    MaxFrameSize = 2
    PayloadSizes = {1}
    MaxFrames = 5
    MaxSends = 6
    NodeTypes <- OpenTraffic
CHECK_DEADLOCK FALSE
INVARIANTS
    KeystreamInSync
    AcceptedInOrder
    DeliveredFaithfully
PROPERTIES
    ImplementsChannel
    FiniteCallsReturn
