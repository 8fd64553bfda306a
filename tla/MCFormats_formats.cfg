SPECIFICATION FormatsSpec
CONSTANTS
    Huge = 4194304
    ForkHeights <- FourForks
    MantissaBits = 1
    ChainworkBits = 5
    Difficulties = {0, 1, 5, 8}
    Chainworks = {1, 19}
    Heights = {0, 2, 4, 5}
    MaxHeaders = 4
    Bodies <- AllBodies
    BodyPacks <- Packs
    OtherReplies <- AllOtherReplies
    Headings <- ThreeHeadings
    Unsigned = {0, 1, 127, 128, 129, 255, 256, 65535, 65536}
    Signed <- SmallSigned
    MaxWidth = 3
    MaxFields = 2
    Stores <- SomeStores
    Contracts <- SomeContracts
    MaxChanges = 2
CHECK_DEADLOCK FALSE
INVARIANTS
    DecodedIsChain
    HashedUnderTrueRules
    RefusedForReason
    BlocksAsWritten
    ReplyAsSent
    IntegersReadBack
    RangesSelectOwn
    EachKeyOnce
    ReadAsStored
