SPECIFICATION Spec
CONSTANTS
    Initiator = "alice"
    Responder = "bob"
    SendLimit <- TwoWay
    PageSize = 3
    MaxPages = 2
    MaxFaults = 1
    MaxDeletes = 1
    MaxSkip = 4
    MaxSkippedTotal = 4
    AdvanceEvery = 2
INVARIANTS
    TypeOK
    WireKeysDistinct
    SentMeansStored
    PendingCanBeRetried
    NoKeyConsumedInVain
PROPERTIES
    LedgerSpec
CHECK_DEADLOCK FALSE
