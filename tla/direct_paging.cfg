SPECIFICATION FairSpec
CONSTANTS
    Initiator = "alice"
    Responder = "bob"
    SendLimit <- Answering
    PageSize = 2
    MaxPages = 4
    MaxFaults = 0
    MaxDeletes = 0
    MaxSkip = 4
    MaxSkippedTotal = 4
    AdvanceEvery = 2
PROPERTIES
    HistoryIsSynchronized
CHECK_DEADLOCK FALSE
