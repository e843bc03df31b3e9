SPECIFICATION FairSpec
CONSTANTS
    Initiator = "alice"
    Responder = "bob"
    SendLimit <- OneWay
    PageSize = 2
    MaxPages = 3
    MaxFaults = 1
    MaxDeletes = 0
    MaxSkip = 4
    MaxSkippedTotal = 4
    AdvanceEvery = 2
PROPERTIES
    HistoryIsSynchronized
    PendingIsSent
CHECK_DEADLOCK FALSE
