SPECIFICATION Spec
CONSTANTS
    Initiator = "alice"
    Responder = "bob"
    SendLimit <- TwoWay
    PageSize = 3
    MaxPages = 2
    MaxFaults = 0
    MaxDeletes = 1
    MaxSkip = 4
    MaxSkippedTotal = 4
    AdvanceEvery = 2
INVARIANTS
    MaySyncAgain
CHECK_DEADLOCK FALSE
