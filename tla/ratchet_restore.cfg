SPECIFICATION RestoreSpec
CONSTANTS
    Initiator = "alice"
    Responder = "bob"
    MaxSeals = 4
    MaxSkip = 2
    MaxSkippedTotal = 3
    AdvanceEvery = 2
INVARIANTS
    RestoredKeysSingleUse
CHECK_DEADLOCK FALSE
