SPECIFICATION Spec
CONSTANTS
    Initiator = "alice"
    Responder = "bob"
    MaxSeals = 5
    MaxSkip = 1
    MaxSkippedTotal = 2
    AdvanceEvery = 2
INVARIANTS
    TypeOK
    KeySealsOneMessage
    DelayedStaysReadable
    ReplayNeverOpens
    UsedKeysAreGone
    SkippedBounded
CHECK_DEADLOCK FALSE
