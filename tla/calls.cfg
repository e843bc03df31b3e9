SPECIFICATION FairSpec
CONSTANTS
    alice = alice
    bob = bob
    c1 = c1
    c2 = c2
    Side = {alice, bob}
    CallId = {c1, c2}
    Scenarios <- SomeScenarios
    None = None
INVARIANTS
    TypeOK
    EndedIsReleased
    CandidateKept
PROPERTIES
    RingEnds
CHECK_DEADLOCK FALSE
