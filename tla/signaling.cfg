SPECIFICATION FairSpec
CONSTANTS
    alice = alice
    bob = bob
    s1 = s1
    s2 = s2
    User = {alice, bob}
    Socket = {s1, s2}
    Account <- OneEach
    Talks <- OneConversation
    Callers = {s1}
    Frail = {s1, s2}
    MaxTasks = 2
    None = None
INVARIANTS
    TypeOK
    TablesAgree
    RelayedToMembersOnly
PROPERTIES
    ClosedIsForgotten
    RevokedIsDropped
CHECK_DEADLOCK FALSE
