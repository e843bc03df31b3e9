SPECIFICATION Spec
CONSTANTS
    alice = alice
    bob = bob
    carol = carol
    phone = phone
    tablet = tablet
    User = {alice, bob, carol}
    Conversation = {c1, c2, c3, c4}
    m1 = m1
    m2 = m2
    x = x
    y = y
    Message = {m1, m2}
    Content = {x, y}
    plain = plain
    reply = reply
    Extra = {plain, reply}
    Handler = {h1, h2}
    Device = {phone, tablet}
    Owner <- DevicesOfBob
    MaxToken = 2
    Scenarios <- SomeScenarios
    None = None
SYMMETRY Symmetry
INVARIANTS
    TypeOK
    OneConversationPerContact
    OkMeansStored
    AnnouncedOnce
    ReceiptHasMarker
PROPERTIES
    NeverUnreadAgain
    CurrentTokenKept
CHECK_DEADLOCK FALSE
