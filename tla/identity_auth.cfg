SPECIFICATION Spec
CONSTANTS
    Key = {k1, k2}
    Device = {d1, d2}
    Request = {r1, r2, r3}
    MaxChallenges = 3
    None = None
SYMMETRY Symmetry
INVARIANTS
    TypeOK
    OneAccountPerIdentity
    ChallengeAdmitsOnce
    SessionOfProvenKey
    AccountHasDevice
PROPERTIES
    DeviceNeverReassigned
CHECK_DEADLOCK FALSE
