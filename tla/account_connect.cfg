SPECIFICATION ConnectSpec
CONSTANTS
    Key = {k1}
    Device = {d1}
    Request = {r1, r2}
    MaxChallenges = 2
    None = None
    Own = k1
    OwnDevice = d1
PROPERTIES
    ConnectingSucceeds
CHECK_DEADLOCK FALSE
