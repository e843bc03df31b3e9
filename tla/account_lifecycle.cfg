SPECIFICATION Spec
CONSTANTS
    Identity = {a}
    Seed = {s1, s2, s3}
    Slot = {o1, o2}
    None = None
SYMMETRY Symmetry
INVARIANTS
    TypeOK
    DatabaseOpens
    AccountIsUsable
    
CHECK_DEADLOCK FALSE
