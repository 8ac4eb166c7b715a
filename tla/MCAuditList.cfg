CONSTANTS
    Transitions = {t1, t2, t3, t4}
    Wanted = {t1, t2}
    NoHash = NoHash
    MaxDamage = 1
    Batch = 2
    Limits = {1, 2}
    MaxGot = 2
SPECIFICATION ListSpec
INVARIANTS
    VerifyExact
    NoPhantom
    PagesExact
PROPERTY
    CallEnds
CHECK_DEADLOCK FALSE
