CONSTANTS
    MaxId = 4
    MaxUid = 2
    MaxValidity = 2
    Eager = FALSE
    Syncers = {s1}
    Loop = loop
    Releasers = {}
    Readers = {}
    RecentOnly = FALSE
    OldUids = {}
    CapFloor = 5
    CapNum = 1
    CapDen = 2
    MaxBounces = 0
    MaxFaults = 0
SPECIFICATION Spec
INVARIANTS
    NoLostMail
