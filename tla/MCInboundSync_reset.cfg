CONSTANTS
    MaxId = 4
    MaxUid = 2
    MaxValidity = 2
    Eager = TRUE
    Syncers = {s1}
    Loop = loop
    Releasers = {}
    Readers = {}
    RecentOnly = TRUE
    OldUids = {1}
    CapFloor = 5
    CapNum = 1
    CapDen = 2
    MaxBounces = 0
    MaxFaults = 1
SPECIFICATION Spec
INVARIANTS
    NoLostMail
PROPERTIES
    RetractsOnlyDeparted
