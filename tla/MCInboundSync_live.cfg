CONSTANTS
    MaxId = 4
    MaxUid = 2
    MaxValidity = 1
    Eager = FALSE
    Syncers = {s1, s2}
    Loop = loop
    Releasers = {}
    Readers = {}
    RecentOnly = FALSE
    OldUids = {}
    CapFloor = 5
    CapNum = 1
    CapDen = 2
    MaxBounces = 0
    MaxFaults = 0
SPECIFICATION FairSpec
INVARIANTS
    NoLostMail
    NoDuplicates
PROPERTIES
    EventuallyStored
    EventuallyRetracted
