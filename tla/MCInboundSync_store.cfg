CONSTANTS
    MaxId = 3
    MaxUid = 2
    MaxValidity = 1
    Eager = FALSE
    Syncers = {s1}
    Loop = loop
    Releasers = {op}
    Readers = {r1, r2}
    RecentOnly = FALSE
    OldUids = {}
    CapFloor = 2
    CapNum = 1
    CapDen = 2
    MaxBounces = 1
    MaxFaults = 1
SPECIFICATION Spec
SYMMETRY Reads
INVARIANTS
    LatchHolds
    ContentBacked
PROPERTIES
    RetractsOnlyDeparted
