CONSTANTS
    Keywords = {k1}
    Sessions = {s1}
    Loop = loop
    OnDemand = status
    MaxValidity = 2
    MinInterval = 1
    Stalls = {6}
    MaxStores = 3
    MaxFaults = 1
SPECIFICATION FairSpec
INVARIANTS
    TypeOK
    OwnMailOnly
    ValidityIsOwn
    Remembered
PROPERTIES
    Arrives
    FlightEnds
    

