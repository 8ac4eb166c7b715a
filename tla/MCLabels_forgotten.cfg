CONSTANTS
    Keywords = {k1, k2}
    Sessions = {s1}
    Loop = loop
    OnDemand = status
    MaxValidity = 1
    MinInterval = 1
    Stalls = {6}
    MaxStores = 2
    MaxFaults = 1
SPECIFICATION Spec
INVARIANT
    NothingForgotten
