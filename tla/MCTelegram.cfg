CONSTANTS
    Items = {i1}
    NoItem = NoItem
    Handlers = {h1}
    MaxCards = 3
    ManyIdentities = TRUE
    MaxFaults = 1
SPECIFICATION FairSpec
PROPERTIES
    Offered
    Forgets
    DecisionStands
