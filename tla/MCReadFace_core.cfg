CONSTANTS
    MaxMail = 1
    Sessions = {s1}
    NoMail = NoMail
SPECIFICATION Spec
INVARIANTS
    ServedOnlyCleared
PROPERTIES
    HeldIsQueued
