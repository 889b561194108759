CONSTANTS
    Keys <- MCKeys
    KeyLen <- MCKeyLen
    Sizes <- MCSizes
    MaxBytes = 6
    MaxOps = 10
SPECIFICATION Spec
INVARIANTS
    TypeOK
    IndexMatchesList
    NBytesAccurate
    WithinBudget
PROPERTIES
    RefinesLRUCache
