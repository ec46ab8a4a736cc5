CONSTANTS
    Keys <- MCKeys
    Values = {u, v}
    Hash <- MCHash
    DefaultCap = 4
    Sizes <- MCSizes
    Empty = Empty
    Deleted = Deleted
    NoValue = NoValue
SPECIFICATION Spec
INVARIANTS
    LookupsFindAll
PROPERTIES
    ImplementsKeyMap
