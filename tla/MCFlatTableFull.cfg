CONSTANTS
    Keys <- OneKey
    Values = {u}
    Hash <- MCHash
    DefaultCap = 16
    Sizes <- NoSizes
    Empty = Empty
    Deleted = Deleted
    NoValue = NoValue
SPECIFICATION Spec
INVARIANT
    CallsReturn
