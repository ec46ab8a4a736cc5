CONSTANTS
    NumWindows = 0
    Windows = 1
    WindowSize = 3
    MaxId = 3
    Rules <- WindowRules
    Recipes <- NoRecipes
    Tags <- NoTags
    BlockLoops = TRUE
    BlockCrossing = FALSE
    NoParent = NoParent
    NoTag = NoTag
SPECIFICATION Spec
INVARIANT
    NeverCrashes
CHECK_DEADLOCK FALSE
