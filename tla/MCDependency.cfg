CONSTANTS
    NumWindows = 0
    Windows = 2
    WindowSize = 1
    MaxId = 4
    Rules <- AllRules
    Recipes <- SomeRecipes
    Tags <- OneTag
    BlockLoops = TRUE
    BlockCrossing = FALSE
    NoParent = NoParent
    NoTag = NoTag
SPECIFICATION Spec
INVARIANTS
    MapIsWindows
    NoLoops
    ChildrenAgree
    ListedChildrenAgree
    SpansAreAnnounced
PROPERTIES
    TreeKept
CHECK_DEADLOCK FALSE
