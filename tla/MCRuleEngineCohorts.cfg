CONSTANTS
    Tags <- TheTags
    Grammars <- LoopingOrCohorts
    Windows <- ThreeCohorts
    EndTag <- TheEndTag
    MaxPasses = 3
    MaxRestarts = 3
SPECIFICATION FairSpec
INVARIANTS
    EndTagOnLast
PROPERTIES
    Halts
