SPECIFICATION Spec
CONSTANTS
    SetDef <- MCSetDef
    MappingTags <- MCMappingTags
    Comparison <- MCComparison
    Grammars <- MCGrammars
    Windows <- MCWindows
    SentTags <- MCSentTags
    MaxSteps = 3
    MaxReadings = 4
INVARIANTS
    AnswersAreFresh
    UnifiedAsExploded
    ValuesAreCurrent
    MappingsAreKept
    PrintLosesNothing
    ComparesAsTheTableSays
