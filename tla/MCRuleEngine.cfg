CONSTANTS
    Tags <- TheTags
    Grammars <- SettlingOrProtecting
    Windows <- TwoCohorts
    EndTag <- TheEndTag
    MaxPasses = 3
    MaxRestarts = 3
SPECIFICATION Spec
INVARIANTS
    CacheIsSound
    IndexIsComplete
    SectionsSettle
PROPERTIES
    SafeRulesKeepAReading
    ProtectedKept
