CONSTANTS
    TagSeq <- MCTagSeq
    SpecialTags <- MCSpecialTags
    FailFast <- MCFailFast
    Numerical <- MCNumerical
    Varstring <- MCVarstring
    Hits <- MCHits
    StrictOption <- MCStrictOption
    MagicTags <- MCMagicTags
    VarSets <- MCVarSets
    RegexpLine <- MCRegexpLine
    FirstChar <- MCFirstChar
    Readings <- MCReadings
    Families <- OrFamilies
SPECIFICATION Spec
CHECK_DEADLOCK FALSE
INVARIANT TargetsMeanWhatIsWritten
