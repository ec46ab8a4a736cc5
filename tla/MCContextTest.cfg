CONSTANTS
    Cases <- MCCases
    AlwaysSpan = FALSE
    NoPassOrigin = FALSE
    NoCohort = NoCohort
    NoSet = NoSet
    NoParent = NoParent
    AnyRelation = AnyRelation
SPECIFICATION FairSpec
INVARIANTS
    AnswerIsMeant
    StaysInReach
PROPERTIES
    TestsEnd
