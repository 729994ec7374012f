CONSTANTS
    ref = ref
    w1 = w1
    Langs = {ref, w1}
    Ref = ref
    Groups <- TwoGroups
    CaseNames <- OneCase
    Unencodable = {}
    KnownFails <- KnownA
    FullMatrix = FALSE
    Enforce = TRUE
    SkipTypes <- RefSkipsU
    SkipOps <- SkipsDeserialize
    Replies <- SuiteReplies
    MayCancel = FALSE
SPECIFICATION BoundFairSpec
INVARIANTS TypeOK PassMeansMatch ExitZeroComplete DeadNeverGreen ReportsAgree SkipsEnforced PassedByItsPair
PROPERTIES RunEnds ImplementsLedger
