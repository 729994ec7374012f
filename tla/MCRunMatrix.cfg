CONSTANTS
    ref = ref
    w1 = w1
    Langs = {ref, w1}
    Ref = ref
    Groups <- BytesGroup
    CaseNames <- TwoCases
    Unencodable = {"b"}
    KnownFails = {}
    FullMatrix = TRUE
    Enforce = FALSE
    SkipTypes = {}
    SkipOps = {}
    Replies <- MatrixReplies
    MayCancel = TRUE
SPECIFICATION BoundSpec
INVARIANTS
    PassMeansMatch
    MatrixCovers
