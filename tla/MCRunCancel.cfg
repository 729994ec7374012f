CONSTANTS
    ref = ref
    w1 = w1
    Langs = {ref, w1}
    Ref = ref
    Groups <- BytesGroup
    CaseNames <- OneCase
    Unencodable = {}
    KnownFails = {}
    FullMatrix = FALSE
    Enforce = FALSE
    SkipTypes = {}
    SkipOps = {}
    Replies <- OkReplies
    MayCancel = TRUE
SPECIFICATION Spec
INVARIANT ExitZeroComplete
