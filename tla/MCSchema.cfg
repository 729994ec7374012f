CONSTANTS
    Names = {"a", "b", "c"}
    RootImports <- RootAB
    RootRefs <- RootAB
    Suites <- AllSuites
    MaxDepth = 14
SPECIFICATION FairSpec
INVARIANTS TypeOK MarksExact MemoComplete VerdictCorrect
PROPERTY LoadEnds
