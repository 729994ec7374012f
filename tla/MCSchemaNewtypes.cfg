CONSTANTS
    Names = {"a", "b"}
    RootImports <- RootAB
    RootRefs <- RootAB
    Suites <- SmallSuites
    MaxDepth = 8
SPECIFICATION FairSpec
INVARIANT NoOverflow
