CONSTANTS
    Types = {"T", "U"}
    Formats = {"bin", "txt"}
    Registered <- BothWays
    Serializers <- NotTSer
    Deserializers <- NotUDes
    Texts <- TextPairs
    Fields = {"f", "g", "n"}
    NaNs = {"n"}
    Shape <- KnownShapes
    SerCalls <- FewSerCalls
    DesCalls <- AllDesCalls
SPECIFICATION Spec
INVARIANTS TypeOK BindingInv RunsWhatWasAsked AuditTruthful AuditHarmless
PROPERTY ImplementsBoundWorker
