CONSTANTS
    Types = {"T", "U"}
    Formats = {"bin", "txt"}
    Registered <- BothWays
    Serializers <- NotTSer
    Deserializers <- NotUDes
    Texts <- TextPairs
    Fields = {"f", "g"}
    NaNs = {}
    Shape <- BlobShapes
    SerCalls <- FewSerCalls
    DesCalls <- AllDesCalls
SPECIFICATION Spec
INVARIANT AuditHarmless
