CONSTANTS
    ByteBits = 2
    Bits64 = 5
    Bits128 = 6
    Mant32 = 2
    Mant64 = 3
    Exp32 = 6
    Exp64 = 7
    Cases <- MCCases
    Styles <- MCStyles
SPECIFICATION Spec
INVARIANTS
    TypeOK
    PassMeansDelivered
    ChangeNeverPasses
    FaithfulPasses
