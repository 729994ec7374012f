CONSTANTS
    Langs <- MCLangs
    Inputs <- MCInputs
SPECIFICATION Spec
INVARIANTS
    TypeOK
    NoProcessLeft
    BadNeverGreen
    SkipNeverHidden
    NothingLeftOut
    NoteExact
