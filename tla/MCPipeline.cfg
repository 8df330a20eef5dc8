SPECIFICATION Spec
CONSTANTS
    Tasks <- AllTasks
    UniqueIds = {"u1", "u2"}
INVARIANTS
    TypeOK
    NothingRedundant
    IdsStayAligned
    LinksAreFinal
    OperandsReduced
    HandsOverCircuits
    NothingLeftToRemove
    FitsColoring
    NeverGrows
    AbortsHaveCause
PROPERTIES
    ImplementsTransformer
    EncoderIsComplete
    Termination
CHECK_DEADLOCK FALSE
