SPECIFICATION Spec
CONSTANTS
    Circuits <- SmallCircuits
    Rank <- ConeSizes
INVARIANTS
    TypeOK
    SortIsTopological
    MaskIsCone
    SortsAllGates
    ReturnsTopSort
PROPERTY Termination
CHECK_DEADLOCK FALSE
