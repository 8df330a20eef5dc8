SPECIFICATION Spec
CONSTANT Circuits <- SmallCircuits
INVARIANTS
    UpToTwoColors
    SubcircuitsAreClosed
CHECK_DEADLOCK FALSE
