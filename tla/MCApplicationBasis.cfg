SPECIFICATION Spec
CONSTANTS
    Tasks <- ConstantTasks
    UniqueIds = {"u1", "u2", "u3", "u4", "u5", "u6"}
    DB <- LinesDB
INVARIANT StaysInBasis
