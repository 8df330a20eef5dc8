SPECIFICATION Spec
CONSTANTS
    Tasks <- SmallTasks
    UniqueIds = {"u1", "u2", "u3", "u4", "u5", "u6"}
    DB <- LinesDB
INVARIANTS
    KeepsMeaning
    HandsOverCircuits
    FilesAreIndependent
    AbortsOnlyOnUnfit
